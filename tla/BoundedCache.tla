---------------------------- MODULE BoundedCache ----------------------------
(***************************************************************************)
(* What a shard promises of its budget, whatever the eviction policy: a    *)
(* store keeps the new entry, makes others leave only when it does not fit *)
(* beside them, and ends within the budget.  Between its beginning and its *)
(* end nothing else happens to the shard.                                  *)
(***************************************************************************)
EXTENDS Integers, FiniteSetsExt

CONSTANTS Keys, None, Costs, MaxBytes, MaxEntries

VARIABLES
    held,       \* what each key's entry costs, or None
    pending     \* the store under way, <<its key, what the entry costs>>, if any

vars == <<held, pending>>

Held(h) == {k \in Keys : h[k] # None}

Fits(h) ==
    /\ MaxBytes > 0 => MapThenSumSet(LAMBDA k : h[k], Held(h)) <= MaxBytes
    /\ MaxEntries > 0 => Cardinality(Held(h)) <= MaxEntries

Init ==
    /\ held = [k \in Keys |-> None]
    /\ pending = {}

Without(h, ks) == [k \in Keys |-> IF k \in ks THEN None ELSE h[k]]

Begin(k, cost) ==
    /\ pending = {} /\ pending' = {<<k, cost>>}
    /\ UNCHANGED held

Store(k, cost) ==
    LET added == [held EXCEPT ![k] = cost] IN
    /\ pending = {<<k, cost>>} /\ pending' = {}
    /\ \/ held' = added
       \/ ~Fits(added) /\ \E ks \in SUBSET (Keys \ {k}) : held' = Without(added, ks)
    /\ Fits(held')

\* Delete, Clear, expiry: at any time but within a store.
Leave ==
    /\ pending = {} /\ pending' = {}
    /\ \E ks \in SUBSET Keys : held' = Without(held, ks)

Next ==
    \/ Leave
    \/ \E k \in Keys : \E cost \in Costs : Begin(k, cost) \/ Store(k, cost)

Spec == Init /\ [][Next]_vars

=============================================================================
