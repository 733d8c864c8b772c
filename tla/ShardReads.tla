----------------------------- MODULE ShardReads -----------------------------
(***************************************************************************)
(* Who sees, claims, drops and reports an entry: get(), claimRefresh(),    *)
(* set(), delete(), clear() and sweep() of shard.go against each other, and *)
(* what store(), read() and sweep() of cache.go count and tell OnEvict     *)
(* after the lock is let go.                                               *)
(*                                                                         *)
(* Entries are objects: get() compares pointers when it comes back with    *)
(* the write lock for an entry that it saw expired under the read lock.    *)
(* Which entries a store evicts is module Shard's subject, and S3FIFO's    *)
(* read count, which readers may race on, is left out here.                *)
(***************************************************************************)
EXTENDS Integers, FiniteSets

CONSTANTS
    Keys,
    Objects,        \* entries: as many are stored as there are objects (bound)
    Threads,        \* goroutines using the cache, the sweeper among them
    None            \* nil

ASSUME NoneAssumption == None \notin Keys \cup Objects

VARIABLES
    split,      \* s.policy # LRU: reads take the read lock
    items,      \* s.items
    age,        \* an entry's place in its life, by the clock
    refreshAt,  \* whether e.refreshAt is set
    fate,       \* history: how an entry left, "held" before, "unmade" before that
    claims,     \* history: how many reads were told to refresh an entry
    counted,    \* history: how often an entry was counted as having left
    told,       \* history: how often OnEvict was called for it
    pc,         \* each thread's place
    key,        \* the key it goes back for
    entry,      \* the entry it has found there
    quiet,      \* whether its read is the recheck of load(), which counts nothing
    reports     \* what it has yet to count, and tell OnEvict, after the lock

vars == <<split, items, age, refreshAt, fate, claims, counted, told, pc, key, entry, quiet, reports>>
threadVars == <<pc, key, entry, quiet, reports>>
historyVars == <<claims, counted, told>>

Fates == {"unmade", "held", "replaced", "evicted", "expired", "swept", "deleted", "cleared"}

TypeOK ==
    /\ split \in BOOLEAN
    /\ items \in [Keys -> Objects \cup {None}]
    /\ age \in [Objects -> {"fresh", "due", "expired"}]
    /\ refreshAt \in [Objects -> BOOLEAN]
    /\ fate \in [Objects -> Fates]
    /\ claims \in [Objects -> Nat] /\ counted \in [Objects -> Nat] /\ told \in [Objects -> Nat]
    /\ pc \in [Threads -> {"idle", "claim", "drop", "count", "report"}]
    /\ key \in [Threads -> Keys \cup {None}]
    /\ entry \in [Threads -> Objects \cup {None}]
    /\ quiet \in [Threads -> BOOLEAN]
    /\ reports \in [Threads -> SUBSET Objects]

Init ==
    /\ split \in BOOLEAN
    /\ items = [k \in Keys |-> None]
    /\ age = [e \in Objects |-> "fresh"]
    /\ refreshAt = [e \in Objects |-> FALSE]
    /\ fate = [e \in Objects |-> "unmade"]
    /\ claims = [e \in Objects |-> 0]
    /\ counted = [e \in Objects |-> 0]
    /\ told = [e \in Objects |-> 0]
    /\ pc = [t \in Threads |-> "idle"]
    /\ key = [t \in Threads |-> None]
    /\ entry = [t \in Threads |-> None]
    /\ quiet = [t \in Threads |-> FALSE]
    /\ reports = [t \in Threads |-> {}]

-----------------------------------------------------------------------------
Held == {e \in Objects : fate[e] = "held"}

\* A thread between the load and the swap of refreshAt holds the lock: readers
\* share it, unless the policy is LRU.
WriteLockFree == \A t \in Threads : pc[t] # "claim"
ReadLockFree == split \/ WriteLockFree

\* Entries leave the map, all for the same reason.
Remove(es, why) ==
    /\ items' = [k \in Keys |-> IF items[k] \in es THEN None ELSE items[k]]
    /\ fate' = [e \in Objects |-> IF e \in es THEN why ELSE fate[e]]

Goto(t, place, k, e, silent) ==
    /\ pc' = [pc EXCEPT ![t] = place]
    /\ key' = [key EXCEPT ![t] = k]
    /\ entry' = [entry EXCEPT ![t] = e]
    /\ quiet' = [quiet EXCEPT ![t] = silent]
    /\ UNCHANGED reports

Idle(t) == Goto(t, "idle", None, None, FALSE)

Report(t, es) ==
    /\ pc' = [pc EXCEPT ![t] = IF es = {} THEN "idle" ELSE "report"]
    /\ reports' = [reports EXCEPT ![t] = es]
    /\ UNCHANGED <<key, entry, quiet>>

-----------------------------------------------------------------------------
(* get().  A hit that is not due, and a miss, leave nothing behind.        *)

\* The read lock is let go with an expired entry in hand.
SeeExpired(t, k, silent) ==
    /\ pc[t] = "idle" /\ split /\ ReadLockFree
    /\ items[k] # None /\ age[items[k]] = "expired"
    /\ Goto(t, "drop", k, items[k], silent)
    /\ UNCHANGED <<items, age, refreshAt, fate, historyVars>>

\* The write lock is taken: the entry goes if it is still the one that was seen.
StillThere(t) == items[key[t]] = entry[t]

\* Mutant: whatever is under the key goes.
DropCurrent(t) ==
    /\ pc[t] = "drop" /\ WriteLockFree
    /\ IF items[key[t]] # None
          THEN /\ Remove({items[key[t]]}, "expired")
               /\ Goto(t, "count", None, entry[t], quiet[t])
          ELSE /\ UNCHANGED <<items, fate>>
               /\ Idle(t)
    /\ UNCHANGED <<age, refreshAt, historyVars>>

\* Mutant: whoever saw it expired counts it, whoever removed it.
DropExpiredAndCount(t) ==
    /\ pc[t] = "drop" /\ WriteLockFree
    /\ IF StillThere(t) THEN Remove({entry[t]}, "expired") ELSE UNCHANGED <<items, fate>>
    /\ Goto(t, "count", None, entry[t], quiet[t])
    /\ UNCHANGED <<age, refreshAt, historyVars>>

DropExpired(t) ==
    /\ pc[t] = "drop" /\ WriteLockFree
    /\ IF StillThere(t)
          THEN /\ Remove({entry[t]}, "expired")
               /\ Goto(t, "count", None, entry[t], quiet[t])
          ELSE /\ UNCHANGED <<items, fate>>
               /\ Idle(t)
    /\ UNCHANGED <<age, refreshAt, historyVars>>

\* LRU, under the one lock.
DropAtOnce(t, k, silent) ==
    /\ pc[t] = "idle" /\ ~split /\ WriteLockFree
    /\ items[k] # None /\ age[items[k]] = "expired"
    /\ Remove({items[k]}, "expired")
    /\ Goto(t, "count", None, items[k], silent)
    /\ UNCHANGED <<age, refreshAt, historyVars>>

\* countLookup(), which the recheck of load() does not call.
CountLookup(t) ==
    /\ pc[t] = "count"
    /\ counted' = [counted EXCEPT ![entry[t]] = IF quiet[t] THEN @ ELSE @ + 1]
    /\ Idle(t)
    /\ UNCHANGED <<items, age, refreshAt, fate, claims, told>>

\* claimRefresh(): refreshAt is loaded and found due...
SeeDue(t, k) ==
    /\ pc[t] = "idle" /\ ReadLockFree
    /\ items[k] # None /\ age[items[k]] = "due" /\ refreshAt[items[k]]
    /\ Goto(t, "claim", None, items[k], FALSE)
    /\ UNCHANGED <<items, age, refreshAt, fate, historyVars>>

\* Mutant: zero is stored, without a look at whether it was there already.
ClaimByStore(t) ==
    /\ pc[t] = "claim"
    /\ claims' = [claims EXCEPT ![entry[t]] = @ + 1]
    /\ refreshAt' = [refreshAt EXCEPT ![entry[t]] = FALSE]
    /\ Idle(t)
    /\ UNCHANGED <<items, age, fate, counted, told>>

\* ... and swapped for zero, unless another reader did first.
Claim(t) ==
    LET e == entry[t] IN
    /\ pc[t] = "claim"
    /\ claims' = [claims EXCEPT ![e] = IF refreshAt[e] THEN @ + 1 ELSE @]
    /\ refreshAt' = [refreshAt EXCEPT ![e] = FALSE]
    /\ Idle(t)
    /\ UNCHANGED <<items, age, fate, counted, told>>

-----------------------------------------------------------------------------
(* Writes, and the sweep.                                                  *)

\* Mutant: what is evicted is not reported.
StoreForgettingVictims(t, k, e, refresh, victims) ==
    LET old == items[k] IN
    /\ pc[t] = "idle" /\ WriteLockFree
    /\ fate[e] = "unmade"
    /\ victims \subseteq Held \ {old}
    /\ items' = [j \in Keys |-> IF j = k THEN e ELSE IF items[j] \in victims THEN None ELSE items[j]]
    /\ fate' = [f \in Objects |-> IF f = e THEN "held"
                                  ELSE IF f \in victims THEN "evicted"
                                  ELSE IF f = old THEN "replaced" ELSE fate[f]]
    /\ refreshAt' = [refreshAt EXCEPT ![e] = refresh]
    /\ Report(t, {old} \ {None})
    /\ UNCHANGED <<age, historyVars>>

\* store(): what is replaced and what is evicted is reported after the lock.
Store(t, k, e, refresh, victims) ==
    LET old == items[k]
        gone == victims \cup ({old} \ {None}) IN
    /\ pc[t] = "idle" /\ WriteLockFree
    /\ fate[e] = "unmade"
    /\ victims \subseteq Held \ {old}
    /\ items' = [j \in Keys |-> IF j = k THEN e ELSE IF items[j] \in victims THEN None ELSE items[j]]
    /\ fate' = [f \in Objects |-> IF f = e THEN "held"
                                  ELSE IF f \in victims THEN "evicted"
                                  ELSE IF f \in gone THEN "replaced" ELSE fate[f]]
    /\ refreshAt' = [refreshAt EXCEPT ![e] = refresh]
    /\ Report(t, gone)
    /\ UNCHANGED <<age, historyVars>>

\* sweep()
Sweep(t) ==
    LET old == {e \in Held : age[e] = "expired"} IN
    /\ pc[t] = "idle" /\ WriteLockFree
    /\ old # {}
    /\ Remove(old, "swept")
    /\ Report(t, old)
    /\ UNCHANGED <<age, refreshAt, historyVars>>

\* One entry is counted, and OnEvict called for it.
ReportOne(t, e) ==
    /\ pc[t] = "report" /\ e \in reports[t]
    /\ counted' = [counted EXCEPT ![e] = @ + 1]
    /\ told' = [told EXCEPT ![e] = @ + 1]
    /\ Report(t, reports[t] \ {e})
    /\ UNCHANGED <<items, age, refreshAt, fate, claims>>

\* Delete and Clear report nothing.
Delete(k) ==
    /\ WriteLockFree /\ items[k] # None
    /\ Remove({items[k]}, "deleted")
    /\ UNCHANGED <<age, refreshAt, historyVars, threadVars>>

Clear ==
    /\ WriteLockFree /\ Held # {}
    /\ Remove(Held, "cleared")
    /\ UNCHANGED <<age, refreshAt, historyVars, threadVars>>

\* Time does not wait for locks.
Age(e) ==
    /\ fate[e] = "held" /\ age[e] # "expired"
    /\ \E a \in {"due", "expired"} : a # age[e] /\ age' = [age EXCEPT ![e] = a]
    /\ UNCHANGED <<items, refreshAt, fate, historyVars, threadVars>>

ThreadStep(t) ==
    \/ \E k \in Keys :
        \/ \E silent \in BOOLEAN : SeeExpired(t, k, silent) \/ DropAtOnce(t, k, silent)
        \/ SeeDue(t, k)
        \/ \E e \in Objects, refresh \in BOOLEAN, victims \in SUBSET Objects :
            Store(t, k, e, refresh, victims)
    \/ DropExpired(t) \/ CountLookup(t) \/ Claim(t) \/ Sweep(t)
    \/ \E e \in Objects : ReportOne(t, e)

Next ==
    /\ \/ \E t \in Threads : ThreadStep(t)
       \/ \E k \in Keys : Delete(k)
       \/ Clear
       \/ \E e \in Objects : Age(e)
    /\ UNCHANGED split

Spec == Init /\ [][Next]_vars

-----------------------------------------------------------------------------
(* Safety.                                                                 *)

\* An entry leaves as expired only if it had: a reader that comes back with the
\* write lock does not take the entry stored meanwhile (shard.go:127-131).
OnlyExpiredExpire ==
    \A e \in Objects : fate[e] \in {"expired", "swept"} => age[e] = "expired"

\* "The read that finds a value due returns it and starts its one refresh"
\* (cache.go:119): readers that share the read lock do not claim it twice.
OneRefresh == \A e \in Objects : claims[e] <= 1

\* An entry that left is nobody's business but the one thread's that removed it,
\* so that it is counted once and told once, whoever saw it expired besides
\* ("Only the goroutine that removes it counts it", shard.go:126), and not at all
\* after Delete or Clear.
ReportedOnce ==
    \A e \in Objects :
        /\ counted[e] <= 1 /\ told[e] <= counted[e]
        /\ counted[e] = 1 => fate[e] \in {"replaced", "evicted", "expired", "swept"}
        /\ told[e] = 1 => fate[e] \in {"replaced", "evicted", "swept"}

\* Nobody has anything left to do about an entry.
Settled(e) == \A t \in Threads : e \notin reports[t] /\ entry[t] # e

\* What a store or a sweep removes is counted and told by the time nobody is at it.
ReportsComplete ==
    \A e \in Objects :
        Settled(e) /\ fate[e] \in {"replaced", "evicted", "swept"} => counted[e] = 1 /\ told[e] = 1

\* "OnEvict is called for every entry that leaves the cache other than by Delete
\* or Clear" (cache.go:193).
EveryLeavingTold ==
    \A e \in Objects :
        Settled(e) /\ fate[e] \in {"replaced", "evicted", "expired", "swept"} => told[e] = 1

\* The parts of the inductive invariant behind all of these.  What is under a key
\* is held, and under no other key.
ItemsHeld ==
    /\ \A k \in Keys : items[k] # None => fate[items[k]] = "held"
    /\ \A j, k \in Keys : items[j] = items[k] /\ items[j] # None => j = k

\* What a thread has in hand to drop, or has dropped, has expired.
InHand ==
    \A t \in Threads :
        /\ pc[t] = "drop" => key[t] \in Keys
        /\ pc[t] \in {"drop", "count"} => entry[t] \in Objects /\ age[entry[t]] = "expired"
        /\ pc[t] = "claim" => entry[t] \in Objects /\ fate[entry[t]] # "unmade"

\* A claim has emptied refreshAt.
ClaimsSpent ==
    \A e \in Objects :
        /\ fate[e] = "unmade" => claims[e] = 0
        /\ claims[e] <= IF refreshAt[e] THEN 0 ELSE 1

\* An entry is one thread's to count or to report, which removed it and has not
\* done so yet; and what was to be reported is, or is still somebody's.
Unreported(e) == counted[e] = 0 /\ told[e] = 0
Reportable(e) == fate[e] \in {"replaced", "evicted", "swept"}
OneReporter ==
    /\ \A t \in Threads : pc[t] # "report" => reports[t] = {}
    /\ \A t \in Threads : \A e \in reports[t] : Reportable(e) /\ Unreported(e)
    /\ \A t, u \in Threads : t # u => reports[t] \cap reports[u] = {}
    /\ \A t \in Threads : pc[t] = "count" => fate[entry[t]] = "expired" /\ Unreported(entry[t])
    /\ \A t, u \in Threads : pc[t] = "count" /\ pc[u] = "count" /\ entry[t] = entry[u] => t = u
    /\ \A e \in Objects :
        \/ Unreported(e) /\ ~Reportable(e)
        \/ Unreported(e) /\ Reportable(e) /\ \E t \in Threads : e \in reports[t]
        \/ counted[e] = 1 /\ told[e] = 0 /\ fate[e] = "expired"
        \/ counted[e] = 1 /\ told[e] = 1 /\ Reportable(e)

\* The inductive invariant.
ReadsInv == TypeOK /\ OnlyExpiredExpire /\ ItemsHeld /\ InHand /\ ClaimsSpent /\ OneReporter

=============================================================================
