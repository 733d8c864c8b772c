----------------------------- MODULE FreshCache -----------------------------
(***************************************************************************)
(* What the cache promises of a key's loads and writes, whatever order     *)
(* callers, loads and invalidations come in: a value is stored by a Set,   *)
(* or filled by a load that read the source after the key's last Set,      *)
(* Delete or Clear; otherwise values only leave.                           *)
(***************************************************************************)
EXTENDS Integers

CONSTANTS Keys, None, MaxSource

VARIABLES
    src,      \* the version the upstream source is at
    floor,    \* the version at the key's last Set, Delete or Clear
    cached    \* what a lookup would answer: a version, maybe "not found", or None

vars == <<src, floor, cached>>

Versions == 0..MaxSource
Answers == [ver : Versions, neg : BOOLEAN]

Init ==
    /\ src = 0
    /\ floor = [k \in Keys |-> 0]
    /\ cached = [k \in Keys |-> None]

\* The source changes; the cache is not told.
Update ==
    /\ src' \in Versions /\ src' > src
    /\ UNCHANGED <<floor, cached>>

\* Delete of one key, Clear of them all.
Invalidate(ks) ==
    /\ floor' = [k \in Keys |-> IF k \in ks THEN src ELSE floor[k]]
    /\ cached' = [k \in Keys |-> IF k \in ks THEN None ELSE cached[k]]
    /\ UNCHANGED src

Write(k, neg) ==
    /\ floor' = [floor EXCEPT ![k] = src]
    /\ cached' = [cached EXCEPT ![k] = [ver |-> src, neg |-> neg]]
    /\ UNCHANGED src

\* A load publishes what it read, which nothing has invalidated since.
Fill(k, v, neg) ==
    /\ floor[k] <= v /\ v <= src
    /\ cached' = [cached EXCEPT ![k] = [ver |-> v, neg |-> neg]]
    /\ UNCHANGED <<src, floor>>

\* Expiry and eviction.
Forget(k) ==
    /\ cached[k] # None
    /\ cached' = [cached EXCEPT ![k] = None]
    /\ UNCHANGED <<src, floor>>

Next ==
    \/ Update
    \/ Invalidate(Keys)
    \/ \E k \in Keys :
        \/ Invalidate({k})
        \/ \E neg \in BOOLEAN : Write(k, neg) \/ \E v \in Versions : Fill(k, v, neg)
        \/ Forget(k)

Spec == Init /\ [][Next]_vars

=============================================================================
