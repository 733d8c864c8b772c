-------------------------- MODULE ShardReadsProofs --------------------------
(***************************************************************************)
(* Proofs about ShardReads, for every set of keys, entries and goroutines  *)
(* and both kinds of lock: only what has expired leaves as expired, one    *)
(* read is told to refresh an entry, and one goroutine counts and reports  *)
(* what leaves.                                                            *)
(***************************************************************************)
EXTENDS ShardReads, TLAPS

LEMMA InitInv == Init => ReadsInv
  BY NoneAssumption DEF Init, ReadsInv, TypeOK, OnlyExpiredExpire, ItemsHeld, InHand, ClaimsSpent,
     OneReporter, Unreported, Reportable, Fates

-----------------------------------------------------------------------------
(* Lookups.                                                                *)

\* A thread that goes from one place to another with an entry in hand, and
\* changes nothing else, disturbs only what is said of its hands.
LEMMA GotoInv ==
  ASSUME ReadsInv, NEW t \in Threads, pc[t] = "idle",
         NEW place \in {"drop", "claim"}, NEW k \in Keys \cup {None}, NEW e \in Objects,
         NEW silent \in BOOLEAN, Goto(t, place, k, e, silent),
         place = "drop" => k \in Keys /\ age[e] = "expired",
         place = "claim" => fate[e] # "unmade",
         UNCHANGED <<split, items, age, refreshAt, fate, historyVars>>
  PROVE  ReadsInv'
<1> USE NoneAssumption DEF ReadsInv, Goto, historyVars
<1>1. TypeOK'
  BY DEF TypeOK
<1>2. OnlyExpiredExpire' /\ ItemsHeld' /\ ClaimsSpent'
  BY DEF OnlyExpiredExpire, ItemsHeld, ClaimsSpent
<1>3. InHand'
  BY DEF InHand, TypeOK
<1>4. OneReporter'
  BY DEF OneReporter, TypeOK, Unreported, Reportable
<1>5. QED
  BY <1>1, <1>2, <1>3, <1>4

LEMMA SeeInv ==
  ASSUME ReadsInv, NEW t \in Threads, NEW k \in Keys, UNCHANGED split,
         SeeDue(t, k) \/ \E silent \in BOOLEAN : SeeExpired(t, k, silent)
  PROVE  ReadsInv'
<1>1. items[k] # None => items[k] \in Objects /\ fate[items[k]] = "held"
  BY DEF ReadsInv, TypeOK, ItemsHeld
<1>2. CASE SeeDue(t, k)
  BY <1>1, <1>2, GotoInv DEF SeeDue
<1>3. CASE \E silent \in BOOLEAN : SeeExpired(t, k, silent)
  BY <1>1, <1>3, GotoInv DEF SeeExpired
<1>4. QED
  BY <1>2, <1>3

\* A thread that gives up what it had in hand.
LEMMA IdleInv ==
  ASSUME ReadsInv, NEW t \in Threads, pc[t] = "drop", Idle(t),
         UNCHANGED <<split, items, age, refreshAt, fate, historyVars>>
  PROVE  ReadsInv'
<1> USE NoneAssumption DEF ReadsInv, Idle, Goto, historyVars
<1>1. TypeOK'
  BY DEF TypeOK
<1>2. OnlyExpiredExpire' /\ ItemsHeld' /\ ClaimsSpent'
  BY DEF OnlyExpiredExpire, ItemsHeld, ClaimsSpent
<1>3. InHand'
  BY DEF InHand, TypeOK
<1>4. OneReporter'
  BY DEF OneReporter, TypeOK, Unreported, Reportable
<1>5. QED
  BY <1>1, <1>2, <1>3, <1>4

\* Held entries are nobody's to report yet.
LEMMA HeldUnreported ==
  ASSUME ReadsInv, NEW e \in Objects, fate[e] \in {"held", "unmade"}
  PROVE  /\ Unreported(e)
         /\ \A t \in Threads : e \notin reports[t] /\ ~(pc[t] = "count" /\ entry[t] = e)
  BY DEF ReadsInv, OneReporter, Unreported, Reportable

\* A lookup removes an entry that has expired, and is the one to count it.
LEMMA DropInv ==
  ASSUME ReadsInv, NEW t \in Threads, pc[t] \in {"idle", "drop"},
         NEW e \in Objects, fate[e] = "held", age[e] = "expired", NEW silent \in BOOLEAN,
         Remove({e}, "expired"), Goto(t, "count", None, e, silent),
         UNCHANGED <<split, age, refreshAt, historyVars>>
  PROVE  ReadsInv'
<1> USE NoneAssumption DEF ReadsInv, Remove, Goto, historyVars
<1>1. TypeOK'
  BY DEF TypeOK, Fates
<1>2. OnlyExpiredExpire' /\ ClaimsSpent'
  BY DEF OnlyExpiredExpire, ClaimsSpent, TypeOK
<1>3. ItemsHeld'
  BY DEF ItemsHeld, TypeOK
<1>4. InHand'
  BY DEF InHand, TypeOK
<1>5. /\ fate'[e] = "expired" /\ \A f \in Objects \ {e} : fate'[f] = fate[f]
      /\ pc'[t] = "count" /\ entry'[t] = e
      /\ \A u \in Threads \ {t} : pc'[u] = pc[u] /\ entry'[u] = entry[u]
  BY DEF TypeOK
<1>6. /\ Unreported(e)
      /\ \A u \in Threads : e \notin reports[u] /\ ~(pc[u] = "count" /\ entry[u] = e)
  BY HeldUnreported
<1>7. \A u \in Threads : pc[u] = "count" => entry[u] \in Objects
  BY DEF InHand
<1>8. reports[t] = {}
  BY DEF OneReporter
<1>9. OneReporter'
  BY <1>5, <1>6, <1>7, <1>8 DEF OneReporter, TypeOK, Unreported, Reportable
<1>10. QED
  BY <1>1, <1>2, <1>3, <1>4, <1>9

LEMMA DropExpiredInv ==
  ASSUME ReadsInv, NEW t \in Threads, DropExpired(t), UNCHANGED split
  PROVE  ReadsInv'
<1>1. key[t] \in Keys /\ entry[t] \in Objects /\ age[entry[t]] = "expired" /\ quiet[t] \in BOOLEAN
  BY DEF DropExpired, ReadsInv, InHand, TypeOK
<1>2. CASE StillThere(t)
  <2>1. fate[entry[t]] = "held"
    BY <1>1, <1>2, NoneAssumption DEF StillThere, ReadsInv, ItemsHeld
  <2>2. QED
    BY <1>1, <1>2, <2>1, DropInv DEF DropExpired
<1>3. CASE ~StillThere(t)
  BY <1>3, IdleInv DEF DropExpired
<1>4. QED
  BY <1>2, <1>3

LEMMA DropAtOnceInv ==
  ASSUME ReadsInv, NEW t \in Threads, NEW k \in Keys, NEW silent \in BOOLEAN,
         DropAtOnce(t, k, silent), UNCHANGED split
  PROVE  ReadsInv'
<1>1. items[k] \in Objects /\ fate[items[k]] = "held" /\ age[items[k]] = "expired"
  BY DEF DropAtOnce, ReadsInv, TypeOK, ItemsHeld
<1>2. QED
  BY <1>1, DropInv DEF DropAtOnce

LEMMA CountLookupInv ==
  ASSUME ReadsInv, NEW t \in Threads, CountLookup(t), UNCHANGED split
  PROVE  ReadsInv'
<1> USE NoneAssumption DEF ReadsInv, CountLookup, Idle, Goto
<1>1. entry[t] \in Objects /\ fate[entry[t]] = "expired" /\ Unreported(entry[t])
  BY DEF InHand, OneReporter
<1>2. TypeOK'
  BY <1>1 DEF TypeOK
<1>3. OnlyExpiredExpire' /\ ItemsHeld' /\ ClaimsSpent'
  BY DEF OnlyExpiredExpire, ItemsHeld, ClaimsSpent
<1>4. InHand'
  BY DEF InHand, TypeOK
<1>5. OneReporter'
  BY <1>1 DEF OneReporter, TypeOK, Unreported, Reportable
<1>6. QED
  BY <1>2, <1>3, <1>4, <1>5

LEMMA ClaimInv ==
  ASSUME ReadsInv, NEW t \in Threads, Claim(t), UNCHANGED split
  PROVE  ReadsInv'
<1> USE NoneAssumption DEF ReadsInv, Claim, Idle, Goto
<1>1. entry[t] \in Objects /\ fate[entry[t]] # "unmade"
  BY DEF InHand
<1>2. TypeOK'
  BY <1>1 DEF TypeOK
<1>3. OnlyExpiredExpire' /\ ItemsHeld'
  BY DEF OnlyExpiredExpire, ItemsHeld
<1>4. ClaimsSpent'
  BY <1>1 DEF ClaimsSpent, TypeOK
<1>5. InHand'
  BY DEF InHand, TypeOK
<1>6. OneReporter'
  BY DEF OneReporter, TypeOK, Unreported, Reportable
<1>7. QED
  BY <1>2, <1>3, <1>4, <1>5, <1>6

-----------------------------------------------------------------------------
(* Writes, the sweep and the passing of time.                              *)

LEMMA StoreInv ==
  ASSUME ReadsInv, NEW t \in Threads, NEW k \in Keys, NEW e \in Objects, NEW refresh \in BOOLEAN,
         NEW victims \in SUBSET Objects, Store(t, k, e, refresh, victims), UNCHANGED split
  PROVE  ReadsInv'
<1> USE NoneAssumption DEF ReadsInv, historyVars
<1> DEFINE old == items[k]
           gone == victims \cup ({old} \ {None})
<1>1. /\ gone \subseteq Objects /\ e \notin gone
      /\ \A f \in gone : fate[f] = "held"
      /\ \A j \in Keys : items[j] # e
  BY DEF Store, Held, TypeOK, ItemsHeld
<1>2. /\ pc[t] = "idle" /\ fate[e] = "unmade" /\ reports[t] = {}
      /\ victims \subseteq Held \ {old}
      /\ items' = [j \in Keys |-> IF j = k THEN e ELSE IF items[j] \in victims THEN None ELSE items[j]]
      /\ refreshAt' = [refreshAt EXCEPT ![e] = refresh]
      /\ UNCHANGED <<age, claims, counted, told, key, entry, quiet>>
  BY DEF Store, Report, OneReporter
<1>3. fate' = [f \in Objects |-> IF f = e THEN "held" ELSE IF f \in victims THEN "evicted"
                                ELSE IF f \in gone THEN "replaced" ELSE fate[f]]
  BY DEF Store
<1>4. /\ pc' = [pc EXCEPT ![t] = IF gone = {} THEN "idle" ELSE "report"]
      /\ reports' = [reports EXCEPT ![t] = gone]
  BY DEF Store, Report
<1> HIDE DEF gone
<1>5. TypeOK'
  BY <1>1, <1>2, <1>3, <1>4 DEF TypeOK, Fates
<1>6. /\ fate' \in [Objects -> Fates] /\ fate'[e] = "held"
      /\ \A f \in gone : fate'[f] \in {"evicted", "replaced"}
      /\ \A f \in Objects : f \notin gone /\ f # e => fate'[f] = fate[f]
  BY <1>1, <1>3, <1>5 DEF TypeOK, gone
<1>7. OnlyExpiredExpire'
  BY <1>1, <1>2, <1>6 DEF OnlyExpiredExpire
<1>8. ItemsHeld'
  <2>1. \A j \in Keys : j # k /\ items'[j] # None =>
            /\ items'[j] = items[j] /\ items[j] \in Objects
            /\ items[j] \notin gone /\ items[j] # e
    BY <1>1, <1>2 DEF ItemsHeld, TypeOK, gone
  <2>2. items'[k] = e
    BY <1>2
  <2>3. QED
    BY <1>6, <2>1, <2>2 DEF ItemsHeld
<1>9. ClaimsSpent'
  <2>1. claims[e] = 0
    BY <1>2 DEF ClaimsSpent
  <2>2. \A f \in Objects : f # e => refreshAt'[f] = refreshAt[f] /\ (fate'[f] = "unmade" => fate[f] = "unmade")
    BY <1>1, <1>2, <1>6 DEF TypeOK
  <2>3. QED
    BY <1>2, <1>6, <2>1, <2>2 DEF ClaimsSpent, TypeOK
<1>10. InHand'
  BY <1>1, <1>2, <1>4, <1>6 DEF InHand, TypeOK
<1>11. OneReporter'
  <2>1. \A f \in gone \cup {e} :
            /\ Unreported(f)
            /\ \A u \in Threads : f \notin reports[u] /\ ~(pc[u] = "count" /\ entry[u] = f)
    BY <1>1, <1>2, HeldUnreported
  <2>2. /\ reports'[t] = gone /\ pc'[t] = (IF gone = {} THEN "idle" ELSE "report")
        /\ \A u \in Threads \ {t} : reports'[u] = reports[u] /\ pc'[u] = pc[u]
    BY <1>4 DEF TypeOK
  <2>3. \A u \in Threads : pc'[u] # "report" => reports'[u] = {}
    BY <1>2, <2>2 DEF OneReporter
  <2>4. \A u \in Threads : \A f \in reports'[u] : Reportable(f)' /\ Unreported(f)'
    BY <1>1, <1>2, <1>6, <2>1, <2>2 DEF OneReporter, TypeOK, Unreported, Reportable
  <2>5. \A u, v \in Threads : u # v => reports'[u] \cap reports'[v] = {}
    BY <2>1, <2>2 DEF OneReporter
  <2>6. \A u \in Threads : pc'[u] = "count" => /\ u # t /\ pc[u] = "count" /\ entry'[u] = entry[u]
                                              /\ entry[u] \in Objects /\ entry[u] \notin gone \cup {e}
    BY <1>2, <2>1, <2>2 DEF InHand
  <2>7. \A u \in Threads : pc'[u] = "count" => fate'[entry'[u]] = "expired" /\ Unreported(entry[u])'
    BY <1>2, <1>6, <2>6 DEF OneReporter, Unreported
  <2>8. \A u, v \in Threads : pc'[u] = "count" /\ pc'[v] = "count" /\ entry'[u] = entry'[v] => u = v
    BY <2>6 DEF OneReporter
  <2>9. ASSUME NEW f \in Objects
        PROVE  \/ Unreported(f)' /\ ~Reportable(f)'
               \/ Unreported(f)' /\ Reportable(f)' /\ \E u \in Threads : f \in reports'[u]
               \/ counted'[f] = 1 /\ told'[f] = 0 /\ fate'[f] = "expired"
               \/ counted'[f] = 1 /\ told'[f] = 1 /\ Reportable(f)'
    <3>1. CASE f \in gone
      BY <1>2, <1>6, <2>1, <2>2, <3>1 DEF Unreported, Reportable
    <3>2. CASE f = e
      BY <1>2, <1>6, <2>1, <3>2 DEF Unreported, Reportable
    <3>3. CASE f \notin gone /\ f # e
      <4>1. \A u \in Threads : f \in reports[u] => f \in reports'[u]
        BY <1>2, <2>2
      <4>2. QED
        BY <1>2, <1>6, <3>3, <4>1 DEF OneReporter, Unreported, Reportable
    <3>4. QED
      BY <3>1, <3>2, <3>3
  <2>10. QED
    BY <1>2, <2>3, <2>4, <2>5, <2>7, <2>8, <2>9 DEF OneReporter, Unreported
<1>12. QED
  BY <1>5, <1>7, <1>8, <1>9, <1>10, <1>11

\* Entries that leave under the write lock, all for the same reason.
LEMMA RemoveInv ==
  ASSUME ReadsInv, NEW es \in SUBSET Held, NEW why \in {"swept", "deleted", "cleared"},
         why = "swept" => \A e \in es : age[e] = "expired",
         Remove(es, why), UNCHANGED <<split, age, refreshAt, historyVars, key, entry, quiet>>
  PROVE  /\ OnlyExpiredExpire' /\ ItemsHeld' /\ ClaimsSpent'
         /\ fate' \in [Objects -> Fates] /\ items' \in [Keys -> Objects \cup {None}]
         /\ \A e \in es : fate[e] = "held" /\ fate'[e] = why
         /\ \A e \in Objects \ es : fate'[e] = fate[e]
<1> USE NoneAssumption DEF ReadsInv, Remove, historyVars
<1>1. /\ fate' \in [Objects -> Fates] /\ items' \in [Keys -> Objects \cup {None}]
      /\ \A e \in es : e \in Objects /\ fate[e] = "held" /\ fate'[e] = why
      /\ \A e \in Objects \ es : fate'[e] = fate[e]
  BY DEF TypeOK, Held, Fates
<1>2. OnlyExpiredExpire'
  BY <1>1 DEF OnlyExpiredExpire
<1>3. ItemsHeld'
  BY <1>1 DEF ItemsHeld, TypeOK
<1>4. ClaimsSpent'
  BY <1>1 DEF ClaimsSpent
<1>5. QED
  BY <1>1, <1>2, <1>3, <1>4

LEMMA SweepInv ==
  ASSUME ReadsInv, NEW t \in Threads, Sweep(t), UNCHANGED split
  PROVE  ReadsInv'
<1> USE DEF ReadsInv, historyVars
<1> DEFINE es == {e \in Held : age[e] = "expired"}
<1>1. /\ pc[t] = "idle" /\ reports[t] = {} /\ es # {} /\ Remove(es, "swept")
      /\ pc' = [pc EXCEPT ![t] = "report"] /\ reports' = [reports EXCEPT ![t] = es]
      /\ UNCHANGED <<age, refreshAt, claims, counted, told, key, entry, quiet>>
  BY DEF Sweep, Report, OneReporter
<1>2. /\ OnlyExpiredExpire' /\ ItemsHeld' /\ ClaimsSpent'
      /\ fate' \in [Objects -> Fates] /\ items' \in [Keys -> Objects \cup {None}]
      /\ \A e \in es : fate[e] = "held" /\ fate'[e] = "swept"
      /\ \A e \in Objects \ es : fate'[e] = fate[e]
  BY <1>1, RemoveInv
<1>3. es \subseteq Objects
  BY DEF Held
<1> HIDE DEF es
<1>4. TypeOK'
  BY <1>1, <1>2, <1>3 DEF TypeOK
<1>5. InHand'
  BY <1>1, <1>2, <1>3 DEF InHand, TypeOK
<1>6. OneReporter'
  <2>1. \A f \in es : /\ Unreported(f)
                      /\ \A u \in Threads : f \notin reports[u] /\ ~(pc[u] = "count" /\ entry[u] = f)
    BY <1>2, <1>3, HeldUnreported
  <2>2. /\ reports'[t] = es /\ pc'[t] = "report"
        /\ \A u \in Threads \ {t} : reports'[u] = reports[u] /\ pc'[u] = pc[u]
    BY <1>1 DEF TypeOK
  <2>3. \A u \in Threads : pc'[u] # "report" => reports'[u] = {}
    BY <2>2 DEF OneReporter
  <2>4. \A u \in Threads : \A f \in reports'[u] : Reportable(f)' /\ Unreported(f)'
    BY <1>1, <1>2, <1>3, <2>1, <2>2 DEF OneReporter, TypeOK, Unreported, Reportable
  <2>5. \A u, v \in Threads : u # v => reports'[u] \cap reports'[v] = {}
    BY <2>1, <2>2 DEF OneReporter
  <2>6. \A u \in Threads : pc'[u] = "count" => /\ u # t /\ pc[u] = "count"
                                              /\ entry[u] \in Objects /\ entry[u] \notin es
    BY <1>1, <2>1, <2>2 DEF InHand
  <2>7. \A u \in Threads : pc'[u] = "count" => fate'[entry'[u]] = "expired" /\ Unreported(entry[u])'
    BY <1>1, <1>2, <2>6 DEF OneReporter, Unreported
  <2>8. \A u, v \in Threads : pc'[u] = "count" /\ pc'[v] = "count" /\ entry'[u] = entry'[v] => u = v
    BY <1>1, <2>6 DEF OneReporter
  <2>9. ASSUME NEW f \in Objects
        PROVE  \/ Unreported(f)' /\ ~Reportable(f)'
               \/ Unreported(f)' /\ Reportable(f)' /\ \E u \in Threads : f \in reports'[u]
               \/ counted'[f] = 1 /\ told'[f] = 0 /\ fate'[f] = "expired"
               \/ counted'[f] = 1 /\ told'[f] = 1 /\ Reportable(f)'
    <3>1. CASE f \in es
      BY <1>1, <1>2, <2>1, <2>2, <3>1 DEF Unreported, Reportable
    <3>2. CASE f \notin es
      <4>1. \A u \in Threads : f \in reports[u] => f \in reports'[u]
        BY <1>1, <2>2
      <4>2. QED
        BY <1>1, <1>2, <3>2, <4>1 DEF OneReporter, Unreported, Reportable
    <3>3. QED
      BY <3>1, <3>2
  <2>10. QED
    BY <1>1, <2>3, <2>4, <2>5, <2>7, <2>8, <2>9 DEF OneReporter, Unreported
<1>7. QED
  BY <1>2, <1>4, <1>5, <1>6

\* Delete and Clear.
LEMMA DeletionInv ==
  ASSUME ReadsInv, NEW es \in SUBSET Held, NEW why \in {"deleted", "cleared"}, Remove(es, why),
         UNCHANGED <<split, age, refreshAt, historyVars, threadVars>>
  PROVE  ReadsInv'
<1> USE DEF ReadsInv, historyVars, threadVars
<1>1. /\ OnlyExpiredExpire' /\ ItemsHeld' /\ ClaimsSpent'
      /\ fate' \in [Objects -> Fates] /\ items' \in [Keys -> Objects \cup {None}]
      /\ \A e \in es : fate[e] = "held" /\ fate'[e] = why
      /\ \A e \in Objects \ es : fate'[e] = fate[e]
  BY RemoveInv
<1>2. es \subseteq Objects
  BY DEF Held
<1>3. TypeOK'
  BY <1>1 DEF TypeOK
<1>4. InHand'
  BY <1>1, <1>2 DEF InHand
<1>5. \A e \in es : /\ Unreported(e)
                    /\ \A t \in Threads : e \notin reports[t] /\ ~(pc[t] = "count" /\ entry[t] = e)
  BY <1>1, <1>2, HeldUnreported
<1>6. OneReporter'
  BY <1>1, <1>2, <1>5 DEF OneReporter, InHand, TypeOK, Unreported, Reportable
<1>7. QED
  BY <1>1, <1>3, <1>4, <1>6

LEMMA ReportOneInv ==
  ASSUME ReadsInv, NEW t \in Threads, NEW e \in Objects, ReportOne(t, e), UNCHANGED split
  PROVE  ReadsInv'
<1> USE NoneAssumption DEF ReadsInv
<1>1. /\ e \in reports[t] /\ pc[t] = "report" /\ Reportable(e) /\ Unreported(e)
      /\ \A u \in Threads \ {t} : e \notin reports[u]
  BY DEF ReportOne, OneReporter
<1>2. /\ counted' = [counted EXCEPT ![e] = 1] /\ told' = [told EXCEPT ![e] = 1]
      /\ reports' = [reports EXCEPT ![t] = reports[t] \ {e}]
      /\ pc' = [pc EXCEPT ![t] = IF reports[t] \ {e} = {} THEN "idle" ELSE "report"]
      /\ UNCHANGED <<items, age, refreshAt, fate, claims, key, entry, quiet>>
  BY <1>1 DEF ReportOne, Report, Unreported, TypeOK
<1>3. TypeOK'
  BY <1>2 DEF TypeOK
<1>4. OnlyExpiredExpire' /\ ItemsHeld' /\ ClaimsSpent'
  BY <1>2 DEF OnlyExpiredExpire, ItemsHeld, ClaimsSpent
<1>5. InHand'
  BY <1>1, <1>2 DEF InHand, TypeOK
<1>6. OneReporter'
  BY <1>1, <1>2 DEF OneReporter, TypeOK, Unreported, Reportable
<1>7. QED
  BY <1>3, <1>4, <1>5, <1>6

LEMMA AgeInv ==
  ASSUME ReadsInv, NEW e \in Objects, Age(e), UNCHANGED split
  PROVE  ReadsInv'
<1> USE DEF ReadsInv, Age, historyVars, threadVars
<1>1. TypeOK'
  BY DEF TypeOK
<1>2. OnlyExpiredExpire' /\ InHand'
  BY DEF OnlyExpiredExpire, InHand, TypeOK
<1>3. ItemsHeld' /\ ClaimsSpent' /\ OneReporter'
  BY DEF ItemsHeld, ClaimsSpent, OneReporter, Unreported, Reportable
<1>4. QED
  BY <1>1, <1>2, <1>3

-----------------------------------------------------------------------------
LEMMA NextInv == ReadsInv /\ [Next]_vars => ReadsInv'
<1> SUFFICES ASSUME ReadsInv, [Next]_vars PROVE ReadsInv'
  OBVIOUS
<1>1. CASE UNCHANGED vars
  BY <1>1 DEF vars, ReadsInv, TypeOK, OnlyExpiredExpire, ItemsHeld, InHand, ClaimsSpent, OneReporter,
     Unreported, Reportable
<1>2. ASSUME NEW t \in Threads, ThreadStep(t), UNCHANGED split PROVE ReadsInv'
  BY <1>2, SeeInv, DropExpiredInv, DropAtOnceInv, CountLookupInv, ClaimInv, StoreInv, SweepInv,
     ReportOneInv DEF ThreadStep
<1>3. ASSUME NEW k \in Keys, Delete(k), UNCHANGED split PROVE ReadsInv'
  <2>1. {items[k]} \in SUBSET Held
    BY <1>3 DEF Delete, ReadsInv, TypeOK, ItemsHeld, Held
  <2>2. QED
    BY <1>3, <2>1, DeletionInv DEF Delete
<1>4. ASSUME Clear, UNCHANGED split PROVE ReadsInv'
  BY <1>4, DeletionInv DEF Clear
<1>5. ASSUME NEW e \in Objects, Age(e), UNCHANGED split PROVE ReadsInv'
  BY <1>5, AgeInv
<1>6. QED
  BY <1>1, <1>2, <1>3, <1>4, <1>5 DEF Next

\* The invariant holds of every behaviour of the shard's readers and writers.
THEOREM Invariance == Spec => []ReadsInv
  BY InitInv, NextInv, PTL DEF Spec

\* An entry leaves as expired only if it had: the pointer get() compares under the
\* write lock (shard.go:128) is that of an entry that has expired for good.
THEOREM NothingElseExpires == Spec => []OnlyExpiredExpire
<1>1. ReadsInv => OnlyExpiredExpire
  BY DEF ReadsInv
<1>2. QED
  BY <1>1, Invariance, PTL

\* However many readers share the lock, one claims an entry's refresh
\* (shard.go:44-54).
THEOREM RefreshedOnce == Spec => []OneRefresh
<1>1. ReadsInv => OneRefresh
  BY DEF ReadsInv, TypeOK, ClaimsSpent, OneRefresh
<1>2. QED
  BY <1>1, Invariance, PTL

\* What leaves is counted and told by the goroutine that removed it, at most once
\* (shard.go:126).
THEOREM CountedOnce == Spec => []ReportedOnce
<1>1. ReadsInv => ReportedOnce
  BY DEF ReadsInv, OneReporter, ReportedOnce, Unreported, Reportable, TypeOK, Fates
<1>2. QED
  BY <1>1, Invariance, PTL

\* What a store or a sweep removes is told (cache.go:540-553, 708-718).
THEOREM AllReported == Spec => []ReportsComplete
<1>1. ReadsInv => ReportsComplete
  BY DEF ReadsInv, OneReporter, ReportsComplete, Settled, Unreported, Reportable, TypeOK
<1>2. QED
  BY <1>1, Invariance, PTL

=============================================================================
