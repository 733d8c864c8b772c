---------------------------- MODULE LoaderProofs ----------------------------
(***************************************************************************)
(* Proofs about Loader, for every set of keys, callers and call objects,   *)
(* every number of source updates and every choice of the options: the     *)
(* types are right, the cache never holds what is older than its key's     *)
(* last invalidation, and no caller is answered with what is older than    *)
(* the last invalidation before its lookup.                                *)
(***************************************************************************)
EXTENDS Loader, TLAPS

LEMMA InitInv == Init => LoaderInv
  BY BoundAssumption DEF Init, LoaderInv, TypeOK, FloorBounded, Fresh, ValidFresh, Registered,
     CallerInv, SinceInv, NoCall, Calls, Entries, States, Versions, AllOutcomes, Answers

LEMMA UpdateInv == ASSUME LoaderInv, Update PROVE LoaderInv'
<1> USE BoundAssumption DEF LoaderInv, Update, storeVars, flightVars, callerVars
<1>1. TypeOK'
  BY DEF TypeOK, Versions
<1>2. FloorBounded' /\ Fresh'
  BY DEF FloorBounded, Fresh, TypeOK, Versions
<1>3. ValidFresh' /\ Registered' /\ CallerInv'
  BY DEF TypeOK, ValidFresh, Registered, CallerInv, Returned, Unfinished, Calls, Versions
<1>4. SinceInv'
  BY DEF SinceInv, Returned, TypeOK, Versions
<1>5. QED
  BY <1>1, <1>2, <1>3, <1>4

LEMMA JoinInv == ASSUME LoaderInv, NEW c \in Callers, Join(c) PROVE LoaderInv'
<1> USE BoundAssumption, NoneAssumption
<1> DEFINE f == group[wants[c]]
<1>1. /\ wants[c] \in Keys /\ f \in Flights /\ f \in valid /\ Unfinished(f)
      /\ pc[c] = "load" /\ call[f].key = wants[c]
  BY DEF LoaderInv, Join, Joinable, CallerInv, TypeOK, Registered
<1>2. /\ call' = [call EXCEPT ![f].waiters = call[f].waiters + 1]
      /\ flight' = [flight EXCEPT ![c] = f] /\ pc' = [pc EXCEPT ![c] = "wait"]
      /\ UNCHANGED <<storeVars, group, holder, cancelled, wants, since>>
  BY DEF Join
<1>3. TypeOK'
  BY <1>1, <1>2 DEF LoaderInv, TypeOK, Calls, storeVars
<1>4. FloorBounded' /\ Fresh'
  BY <1>2 DEF LoaderInv, FloorBounded, Fresh, storeVars
<1>5. \A g \in Flights : /\ call'[g].state = call[g].state /\ call'[g].key = call[g].key
                         /\ call'[g].ver = call[g].ver /\ call'[g].outcome = call[g].outcome
  BY <1>2 DEF LoaderInv, TypeOK, Calls
<1>6. ValidFresh' /\ Registered'
  BY <1>2, <1>5 DEF LoaderInv, ValidFresh, Registered, TypeOK, storeVars, Returned, Unfinished
<1>7. CallerInv'
  BY <1>1, <1>2, <1>5 DEF LoaderInv, CallerInv, TypeOK, Unfinished
<1>8. SinceInv'
  BY <1>1, <1>2, <1>5 DEF LoaderInv, SinceInv, ValidFresh, CallerInv, TypeOK, storeVars, Returned, Versions, Calls
<1>9. QED
  BY <1>3, <1>4, <1>6, <1>7, <1>8 DEF LoaderInv


-----------------------------------------------------------------------------
(* Steps of time and of the application.                                   *)

\* Entries that age or leave disturb nothing: none gets older.
LEMMA EntriesLeaveInv ==
  ASSUME LoaderInv,
         items' \in [Keys -> Entries \cup {None}],
         \A k \in Keys : items'[k] # None => items[k] # None /\ items'[k].ver = items[k].ver,
         UNCHANGED <<src, floor, loads, valid, flightVars, callerVars>>
  PROVE  LoaderInv'
<1> USE DEF LoaderInv, flightVars, callerVars
<1>1. TypeOK'
  BY DEF TypeOK
<1>2. FloorBounded' /\ Fresh'
  BY DEF FloorBounded, Fresh
<1>3. ValidFresh' /\ Registered' /\ CallerInv' /\ SinceInv'
  BY DEF ValidFresh, Registered, CallerInv, SinceInv, Returned, Unfinished
<1>4. QED
  BY <1>1, <1>2, <1>3

LEMMA TimeInv ==
  ASSUME LoaderInv, NEW k \in Keys, Age(k) \/ Expire(k) \/ Sweep(k) \/ Evict(k)
  PROVE  LoaderInv'
<1>1. /\ items' \in [Keys -> Entries \cup {None}]
      /\ \A j \in Keys : items'[j] # None => items[j] # None /\ items'[j].ver = items[j].ver
  BY DEF Age, Expire, Sweep, Evict, Drop, Live, Expired, LoaderInv, TypeOK, Entries
<1>2. UNCHANGED <<src, floor, loads, valid, flightVars, callerVars>>
  BY DEF Age, Expire, Sweep, Evict
<1>3. QED
  BY <1>1, <1>2, EntriesLeaveInv

\* A write or an invalidation raises the floor of its keys to the newest version
\* there is, and takes their tokens away with it.
LEMMA RaiseFloorInv ==
  ASSUME LoaderInv, NEW ks \in SUBSET Keys, InvalidateLoads(ks),
         floor' = [k \in Keys |-> IF k \in ks THEN src ELSE floor[k]],
         items' \in [Keys -> Entries \cup {None}],
         \A k \in Keys : items'[k] # None =>
            \/ items'[k].ver = src
            \/ k \notin ks /\ items[k] # None /\ items'[k].ver = items[k].ver,
         UNCHANGED <<src, flightVars, callerVars>>
  PROVE  LoaderInv'
<1> USE BoundAssumption DEF LoaderInv, flightVars, callerVars
<1>1. TypeOK'
  BY DEF TypeOK, InvalidateLoads
<1>2. FloorBounded' /\ \A k \in Keys : floor[k] <= floor'[k]
  BY DEF FloorBounded, TypeOK, Versions
<1>3. Fresh'
  BY <1>2 DEF Fresh, FloorBounded, TypeOK, Versions, Entries
<1>4. ValidFresh'
  <2> SUFFICES ASSUME NEW f \in valid'
               PROVE  /\ call[f].state # "spare" /\ call[f].key \in Keys
                      /\ f \in loads'[call[f].key]
                      /\ Returned(f) => call[f].ver >= floor'[call[f].key] /\ call[f].ver <= src
    BY DEF ValidFresh, Returned
  <2>1. f \in valid /\ \A k \in ks : f \notin loads[k]
    BY DEF InvalidateLoads
  <2>2. /\ call[f].state # "spare" /\ call[f].key \in Keys
        /\ f \in loads[call[f].key] /\ call[f].key \notin ks
        /\ Returned(f) => call[f].ver >= floor[call[f].key] /\ call[f].ver <= src
    BY <2>1 DEF ValidFresh
  <2>3. QED
    BY <2>2 DEF InvalidateLoads
<1>5. Registered' /\ CallerInv'
  BY DEF Registered, CallerInv, Unfinished
<1>6. SinceInv'
  BY <1>2 DEF SinceInv, CallerInv, TypeOK, Versions, Returned
<1>7. QED
  BY <1>1, <1>2, <1>3, <1>4, <1>5, <1>6

LEMMA ClearInv == ASSUME LoaderInv, Clear PROVE LoaderInv'
<1>1. /\ floor' = [k \in Keys |-> IF k \in Keys THEN src ELSE floor[k]]
      /\ items' \in [Keys -> Entries \cup {None}] /\ \A k \in Keys : items'[k] = None
  BY DEF Clear
<1>2. InvalidateLoads(Keys) /\ UNCHANGED <<src, flightVars, callerVars>>
  BY DEF Clear
<1>3. QED
  BY <1>1, <1>2, RaiseFloorInv

LEMMA DeleteInv == ASSUME LoaderInv, NEW k \in Keys, Delete(k) PROVE LoaderInv'
<1>1. floor' = [j \in Keys |-> IF j \in {k} THEN src ELSE floor[j]]
  BY DEF Delete, LoaderInv, TypeOK
<1>2. /\ items' \in [Keys -> Entries \cup {None}]
      /\ \A j \in Keys : items'[j] # None =>
            j \notin {k} /\ items[j] # None /\ items'[j].ver = items[j].ver
  BY DEF Delete, Drop, LoaderInv, TypeOK
<1>3. InvalidateLoads({k}) /\ UNCHANGED <<src, flightVars, callerVars>> /\ {k} \in SUBSET Keys
  BY DEF Delete
<1>4. QED
  BY <1>1, <1>2, <1>3, RaiseFloorInv

LEMMA SetInv ==
  ASSUME LoaderInv, NEW k \in Keys, NEW neg \in BOOLEAN, Set(k, neg) PROVE LoaderInv'
<1>1. floor' = [j \in Keys |-> IF j \in {k} THEN src ELSE floor[j]]
  BY DEF Set, LoaderInv, TypeOK
<1>2. /\ items' \in [Keys -> Entries \cup {None}]
      /\ \A j \in Keys : items'[j] # None =>
            \/ items'[j].ver = src
            \/ j \notin {k} /\ items[j] # None /\ items'[j].ver = items[j].ver
  <2>1. items' = [items EXCEPT ![k] = [ver |-> src, neg |-> neg, age |-> "fresh"]]
    BY DEF Set, Store
  <2>2. [ver |-> src, neg |-> neg, age |-> "fresh"] \in Entries
    BY DEF LoaderInv, TypeOK, Entries
  <2>3. QED
    BY <2>1, <2>2 DEF LoaderInv, TypeOK
<1>3. InvalidateLoads({k}) /\ UNCHANGED <<src, flightVars, callerVars>> /\ {k} \in SUBSET Keys
  BY DEF Set, Store
<1>4. QED
  BY <1>1, <1>2, <1>3, RaiseFloorInv

-----------------------------------------------------------------------------
(* Steps of a caller.                                                      *)

LEMMA HitInv == ASSUME LoaderInv, NEW c \in Callers, NEW k \in Keys, Hit(c, k) PROVE LoaderInv'
<1> USE DEF Hit, flightVars
<1>1. TypeOK'
  BY DEF LoaderInv, TypeOK, Entries
<1>2. FloorBounded' /\ Fresh'
  BY DEF LoaderInv, TypeOK, FloorBounded, Fresh, Entries
<1>3. ValidFresh' /\ Registered' /\ SinceInv'
  BY DEF LoaderInv, TypeOK, ValidFresh, Registered, SinceInv, Returned, Unfinished
<1>4. CallerInv'
  BY DEF LoaderInv, TypeOK, CallerInv
<1>5. QED
  BY <1>1, <1>2, <1>3, <1>4 DEF LoaderInv

\* A lookup that finds nothing asks for nothing newer than the key's floor.
LEMMA MissInv == ASSUME LoaderInv, NEW c \in Callers, NEW k \in Keys, Miss(c, k) PROVE LoaderInv'
<1> USE DEF Miss, DropExpired, Drop, flightVars
<1>1. TypeOK'
  BY DEF LoaderInv, TypeOK
<1>2. FloorBounded' /\ Fresh'
  BY DEF LoaderInv, TypeOK, FloorBounded, Fresh
<1>3. ValidFresh' /\ Registered'
  BY DEF LoaderInv, ValidFresh, Registered, Returned, Unfinished
<1>4. CallerInv'
  BY DEF LoaderInv, TypeOK, CallerInv
<1>5. SinceInv'
  BY BoundAssumption DEF LoaderInv, TypeOK, SinceInv, FloorBounded, Returned, Versions
<1>6. QED
  BY <1>1, <1>2, <1>3, <1>4, <1>5 DEF LoaderInv

\* A new call object is one that no caller, no registration and no token refers to.
LEMMA BeginLoadInv ==
  ASSUME LoaderInv, NEW c \in Callers, NEW f \in Flights, BeginLoad(c, f) PROVE LoaderInv'
<1> USE DEF BeginLoad, Begin
<1>1. /\ wants[c] \in Keys /\ pc[c] = "load" /\ holder = None
      /\ call[f].state = "spare" /\ \A b \in Callers : flight[b] # f
      /\ f \notin valid /\ \A k \in Keys : group[k] # f
  BY NoneAssumption DEF LoaderInv, CallerInv, Spare, ValidFresh, Registered, Unfinished
<1>2. call' = [call EXCEPT ![f] = [key |-> wants[c], state |-> "begun", refresh |-> FALSE,
                                   waiters |-> 1, outcome |-> "ok", ver |-> 0]]
  BY DEF BeginLoad, Begin
<1>3. /\ call'[f].state = "begun" /\ call'[f].key = wants[c]
      /\ \A g \in Flights : g # f => call'[g] = call[g]
  BY <1>2 DEF LoaderInv, TypeOK
<1>4. TypeOK'
  BY <1>1, <1>2, BoundAssumption
     DEF LoaderInv, TypeOK, Calls, States, AllOutcomes, Answers, Versions
<1>5. FloorBounded' /\ Fresh'
  BY DEF LoaderInv, FloorBounded, Fresh
<1>6. ValidFresh'
  BY <1>1, <1>3 DEF LoaderInv, TypeOK, ValidFresh, Returned
<1>7. Registered'
  BY <1>1, <1>3 DEF LoaderInv, TypeOK, Registered, Unfinished
<1>8. CallerInv'
  BY <1>1, <1>3, NoneAssumption DEF LoaderInv, TypeOK, CallerInv
<1>9. SinceInv'
  BY <1>1, <1>3 DEF LoaderInv, TypeOK, SinceInv, CallerInv, Returned
<1>10. QED
  BY <1>4, <1>5, <1>6, <1>7, <1>8, <1>9 DEF LoaderInv

\* The token goes, and its call object is free; only the caller knew of it.
LEMMA RecheckHitInv == ASSUME LoaderInv, NEW c \in Callers, RecheckHit(c) PROVE LoaderInv'
<1> DEFINE f == flight[c]
<1> USE DEF RecheckHit, EndLoad, Return
<1>1. /\ f \in Flights /\ holder = c /\ call[f].state = "begun" /\ pc[c] = "recheck"
      /\ wants[c] \in Keys
      /\ \A b \in Callers : b # c => flight[b] # f /\ pc[b] \notin {"recheck", "expired"}
  <2>1. /\ f \in Flights /\ holder = c /\ call[f].state = "begun" /\ pc[c] = "recheck"
        /\ wants[c] \in Keys
    BY DEF LoaderInv, CallerInv
  <2>2. ASSUME NEW b \in Callers, b # c PROVE flight[b] # f /\ pc[b] \notin {"recheck", "expired"}
    BY <2>1, <2>2, NoneAssumption DEF LoaderInv, CallerInv, TypeOK
  <2>3. QED
    BY <2>1, <2>2
<1>2. /\ call'[f] = NoCall /\ \A g \in Flights : g # f => call'[g] = call[g]
  BY <1>1 DEF LoaderInv, TypeOK
<1>3. TypeOK'
  BY <1>1, BoundAssumption DEF LoaderInv, TypeOK, Calls, NoCall, States, AllOutcomes, Answers, Versions
<1>4. FloorBounded' /\ Fresh'
  BY DEF LoaderInv, FloorBounded, Fresh
<1>5. ValidFresh'
  BY <1>1, <1>2 DEF LoaderInv, TypeOK, ValidFresh, Returned
<1>6. Registered'
  BY <1>1, <1>2 DEF LoaderInv, TypeOK, Registered, Unfinished
<1>7. CallerInv'
  BY <1>1, <1>2, NoneAssumption DEF LoaderInv, TypeOK, CallerInv
<1>8. SinceInv'
  BY <1>1, <1>2, BoundAssumption DEF LoaderInv, TypeOK, SinceInv, CallerInv, Returned, Versions, NoCall
<1>9. QED
  BY <1>3, <1>4, <1>5, <1>6, <1>7, <1>8 DEF LoaderInv

\* startAndUnlock(), whatever the recheck did to an expired entry.
LEMMA StartInv ==
  ASSUME LoaderInv, NEW c \in Callers, pc[c] \in {"recheck", "expired"}, Start(c),
         Drop(wants[c]) \/ UNCHANGED items
  PROVE  LoaderInv'
<1> DEFINE f == flight[c]
<1> USE DEF Start
<1>1. /\ f \in Flights /\ holder = c /\ call[f].state = "begun"
      /\ wants[c] \in Keys /\ call[f].key = wants[c]
      /\ \A b \in Callers : b # c => flight[b] # f /\ pc[b] \notin {"recheck", "expired"}
  <2>1. /\ f \in Flights /\ holder = c /\ call[f].state = "begun"
        /\ wants[c] \in Keys /\ call[f].key = wants[c]
    BY DEF LoaderInv, CallerInv
  <2>2. ASSUME NEW b \in Callers, b # c PROVE flight[b] # f /\ pc[b] \notin {"recheck", "expired"}
    BY <2>1, <2>2, NoneAssumption DEF LoaderInv, CallerInv, TypeOK
  <2>3. QED
    BY <2>1, <2>2
<1>2. /\ call'[f].state = "running" /\ call'[f].key = wants[c]
      /\ \A g \in Flights : g # f => call'[g] = call[g]
  BY <1>1 DEF LoaderInv, TypeOK, Calls
<1>3. TypeOK'
  <2>1. call' \in [Flights -> Calls] /\ group' \in [Keys -> Flights \cup {None}]
    BY <1>1 DEF LoaderInv, TypeOK, Calls, States
  <2>2. items' \in [Keys -> Entries \cup {None}]
    BY DEF LoaderInv, TypeOK, Drop
  <2>3. QED
    BY <2>1, <2>2 DEF LoaderInv, TypeOK
<1>4. FloorBounded' /\ Fresh'
  BY DEF LoaderInv, TypeOK, FloorBounded, Fresh, Drop
<1>5. ValidFresh'
  BY <1>1, <1>2 DEF LoaderInv, TypeOK, ValidFresh, Returned
<1>6. Registered'
  BY <1>1, <1>2 DEF LoaderInv, TypeOK, Registered, Unfinished
<1>7. CallerInv'
  BY <1>1, <1>2, NoneAssumption DEF LoaderInv, TypeOK, CallerInv
<1>8. SinceInv'
  BY <1>1, <1>2 DEF LoaderInv, TypeOK, SinceInv, CallerInv, Returned
<1>9. QED
  BY <1>3, <1>4, <1>5, <1>6, <1>7, <1>8 DEF LoaderInv

LEMMA RecheckInv ==
  ASSUME LoaderInv, NEW c \in Callers, RecheckMiss(c) \/ RecheckExpired(c) \/ StartExpired(c)
  PROVE  LoaderInv'
<1>1. CASE RecheckMiss(c)
  BY <1>1, StartInv DEF RecheckMiss
<1>2. CASE StartExpired(c)
  BY <1>2, StartInv DEF StartExpired, DropExpired
<1>3. CASE RecheckExpired(c)
  <2> USE <1>3 DEF RecheckExpired, storeVars, flightVars
  <2>1. TypeOK' /\ CallerInv'
    BY DEF LoaderInv, TypeOK, CallerInv
  <2>2. FloorBounded' /\ Fresh' /\ ValidFresh' /\ Registered'
    BY DEF LoaderInv, FloorBounded, Fresh, ValidFresh, Registered, Returned, Unfinished
  <2>3. SinceInv'
    BY DEF LoaderInv, TypeOK, SinceInv, Returned
  <2>4. QED
    BY <2>1, <2>2, <2>3 DEF LoaderInv
<1>4. QED
  BY <1>1, <1>2, <1>3

LEMMA StartRefreshInv ==
  ASSUME LoaderInv, NEW c \in Callers, NEW f \in Flights, StartRefresh(c, f) PROVE LoaderInv'
<1> USE DEF StartRefresh, Begin, Return
<1>1. /\ wants[c] \in Keys /\ pc[c] = "refresh" /\ holder = None
      /\ call[f].state = "spare" /\ \A b \in Callers : flight[b] # f
      /\ f \notin valid /\ \A k \in Keys : group[k] # f
  BY NoneAssumption DEF LoaderInv, CallerInv, Spare, ValidFresh, Registered, Unfinished
<1>2. /\ call' = [call EXCEPT ![f] = [key |-> wants[c], state |-> "running", refresh |-> TRUE,
                                      waiters |-> 1, outcome |-> "ok", ver |-> 0]]
      /\ pc' = [pc EXCEPT ![c] = "idle"] /\ group' = [group EXCEPT ![wants[c]] = f]
      /\ wants' = [wants EXCEPT ![c] = None] /\ flight' = [flight EXCEPT ![c] = None]
  BY DEF StartRefresh, Begin, Return
<1>3. /\ call'[f].state = "running" /\ call'[f].key = wants[c]
      /\ \A g \in Flights : g # f => call'[g] = call[g]
  BY <1>2 DEF LoaderInv, TypeOK
<1>4. TypeOK'
  BY <1>1, <1>2, BoundAssumption DEF LoaderInv, TypeOK, Calls, States, AllOutcomes, Answers, Versions
<1>5. FloorBounded' /\ Fresh'
  BY DEF LoaderInv, FloorBounded, Fresh
<1>6. ValidFresh'
  BY <1>1, <1>3 DEF LoaderInv, TypeOK, ValidFresh, Returned
<1>7. Registered'
  BY <1>1, <1>2, <1>3 DEF LoaderInv, TypeOK, Registered, Unfinished
<1>8. CallerInv'
  BY <1>1, <1>2, <1>3, NoneAssumption DEF LoaderInv, TypeOK, CallerInv
<1>9. SinceInv'
  BY <1>1, <1>2, <1>3, BoundAssumption DEF LoaderInv, TypeOK, SinceInv, CallerInv, Returned, Versions
<1>10. QED
  BY <1>4, <1>5, <1>6, <1>7, <1>8, <1>9 DEF LoaderInv

\* The steps in which a caller goes away.
LEMMA ReturnInv ==
  ASSUME LoaderInv, NEW c \in Callers, pc[c] \notin {"recheck", "expired"}, Return(c),
         UNCHANGED <<storeVars, group, holder>>,
         cancelled' \subseteq Flights,
         call' \in [Flights -> Calls],
         \A g \in Flights : /\ call'[g].state = call[g].state /\ call'[g].key = call[g].key
                            /\ call'[g].ver = call[g].ver /\ call'[g].outcome = call[g].outcome
  PROVE  LoaderInv'
<1> USE DEF Return, storeVars
<1>1. TypeOK'
  BY BoundAssumption DEF LoaderInv, TypeOK, Versions
<1>2. FloorBounded' /\ Fresh'
  BY DEF LoaderInv, FloorBounded, Fresh
<1>3. ValidFresh' /\ Registered'
  BY DEF LoaderInv, TypeOK, ValidFresh, Registered, Returned, Unfinished
<1>4. CallerInv'
  BY DEF LoaderInv, TypeOK, CallerInv
<1>5. SinceInv'
  BY BoundAssumption DEF LoaderInv, TypeOK, SinceInv, CallerInv, Returned, Versions
<1>6. QED
  BY <1>1, <1>2, <1>3, <1>4, <1>5 DEF LoaderInv

LEMMA CollectInv ==
  ASSUME LoaderInv, NEW c \in Callers, SkipRefresh(c) \/ Collect(c) \/ Cancel(c) PROVE LoaderInv'
<1>1. /\ pc[c] \notin {"recheck", "expired"} /\ Return(c)
      /\ UNCHANGED <<storeVars, group, holder, call>>
  BY DEF SkipRefresh, Collect, Cancel, flightVars
<1>2. cancelled' \subseteq Flights
  BY DEF SkipRefresh, Collect, Cancel, flightVars, LoaderInv, TypeOK, CallerInv
<1>3. call' \in [Flights -> Calls] /\ UNCHANGED <<storeVars, group, holder>>
  BY <1>1 DEF LoaderInv, TypeOK
<1>4. QED
  BY <1>1, <1>2, <1>3, ReturnInv

LEMMA LeaveInv == ASSUME LoaderInv, NEW c \in Callers, Leave(c) PROVE LoaderInv'
<1> DEFINE f == flight[c]
<1>1. pc[c] = "wait" /\ f \in Flights /\ wants[c] \in Keys /\ call[f].state # "begun"
  BY DEF LoaderInv, CallerInv, Leave
<1>2. call' = [call EXCEPT ![f].waiters = call[f].waiters - 1]
  BY DEF Leave
<1>3. /\ call' \in [Flights -> Calls]
      /\ \A g \in Flights : /\ call'[g].state = call[g].state /\ call'[g].key = call[g].key
                            /\ call'[g].ver = call[g].ver /\ call'[g].outcome = call[g].outcome
  BY <1>1, <1>2 DEF LoaderInv, TypeOK, Calls
<1>4. CASE ~LastWaiter(f)
  <2>1. Return(c) /\ UNCHANGED <<storeVars, group, holder>> /\ cancelled' \subseteq Flights
    BY <1>4 DEF Leave, LoaderInv, TypeOK
  <2>2. QED
    BY <1>1, <1>3, <2>1, ReturnInv
<1>5. CASE LastWaiter(f)
  <2>1. /\ DropCall(f) /\ pc' = [pc EXCEPT ![c] = "cancel"]
        /\ UNCHANGED <<wants, flight, since, storeVars, holder, cancelled>>
    BY <1>5 DEF Leave
  <2> USE DEF storeVars
  <2>2. TypeOK'
    BY <1>3, <2>1 DEF LoaderInv, TypeOK, DropCall
  <2>3. FloorBounded' /\ Fresh'
    BY <2>1 DEF LoaderInv, FloorBounded, Fresh
  <2>4. ValidFresh' /\ Registered'
    BY <1>3, <2>1, NoneAssumption
       DEF LoaderInv, TypeOK, ValidFresh, Registered, Returned, Unfinished, DropCall
  <2>5. CallerInv'
    BY <1>1, <1>3, <2>1 DEF LoaderInv, TypeOK, CallerInv
  <2>6. SinceInv'
    BY <1>1, <1>3, <2>1 DEF LoaderInv, TypeOK, SinceInv, CallerInv, Returned
  <2>7. QED
    BY <2>2, <2>3, <2>4, <2>5, <2>6 DEF LoaderInv
<1>6. QED
  BY <1>4, <1>5

-----------------------------------------------------------------------------
(* Steps of a flight.                                                      *)

\* What a loader returns now is as new as any floor and any caller's demand.
LEMMA LoaderReturnsInv ==
  ASSUME LoaderInv, NEW f \in Flights, NEW outcome \in AllOutcomes, LoaderReturns(f, outcome)
  PROVE  LoaderInv'
<1> USE DEF LoaderReturns, storeVars, callerVars
<1>1. /\ call[f].state = "running" /\ call'[f].key = call[f].key
      /\ call'[f].state \in {"loaded", "stored"} /\ call'[f].outcome = outcome
      /\ call'[f].state = "loaded" => outcome \in Answers
      /\ outcome \in Answers => call'[f].ver = src
      /\ \A g \in Flights : g # f => call'[g] = call[g]
  BY DEF LoaderInv, TypeOK, Calls, Storable, Answers
<1>2. TypeOK'
  <2>1. call[f] \in Calls /\ src \in Versions /\ 0 \in Versions
    BY BoundAssumption DEF LoaderInv, TypeOK, Versions
  <2> DEFINE state == IF Storable(outcome) THEN "loaded" ELSE "stored"
             ver == IF outcome \in Answers THEN src ELSE 0
  <2>2. call' = [call EXCEPT ![f] = [call[f] EXCEPT !.state = state, !.outcome = outcome,
                                                    !.ver = ver]]
    BY DEF LoaderInv, TypeOK
  <2>3. state \in States /\ ver \in Versions
    BY <2>1 DEF States
  <2>4. [call[f] EXCEPT !.state = state, !.outcome = outcome, !.ver = ver] \in Calls
    BY <2>1, <2>3 DEF Calls
  <2>5. QED
    BY <2>2, <2>4 DEF LoaderInv, TypeOK
<1>3. FloorBounded' /\ Fresh'
  BY DEF LoaderInv, FloorBounded, Fresh
<1>4. ValidFresh'
  BY <1>1 DEF LoaderInv, TypeOK, ValidFresh, Returned, FloorBounded, Versions
<1>5. Registered' /\ CallerInv'
  BY <1>1 DEF LoaderInv, TypeOK, Registered, CallerInv, Unfinished
<1>6. SinceInv'
  BY <1>1 DEF LoaderInv, TypeOK, SinceInv, CallerInv, Returned
<1>7. QED
  BY <1>2, <1>3, <1>4, <1>5, <1>6 DEF LoaderInv

\* A load stores only while its token is valid, and is then as new as the floor.
LEMMA PublishInv == ASSUME LoaderInv, NEW f \in Flights, Publish(f) PROVE LoaderInv'
<1> DEFINE k == call[f].key
<1> USE DEF Publish, callerVars
<1>1. /\ call[f].state = "loaded" /\ call'[f].state = "stored" /\ call'[f].key = call[f].key
      /\ call'[f].outcome = call[f].outcome /\ call'[f].ver = call[f].ver
      /\ \A g \in Flights : g # f => call'[g] = call[g]
  BY DEF LoaderInv, TypeOK, Calls
<1>2. /\ call' \in [Flights -> Calls]
      /\ UNCHANGED <<src, floor, group, holder, cancelled, pc, wants, flight, since>>
  BY DEF LoaderInv, TypeOK, Calls, States
<1>3. FloorBounded' /\ Registered' /\ CallerInv' /\ SinceInv'
  <2>1. FloorBounded' /\ Registered' /\ CallerInv'
    BY <1>1, <1>2 DEF LoaderInv, TypeOK, FloorBounded, Registered, CallerInv, Unfinished
  <2>2. SinceInv'
    BY <1>1, <1>2 DEF LoaderInv, TypeOK, SinceInv, CallerInv, Returned
  <2>3. QED
    BY <2>1, <2>2
<1>4. CASE f \notin valid
  <2>1. UNCHANGED <<items, loads, valid>>
    BY <1>4
  <2>2. TypeOK' /\ Fresh'
    BY <1>2, <2>1 DEF LoaderInv, TypeOK, Fresh
  <2>3. ValidFresh'
    BY <1>1, <1>2, <1>4, <2>1 DEF LoaderInv, TypeOK, ValidFresh, Returned
  <2>4. QED
    BY <1>3, <2>2, <2>3 DEF LoaderInv
<1>5. CASE f \in valid
  <2>1. k \in Keys /\ f \in loads[k] /\ call[f].ver >= floor[k] /\ call[f].ver \in Versions
    BY <1>1, <1>5 DEF LoaderInv, TypeOK, ValidFresh, Returned, Calls
  <2>2. /\ valid' = valid \ UNION {loads[j] : j \in {k}}
        /\ loads' = [j \in Keys |-> IF j \in {k} THEN {} ELSE loads[j]]
        /\ items' = [items EXCEPT ![k] = [ver |-> call[f].ver, neg |-> (call[f].outcome = "absent"),
                                          age |-> "fresh"]]
    BY <1>5 DEF Store, InvalidateLoads
  <2>3. [ver |-> call[f].ver, neg |-> (call[f].outcome = "absent"), age |-> "fresh"] \in Entries
    BY <2>1 DEF Entries
  <2>4. TypeOK'
    BY <1>2, <2>1, <2>2, <2>3 DEF LoaderInv, TypeOK
  <2>5. Fresh'
    BY <1>2, <2>1, <2>2 DEF LoaderInv, TypeOK, Fresh
  <2>6. ValidFresh'
    <3> SUFFICES ASSUME NEW g \in valid'
                 PROVE  /\ call'[g].state # "spare" /\ call'[g].key \in Keys
                        /\ g \in loads'[call'[g].key]
                        /\ Returned(g)' => /\ call'[g].ver >= floor'[call'[g].key]
                                           /\ call'[g].ver <= src'
      BY DEF ValidFresh
    <3>1. g \in valid /\ g \notin loads[k] /\ g # f
      BY <2>1, <2>2
    <3>2. g \in Flights /\ call'[g] = call[g]
      BY <1>1, <3>1 DEF LoaderInv, TypeOK
    <3>3. QED
      BY <1>2, <2>2, <3>1, <3>2 DEF LoaderInv, ValidFresh, Returned
  <2>7. QED
    BY <1>3, <2>4, <2>5, <2>6 DEF LoaderInv
<1>6. QED
  BY <1>4, <1>5

LEMMA FinishInv == ASSUME LoaderInv, NEW f \in Flights, Finish(f) PROVE LoaderInv'
<1> USE DEF Finish, storeVars, callerVars
<1>1. /\ call[f].state = "stored" /\ call'[f].state = "done" /\ call'[f].key = call[f].key
      /\ call'[f].outcome = call[f].outcome /\ call'[f].ver = call[f].ver
      /\ \A g \in Flights : g # f => call'[g] = call[g]
  BY DEF LoaderInv, TypeOK, Calls
<1>2. TypeOK'
  BY DEF LoaderInv, TypeOK, Calls, States, DropCall
<1>3. FloorBounded' /\ Fresh'
  BY DEF LoaderInv, FloorBounded, Fresh
<1>4. ValidFresh'
  BY <1>1 DEF LoaderInv, TypeOK, ValidFresh, Returned
<1>5. Registered'
  BY <1>1, NoneAssumption DEF LoaderInv, TypeOK, Registered, Unfinished, DropCall
<1>6. CallerInv'
  BY <1>1 DEF LoaderInv, TypeOK, CallerInv
<1>7. SinceInv'
  BY <1>1 DEF LoaderInv, TypeOK, SinceInv, CallerInv, Returned
<1>8. QED
  BY <1>2, <1>3, <1>4, <1>5, <1>6, <1>7 DEF LoaderInv

LEMMA ExitInv == ASSUME LoaderInv, NEW f \in Flights, Exit(f) PROVE LoaderInv'
<1> USE DEF Exit, EndLoad, callerVars
<1>1. /\ call[f].state = "done" /\ call'[f] = NoCall
      /\ \A g \in Flights : g # f => call'[g] = call[g]
  BY DEF LoaderInv, TypeOK
<1>2. TypeOK'
  <2>1. NoCall \in Calls
    BY BoundAssumption DEF Calls, NoCall, States, AllOutcomes, Answers, Versions
  <2>2. call' \in [Flights -> Calls]
    BY <2>1 DEF LoaderInv, TypeOK
  <2>3. loads' \in [Keys -> SUBSET Flights] /\ valid' \subseteq Flights
    BY DEF LoaderInv, TypeOK
  <2>4. QED
    BY <2>2, <2>3 DEF LoaderInv, TypeOK
<1>3. FloorBounded' /\ Fresh'
  BY DEF LoaderInv, FloorBounded, Fresh
<1>4. ValidFresh'
  BY <1>1 DEF LoaderInv, TypeOK, ValidFresh, Returned
<1>5. Registered'
  BY <1>1 DEF LoaderInv, TypeOK, Registered, Unfinished
<1>6. CallerInv'
  BY <1>1 DEF LoaderInv, TypeOK, CallerInv, NoCall
<1>7. SinceInv'
  BY <1>1 DEF LoaderInv, TypeOK, SinceInv, CallerInv, Returned, NoCall
<1>8. QED
  BY <1>2, <1>3, <1>4, <1>5, <1>6, <1>7 DEF LoaderInv

-----------------------------------------------------------------------------
LEMMA StutterInv == ASSUME LoaderInv, UNCHANGED vars PROVE LoaderInv'
<1> USE DEF vars, storeVars, flightVars, callerVars
<1>1. TypeOK' /\ FloorBounded' /\ Fresh' /\ ValidFresh'
  BY DEF LoaderInv, TypeOK, FloorBounded, Fresh, ValidFresh, Returned
<1>2. Registered' /\ CallerInv' /\ SinceInv'
  BY DEF LoaderInv, Registered, CallerInv, SinceInv, Returned, Unfinished
<1>3. QED
  BY <1>1, <1>2 DEF LoaderInv

LEMMA NextInv == LoaderInv /\ [Next]_vars => LoaderInv'
<1> SUFFICES ASSUME LoaderInv, [Next]_vars PROVE LoaderInv'
  OBVIOUS
<1>1. ASSUME NEW c \in Callers, CallerStep(c) PROVE LoaderInv'
  BY <1>1, HitInv, MissInv, JoinInv, BeginLoadInv, RecheckHitInv, RecheckInv, StartRefreshInv,
     CollectInv, LeaveInv DEF CallerStep
<1>2. ASSUME NEW f \in Flights, FlightStep(f) PROVE LoaderInv'
  BY <1>2, LoaderReturnsInv, PublishInv, FinishInv, ExitInv DEF FlightStep
<1>3. CASE Environment
  BY <1>3, UpdateInv, ClearInv, SetInv, DeleteInv, TimeInv DEF Environment
<1>4. QED
  BY <1>1, <1>2, <1>3, StutterInv DEF Next

\* Type correctness of the specification, with everything Fresh and AnswerFresh
\* rest on, in every reachable state of GetOrLoad, Set, Delete, Clear and expiry.
THEOREM Invariance == Spec => []LoaderInv
  BY InitInv, NextInv, PTL DEF Spec

\* The cache never serves what is older than the key's last Set, Delete or Clear,
\* though loads that began before it are still running (shard.go, set()).
THEOREM CacheFresh == Spec => []Fresh
<1>1. LoaderInv => Fresh
  BY DEF LoaderInv
<1>2. QED
  BY <1>1, Invariance, PTL

\* No caller of GetOrLoad is answered with what is older than the key's last
\* invalidation before its lookup, whichever load it waits for (loader.go, running()).
THEOREM AnswersFresh == Spec => []AnswerFresh
<1>1. LoaderInv => AnswerFresh
  BY DEF LoaderInv, SinceInv, AnswerFresh, Waiting, Done, Returned
<1>2. QED
  BY <1>1, Invariance, PTL

-----------------------------------------------------------------------------
(* The refinement.                                                         *)

\* What lookups see is unchanged while every entry keeps its value and stays on
\* the same side of its expiry.
LEMMA SameVisible ==
  ASSUME \A k \in Keys : Live(k)' = Live(k),
         \A k \in Keys : Live(k) => items'[k].ver = items[k].ver /\ items'[k].neg = items[k].neg
  PROVE  Visible' = Visible
  BY DEF Visible

LEMMA RefinesInit == Init => Abstract!Init
  BY DEF Init, Abstract!Init, Visible, Live

\* A store of one key changes what lookups see of that key only.
LEMMA VisibleStore ==
  ASSUME LoaderInv, NEW k \in Keys, NEW v \in Versions, NEW neg \in BOOLEAN,
         items' = [items EXCEPT ![k] = [ver |-> v, neg |-> neg, age |-> "fresh"]]
  PROVE  Visible' = [Visible EXCEPT ![k] = [ver |-> v, neg |-> neg]]
<1>1. [ver |-> v, neg |-> neg, age |-> "fresh"] # None
  BY EntryAssumption DEF Entries
<1>2. \A j \in Keys : items'[j] = IF j = k THEN [ver |-> v, neg |-> neg, age |-> "fresh"] ELSE items[j]
  BY DEF LoaderInv, TypeOK
<1>3. Live(k)' /\ \A j \in Keys : j # k => Live(j)' = Live(j)
  BY <1>1, <1>2 DEF Live
<1>4. items'[k].ver = v /\ items'[k].neg = neg
  BY <1>2
<1>5. Visible' = [j \in Keys |-> IF j = k THEN [ver |-> v, neg |-> neg] ELSE Visible[j]]
  BY <1>2, <1>3, <1>4 DEF Visible
<1>6. QED
  BY <1>5 DEF Visible

\* The steps that change neither the source, nor a floor, nor what lookups see.
LEMMA RefinesStutter ==
  ASSUME LoaderInv, UNCHANGED <<src, floor>>,
         \/ UNCHANGED items
         \/ \E k \in Keys : Expired(k) /\ Drop(k)
         \/ \E k \in Keys, age \in {"due", "claimed"} :
                Live(k) /\ items' = [items EXCEPT ![k].age = age]
  PROVE  UNCHANGED Abstract!vars
<1>1. Visible' = Visible
  <2>1. CASE UNCHANGED items
    BY <2>1 DEF Visible, Live
  <2>2. ASSUME NEW k \in Keys, Expired(k), Drop(k) PROVE Visible' = Visible
    <3>1. \A j \in Keys : items'[j] = IF j = k THEN None ELSE items[j]
      BY <2>2 DEF Drop, LoaderInv, TypeOK
    <3>2. \A j \in Keys : Live(j)' = Live(j)
      BY <2>2, <3>1 DEF Live, Expired
    <3>3. QED
      BY <2>2, <3>1, <3>2 DEF Visible, Live, Expired
  <2>3. ASSUME NEW k \in Keys, NEW age \in {"due", "claimed"},
               Live(k), items' = [items EXCEPT ![k].age = age]
        PROVE  Visible' = Visible
    <3>1. items[k] \in Entries /\ items'[k] = [items[k] EXCEPT !.age = age]
      BY <2>3 DEF Live, LoaderInv, TypeOK
    <3>2. items'[k] \in Entries /\ items'[k].age = age
          /\ items'[k].ver = items[k].ver /\ items'[k].neg = items[k].neg
      BY <3>1 DEF Entries
    <3>3. \A j \in Keys : j # k => items'[j] = items[j]
      BY <2>3 DEF LoaderInv, TypeOK
    <3>4. \A j \in Keys : Live(j)' = Live(j)
      BY <2>3, <3>2, <3>3, EntryAssumption DEF Live
    <3>5. QED
      BY <3>2, <3>3, <3>4 DEF Visible
  <2>4. QED
    BY <2>1, <2>2, <2>3
<1>2. QED
  BY <1>1 DEF Abstract!vars

LEMMA RefinesApplication ==
  ASSUME LoaderInv, Environment
  PROVE  Abstract!Next \/ UNCHANGED Abstract!vars
<1>1. CASE Update
  <2>1. src' \in Versions /\ src' > src /\ UNCHANGED floor
    BY <1>1, BoundAssumption DEF Update, LoaderInv, TypeOK, Versions
  <2>2. Visible' = Visible
    BY <1>1 DEF Update, Visible, Live
  <2>3. Abstract!Update
    BY <2>1, <2>2 DEF Abstract!Update, Abstract!Versions, Versions
  <2>4. QED
    BY <2>3 DEF Abstract!Next
<1>2. CASE Clear
  <2>1. Visible' = [k \in Keys |-> None]
    BY <1>2 DEF Clear, Visible, Live
  <2>2. Abstract!Invalidate(Keys)
    BY <1>2, <2>1 DEF Clear, Abstract!Invalidate
  <2>3. QED
    BY <2>2 DEF Abstract!Next
<1>3. ASSUME NEW k \in Keys, Delete(k) PROVE Abstract!Next
  <2>1. items' = [items EXCEPT ![k] = None] /\ floor' = [floor EXCEPT ![k] = src] /\ src' = src
    BY <1>3 DEF Delete, Drop
  <2>2. Visible' = [j \in Keys |-> IF j \in {k} THEN None ELSE Visible[j]]
    BY <2>1 DEF Visible, Live, LoaderInv, TypeOK
  <2>3. floor' = [j \in Keys |-> IF j \in {k} THEN src ELSE floor[j]]
    BY <2>1 DEF LoaderInv, TypeOK
  <2>4. Abstract!Invalidate({k})
    BY <2>1, <2>2, <2>3 DEF Abstract!Invalidate
  <2>5. QED
    BY <2>4 DEF Abstract!Next
<1>4. ASSUME NEW k \in Keys, NEW neg \in BOOLEAN, Set(k, neg) PROVE Abstract!Next
  <2>1. Visible' = [Visible EXCEPT ![k] = [ver |-> src, neg |-> neg]]
    BY <1>4, VisibleStore DEF Set, Store, LoaderInv, TypeOK
  <2>2. Abstract!Write(k, neg)
    BY <1>4, <2>1 DEF Set, Abstract!Write
  <2>3. QED
    BY <2>2 DEF Abstract!Next
<1>5. ASSUME NEW k \in Keys, Age(k) PROVE UNCHANGED Abstract!vars
  BY <1>5, RefinesStutter DEF Age, Live
<1>6. ASSUME NEW k \in Keys, Sweep(k) PROVE UNCHANGED Abstract!vars
  BY <1>6, RefinesStutter DEF Sweep
<1>7. ASSUME NEW k \in Keys, Live(k), Expire(k) \/ Evict(k) PROVE Abstract!Next
  <2>1. ~Live(k)' /\ \A j \in Keys : j # k => items'[j] = items[j]
    BY <1>7 DEF Expire, Evict, Drop, Live, LoaderInv, TypeOK, Entries
  <2>2. Visible' = [j \in Keys |-> IF j = k THEN None ELSE Visible[j]]
    BY <2>1 DEF Visible, Live
  <2>3. Visible[k] # None
    <3>1. Visible[k] = [ver |-> items[k].ver, neg |-> items[k].neg]
      BY <1>7 DEF Visible
    <3>2. items[k].ver \in Versions /\ items[k].neg \in BOOLEAN
      BY <1>7 DEF Live, LoaderInv, TypeOK, Entries
    <3>3. QED
      BY <3>1, <3>2, EntryAssumption
  <2>4. Abstract!Forget(k)
    BY <1>7, <2>2, <2>3 DEF Expire, Evict, Abstract!Forget, Visible
  <2>5. QED
    BY <2>4 DEF Abstract!Next
<1>8. ASSUME NEW k \in Keys, ~Live(k), Expire(k) \/ Evict(k) PROVE UNCHANGED Abstract!vars
  BY <1>8, RefinesStutter DEF Expire, Evict, Live, Expired
<1>9. QED
  BY <1>1, <1>2, <1>3, <1>4, <1>5, <1>6, <1>7, <1>8 DEF Environment

LEMMA RefinesFlight ==
  ASSUME LoaderInv, NEW f \in Flights, FlightStep(f)
  PROVE  Abstract!Next \/ UNCHANGED Abstract!vars
<1>1. CASE Publish(f) /\ f \in valid
  <2> DEFINE k == call[f].key
             v == call[f].ver
             neg == call[f].outcome = "absent"
  <2>1. k \in Keys /\ v \in Versions /\ neg \in BOOLEAN /\ floor[k] <= v /\ v <= src
    BY <1>1 DEF Publish, LoaderInv, TypeOK, ValidFresh, Returned, Calls
  <2>2. items' = [items EXCEPT ![k] = [ver |-> v, neg |-> neg, age |-> "fresh"]]
        /\ UNCHANGED <<src, floor>>
    BY <1>1 DEF Publish, Store
  <2> HIDE DEF k, v, neg
  <2>3. Visible' = [Visible EXCEPT ![k] = [ver |-> v, neg |-> neg]]
    BY <2>1, <2>2, VisibleStore
  <2>4. Abstract!Fill(k, v, neg)
    BY <2>1, <2>2, <2>3 DEF Abstract!Fill
  <2>5. QED
    BY <2>1, <2>4 DEF Abstract!Next, Abstract!Versions, Versions
<1>2. CASE ~(Publish(f) /\ f \in valid)
  <2>1. UNCHANGED <<src, floor, items>>
    BY <1>2 DEF FlightStep, Publish, LoaderReturns, Finish, Exit, storeVars
  <2>2. QED
    BY <2>1, RefinesStutter
<1>3. QED
  BY <1>1, <1>2

LEMMA RefinesCaller ==
  ASSUME LoaderInv, NEW c \in Callers, CallerStep(c)
  PROVE  UNCHANGED Abstract!vars
<1>1. UNCHANGED <<src, floor>>
  BY DEF CallerStep, Hit, Miss, Join, BeginLoad, StartRefresh, RecheckHit, RecheckMiss,
         RecheckExpired, StartExpired, Start, SkipRefresh, Collect, Leave, Cancel, storeVars
<1>2. ASSUME NEW k \in Keys, Hit(c, k) PROVE UNCHANGED Abstract!vars
  BY <1>1, <1>2, RefinesStutter DEF Hit, Live
<1>3. ASSUME NEW k \in Keys, ~Live(k), DropExpired(k) PROVE UNCHANGED Abstract!vars
  <2>1. UNCHANGED items \/ (Expired(k) /\ Drop(k))
    BY <1>3 DEF DropExpired, Drop, Live, Expired, LoaderInv, TypeOK
  <2>2. QED
    BY <1>1, <2>1, RefinesStutter
<1>4. CASE \E k \in Keys : Miss(c, k)
  BY <1>3, <1>4 DEF Miss
<1>5. CASE RecheckMiss(c)
  <2>1. wants[c] \in Keys /\ ~Live(wants[c]) /\ DropExpired(wants[c])
    BY <1>5 DEF RecheckMiss, DropExpired, LoaderInv, CallerInv
  <2>2. QED
    BY <1>3, <2>1
<1>6. CASE StartExpired(c) /\ Expired(wants[c])
  <2>1. wants[c] \in Keys /\ ~Live(wants[c]) /\ DropExpired(wants[c])
    BY <1>6 DEF StartExpired, Expired, Live, LoaderInv, CallerInv
  <2>2. QED
    BY <1>3, <2>1
<1>7. CASE UNCHANGED items
  BY <1>1, <1>7, RefinesStutter
<1>8. QED
  BY <1>2, <1>4, <1>5, <1>6, <1>7
     DEF CallerStep, Join, BeginLoad, StartRefresh, RecheckHit, RecheckExpired, StartExpired,
         SkipRefresh, Collect, Leave, Cancel, storeVars

\* Whatever interleaving of lookups, loads, writes and invalidations, what lookups
\* see moves only as FreshCache lets it: Sets, Deletes, Clears, loads that read the
\* source after the last of those, and entries that leave.
THEOREM Refinement == Spec => ImplementsFreshCache
<1>1. LoaderInv /\ [Next]_vars => [Abstract!Next]_(Abstract!vars)
  <2> SUFFICES ASSUME LoaderInv, [Next]_vars PROVE Abstract!Next \/ UNCHANGED Abstract!vars
    OBVIOUS
  <2>1. CASE Next
    BY <2>1, RefinesApplication, RefinesFlight, RefinesCaller DEF Next
  <2>2. CASE UNCHANGED vars
    BY <2>2, RefinesStutter DEF vars, storeVars
  <2>3. QED
    BY <2>1, <2>2
<1>2. QED
  BY <1>1, RefinesInit, Invariance, PTL DEF Spec, ImplementsFreshCache, Abstract!Spec

=============================================================================
