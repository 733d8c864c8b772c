------------------------- MODULE LoaderFlightsProofs ------------------------
(***************************************************************************)
(* More proofs about Loader, on top of its inductive invariant: the        *)
(* counting of waiters, the one load of a key, its cancellation, tokens,   *)
(* and what is stored when a call returns.  They too hold for every set of *)
(* keys and call objects, and every finite set of callers.                 *)
(***************************************************************************)
EXTENDS LoaderProofs, FiniteSetTheorems

-----------------------------------------------------------------------------
(* Counting who waits.                                                     *)

Waiters(f) == {c \in Callers : Waiting(c, f)}

LEMMA WaitersFinite == ASSUME NEW f PROVE IsFiniteSet(Waiters(f))
  BY CallersAssumption, FS_Subset DEF Waiters

LEMMA WaitersType == ASSUME NEW f PROVE Cardinality(Waiters(f)) \in Nat
  BY WaitersFinite, FS_CardinalityType

LEMMA NoWaiters ==
  ASSUME NEW f, Cardinality(Waiters(f)) = 0, NEW c \in Callers PROVE ~Waiting(c, f)
  BY WaitersFinite, FS_EmptySet DEF Waiters

LEMMA NobodyWaits ==
  ASSUME NEW f, \A c \in Callers : ~Waiting(c, f) PROVE Cardinality(Waiters(f)) = 0
<1>1. Waiters(f) = {}
  BY DEF Waiters
<1>2. QED
  BY <1>1, FS_EmptySet

LEMMA SameWaiters ==
  ASSUME NEW f, \A c \in Callers : Waiting(c, f)' <=> Waiting(c, f)
  PROVE  Waiters(f)' = Waiters(f)
  BY DEF Waiters

LEMMA OneMore ==
  ASSUME NEW f, NEW c \in Callers, ~Waiting(c, f), Waiting(c, f)',
         \A d \in Callers : d # c => (Waiting(d, f)' <=> Waiting(d, f))
  PROVE  Cardinality(Waiters(f)') = Cardinality(Waiters(f)) + 1
<1>1. Waiters(f)' = Waiters(f) \cup {c} /\ c \notin Waiters(f)
  BY DEF Waiters
<1>2. QED
  BY <1>1, WaitersFinite, FS_AddElement

LEMMA OneLess ==
  ASSUME NEW f, NEW c \in Callers, Waiting(c, f), ~Waiting(c, f)',
         \A d \in Callers : d # c => (Waiting(d, f)' <=> Waiting(d, f))
  PROVE  Cardinality(Waiters(f)') = Cardinality(Waiters(f)) - 1
<1>1. Waiters(f)' = Waiters(f) \ {c} /\ c \in Waiters(f)
  BY DEF Waiters
<1>2. QED
  BY <1>1, WaitersFinite, FS_RemoveElement

LEMMA CountOf ==
  ASSUME WaitersCounted, NEW f \in Flights, Unfinished(f)
  PROVE  call[f].waiters = Cardinality(Waiters(f)) + (IF call[f].refresh THEN 1 ELSE 0)
  BY DEF WaitersCounted, Waiters

\* It is enough to count the waiters of what is unfinished after a step.
LEMMA CountsKept ==
  ASSUME WaitersCounted,
         \A f \in Flights : Unfinished(f)' =>
            \/ /\ Unfinished(f) /\ call'[f].waiters = call[f].waiters
               /\ call'[f].refresh = call[f].refresh
               /\ \A c \in Callers : Waiting(c, f)' <=> Waiting(c, f)
            \/ call'[f].waiters = Cardinality(Waiters(f)') + (IF call'[f].refresh THEN 1 ELSE 0)
  PROVE  WaitersCounted'
<1> SUFFICES ASSUME NEW f \in Flights, Unfinished(f)'
             PROVE  call'[f].waiters = Cardinality(Waiters(f)') + (IF call'[f].refresh THEN 1 ELSE 0)
  BY DEF WaitersCounted, Waiters
<1>1. CASE /\ Unfinished(f) /\ call'[f].waiters = call[f].waiters
           /\ call'[f].refresh = call[f].refresh
           /\ \A c \in Callers : Waiting(c, f)' <=> Waiting(c, f)
  BY <1>1, CountOf, SameWaiters
<1>2. QED
  BY <1>1

-----------------------------------------------------------------------------
LEMMA FlightsInit == Init => FlightsInv
<1> SUFFICES ASSUME Init PROVE FlightsInv
  OBVIOUS
<1>1. WaitersCounted
  BY DEF Init, WaitersCounted, Unfinished, NoCall
<1>2. QED
  BY <1>1 DEF Init, FlightsInv, TokensTracked, Begun, GroupWanted, WantedGrouped, CancelInv,
     LockedInv, Unstored, NoCall, Unfinished

(* Steps of time and of the application.                                   *)

LEMMA FadeFlights ==
  ASSUME LoaderInv, FlightsInv, \A k \in Keys : Live(k)' => Live(k),
         UNCHANGED <<loads, valid, flightVars, callerVars>>
  PROVE  FlightsInv'
<1> USE DEF flightVars, callerVars
<1>1. WaitersCounted'
  BY CountsKept DEF FlightsInv, Waiting, Unfinished
<1>2. LockedInv'
  BY DEF FlightsInv, LockedInv, Joinable, LoaderInv, CallerInv
<1>3. QED
  BY <1>1, <1>2 DEF FlightsInv, TokensTracked, Begun, GroupWanted, WantedGrouped, CancelInv,
     Unstored, Unfinished

\* Where a token is valid, its key was not invalidated.
LEMMA InvalidateFlights ==
  ASSUME LoaderInv, FlightsInv, NEW ks \in SUBSET Keys, InvalidateLoads(ks),
         \A k \in Keys \ ks : Live(k)' => Live(k),
         UNCHANGED <<flightVars, callerVars>>
  PROVE  FlightsInv'
<1> USE DEF flightVars, callerVars
<1>1. /\ valid' = {f \in valid : call[f].key \notin ks}
      /\ \A k \in Keys : loads'[k] = IF k \in ks THEN {} ELSE loads[k]
  BY DEF InvalidateLoads, FlightsInv, TokensTracked, LoaderInv, TypeOK, ValidFresh
<1>2. TokensTracked'
  BY <1>1 DEF FlightsInv, TokensTracked
<1>3. WaitersCounted'
  BY CountsKept DEF FlightsInv, Waiting, Unfinished
<1>4. WantedGrouped' /\ Unstored'
  BY <1>1 DEF FlightsInv, WantedGrouped, Unstored, Unfinished
<1>5. LockedInv'
  BY <1>1 DEF FlightsInv, LockedInv, Joinable, LoaderInv, CallerInv
<1>6. QED
  BY <1>2, <1>3, <1>4, <1>5 DEF FlightsInv, Begun, GroupWanted, CancelInv, Unfinished

LEMMA EnvironmentFlights == ASSUME LoaderInv, FlightsInv, Environment PROVE FlightsInv'
<1>1. CASE Update
  BY <1>1, FadeFlights DEF Update, Live
<1>2. CASE Clear
  BY <1>2, InvalidateFlights DEF Clear
<1>3. ASSUME NEW k \in Keys, NEW neg \in BOOLEAN, Set(k, neg) PROVE FlightsInv'
  <2>1. \A j \in Keys \ {k} : Live(j)' => Live(j)
    BY <1>3 DEF Set, Store, Live, LoaderInv, TypeOK
  <2>2. InvalidateLoads({k}) /\ UNCHANGED <<flightVars, callerVars>>
    BY <1>3 DEF Set, Store
  <2>3. QED
    BY <2>1, <2>2, InvalidateFlights
<1>4. ASSUME NEW k \in Keys, Delete(k) PROVE FlightsInv'
  <2>1. \A j \in Keys \ {k} : Live(j)' => Live(j)
    BY <1>4 DEF Delete, Drop, Live, LoaderInv, TypeOK
  <2>2. InvalidateLoads({k}) /\ UNCHANGED <<flightVars, callerVars>>
    BY <1>4 DEF Delete
  <2>3. QED
    BY <2>1, <2>2, InvalidateFlights
<1>5. ASSUME NEW k \in Keys, Age(k) \/ Expire(k) \/ Sweep(k) \/ Evict(k) PROVE FlightsInv'
  <2>1. \A j \in Keys : Live(j)' => Live(j)
    BY <1>5 DEF Age, Expire, Sweep, Evict, Drop, Live, Expired, LoaderInv, TypeOK, Entries
  <2>2. UNCHANGED <<loads, valid, flightVars, callerVars>>
    BY <1>5 DEF Age, Expire, Sweep, Evict
  <2>3. QED
    BY <2>1, <2>2, FadeFlights
<1>6. QED
  BY <1>1, <1>2, <1>3, <1>4, <1>5 DEF Environment

-----------------------------------------------------------------------------
(* Steps of a caller.                                                      *)

\* A caller that goes elsewhere, and was not waiting for a load that still runs.
LEMMA QuietFlights ==
  ASSUME LoaderInv, FlightsInv, NEW c \in Callers,
         \A k \in Keys : Live(k)' => Live(k),
         UNCHANGED <<loads, valid, group, call>>,
         \A f \in cancelled' : \/ f \in cancelled
                               \/ /\ call[f].state \notin {"spare", "begun"}
                                  /\ Unfinished(f) => call[f].waiters = 0,
         \A d \in Callers : d # c =>
            pc'[d] = pc[d] /\ wants'[d] = wants[d] /\ flight'[d] = flight[d],
         pc'[c] \in {"idle", "load", "refresh"},
         pc[c] = "wait" => ~Unfinished(flight[c])
  PROVE  FlightsInv'
<1>1. WaitersCounted'
  <2>1. ASSUME NEW f \in Flights, Unfinished(f), NEW d \in Callers
        PROVE  Waiting(d, f)' <=> Waiting(d, f)
    BY <2>1 DEF Waiting
  <2>2. QED
    BY <2>1, CountsKept DEF FlightsInv, Unfinished
<1>2. CancelInv'
  BY DEF FlightsInv, CancelInv, Unfinished
<1>3. LockedInv'
  BY DEF FlightsInv, LockedInv, Joinable, LoaderInv, CallerInv
<1>4. QED
  BY <1>1, <1>2, <1>3 DEF FlightsInv, TokensTracked, Begun, GroupWanted, WantedGrouped,
     Unstored, Unfinished

LEMMA LookupFlights ==
  ASSUME LoaderInv, FlightsInv, NEW c \in Callers, NEW k \in Keys, Hit(c, k) \/ Miss(c, k)
  PROVE  FlightsInv'
<1>1. \A j \in Keys : Live(j)' => Live(j)
  BY DEF Hit, Miss, DropExpired, Drop, Live, LoaderInv, TypeOK, Entries
<1>2. /\ UNCHANGED <<loads, valid, group, call, cancelled>>
      /\ pc'[c] \in {"idle", "load", "refresh"} /\ pc[c] # "wait"
      /\ \A d \in Callers : d # c =>
            pc'[d] = pc[d] /\ wants'[d] = wants[d] /\ flight'[d] = flight[d]
  BY DEF Hit, Miss, flightVars, LoaderInv, TypeOK
<1>3. QED
  BY <1>1, <1>2, QuietFlights

LEMMA CollectFlights ==
  ASSUME LoaderInv, FlightsInv, NEW c \in Callers, SkipRefresh(c) \/ Collect(c) \/ Cancel(c)
  PROVE  FlightsInv'
<1>1. /\ UNCHANGED <<storeVars, group, call>>
      /\ pc'[c] \in {"idle", "load", "refresh"}
      /\ \A d \in Callers : d # c =>
            pc'[d] = pc[d] /\ wants'[d] = wants[d] /\ flight'[d] = flight[d]
  BY DEF SkipRefresh, Collect, Cancel, Return, flightVars, LoaderInv, TypeOK
<1>2. pc[c] = "wait" => ~Unfinished(flight[c])
  BY DEF SkipRefresh, Collect, Cancel, Unfinished
<1>3. \A f \in cancelled' : \/ f \in cancelled
                            \/ /\ call[f].state \notin {"spare", "begun"}
                               /\ Unfinished(f) => call[f].waiters = 0
  <2>1. CASE Cancel(c)
    BY <2>1 DEF Cancel, FlightsInv, CancelInv, LoaderInv, CallerInv
  <2>2. CASE ~Cancel(c)
    BY <2>2 DEF SkipRefresh, Collect, flightVars
  <2>3. QED
    BY <2>1, <2>2
<1>4. \A j \in Keys : Live(j)' => Live(j)
  BY <1>1 DEF storeVars, Live
<1>5. QED
  BY <1>1, <1>2, <1>3, <1>4, QuietFlights DEF storeVars

\* The flight joined is wanted, and so neither cancelled nor about to be.
LEMMA JoinFlights ==
  ASSUME LoaderInv, FlightsInv, NEW c \in Callers, Join(c) PROVE FlightsInv'
<1> PICK f \in Flights : f = group[wants[c]]
  BY DEF Join, Joinable, LoaderInv, TypeOK, CallerInv
<1>1. /\ wants[c] \in Keys /\ f = group[wants[c]] /\ Unfinished(f) /\ pc[c] = "load"
      /\ call[f].key = wants[c] /\ call[f].waiters > 0 /\ call[f].waiters \in Int
  BY DEF LoaderInv, FlightsInv, GroupWanted, Join, Joinable, CallerInv, TypeOK, Registered, Calls
<1>2. /\ call'[f] = [call[f] EXCEPT !.waiters = call[f].waiters + 1]
      /\ \A g \in Flights : g # f => call'[g] = call[g]
      /\ pc'[c] = "wait" /\ flight'[c] = f
      /\ \A d \in Callers : d # c => pc'[d] = pc[d] /\ flight'[d] = flight[d]
      /\ UNCHANGED <<storeVars, group, holder, cancelled, wants>>
  BY <1>1 DEF Join, LoaderInv, TypeOK
<1>3. /\ call'[f].waiters = call[f].waiters + 1
      /\ \A g \in Flights : /\ call'[g].state = call[g].state /\ call'[g].key = call[g].key
                            /\ call'[g].refresh = call[g].refresh
                            /\ call'[g].outcome = call[g].outcome
  BY <1>1, <1>2 DEF LoaderInv, TypeOK, Calls
<1>4. WaitersCounted'
  <2>1. \A g \in Flights : g # f => \A d \in Callers : Waiting(d, g)' <=> Waiting(d, g)
    BY <1>1, <1>2 DEF Waiting
  <2>2. Cardinality(Waiters(f)') = Cardinality(Waiters(f)) + 1
    <3>1. ~Waiting(c, f) /\ Waiting(c, f)'
          /\ \A d \in Callers : d # c => (Waiting(d, f)' <=> Waiting(d, f))
      BY <1>1, <1>2 DEF Waiting
    <3>2. QED
      BY <3>1, OneMore
  <2>3. call'[f].waiters = Cardinality(Waiters(f)') + (IF call'[f].refresh THEN 1 ELSE 0)
    BY <1>1, <1>3, <2>2, CountOf, WaitersType DEF FlightsInv
  <2>4. QED
    BY <1>2, <1>3, <2>1, <2>3, CountsKept DEF FlightsInv, Unfinished
<1>5. CancelInv'
  BY <1>1, <1>2, <1>3 DEF FlightsInv, CancelInv, Unfinished, LoaderInv, CallerInv, TypeOK
<1>6. GroupWanted' /\ WantedGrouped' /\ Begun'
  <2>1. GroupWanted'
    <3>1. call'[f].waiters > 0 /\ group' = group
      BY <1>1, <1>2, <1>3
    <3>2. \A k \in Keys : group[k] # None => group[k] \in Flights /\ call[group[k]].waiters > 0
      BY DEF FlightsInv, GroupWanted, LoaderInv, TypeOK
    <3>3. \A k \in Keys : group[k] # None => call'[group[k]].waiters > 0
      BY <1>2, <3>1, <3>2
    <3>4. QED
      BY <3>1, <3>3 DEF GroupWanted
  <2>2. WantedGrouped'
    BY <1>1, <1>2, <1>3 DEF FlightsInv, WantedGrouped, Unfinished, LoaderInv, TypeOK, storeVars
  <2>3. Begun'
    BY <1>1, <1>2, <1>3 DEF FlightsInv, Begun, Unfinished
  <2>4. QED
    BY <2>1, <2>2, <2>3
<1>7. LockedInv'
  BY <1>1, <1>2 DEF FlightsInv, LockedInv, Joinable, Live, storeVars
<1>8. TokensTracked' /\ Unstored'
  BY <1>2, <1>3 DEF FlightsInv, TokensTracked, Unstored, storeVars, LoaderInv, TypeOK
<1>9. QED
  BY <1>4, <1>5, <1>6, <1>7, <1>8 DEF FlightsInv

LEMMA BeginLoadFlights ==
  ASSUME LoaderInv, FlightsInv, NEW c \in Callers, NEW f \in Flights, BeginLoad(c, f)
  PROVE  FlightsInv'
<1>1. /\ wants[c] \in Keys /\ pc[c] = "load" /\ holder = None
      /\ call[f].state = "spare" /\ \A b \in Callers : flight[b] # f
      /\ f \notin valid /\ f \notin cancelled /\ \A k \in Keys : group[k] # f
      /\ ~Joinable(wants[c])
  BY NoneAssumption DEF BeginLoad, LoaderInv, CallerInv, Spare, ValidFresh, Registered,
     Unfinished, FlightsInv, CancelInv
<1>2. /\ call'[f].state = "begun" /\ call'[f].key = wants[c] /\ call'[f].waiters = 1
      /\ ~call'[f].refresh
      /\ \A g \in Flights : g # f => call'[g] = call[g]
      /\ valid' = valid \cup {f}
      /\ loads' = [loads EXCEPT ![wants[c]] = loads[wants[c]] \cup {f}]
  BY DEF BeginLoad, Begin, LoaderInv, TypeOK
<1>3. /\ pc'[c] = "recheck" /\ flight'[c] = f
      /\ \A d \in Callers : d # c => pc'[d] = pc[d] /\ flight'[d] = flight[d]
      /\ UNCHANGED <<items, group, cancelled, wants>>
  BY DEF BeginLoad, LoaderInv, TypeOK
<1>4. WaitersCounted'
  <2>1. \A g \in Flights : Unfinished(g)' => /\ g # f
                                             /\ \A d \in Callers : Waiting(d, g)' <=> Waiting(d, g)
    BY <1>1, <1>2, <1>3 DEF Unfinished, Waiting
  <2>2. QED
    BY <1>2, <2>1, CountsKept DEF FlightsInv, Unfinished
<1>5. TokensTracked'
  BY <1>1, <1>2 DEF FlightsInv, TokensTracked, LoaderInv, TypeOK
<1>6. Begun' /\ GroupWanted' /\ WantedGrouped' /\ Unstored'
  BY <1>1, <1>2, <1>3 DEF FlightsInv, Begun, GroupWanted, WantedGrouped, Unstored, Unfinished,
     LoaderInv, TypeOK
<1>7. CancelInv'
  BY <1>1, <1>2, <1>3 DEF FlightsInv, CancelInv, Unfinished, LoaderInv, TypeOK, CallerInv
<1>8. LockedInv'
  <2> SUFFICES ASSUME NEW d \in Callers, pc'[d] \in {"recheck", "expired"}
               PROVE  /\ ~Joinable(wants[d])'
                      /\ pc'[d] = "expired" /\ flight'[d] \in valid' => ~Live(wants[d])'
    BY <1>3 DEF LockedInv
  <2>1. d = c
    BY <1>1, <1>3, NoneAssumption DEF LoaderInv, CallerInv
  <2>2. QED
    BY <1>1, <1>2, <1>3, <2>1 DEF Joinable
<1>9. QED
  BY <1>4, <1>5, <1>6, <1>7, <1>8 DEF FlightsInv

\* endLoad(), of a call that is not started or is over: its token is gone, and
\* nothing counts, joins or cancels it.
LEMMA EndLoadFlights ==
  ASSUME LoaderInv, FlightsInv, NEW f \in Flights, EndLoad(call[f].key, f), ~Unfinished(f),
         \A k \in Keys : group[k] # f,
         UNCHANGED <<items, group>>, cancelled' \subseteq cancelled \ {f},
         \A g \in Flights \ {f} : \A d \in Callers : Waiting(d, g)' <=> Waiting(d, g),
         \A d \in Callers : pc'[d] = "cancel" => pc[d] = "cancel" /\ flight'[d] = flight[d],
         \A d \in Callers : pc'[d] \in {"recheck", "expired"} =>
            pc'[d] = pc[d] /\ wants'[d] = wants[d] /\ flight'[d] = flight[d]
  PROVE  FlightsInv'
<1>1. /\ call'[f] = NoCall /\ \A g \in Flights : g # f => call'[g] = call[g]
      /\ valid' = valid \ {f}
      /\ loads' = [loads EXCEPT ![call[f].key] = loads[call[f].key] \ {f}]
  BY DEF EndLoad, LoaderInv, TypeOK
<1>2. WaitersCounted'
  <2>1. \A g \in Flights : Unfinished(g)' => g # f
    BY <1>1 DEF Unfinished, NoCall
  <2>2. QED
    BY <1>1, <2>1, CountsKept DEF FlightsInv, Unfinished
<1>3. TokensTracked'
  BY <1>1 DEF FlightsInv, TokensTracked, LoaderInv, TypeOK
<1>4. Begun' /\ GroupWanted' /\ WantedGrouped' /\ Unstored'
  BY <1>1 DEF FlightsInv, Begun, GroupWanted, WantedGrouped, Unstored, Unfinished, NoCall,
     LoaderInv, TypeOK
<1>5. CancelInv'
  BY <1>1 DEF FlightsInv, CancelInv, Unfinished, NoCall, LoaderInv, TypeOK, CallerInv
<1>6. LockedInv'
  BY <1>1 DEF FlightsInv, LockedInv, Joinable, Live
<1>7. QED
  BY <1>2, <1>3, <1>4, <1>5, <1>6 DEF FlightsInv

\* The caller that holds g.mu is alone to know of its call.
LEMMA HolderAlone ==
  ASSUME LoaderInv, NEW c \in Callers, pc[c] \in {"recheck", "expired"}
  PROVE  /\ flight[c] \in Flights /\ call[flight[c]].state = "begun"
         /\ wants[c] \in Keys /\ call[flight[c]].key = wants[c]
         /\ \A k \in Keys : group[k] # flight[c]
         /\ \A d \in Callers : ~Waiting(d, flight[c])
         /\ \A d \in Callers : d # c => pc[d] \notin {"recheck", "expired"}
<1>1. /\ flight[c] \in Flights /\ holder = c /\ call[flight[c]].state = "begun"
      /\ wants[c] \in Keys /\ call[flight[c]].key = wants[c]
  BY DEF LoaderInv, CallerInv
<1>2. \A k \in Keys : group[k] # flight[c]
  BY <1>1, NoneAssumption DEF LoaderInv, Registered, Unfinished
<1>3. \A d \in Callers : ~Waiting(d, flight[c])
  BY <1>1 DEF LoaderInv, CallerInv, Waiting
<1>4. \A d \in Callers : d # c => pc[d] \notin {"recheck", "expired"}
  BY <1>1 DEF LoaderInv, CallerInv
<1>5. QED
  BY <1>1, <1>2, <1>3, <1>4

LEMMA RecheckHitFlights ==
  ASSUME LoaderInv, FlightsInv, NEW c \in Callers, RecheckHit(c) PROVE FlightsInv'
<1> DEFINE f == flight[c]
<1>1. /\ pc[c] = "recheck" /\ f \in Flights /\ call[f].state = "begun" /\ ~Unfinished(f)
      /\ call[f].key = wants[c] /\ \A k \in Keys : group[k] # f
  BY HolderAlone DEF RecheckHit, Unfinished
<1>2. f \notin cancelled
  BY <1>1 DEF FlightsInv, CancelInv
<1>3. /\ EndLoad(call[f].key, f) /\ UNCHANGED <<items, group, cancelled>>
      /\ pc'[c] = "idle"
      /\ \A d \in Callers : d # c =>
            pc'[d] = pc[d] /\ wants'[d] = wants[d] /\ flight'[d] = flight[d]
  BY <1>1 DEF RecheckHit, Return, LoaderInv, TypeOK
<1>4. \A g \in Flights \ {f} : \A d \in Callers : Waiting(d, g)' <=> Waiting(d, g)
  BY <1>1, <1>3 DEF Waiting
<1>5. /\ \A d \in Callers : pc'[d] = "cancel" => pc[d] = "cancel" /\ flight'[d] = flight[d]
      /\ \A d \in Callers : pc'[d] \in {"recheck", "expired"} =>
            pc'[d] = pc[d] /\ wants'[d] = wants[d] /\ flight'[d] = flight[d]
      /\ cancelled' \subseteq cancelled \ {f}
  BY <1>2, <1>3
<1>6. QED
  BY <1>1, <1>3, <1>4, <1>5, EndLoadFlights

LEMMA RecheckExpiredFlights ==
  ASSUME LoaderInv, FlightsInv, NEW c \in Callers, RecheckExpired(c) PROVE FlightsInv'
<1>1. /\ pc[c] = "recheck" /\ ~Live(wants[c])
      /\ pc'[c] = "expired" /\ \A d \in Callers : d # c => pc'[d] = pc[d]
      /\ UNCHANGED <<storeVars, flightVars, wants, flight>>
  BY DEF RecheckExpired, Expired, Live, LoaderInv, TypeOK
<1> USE DEF storeVars, flightVars
<1>2. WaitersCounted'
  BY <1>1, CountsKept DEF FlightsInv, Waiting, Unfinished
<1>3. LockedInv'
  BY <1>1 DEF FlightsInv, LockedInv, Joinable, Live
<1>4. CancelInv'
  BY <1>1 DEF FlightsInv, CancelInv, Unfinished
<1>5. QED
  BY <1>1, <1>2, <1>3, <1>4 DEF FlightsInv, TokensTracked, Begun, GroupWanted, WantedGrouped,
     Unstored, Unfinished


\* startAndUnlock(): what holds g.mu saw no load to join, so that the one it starts
\* is the only one wanted.
LEMMA StartFlights ==
  ASSUME LoaderInv, FlightsInv, NEW c \in Callers, pc[c] \in {"recheck", "expired"}, Start(c)
  PROVE  FlightsInv'
<1> PICK f \in Flights : f = flight[c]
  BY HolderAlone
<1> PICK k \in Keys : k = wants[c]
  BY HolderAlone
<1>1. /\ call[f].state = "begun" /\ call[f].key = k /\ call[f].waiters = 1 /\ ~call[f].refresh
      /\ \A j \in Keys : group[j] # f
      /\ \A d \in Callers : ~Waiting(d, f)
      /\ \A d \in Callers : d # c => pc[d] \notin {"recheck", "expired"}
      /\ ~Joinable(k) /\ f \notin cancelled
  BY HolderAlone DEF FlightsInv, Begun, LockedInv, CancelInv
<1>2. /\ call' = [call EXCEPT ![f].state = "running"]
      /\ pc' = [pc EXCEPT ![c] = "wait"] /\ group' = [group EXCEPT ![k] = f]
      /\ UNCHANGED <<loads, valid, cancelled, wants, flight>>
  BY DEF Start
<1>3. /\ call'[f].state = "running" /\ call'[f].key = k /\ call'[f].waiters = 1
      /\ ~call'[f].refresh /\ call'[f].outcome = call[f].outcome
      /\ \A g \in Flights : g # f => call'[g] = call[g]
  BY <1>1, <1>2 DEF LoaderInv, TypeOK, Calls
<1>4. /\ pc'[c] = "wait" /\ \A d \in Callers : d # c => pc'[d] = pc[d]
      /\ group'[k] = f /\ \A j \in Keys : j # k => group'[j] = group[j]
  BY <1>2 DEF LoaderInv, TypeOK
<1>5. WaitersCounted'
  <2>1. \A g \in Flights : g # f => \A d \in Callers : Waiting(d, g)' <=> Waiting(d, g)
    BY <1>1, <1>2, <1>4 DEF Waiting
  <2>2. ~Waiting(c, f) /\ Waiting(c, f)'
        /\ \A d \in Callers : d # c => (Waiting(d, f)' <=> Waiting(d, f))
    BY <1>1, <1>2, <1>4 DEF Waiting
  <2>3. call'[f].waiters = Cardinality(Waiters(f)') + (IF call'[f].refresh THEN 1 ELSE 0)
    BY <1>1, <1>3, <2>2, OneMore, NobodyWaits
  <2>4. QED
    BY <1>3, <2>1, <2>3, CountsKept DEF FlightsInv, Unfinished
<1>6. TokensTracked' /\ Begun' /\ Unstored'
  BY <1>1, <1>2, <1>3 DEF FlightsInv, TokensTracked, Begun, Unstored
<1>7. GroupWanted'
  BY <1>1, <1>3, <1>4 DEF FlightsInv, GroupWanted, LoaderInv, TypeOK
<1>8. WantedGrouped'
  <2> SUFFICES ASSUME NEW g \in Flights, g # f, g \in valid, Unfinished(g), call[g].waiters > 0
               PROVE  group'[call[g].key] = g
    BY <1>2, <1>3, <1>4 DEF WantedGrouped, Unfinished
  <2>1. group[call[g].key] = g /\ call[g].key \in Keys
    BY DEF FlightsInv, WantedGrouped, LoaderInv, ValidFresh
  <2>2. call[g].key # k
    BY <1>1, <2>1, NoneAssumption DEF Joinable
  <2>3. QED
    BY <1>4, <2>1, <2>2
<1>9. CancelInv'
  BY <1>1, <1>2, <1>3, <1>4 DEF FlightsInv, CancelInv, Unfinished, LoaderInv, TypeOK, CallerInv
<1>10. LockedInv'
  BY <1>1, <1>4 DEF LockedInv
<1>11. QED
  BY <1>5, <1>6, <1>7, <1>8, <1>9, <1>10 DEF FlightsInv

LEMMA RecheckFlights ==
  ASSUME LoaderInv, FlightsInv, NEW c \in Callers,
         RecheckMiss(c) \/ RecheckExpired(c) \/ StartExpired(c)
  PROVE  FlightsInv'
  BY StartFlights, RecheckExpiredFlights DEF RecheckMiss, StartExpired

LEMMA StartRefreshFlights ==
  ASSUME LoaderInv, FlightsInv, NEW c \in Callers, NEW f \in Flights, StartRefresh(c, f)
  PROVE  FlightsInv'
<1> PICK k \in Keys : k = wants[c]
  BY DEF LoaderInv, CallerInv, StartRefresh
<1>1. /\ pc[c] = "refresh" /\ holder = None /\ ~Joinable(k)
      /\ call[f].state = "spare" /\ \A b \in Callers : flight[b] # f
      /\ f \notin valid /\ f \notin cancelled /\ \A j \in Keys : group[j] # f
  BY NoneAssumption DEF StartRefresh, LoaderInv, Spare, ValidFresh, Registered,
     Unfinished, FlightsInv, CancelInv
<1>2. /\ call'[f].state = "running" /\ call'[f].key = k /\ call'[f].waiters = 1
      /\ call'[f].refresh
      /\ \A g \in Flights : g # f => call'[g] = call[g]
      /\ valid' = valid \cup {f}
      /\ loads' = [loads EXCEPT ![k] = loads[k] \cup {f}]
  BY DEF StartRefresh, Begin, LoaderInv, TypeOK
<1>3. /\ pc'[c] = "idle" /\ flight'[c] = None
      /\ \A d \in Callers : d # c => pc'[d] = pc[d] /\ flight'[d] = flight[d]
      /\ group'[k] = f /\ \A j \in Keys : j # k => group'[j] = group[j]
      /\ UNCHANGED cancelled
  BY DEF StartRefresh, Return, LoaderInv, TypeOK
<1>4. WaitersCounted'
  <2>1. \A g \in Flights : g # f => \A d \in Callers : Waiting(d, g)' <=> Waiting(d, g)
    BY <1>1, <1>3, NoneAssumption DEF Waiting
  <2>2. \A d \in Callers : ~Waiting(d, f) /\ ~Waiting(d, f)'
    BY <1>1, <1>3, NoneAssumption DEF Waiting
  <2>3. Cardinality(Waiters(f)') = 0
    BY <2>2, NobodyWaits, SameWaiters
  <2>4. call'[f].waiters = Cardinality(Waiters(f)') + (IF call'[f].refresh THEN 1 ELSE 0)
    BY <1>2, <2>3
  <2>5. QED
    BY <1>2, <2>1, <2>4, CountsKept DEF FlightsInv, Unfinished
<1>5. TokensTracked'
  BY <1>1, <1>2 DEF FlightsInv, TokensTracked, LoaderInv, TypeOK
<1>6. Begun' /\ Unstored'
  BY <1>2 DEF FlightsInv, Begun, Unstored, LoaderInv, TypeOK
<1>7. GroupWanted'
  BY <1>1, <1>2, <1>3 DEF FlightsInv, GroupWanted, LoaderInv, TypeOK
<1>8. WantedGrouped'
  <2> SUFFICES ASSUME NEW g \in Flights, g # f, g \in valid, Unfinished(g), call[g].waiters > 0
               PROVE  group'[call[g].key] = g
    BY <1>2, <1>3 DEF WantedGrouped, Unfinished
  <2>1. group[call[g].key] = g /\ call[g].key \in Keys
    BY DEF FlightsInv, WantedGrouped, LoaderInv, ValidFresh
  <2>2. call[g].key # k
    BY <1>1, <2>1, NoneAssumption DEF Joinable
  <2>3. QED
    BY <1>3, <2>1, <2>2
<1>9. CancelInv'
  BY <1>1, <1>2, <1>3 DEF FlightsInv, CancelInv, Unfinished, LoaderInv, TypeOK, CallerInv
<1>10. LockedInv'
  BY <1>1, <1>3, NoneAssumption DEF LockedInv, LoaderInv, CallerInv
<1>11. QED
  BY <1>4, <1>5, <1>6, <1>7, <1>8, <1>9, <1>10 DEF FlightsInv

\* A caller that gives up is counted out; the last one takes its load out of the
\* group, where nobody can join it any more.
LEMMA LeaveFlights == ASSUME LoaderInv, FlightsInv, NEW c \in Callers, Leave(c) PROVE FlightsInv'
<1> PICK f \in Flights : f = flight[c]
  BY DEF Leave, LoaderInv, CallerInv
<1>1. /\ pc[c] = "wait" /\ call[f].state \notin {"spare", "begun"} /\ holder = None
      /\ call[f].waiters \in Int
  BY DEF Leave, LoaderInv, CallerInv, TypeOK, Calls
<1>2. call' = [call EXCEPT ![f].waiters = call[f].waiters - 1]
      /\ UNCHANGED <<storeVars, holder, cancelled>>
  BY DEF Leave
<1>3. /\ call'[f].waiters = call[f].waiters - 1
      /\ \A g \in Flights : g # f => call'[g] = call[g]
      /\ \A g \in Flights : /\ call'[g].state = call[g].state /\ call'[g].key = call[g].key
                            /\ call'[g].refresh = call[g].refresh
                            /\ call'[g].outcome = call[g].outcome
  BY <1>2 DEF LoaderInv, TypeOK, Calls
<1>4. /\ pc'[c] \in {"idle", "cancel"} /\ (pc'[c] = "cancel" => flight'[c] = f)
      /\ \A d \in Callers : d # c => pc'[d] = pc[d] /\ flight'[d] = flight[d]
      /\ (LastWaiter(f) <=> pc'[c] = "cancel")
  BY DEF Leave, Return, LoaderInv, TypeOK
<1>5. \/ LastWaiter(f) /\ \A j \in Keys : group'[j] = IF j = call[f].key /\ group[j] = f
                                                      THEN None ELSE group[j]
      \/ ~LastWaiter(f) /\ group' = group
  BY DEF Leave, DropCall
<1>6. Unfinished(f) => call[f].waiters >= 1
  BY <1>1, CountOf, WaitersType, NoWaiters DEF Waiting, FlightsInv
<1>7. WaitersCounted'
  <2>1. \A g \in Flights : g # f => \A d \in Callers : Waiting(d, g)' <=> Waiting(d, g)
    BY <1>1, <1>4 DEF Waiting
  <2>2. Waiting(c, f) /\ ~Waiting(c, f)'
        /\ \A d \in Callers : d # c => (Waiting(d, f)' <=> Waiting(d, f))
    BY <1>1, <1>4 DEF Waiting
  <2>3. Unfinished(f) =>
           call'[f].waiters = Cardinality(Waiters(f)') + (IF call'[f].refresh THEN 1 ELSE 0)
    BY <1>1, <1>3, <2>2, OneLess, CountOf, WaitersType DEF FlightsInv
  <2>4. QED
    BY <1>3, <2>1, <2>3, CountsKept DEF FlightsInv, Unfinished
<1>8. TokensTracked' /\ Begun' /\ Unstored'
  <2>1. TokensTracked' /\ Unstored'
    BY <1>2, <1>3 DEF FlightsInv, TokensTracked, Unstored, storeVars, LoaderInv, TypeOK
  <2>2. Begun'
    BY <1>1, <1>3 DEF FlightsInv, Begun
  <2>3. QED
    BY <2>1, <2>2
<1>9. GroupWanted'
  <2> SUFFICES ASSUME NEW j \in Keys, group'[j] # None PROVE call'[group'[j]].waiters > 0
    BY DEF GroupWanted
  <2>1. group'[j] = group[j] /\ group[j] \in Flights /\ call[group[j]].waiters > 0
        /\ call[group[j]].key = j
    BY <1>5 DEF FlightsInv, GroupWanted, LoaderInv, TypeOK, Registered
  <2>2. CASE group[j] = f
    BY <1>1, <1>3, <1>5, <2>1, <2>2 DEF LastWaiter
  <2>3. CASE group[j] # f
    BY <1>3, <2>1, <2>3
  <2>4. QED
    BY <2>2, <2>3
<1>10. WantedGrouped'
  <2> SUFFICES ASSUME NEW g \in Flights, g \in valid, Unfinished(g), call'[g].waiters > 0
               PROVE  group'[call[g].key] = g
    BY <1>2, <1>3 DEF WantedGrouped, Unfinished, storeVars
  <2>1. call[g].waiters > 0 /\ (g = f => ~LastWaiter(f))
    BY <1>1, <1>3 DEF LastWaiter
  <2>2. group[call[g].key] = g /\ call[g].key \in Keys
    BY <2>1 DEF FlightsInv, WantedGrouped, LoaderInv, ValidFresh
  <2>3. QED
    BY <1>5, <2>1, <2>2
<1>11. CancelInv'
  <2>1. \A g \in cancelled : g = f => ~Unfinished(f)
    BY <1>6 DEF FlightsInv, CancelInv
  <2>2. \A d \in Callers : pc[d] = "cancel" /\ flight[d] = f => ~Unfinished(f)
    BY <1>6 DEF FlightsInv, CancelInv
  <2>3. pc'[c] = "cancel" => call'[f].waiters = 0
    BY <1>3, <1>4 DEF LastWaiter
  <2>4. QED
    BY <1>1, <1>2, <1>3, <1>4, <2>1, <2>2, <2>3
       DEF FlightsInv, CancelInv, Unfinished, LoaderInv, TypeOK, CallerInv
<1>12. LockedInv'
  BY <1>1, <1>4, NoneAssumption DEF LockedInv, LoaderInv, CallerInv
<1>13. QED
  BY <1>7, <1>8, <1>9, <1>10, <1>11, <1>12 DEF FlightsInv


-----------------------------------------------------------------------------
(* Steps of a flight.                                                      *)

LEMMA LoaderReturnsFlights ==
  ASSUME LoaderInv, FlightsInv, NEW f \in Flights, NEW outcome \in AllOutcomes,
         LoaderReturns(f, outcome)
  PROVE  FlightsInv'
<1>1. /\ call[f].state = "running" /\ call'[f].state \in {"loaded", "stored"}
      /\ call'[f].state = "stored" => outcome # "ok"
      /\ call'[f].outcome = outcome /\ call'[f].key = call[f].key
      /\ call'[f].waiters = call[f].waiters /\ call'[f].refresh = call[f].refresh
      /\ \A g \in Flights : g # f => call'[g] = call[g]
      /\ UNCHANGED <<storeVars, group, holder, cancelled, callerVars>>
  BY DEF LoaderReturns, Storable, LoaderInv, TypeOK, Calls
<1> USE DEF storeVars, callerVars
<1>2. WaitersCounted'
  BY <1>1, CountsKept DEF FlightsInv, Waiting, Unfinished
<1>3. TokensTracked' /\ Begun' /\ GroupWanted' /\ WantedGrouped' /\ Unstored'
  BY <1>1 DEF FlightsInv, TokensTracked, Begun, GroupWanted, WantedGrouped, Unstored, Unfinished,
     LoaderInv, TypeOK
<1>4. CancelInv' /\ LockedInv'
  BY <1>1 DEF FlightsInv, CancelInv, LockedInv, Joinable, Live, Unfinished, LoaderInv, TypeOK,
     CallerInv
<1>5. QED
  BY <1>2, <1>3, <1>4 DEF FlightsInv

\* A store takes the load's own token away, so that the token tells it was stored.
LEMMA PublishFlights ==
  ASSUME LoaderInv, FlightsInv, NEW f \in Flights, Publish(f) PROVE FlightsInv'
<1> DEFINE k == call[f].key
<1>1. /\ call[f].state = "loaded" /\ call'[f].state = "stored"
      /\ call'[f].outcome = call[f].outcome /\ call'[f].key = call[f].key
      /\ call'[f].waiters = call[f].waiters /\ call'[f].refresh = call[f].refresh
      /\ \A g \in Flights : g # f => call'[g] = call[g]
      /\ UNCHANGED <<group, holder, cancelled, callerVars>>
  BY DEF Publish, LoaderInv, TypeOK, Calls
<1>2. \/ f \notin valid /\ UNCHANGED <<items, loads, valid>>
      \/ /\ f \in valid /\ k \in Keys
         /\ valid' = {g \in valid : call[g].key # k}
         /\ \A j \in Keys : loads'[j] = IF j = k THEN {} ELSE loads[j]
         /\ \A j \in Keys : j # k => items'[j] = items[j]
  <2>1. CASE f \notin valid
    BY <2>1 DEF Publish
  <2>2. CASE f \in valid
    <3>1. k \in Keys
      BY <2>2 DEF LoaderInv, ValidFresh
    <3>2. /\ valid' = valid \ UNION {loads[j] : j \in {k}}
          /\ loads' = [j \in Keys |-> IF j \in {k} THEN {} ELSE loads[j]]
          /\ \A j \in Keys : j # k => items'[j] = items[j]
      BY <2>2, <3>1 DEF Publish, Store, InvalidateLoads, LoaderInv, TypeOK
    <3>3. \A g \in valid : g \in loads[k] <=> call[g].key = k
      BY <3>1 DEF FlightsInv, TokensTracked, LoaderInv, TypeOK
    <3>4. QED
      BY <2>2, <3>1, <3>2, <3>3
  <2>3. QED
    BY <2>1, <2>2
<1> USE DEF callerVars
<1> HIDE DEF k
<1>3. WaitersCounted'
  BY <1>1, CountsKept DEF FlightsInv, Waiting, Unfinished
<1>4. TokensTracked'
  BY <1>1, <1>2 DEF FlightsInv, TokensTracked, k, LoaderInv, TypeOK
<1>5. Begun' /\ GroupWanted' /\ CancelInv'
  BY <1>1 DEF FlightsInv, Begun, GroupWanted, CancelInv, Unfinished, LoaderInv, TypeOK, CallerInv
<1>6. WantedGrouped' /\ Unstored'
  BY <1>1, <1>2 DEF FlightsInv, WantedGrouped, Unstored, Unfinished, LoaderInv, TypeOK, k
<1>7. LockedInv'
  BY <1>1, <1>2 DEF FlightsInv, LockedInv, Joinable, Live, LoaderInv, TypeOK, CallerInv
<1>8. QED
  BY <1>3, <1>4, <1>5, <1>6, <1>7 DEF FlightsInv

LEMMA FinishFlights ==
  ASSUME LoaderInv, FlightsInv, NEW f \in Flights, Finish(f) PROVE FlightsInv'
<1>1. /\ call[f].state = "stored" /\ call'[f].state = "done"
      /\ call'[f].outcome = call[f].outcome /\ call'[f].key = call[f].key
      /\ call'[f].waiters = call[f].waiters /\ call'[f].refresh = call[f].refresh
      /\ \A g \in Flights : g # f => call'[g] = call[g]
      /\ \A j \in Keys : group'[j] = IF j = call[f].key /\ group[j] = f THEN None ELSE group[j]
      /\ UNCHANGED <<storeVars, holder, cancelled, callerVars>>
  BY DEF Finish, DropCall, LoaderInv, TypeOK, Calls
<1> USE DEF storeVars, callerVars
<1>2. WaitersCounted'
  BY <1>1, CountsKept DEF FlightsInv, Waiting, Unfinished
<1>3. TokensTracked' /\ Begun' /\ Unstored'
  BY <1>1 DEF FlightsInv, TokensTracked, Begun, Unstored, LoaderInv, TypeOK
<1>4. GroupWanted'
  BY <1>1 DEF FlightsInv, GroupWanted, LoaderInv, TypeOK
<1>5. WantedGrouped'
  BY <1>1 DEF FlightsInv, WantedGrouped, Unfinished, LoaderInv, TypeOK, ValidFresh
<1>6. CancelInv' /\ LockedInv'
  BY <1>1 DEF FlightsInv, CancelInv, LockedInv, Joinable, Live, Unfinished, LoaderInv, TypeOK,
     CallerInv
<1>7. QED
  BY <1>2, <1>3, <1>4, <1>5, <1>6 DEF FlightsInv

LEMMA ExitFlights ==
  ASSUME LoaderInv, FlightsInv, NEW f \in Flights, Exit(f) PROVE FlightsInv'
<1>1. /\ ~Unfinished(f) /\ \A k \in Keys : group[k] # f
      /\ EndLoad(call[f].key, f) /\ UNCHANGED <<items, group, callerVars>>
      /\ cancelled' \subseteq cancelled \ {f}
  BY NoneAssumption DEF Exit, Unfinished, LoaderInv, Registered
<1>2. QED
  BY <1>1, EndLoadFlights DEF callerVars, Waiting

-----------------------------------------------------------------------------
LEMMA FlightsNext == LoaderInv /\ FlightsInv /\ [Next]_vars => FlightsInv'
<1> SUFFICES ASSUME LoaderInv, FlightsInv, [Next]_vars PROVE FlightsInv'
  OBVIOUS
<1>1. ASSUME NEW c \in Callers, CallerStep(c) PROVE FlightsInv'
  BY <1>1, LookupFlights, CollectFlights, JoinFlights, BeginLoadFlights, RecheckHitFlights,
     RecheckFlights, StartRefreshFlights, LeaveFlights DEF CallerStep
<1>2. ASSUME NEW f \in Flights, FlightStep(f) PROVE FlightsInv'
  BY <1>2, LoaderReturnsFlights, PublishFlights, FinishFlights, ExitFlights DEF FlightStep
<1>3. CASE Environment
  BY <1>3, EnvironmentFlights
<1>4. CASE UNCHANGED vars
  BY <1>4, FadeFlights DEF vars, storeVars, Live
<1>5. QED
  BY <1>1, <1>2, <1>3, <1>4 DEF Next

\* The two halves of the inductive invariant hold together in every reachable state
\* of loader.go's flight group over shard.go's tokens.
THEOREM FlightsInvariance == Spec => [](LoaderInv /\ FlightsInv)
  BY InitInv, NextInv, FlightsInit, FlightsNext, PTL DEF Spec

\* Of the loads of a key that were neither invalidated nor abandoned one runs at a
\* time, and a load that is over is not joined (loader.go, load() and finish()).
THEOREM OneLoadPerKey == Spec => []SingleFlight
<1>1. LoaderInv /\ FlightsInv => SingleFlight
  BY DEF LoaderInv, Registered, FlightsInv, WantedGrouped, SingleFlight
<1>2. QED
  BY <1>1, FlightsInvariance, PTL

\* While a load runs, waiters counts exactly the callers that wait for it, and a
\* refresh itself (loader.go, wait() and leave()).
THEOREM EveryWaiterCounted == Spec => []WaitersCounted
<1>1. LoaderInv /\ FlightsInv => WaitersCounted
  BY DEF FlightsInv
<1>2. QED
  BY <1>1, FlightsInvariance, PTL

\* No load is cancelled that a caller waits for or can still join, and no refresh
\* (loader.go, leave(), which cancels after it has let go of g.mu).
THEOREM OnlyUnwantedCancelled == Spec => []OnlyAbandonedCancelled
<1>1. ASSUME LoaderInv, FlightsInv, NEW f \in cancelled, Unfinished(f)
      PROVE  /\ ~call[f].refresh
             /\ \A c \in Callers : ~Waiting(c, f)
             /\ \A k \in Keys : group[k] # f
  <2>1. f \in Flights /\ call[f].waiters = 0
    BY <1>1 DEF LoaderInv, TypeOK, FlightsInv, CancelInv
  <2>2. Cardinality(Waiters(f)) = 0 /\ ~call[f].refresh
    BY <1>1, <2>1, CountOf, WaitersType DEF FlightsInv, LoaderInv, TypeOK, Calls
  <2>3. \A k \in Keys : group[k] # f
    BY <1>1, <2>1, NoneAssumption DEF FlightsInv, GroupWanted
  <2>4. QED
    BY <2>2, <2>3, NoWaiters
<1>2. LoaderInv /\ FlightsInv => OnlyAbandonedCancelled
  BY <1>1 DEF OnlyAbandonedCancelled
<1>3. QED
  BY <1>2, FlightsInvariance, PTL

\* A token is tracked exactly while it is valid (shard.go, beginLoad(), endLoad() and
\* invalidateLoads()), so that every invalidation reaches every load.
THEOREM TokensAlwaysTracked == Spec => []TokensTracked
<1>1. LoaderInv /\ FlightsInv => TokensTracked
  BY DEF FlightsInv
<1>2. QED
  BY <1>1, FlightsInvariance, PTL

\* A load that came to "ok" was stored, or had lost its token to a write or an
\* invalidation, when its answer is out (loader.go, run()): for loaders that return.
\* One that ends its goroutine answers without a value and stores nothing.
NoneExited == \A f \in Flights : call[f].outcome # "exited"

THEOREM StoredFirst ==
  ASSUME "exited" \notin Outcomes PROVE Spec => []StoredBeforeReturn
<1>1. Init => NoneExited
  BY DEF Init, NoneExited, NoCall
<1>2. LoaderInv /\ NoneExited /\ [Next]_vars => NoneExited'
  <2> SUFFICES ASSUME LoaderInv, NoneExited, [Next]_vars, NEW f \in Flights
               PROVE  call'[f].outcome # "exited"
    BY DEF NoneExited
  <2>1. ASSUME NEW c \in Callers, CallerStep(c) PROVE call'[f].outcome # "exited"
    BY <2>1 DEF NoneExited, LoaderInv, TypeOK, Calls, CallerStep, Hit, Miss, Join, BeginLoad,
       StartRefresh, Begin, RecheckHit, EndLoad, NoCall, RecheckMiss, RecheckExpired,
       StartExpired, Start, SkipRefresh, Collect, Leave, Cancel, flightVars
  <2>2. ASSUME NEW g \in Flights, FlightStep(g) PROVE call'[f].outcome # "exited"
    <3>1. CASE \E outcome \in AllOutcomes : LoaderReturns(g, outcome)
      <4> PICK outcome \in AllOutcomes : LoaderReturns(g, outcome)
        BY <3>1
      <4>1. outcome # "exited"
        BY DEF LoaderReturns
      <4>2. call'[g].outcome = outcome /\ (f # g => call'[f] = call[f])
        BY DEF LoaderReturns, LoaderInv, TypeOK, Calls
      <4>3. QED
        BY <4>1, <4>2 DEF NoneExited
    <3>2. CASE Publish(g) \/ Finish(g)
      BY <3>2 DEF NoneExited, LoaderInv, TypeOK, Calls, Publish, Finish
    <3>3. CASE Exit(g)
      BY <3>3 DEF NoneExited, LoaderInv, TypeOK, Exit, EndLoad, NoCall
    <3>4. QED
      BY <2>2, <3>1, <3>2, <3>3 DEF FlightStep
  <2>3. CASE Environment
    BY <2>3 DEF NoneExited, Environment, Update, Set, Delete, Clear, Age, Expire, Sweep, Evict,
       flightVars
  <2>4. CASE UNCHANGED vars
    BY <2>4 DEF NoneExited, vars, flightVars
  <2>5. QED
    BY <2>1, <2>2, <2>3, <2>4 DEF Next
<1>3. LoaderInv /\ FlightsInv /\ NoneExited => StoredBeforeReturn
  BY DEF LoaderInv, TypeOK, FlightsInv, Unstored, NoneExited, StoredBeforeReturn, Done
<1>4. QED
  BY <1>1, <1>2, <1>3, FlightsInvariance, PTL DEF Spec

\* The only steps that start an ordinary load are those of the caller that took g.mu
\* for it.
LEMMA StartedByHolder ==
  ASSUME LoaderInv, [Next]_vars, NEW f \in Flights,
         call[f].state = "begun", call'[f].state = "running"
  PROVE  \E c \in Callers : flight[c] = f /\ (RecheckMiss(c) \/ StartExpired(c))
<1>1. ASSUME NEW c \in Callers, CallerStep(c), ~RecheckMiss(c), ~StartExpired(c) PROVE FALSE
  <2>1. CASE Join(c) \/ Leave(c)
    BY <2>1 DEF Join, Leave, LoaderInv, TypeOK, Calls
  <2>2. CASE \E g \in Flights : BeginLoad(c, g) \/ StartRefresh(c, g)
    BY <2>2 DEF BeginLoad, StartRefresh, Begin, Spare, LoaderInv, TypeOK
  <2>3. CASE RecheckHit(c)
    BY <2>3 DEF RecheckHit, EndLoad, NoCall, LoaderInv, TypeOK
  <2>4. CASE UNCHANGED call
    BY <2>4
  <2>5. QED
    BY <1>1, <2>1, <2>2, <2>3, <2>4
       DEF CallerStep, Hit, Miss, RecheckExpired, SkipRefresh, Collect, Cancel, flightVars
<1>2. ASSUME NEW g \in Flights, FlightStep(g) PROVE FALSE
  BY <1>2 DEF FlightStep, LoaderReturns, Publish, Finish, Exit, EndLoad, NoCall, LoaderInv,
     TypeOK, Calls
<1>3. ~Environment /\ ~UNCHANGED vars
  BY DEF Environment, Update, Set, Delete, Clear, Age, Expire, Sweep, Evict, vars, flightVars
<1>4. PICK c \in Callers : RecheckMiss(c) \/ StartExpired(c)
  BY <1>1, <1>2, <1>3 DEF Next
<1>5. flight[c] = f
  BY <1>4 DEF RecheckMiss, StartExpired, Start, LoaderInv, TypeOK, CallerInv
<1>6. QED
  BY <1>4, <1>5

\* When a load starts that can still publish, no lookup hits its key and there is no
\* load of it to join (loader.go, load(), which looks again under g.mu).
THEOREM OnlyNeededLoads == Spec => NoNeedlessLoad
<1>1. ASSUME LoaderInv, FlightsInv, [Next]_vars, NEW f \in Flights,
             f \in valid, call[f].state = "begun", call'[f].state = "running"
      PROVE  ~Live(call[f].key) /\ ~Joinable(call[f].key)
  <2>1. PICK c \in Callers : flight[c] = f /\ (RecheckMiss(c) \/ StartExpired(c))
    BY <1>1, StartedByHolder
  <2>2. call[f].key = wants[c]
    <3>1. pc[c] \in {"recheck", "expired"}
      BY <2>1 DEF RecheckMiss, StartExpired
    <3>2. QED
      BY <1>1, <2>1, <3>1, HolderAlone
  <2>3. QED
    BY <1>1, <2>1, <2>2 DEF RecheckMiss, StartExpired, FlightsInv, LockedInv
<1>2. LoaderInv /\ FlightsInv /\ [Next]_vars =>
        [\A f \in Flights :
            /\ f \in valid
            /\ call[f].state = "begun" /\ call'[f].state = "running"
            => ~Live(call[f].key) /\ ~Joinable(call[f].key)]_vars
  BY <1>1
<1>3. QED
  BY <1>2, FlightsInvariance, PTL DEF Spec, NoNeedlessLoad

=============================================================================
