----------------------------- MODULE ViewProofs -----------------------------
(***************************************************************************)
(* Proofs about View, for any number of views of any types, with a cache   *)
(* or without, of callers and of call objects: what is cached never goes   *)
(* back, no caller is answered with what is older than what was cached     *)
(* before its lookup, and each view has one load of the key.               *)
(***************************************************************************)
EXTENDS View, TLAPS

USE BoundAssumption, NoneAssumption, HostsAssumption

LEMMA InitInv == Init => ViewInv
  BY PlansAssumption
     DEF Init, ViewInv, TypeOK, NeverGoesBack, FlightInv, GroupInv, CallerInv, SinceInv, NoCall, Calls,
         States, Versions, Unfinished, Returned, Hosts

\* What only the entry, the source and the floor of ViewInv say.
StoreInv ==
    /\ src \in Versions /\ floor \in Versions /\ floor <= src
    /\ item \in Entries \cup {None}
    /\ NeverGoesBack

\* A step that touches neither loads nor callers.
LEMMA StoreStepInv ==
  ASSUME ViewInv, StoreInv', src' >= src, floor' >= floor, valid' \subseteq valid,
         floor' > floor => valid' = {},
         UNCHANGED <<group, call, callerVars>>
  PROVE  ViewInv'
<1> USE DEF ViewInv, callerVars
<1>1. TypeOK'
  BY DEF TypeOK, StoreInv
<1>2. FlightInv'
  <2> SUFFICES ASSUME NEW f \in Flights
               PROVE  /\ call[f].state # "spare" => call[f].host \in Hosts
                      /\ call[f].ver <= src'
                      /\ call[f].state = "loaded" => call[f].answered
                      /\ f \in valid' => /\ call[f].state # "spare" /\ call[f].host \notin Off
                                         /\ Returned(f) => call[f].ver >= floor'
    BY DEF FlightInv, Returned
  <2>1. call[f].ver \in Int /\ src \in Int /\ src' \in Int /\ floor \in Int /\ floor' \in Int
    BY DEF TypeOK, Calls, Versions, StoreInv
  <2>2. f \in valid' => floor' = floor
    BY <2>1
  <2>3. QED
    BY <2>1, <2>2 DEF FlightInv
<1>3. GroupInv'
  BY DEF GroupInv, Unfinished, Wanted
<1>4. CallerInv'
  BY DEF CallerInv, Joinable
<1>5. SinceInv'
  <2> SUFFICES ASSUME NEW c \in Callers PROVE since[c] <= floor'
    BY DEF SinceInv, Returned
  <2>1. since[c] \in Int /\ floor \in Int /\ floor' \in Int
    BY DEF TypeOK, Versions, StoreInv
  <2>2. QED
    BY <2>1 DEF SinceInv
<1>6. QED
  BY <1>1, <1>2, <1>3, <1>4, <1>5 DEF StoreInv

LEMMA EntryType ==
  ASSUME NEW h \in Hosts, NEW ver \in Versions, NEW kind \in Kinds
  PROVE  Entry(h, ver, kind) \in Entries /\ Entry(h, ver, kind).ver = ver
  BY DEF Entry, Entries

\* The types of a host are types.
LEMMA KindsOfType == ASSUME NEW h \in Hosts PROVE KindsOf(h) \subseteq Kinds
  BY TypesAssumption DEF KindsOf, Kinds, Hosts

LEMMA EnvironmentInv == ASSUME ViewInv, Environment PROVE ViewInv'
<1> USE DEF Versions
<1>1. CASE Update
  BY <1>1, StoreStepInv DEF Update, StoreInv, NeverGoesBack, ViewInv, TypeOK
<1>2. CASE Delete
  BY <1>2, StoreStepInv DEF Delete, Store, StoreInv, NeverGoesBack, ViewInv, TypeOK
<1>3. CASE Forget
  BY <1>3, StoreStepInv DEF Forget, StoreInv, NeverGoesBack, ViewInv, TypeOK
<1>4. ASSUME NEW h \in Hosts, NEW kind \in Kinds, Set(h, kind) PROVE ViewInv'
  <2>1. Entry(h, src, kind) \in Entries /\ Entry(h, src, kind).ver = src
    BY EntryType DEF ViewInv, TypeOK
  <2>2. /\ item' = Entry(h, src, kind) /\ floor' = src /\ valid' = {}
        /\ UNCHANGED <<src, group, call, callerVars>>
    BY <1>4 DEF Set, Store, ViewInv, TypeOK
  <2>3. StoreInv'
    BY <2>1, <2>2 DEF StoreInv, NeverGoesBack, ViewInv, TypeOK
  <2>4. QED
    BY <2>2, <2>3, StoreStepInv DEF ViewInv, TypeOK
<1>5. QED
  BY <1>1, <1>2, <1>3, <1>4 DEF Environment

-----------------------------------------------------------------------------
(* Callers.                                                                *)

\* A lookup that claims a refresh leaves the entry what it was.
LEMMA ClaimedEntry ==
  ASSUME ViewInv, NEW h \in Hosts, Claim(h) \/ UNCHANGED item, UNCHANGED floor
  PROVE  item' \in Entries \cup {None} /\ NeverGoesBack'
<1>1. CASE Claim(h)
  <2>1. item \in Entries /\ item' \in Entries /\ item'.ver = item.ver
    BY <1>1 DEF Claim, ViewInv, TypeOK, Entries
  <2>2. item # None
    BY <1>1 DEF Claim
  <2>3. QED
    BY <2>1, <2>2 DEF ViewInv, NeverGoesBack
<1>2. CASE UNCHANGED item
  BY <1>2 DEF ViewInv, TypeOK, NeverGoesBack
<1>3. QED
  BY <1>1, <1>2

LEMMA HitInv == ASSUME ViewInv, NEW c \in Callers, Hit(c) \/ TypeMiss(c) PROVE ViewInv'
<1>1. /\ pc[c] = "idle" /\ via[c] \in Hosts /\ via[c] \notin Off /\ Claim(via[c])
      /\ pc' = pc \/ pc' = [pc EXCEPT ![c] = "refresh"]
      /\ UNCHANGED <<src, floor, valid, group, call, via, flight, since>>
  BY DEF Hit, TypeMiss, callerVars, ViewInv, TypeOK
<1>2. item' \in Entries \cup {None} /\ NeverGoesBack'
  BY <1>1, ClaimedEntry
<1>3. \A d \in Callers : pc'[d] = pc[d] \/ (d = c /\ pc'[d] = "refresh")
  BY <1>1 DEF ViewInv, TypeOK
<1>4. TypeOK' /\ FlightInv'
  BY <1>1, <1>2 DEF ViewInv, TypeOK, FlightInv, Returned
<1>5. GroupInv'
  BY <1>1, <1>3 DEF ViewInv, GroupInv, Unfinished, Wanted
<1>6. CallerInv'
  <2>1. flight[c] = None
    BY <1>1 DEF ViewInv, CallerInv
  <2>2. \A d \in Callers : pc'[d] = "recheck" => pc[d] = "recheck"
    BY <1>3
  <2>3. QED
    BY <1>1, <1>3, <2>1, <2>2 DEF ViewInv, CallerInv, Joinable
<1>7. SinceInv'
  BY <1>1, <1>3 DEF ViewInv, SinceInv, Returned
<1>8. QED
  BY <1>1, <1>2, <1>4, <1>5, <1>6, <1>7 DEF ViewInv

LEMMA MissInv == ASSUME ViewInv, NEW c \in Callers, Miss(c) PROVE ViewInv'
<1>1. /\ pc[c] = "idle" /\ via[c] \in Hosts
      /\ Claim(via[c]) \/ UNCHANGED item
      /\ pc' = [pc EXCEPT ![c] = "load"]
      /\ since' = [since EXCEPT ![c] = IF via[c] \in Off THEN 0 ELSE floor]
      /\ UNCHANGED <<src, floor, valid, group, call, via, flight>>
  BY DEF Miss, ViewInv, TypeOK
<1>2. item' \in Entries \cup {None} /\ NeverGoesBack'
  BY <1>1, ClaimedEntry
<1>3. \A d \in Callers : IF d = c THEN pc'[d] = "load" /\ since'[d] = IF via[d] \in Off THEN 0 ELSE floor
                                   ELSE pc'[d] = pc[d] /\ since'[d] = since[d]
  BY <1>1 DEF ViewInv, TypeOK
<1>4. TypeOK' /\ FlightInv'
  BY <1>1, <1>2 DEF ViewInv, TypeOK, FlightInv, Returned, Versions
<1>5. GroupInv'
  BY <1>1, <1>3 DEF ViewInv, GroupInv, Unfinished, Wanted
<1>6. CallerInv'
  BY <1>1, <1>3 DEF ViewInv, CallerInv, Joinable
<1>7. SinceInv'
  BY <1>1, <1>3 DEF ViewInv, SinceInv, Returned, TypeOK, Versions
<1>8. QED
  BY <1>1, <1>2, <1>4, <1>5, <1>6, <1>7 DEF ViewInv

LEMMA JoinInv == ASSUME ViewInv, NEW c \in Callers, Join(c) PROVE ViewInv'
<1> DEFINE h == via[c]  f == group[h]
<1>1. /\ h \in Hosts /\ f \in Flights /\ Unfinished(f) /\ call[f].host = h
      /\ h \in Off \/ f \in valid
  BY DEF Join, Joinable, ViewInv, TypeOK, GroupInv
<1>2. /\ pc[c] = "load" /\ Unlocked(h)
      /\ pc' = [pc EXCEPT ![c] = "wait"] /\ flight' = [flight EXCEPT ![c] = f]
      /\ UNCHANGED <<src, floor, item, valid, group, call, via, since>>
  BY DEF Join, Wait, storeVars
<1>3. \A d \in Callers : IF d = c THEN pc'[d] = "wait" /\ flight'[d] = f
                                   ELSE pc'[d] = pc[d] /\ flight'[d] = flight[d]
  BY <1>2 DEF ViewInv, TypeOK
<1>4. TypeOK' /\ NeverGoesBack' /\ FlightInv'
  BY <1>1, <1>2 DEF ViewInv, TypeOK, FlightInv, Returned, NeverGoesBack
<1>5. GroupInv'
  BY <1>1, <1>2, <1>3 DEF ViewInv, GroupInv, Unfinished, Wanted
<1>6. CallerInv'
  <2> SUFFICES ASSUME NEW d \in Callers, d # c, pc[d] = "recheck" PROVE flight[d] # f
    BY <1>1, <1>2, <1>3 DEF ViewInv, CallerInv, Joinable, Unfinished
  <2>1. QED
    BY <1>1 DEF ViewInv, CallerInv, Unfinished
<1>7. SinceInv'
  <2>1. Returned(f) => call[f].ver >= since[c]
    BY <1>1, <1>2 DEF ViewInv, FlightInv, SinceInv, TypeOK, Versions, Calls
  <2>2. QED
    BY <1>2, <1>3, <2>1 DEF ViewInv, SinceInv, Returned
<1>8. QED
  BY <1>2, <1>4, <1>5, <1>6, <1>7 DEF ViewInv
\* A call object that is free is nobody's.
LEMMA SpareCall ==
  ASSUME ViewInv, NEW f \in Spare
  PROVE  /\ f \in Flights /\ f \notin valid
         /\ \A h \in Hosts : group[h] # f
         /\ \A d \in Callers : flight[d] # f
  BY DEF Spare, ViewInv, FlightInv, GroupInv, Unfinished

LEMMA NewCall ==
  ASSUME NEW h \in Hosts \cup {None}, NEW state \in States, NEW refresh \in BOOLEAN
  PROVE  [host |-> h, state |-> state, refresh |-> refresh, answered |-> FALSE, ver |-> 0] \in Calls
  BY DEF Calls, Versions

\* A step that changes one call object.
LEMMA OneCallInv ==
  ASSUME ViewInv, NEW f \in Flights, UNCHANGED <<src, floor>>,
         \A g \in Flights \ {f} : call'[g] = call[g] /\ (g \in valid' => g \in valid),
         call'[f].state # "spare" => call'[f].host \in Hosts,
         call'[f].ver <= src,
         call'[f].state = "loaded" => call'[f].answered,
         f \in valid' => /\ call'[f].state # "spare" /\ call'[f].host \notin Off
                         /\ Returned(f)' => call'[f].ver >= floor
  PROVE  FlightInv'
<1> SUFFICES ASSUME NEW g \in Flights, g # f
             PROVE  /\ call'[g].state # "spare" => call'[g].host \in Hosts
                    /\ call'[g].ver <= src
                    /\ call'[g].state = "loaded" => call'[g].answered
                    /\ g \in valid' => /\ call'[g].state # "spare" /\ call'[g].host \notin Off
                                       /\ Returned(g)' => call'[g].ver >= floor
  BY DEF FlightInv
<1>1. QED
  BY DEF ViewInv, FlightInv, Returned

LEMMA LoadUncachedInv ==
  ASSUME ViewInv, NEW c \in Callers, NEW f \in Flights, LoadUncached(c, f) PROVE ViewInv'
<1> DEFINE h == via[c]
<1>1. /\ h \in Hosts /\ h \in Off /\ ~Joinable(h) /\ pc[c] = "load" /\ since[c] = 0
      /\ f \notin valid /\ (\A k \in Hosts : group[k] # f) /\ (\A d \in Callers : flight[d] # f)
  BY SpareCall DEF LoadUncached, ViewInv, TypeOK, SinceInv
<1>2. /\ call' = [call EXCEPT ![f] = [NoCall EXCEPT !.host = h, !.state = "running", !.refresh = FALSE]]
      /\ group' = [group EXCEPT ![h] = f]
      /\ pc' = [pc EXCEPT ![c] = "wait"] /\ flight' = [flight EXCEPT ![c] = f]
      /\ UNCHANGED <<src, floor, item, valid, via, since>>
  BY DEF LoadUncached, Begin, Wait, storeVars
<1>3. \A d \in Callers : IF d = c THEN pc'[d] = "wait" /\ flight'[d] = f
                                   ELSE pc'[d] = pc[d] /\ flight'[d] = flight[d]
  BY <1>2 DEF ViewInv, TypeOK
<1>4. \A g \in Flights : IF g = f THEN call'[g] = [host |-> h, state |-> "running", refresh |-> FALSE,
                                                   answered |-> FALSE, ver |-> 0]
                                  ELSE call'[g] = call[g]
  BY <1>2 DEF ViewInv, TypeOK, NoCall
<1>5. \A k \in Hosts : group'[k] = IF k = h THEN f ELSE group[k]
  BY <1>2 DEF ViewInv, TypeOK
<1>6. TypeOK'
  <2>1. call'[f] \in Calls
    BY <1>1, <1>4, NewCall DEF States
  <2>2. QED
    BY <1>1, <1>2, <2>1 DEF ViewInv, TypeOK
<1>7. NeverGoesBack' /\ floor' <= src'
  BY <1>2 DEF ViewInv, NeverGoesBack
<1>8. FlightInv'
  <2>1. 0 <= src
    BY DEF ViewInv, TypeOK, Versions
  <2>2. /\ call'[f].ver <= src /\ call'[f].state # "loaded" /\ ~Returned(f)'
        /\ call'[f].state # "spare" => call'[f].host \in Hosts
    BY <1>1, <1>4, <2>1 DEF Returned
  <2>3. /\ f \in valid' => call'[f].state # "spare" /\ call'[f].host \notin Off
        /\ \A g \in Flights \ {f} : call'[g] = call[g] /\ (g \in valid' => g \in valid)
    BY <1>1, <1>2, <1>4
  <2>4. QED
    BY <1>2, <2>2, <2>3, OneCallInv
<1>9. GroupInv'
  <2>1. \A k \in Hosts : (group[k] # None => Unfinished(group[k]) /\ call[group[k]].host = k)'
    BY <1>1, <1>4, <1>5 DEF ViewInv, TypeOK, GroupInv, Unfinished
  <2> SUFFICES ASSUME NEW g \in Flights, g # f, Unfinished(g)', Wanted(g)',
                      g \in valid' \/ call'[g].host \in Off
               PROVE  group'[call'[g].host] = g
    BY <1>1, <1>4, <1>5, <2>1 DEF GroupInv
  <2>2. group[call[g].host] = g
    BY <1>1, <1>2, <1>3, <1>4 DEF ViewInv, GroupInv, Unfinished, Wanted
  <2>3. call[g].host \in Hosts
    BY <1>4 DEF ViewInv, FlightInv, Unfinished
  <2>4. call[g].host # h
    BY <1>1, <2>2 DEF Joinable
  <2>5. QED
    BY <1>4, <1>5, <2>2, <2>3, <2>4
<1>10. CallerInv'
  BY <1>1, <1>2, <1>3, <1>4, <1>5 DEF ViewInv, TypeOK, CallerInv, Joinable
<1>11. SinceInv'
  BY <1>1, <1>2, <1>3, <1>4 DEF ViewInv, CallerInv, SinceInv, Returned
<1>12. QED
  BY <1>6, <1>7, <1>8, <1>9, <1>10, <1>11 DEF ViewInv

LEMMA BeginLoadInv ==
  ASSUME ViewInv, NEW c \in Callers, NEW f \in Flights, BeginLoad(c, f) PROVE ViewInv'
<1> DEFINE h == via[c]
<1>1. /\ h \in Hosts /\ h \notin Off /\ ~Joinable(h) /\ pc[c] = "load" /\ Unlocked(h)
      /\ f \notin valid /\ (\A k \in Hosts : group[k] # f) /\ (\A d \in Callers : flight[d] # f)
      /\ call[f].state = "spare"
  BY SpareCall DEF BeginLoad, ViewInv, TypeOK, Spare
<1>2. /\ call' = [call EXCEPT ![f] = [NoCall EXCEPT !.host = h, !.state = "begun", !.refresh = FALSE]]
      /\ valid' = valid \cup {f}
      /\ pc' = [pc EXCEPT ![c] = "recheck"] /\ flight' = [flight EXCEPT ![c] = f]
      /\ UNCHANGED <<src, floor, item, group, via, since>>
  BY DEF BeginLoad, Begin
<1>3. \A d \in Callers : IF d = c THEN pc'[d] = "recheck" /\ flight'[d] = f
                                   ELSE pc'[d] = pc[d] /\ flight'[d] = flight[d]
  BY <1>2 DEF ViewInv, TypeOK
<1>4. \A g \in Flights : IF g = f THEN call'[g] = [host |-> h, state |-> "begun", refresh |-> FALSE,
                                                   answered |-> FALSE, ver |-> 0]
                                  ELSE call'[g] = call[g]
  BY <1>2 DEF ViewInv, TypeOK, NoCall
<1>5. TypeOK'
  <2>1. call'[f] \in Calls
    BY <1>1, <1>4, NewCall DEF States
  <2>2. QED
    BY <1>1, <1>2, <2>1 DEF ViewInv, TypeOK
<1>6. NeverGoesBack' /\ floor' <= src'
  BY <1>2 DEF ViewInv, NeverGoesBack
<1>7. FlightInv'
  <2>1. 0 <= src
    BY DEF ViewInv, TypeOK, Versions
  <2>2. /\ call'[f].ver <= src /\ call'[f].state # "loaded" /\ ~Returned(f)'
        /\ call'[f].state # "spare" => call'[f].host \in Hosts
    BY <1>1, <1>4, <2>1 DEF Returned
  <2>3. /\ f \in valid' => call'[f].state # "spare" /\ call'[f].host \notin Off
        /\ \A g \in Flights \ {f} : call'[g] = call[g] /\ (g \in valid' => g \in valid)
    BY <1>1, <1>2, <1>4
  <2>4. QED
    BY <1>2, <2>2, <2>3, OneCallInv
<1>8. GroupInv'
  BY <1>1, <1>2, <1>3, <1>4 DEF ViewInv, TypeOK, GroupInv, Unfinished, Wanted
<1>9. CallerInv'
  <2>1. \A k \in Hosts : Joinable(k)' <=> Joinable(k)
    BY <1>1, <1>2 DEF Joinable
  <2>2. \A d \in Callers : via[d] \in Hosts
    BY DEF ViewInv, TypeOK
  <2>3. QED
    BY <1>1, <1>2, <1>3, <1>4, <2>1, <2>2 DEF ViewInv, CallerInv, Unlocked
<1>10. SinceInv'
  BY <1>1, <1>2, <1>3, <1>4 DEF ViewInv, CallerInv, SinceInv, Returned
<1>11. QED
  BY <1>5, <1>6, <1>7, <1>8, <1>9, <1>10 DEF ViewInv

\* What the caller of a load that has begun knows.
LEMMA RecheckFacts ==
  ASSUME ViewInv, NEW c \in Callers, pc[c] = "recheck"
  PROVE  /\ via[c] \in Hosts /\ via[c] \notin Off /\ ~Joinable(via[c])
         /\ flight[c] \in Flights /\ flight[c] # None
         /\ call[flight[c]].state = "begun" /\ call[flight[c]].host = via[c]
         /\ \A k \in Hosts : group[k] # flight[c]
         /\ \A d \in Callers : d # c => /\ flight[d] # flight[c]
                                        /\ ~(pc[d] = "recheck" /\ via[d] = via[c])
  BY DEF ViewInv, TypeOK, CallerInv, GroupInv, Unfinished

LEMMA RecheckHitInv == ASSUME ViewInv, NEW c \in Callers, RecheckHit(c) PROVE ViewInv'
<1>0. PICK f \in Flights : f = flight[c]
  BY RecheckFacts DEF RecheckHit
<1>1. /\ call[f].state = "begun"
      /\ (\A k \in Hosts : group[k] # f) /\ (\A d \in Callers : d # c => flight[d] # f)
  BY <1>0, RecheckFacts DEF RecheckHit
<1>2. /\ call' = [call EXCEPT ![f] = NoCall] /\ valid' = valid \ {f}
      /\ pc' = [pc EXCEPT ![c] = "idle"] /\ flight' = [flight EXCEPT ![c] = None]
      /\ since' = [since EXCEPT ![c] = 0]
      /\ UNCHANGED <<src, floor, item, group, via>>
  BY <1>0 DEF RecheckHit, Return
<1>3. \A d \in Callers :
        IF d = c THEN pc'[d] = "idle" /\ flight'[d] = None /\ since'[d] = 0
                 ELSE pc'[d] = pc[d] /\ flight'[d] = flight[d] /\ since'[d] = since[d]
  BY <1>2 DEF ViewInv, TypeOK
<1>4. \A g \in Flights : IF g = f THEN call'[g] = [host |-> None, state |-> "spare", refresh |-> FALSE,
                                                   answered |-> FALSE, ver |-> 0]
                                  ELSE call'[g] = call[g]
  BY <1>2 DEF ViewInv, TypeOK, NoCall
<1>5. TypeOK'
  <2>1. call'[f] \in Calls
    BY <1>1, <1>4, NewCall DEF States
  <2>2. QED
    BY <1>1, <1>2, <2>1 DEF ViewInv, TypeOK, Versions
<1>6. NeverGoesBack' /\ floor' <= src'
  BY <1>2 DEF ViewInv, NeverGoesBack
<1>7. FlightInv'
  <2>1. 0 <= src
    BY DEF ViewInv, TypeOK, Versions
  <2>2. /\ call'[f].ver <= src /\ call'[f].state # "loaded" /\ ~Returned(f)'
        /\ call'[f].state # "spare" => call'[f].host \in Hosts
    BY <1>1, <1>4, <2>1 DEF Returned
  <2>3. /\ f \in valid' => call'[f].state # "spare" /\ call'[f].host \notin Off
        /\ \A g \in Flights \ {f} : call'[g] = call[g] /\ (g \in valid' => g \in valid)
    BY <1>1, <1>2, <1>4
  <2>4. QED
    BY <1>2, <2>2, <2>3, OneCallInv
<1>8. GroupInv'
  BY <1>0, <1>1, <1>2, <1>3, <1>4 DEF ViewInv, TypeOK, GroupInv, Unfinished, Wanted
<1>9. CallerInv'
  BY <1>0, <1>1, <1>2, <1>3, <1>4 DEF ViewInv, CallerInv, Joinable
<1>10. SinceInv'
  BY <1>0, <1>1, <1>2, <1>3, <1>4 DEF ViewInv, TypeOK, Versions, CallerInv, SinceInv, Returned
<1>11. QED
  BY <1>5, <1>6, <1>7, <1>8, <1>9, <1>10 DEF ViewInv

LEMMA RecheckMissInv == ASSUME ViewInv, NEW c \in Callers, RecheckMiss(c) PROVE ViewInv'
<1> DEFINE f == flight[c]  h == via[c]
<1>1. /\ f \in Flights /\ call[f].state = "begun" /\ call[f].host = h
      /\ h \in Hosts /\ h \notin Off /\ ~Joinable(h)
      /\ \A k \in Hosts : group[k] # f
      /\ \A d \in Callers : d # c => flight[d] # f /\ ~(pc[d] = "recheck" /\ via[d] = h)
  BY RecheckFacts DEF RecheckMiss
<1>2. /\ call' = [call EXCEPT ![f].state = "running"]
      /\ group' = [group EXCEPT ![h] = f]
      /\ pc' = [pc EXCEPT ![c] = "wait"]
      /\ UNCHANGED <<src, floor, item, valid, via, flight, since>>
  BY DEF RecheckMiss, storeVars
<1>3. \A d \in Callers : pc'[d] = IF d = c THEN "wait" ELSE pc[d]
  BY <1>2 DEF ViewInv, TypeOK
<1>4. /\ \A g \in Flights \ {f} : call'[g] = call[g]
      /\ call'[f].state = "running" /\ call'[f].host = h /\ call'[f].ver = call[f].ver
      /\ call'[f] \in Calls
  BY <1>1, <1>2 DEF ViewInv, TypeOK, Calls, States
<1>5. \A k \in Hosts : group'[k] = IF k = h THEN f ELSE group[k]
  BY <1>2 DEF ViewInv, TypeOK
<1>6. TypeOK'
  BY <1>1, <1>2, <1>4 DEF ViewInv, TypeOK
<1>7. NeverGoesBack' /\ floor' <= src'
  BY <1>2 DEF ViewInv, NeverGoesBack
<1>8. FlightInv'
  BY <1>1, <1>2, <1>4, OneCallInv DEF ViewInv, FlightInv, Returned
<1>9. GroupInv'
  <2>1. \A k \in Hosts : (group[k] # None => Unfinished(group[k]) /\ call[group[k]].host = k)'
    BY <1>1, <1>4, <1>5 DEF ViewInv, TypeOK, GroupInv, Unfinished
  <2> SUFFICES ASSUME NEW g \in Flights, g # f, Unfinished(g)', Wanted(g)',
                      g \in valid' \/ call'[g].host \in Off
               PROVE  group'[call'[g].host] = g
    BY <1>1, <1>4, <1>5, <2>1 DEF GroupInv
  <2>2. group[call[g].host] = g /\ (g \in valid \/ call[g].host \in Off)
    BY <1>1, <1>2, <1>3, <1>4 DEF ViewInv, GroupInv, Unfinished, Wanted
  <2>3. call[g].host \in Hosts
    BY <1>4 DEF ViewInv, FlightInv, Unfinished
  <2>4. call[g].host # h
    BY <1>1, <2>2 DEF Joinable
  <2>5. QED
    BY <1>4, <1>5, <2>2, <2>3, <2>4
<1>10. CallerInv'
  <2>1. \A d \in Callers : pc'[d] = "recheck" => pc[d] = "recheck" /\ d # c /\ via[d] \in Hosts /\ via[d] # h
    BY <1>1, <1>3 DEF ViewInv, TypeOK
  <2>2. \A k \in Hosts : k # h => (Joinable(k)' <=> Joinable(k))
    BY <1>2, <1>5 DEF Joinable
  <2>3. QED
    BY <1>1, <1>2, <1>3, <1>4, <2>1, <2>2 DEF ViewInv, CallerInv
<1>11. SinceInv'
  BY <1>1, <1>2, <1>3, <1>4 DEF ViewInv, CallerInv, SinceInv, Returned
<1>12. QED
  BY <1>6, <1>7, <1>8, <1>9, <1>10, <1>11 DEF ViewInv

LEMMA StartRefreshInv ==
  ASSUME ViewInv, NEW c \in Callers, NEW f \in Flights, StartRefresh(c, f) PROVE ViewInv'
<1> DEFINE h == via[c]
<1>1. /\ h \in Hosts /\ h \notin Off /\ ~Joinable(h) /\ pc[c] = "refresh" /\ Unlocked(h)
      /\ f \notin valid /\ (\A k \in Hosts : group[k] # f) /\ (\A d \in Callers : flight[d] # f)
      /\ call[f].state = "spare" /\ flight[c] = None
  BY SpareCall DEF StartRefresh, ViewInv, TypeOK, CallerInv, Spare
<1>2. /\ call' = [call EXCEPT ![f] = [NoCall EXCEPT !.host = h, !.state = "running", !.refresh = TRUE]]
      /\ valid' = valid \cup {f}
      /\ group' = [group EXCEPT ![h] = f]
      /\ pc' = [pc EXCEPT ![c] = "idle"] /\ flight' = [flight EXCEPT ![c] = None]
      /\ since' = [since EXCEPT ![c] = 0]
      /\ UNCHANGED <<src, floor, item, via>>
  BY DEF StartRefresh, Begin, Return
<1>3. \A d \in Callers :
        IF d = c THEN pc'[d] = "idle" /\ flight'[d] = None /\ since'[d] = 0
                 ELSE pc'[d] = pc[d] /\ flight'[d] = flight[d] /\ since'[d] = since[d]
  BY <1>2 DEF ViewInv, TypeOK
<1>4. \A g \in Flights : IF g = f THEN call'[g] = [host |-> h, state |-> "running", refresh |-> TRUE,
                                                   answered |-> FALSE, ver |-> 0]
                                  ELSE call'[g] = call[g]
  BY <1>2 DEF ViewInv, TypeOK, NoCall
<1>5. \A k \in Hosts : group'[k] = IF k = h THEN f ELSE group[k]
  BY <1>2 DEF ViewInv, TypeOK
<1>6. TypeOK'
  <2>1. call'[f] \in Calls
    BY <1>1, <1>4, NewCall DEF States
  <2>2. QED
    BY <1>1, <1>2, <2>1 DEF ViewInv, TypeOK, Versions
<1>7. NeverGoesBack' /\ floor' <= src'
  BY <1>2 DEF ViewInv, NeverGoesBack
<1>8. FlightInv'
  <2>1. 0 <= src
    BY DEF ViewInv, TypeOK, Versions
  <2>2. /\ call'[f].ver <= src /\ call'[f].state # "loaded" /\ ~Returned(f)'
        /\ call'[f].state # "spare" => call'[f].host \in Hosts
    BY <1>1, <1>4, <2>1 DEF Returned
  <2>3. /\ f \in valid' => call'[f].state # "spare" /\ call'[f].host \notin Off
        /\ \A g \in Flights \ {f} : call'[g] = call[g] /\ (g \in valid' => g \in valid)
    BY <1>1, <1>2, <1>4
  <2>4. QED
    BY <1>2, <2>2, <2>3, OneCallInv
<1>9. GroupInv'
  <2>1. \A k \in Hosts : (group[k] # None => Unfinished(group[k]) /\ call[group[k]].host = k)'
    BY <1>1, <1>4, <1>5 DEF ViewInv, TypeOK, GroupInv, Unfinished
  <2> SUFFICES ASSUME NEW g \in Flights, g # f, Unfinished(g)', Wanted(g)',
                      g \in valid' \/ call'[g].host \in Off
               PROVE  group'[call'[g].host] = g
    BY <1>1, <1>4, <1>5, <2>1 DEF GroupInv
  <2>2. group[call[g].host] = g /\ (g \in valid \/ call[g].host \in Off)
    BY <1>1, <1>2, <1>3, <1>4 DEF ViewInv, GroupInv, Unfinished, Wanted
  <2>3. call[g].host \in Hosts
    BY <1>4 DEF ViewInv, FlightInv, Unfinished
  <2>4. call[g].host # h
    BY <1>1, <2>2 DEF Joinable
  <2>5. QED
    BY <1>4, <1>5, <2>2, <2>3, <2>4
<1>10. CallerInv'
  <2>1. \A d \in Callers : pc'[d] = "recheck" => pc[d] = "recheck" /\ d # c /\ via[d] \in Hosts /\ via[d] # h
    BY <1>1, <1>3 DEF ViewInv, TypeOK, Unlocked
  <2>2. \A k \in Hosts : k # h => (Joinable(k)' <=> Joinable(k))
    BY <1>1, <1>2, <1>5 DEF Joinable
  <2>3. QED
    BY <1>1, <1>2, <1>3, <1>4, <2>1, <2>2 DEF ViewInv, CallerInv
<1>11. SinceInv'
  BY <1>1, <1>2, <1>3, <1>4 DEF ViewInv, TypeOK, Versions, CallerInv, SinceInv, Returned
<1>12. QED
  BY <1>6, <1>7, <1>8, <1>9, <1>10, <1>11 DEF ViewInv

\* A caller that only returns, whatever it drops.
LEMMA ReturnInv ==
  ASSUME ViewInv, NEW c \in Callers, Return(c), UNCHANGED <<storeVars, call>>,
         group' \in [Hosts -> Flights \cup {None}],
         \A h \in Hosts : group'[h] \in {group[h], None}, GroupInv'
  PROVE  ViewInv'
<1>1. /\ pc' = [pc EXCEPT ![c] = "idle"] /\ flight' = [flight EXCEPT ![c] = None]
      /\ since' = [since EXCEPT ![c] = 0]
      /\ UNCHANGED <<src, floor, item, valid, call, via>>
  BY DEF Return, storeVars
<1>2. \A d \in Callers :
        IF d = c THEN pc'[d] = "idle" /\ flight'[d] = None /\ since'[d] = 0
                 ELSE pc'[d] = pc[d] /\ flight'[d] = flight[d] /\ since'[d] = since[d]
  BY <1>1 DEF ViewInv, TypeOK
<1>3. TypeOK'
  BY <1>1 DEF ViewInv, TypeOK, Versions
<1>4. NeverGoesBack' /\ FlightInv' /\ floor' <= src'
  BY <1>1 DEF ViewInv, NeverGoesBack, FlightInv, Returned
<1>5. CallerInv'
  <2>1. \A d \in Callers : Joinable(via[d])' => Joinable(via[d])
    BY <1>1 DEF Joinable, ViewInv, TypeOK
  <2>2. QED
    BY <1>1, <1>2, <2>1 DEF ViewInv, CallerInv
<1>6. SinceInv'
  BY <1>1, <1>2 DEF ViewInv, TypeOK, Versions, SinceInv, Returned
<1>7. QED
  BY <1>3, <1>4, <1>5, <1>6 DEF ViewInv

LEMMA WaitOverInv ==
  ASSUME ViewInv, NEW c \in Callers, SkipRefresh(c) \/ Collect(c) \/ Leave(c) PROVE ViewInv'
<1>1. Return(c) /\ UNCHANGED <<storeVars, call>>
  BY DEF SkipRefresh, Collect, Leave
<1>2. /\ pc' = [pc EXCEPT ![c] = "idle"] /\ flight' = [flight EXCEPT ![c] = None]
      /\ UNCHANGED <<valid, call>>
  BY <1>1 DEF Return, storeVars
<1>3. \A d \in Callers : IF d = c THEN pc'[d] = "idle" ELSE pc'[d] = pc[d] /\ flight'[d] = flight[d]
  BY <1>2 DEF ViewInv, TypeOK
<1>4. CASE UNCHANGED group
  BY <1>1, <1>2, <1>3, <1>4, ReturnInv DEF ViewInv, TypeOK, GroupInv, Unfinished, Wanted
<1>5. ASSUME NEW f \in Flights \cup {None}, f = flight[c], DropCall(f), ~call[f].refresh,
             \A d \in Callers \ {c} : ~(pc[d] = "wait" /\ flight[d] = f)
      PROVE  ViewInv'
  <2>1. \A h \in Hosts : group'[h] = IF group[h] = f THEN None ELSE group[h]
    BY <1>5 DEF DropCall
  <2>2. group' \in [Hosts -> Flights \cup {None}]
    BY <1>5 DEF DropCall, ViewInv, TypeOK
  <2>3. ~Wanted(f)'
    BY <1>2, <1>3, <1>5 DEF Wanted
  <2>4. \A g \in Flights : Wanted(g)' => Wanted(g)
    BY <1>2, <1>3 DEF Wanted
  <2>5. GroupInv'
    BY <1>2, <2>1, <2>3, <2>4 DEF ViewInv, FlightInv, GroupInv, Unfinished
  <2>6. QED
    BY <1>1, <2>1, <2>2, <2>5, ReturnInv
<1>6. QED
  BY <1>4, <1>5 DEF SkipRefresh, Collect, Leave, ViewInv, TypeOK

-----------------------------------------------------------------------------
(* Loads.                                                                  *)

LEMMA LoaderReturnsInv ==
  ASSUME ViewInv, NEW f \in Flights, NEW answered \in BOOLEAN, NEW storable \in BOOLEAN,
         LoaderReturns(f, answered, storable)
  PROVE  ViewInv'
<1>1. /\ call[f].state = "running" /\ call[f] \in Calls
      /\ storable => answered
      /\ UNCHANGED <<src, floor, item, valid, group, via, pc, flight, since>>
  BY DEF LoaderReturns, storeVars, callerVars, ViewInv, TypeOK
<1>2. /\ \A g \in Flights \ {f} : call'[g] = call[g]
      /\ call'[f].state \in {"loaded", "stored"} /\ call'[f].host = call[f].host
      /\ call'[f].state = "loaded" => storable
      /\ call'[f].refresh = call[f].refresh /\ call'[f].answered = answered
      /\ call'[f].ver = IF answered THEN src ELSE 0
      /\ call' \in [Flights -> Calls]
  <2>1. call \in [Flights -> Calls] /\ src \in Versions /\ 0 \in Versions
    BY DEF ViewInv, TypeOK, Versions
  <2>2. PICK s \in {"loaded", "stored"}, v \in Versions :
          /\ s = "loaded" => storable
          /\ v = IF answered THEN src ELSE 0
          /\ call' = [call EXCEPT ![f].state = s, ![f].answered = answered, ![f].ver = v]
    BY <2>1 DEF LoaderReturns
  <2>3. [call[f] EXCEPT !.state = s, !.answered = answered, !.ver = v] \in Calls
    BY <1>1 DEF Calls, States
  <2>4. call' = [call EXCEPT ![f] = [call[f] EXCEPT !.state = s, !.answered = answered, !.ver = v]]
    BY <2>1, <2>2
  <2>5. QED
    BY <1>1, <2>1, <2>2, <2>3, <2>4 DEF Calls
<1>3. src \in Int /\ floor \in Int /\ 0 <= src /\ floor <= src
  BY DEF ViewInv, TypeOK, Versions
<1>4. TypeOK' /\ NeverGoesBack' /\ floor' <= src'
  BY <1>1, <1>2 DEF ViewInv, TypeOK, NeverGoesBack
<1>5. FlightInv'
  <2>1. f \in valid => call[f].host \notin Off
    BY DEF ViewInv, FlightInv
  <2>2. call[f].host \in Hosts
    BY <1>1 DEF ViewInv, FlightInv
  <2>3. call'[f].ver <= src /\ (answered => call'[f].ver >= floor)
    BY <1>2, <1>3
  <2>4. Returned(f)' => answered
    BY <1>2 DEF Returned
  <2>5. QED
    BY <1>1, <1>2, <2>1, <2>2, <2>3, <2>4, OneCallInv
<1>6. \A g \in Flights : /\ Unfinished(g)' <=> Unfinished(g)
                         /\ Wanted(g)' <=> Wanted(g)
                         /\ call'[g].host = call[g].host
  BY <1>1, <1>2 DEF Unfinished, Wanted
<1>7. GroupInv'
  BY <1>1, <1>6 DEF ViewInv, TypeOK, GroupInv
<1>8. CallerInv'
  BY <1>1, <1>2 DEF ViewInv, CallerInv, Joinable
<1>9. SinceInv'
  <2> SUFFICES ASSUME NEW c \in Callers, pc[c] = "wait", flight[c] = f, answered
               PROVE  src >= since[c]
    BY <1>1, <1>2 DEF ViewInv, CallerInv, SinceInv, Returned
  <2>1. since[c] <= floor /\ since[c] \in Int
    BY DEF ViewInv, SinceInv, TypeOK, Versions
  <2>2. QED
    BY <1>3, <2>1
<1>10. QED
  BY <1>4, <1>5, <1>7, <1>8, <1>9 DEF ViewInv

LEMMA PublishInv ==
  ASSUME ViewInv, NEW f \in Flights, NEW kind \in Kinds, Publish(f, kind) PROVE ViewInv'
<1> DEFINE h == call[f].host  ver == call[f].ver
<1>1. /\ call[f].state = "loaded" /\ call[f] \in Calls /\ h \in Hosts
      /\ ver \in Versions /\ ver <= src /\ Returned(f)
      /\ call' = [call EXCEPT ![f].state = "stored"]
      /\ UNCHANGED <<src, group, via, pc, flight, since>>
  BY DEF Publish, callerVars, ViewInv, TypeOK, FlightInv, Returned, Calls
<1>2. /\ \A g \in Flights \ {f} : call'[g] = call[g]
      /\ call'[f].state = "stored" /\ call'[f].host = h /\ call'[f].refresh = call[f].refresh
      /\ call'[f].answered = call[f].answered /\ call'[f].ver = ver
      /\ call' \in [Flights -> Calls]
  BY <1>1 DEF ViewInv, TypeOK, Calls, States
<1>3. \A g \in Flights : /\ Unfinished(g)' <=> Unfinished(g)
                         /\ Wanted(g)' <=> Wanted(g)
                         /\ Returned(g)' <=> Returned(g)
                         /\ call'[g].host = call[g].host /\ call'[g].ver = call[g].ver
  BY <1>1, <1>2 DEF Unfinished, Wanted, Returned
<1>4. /\ item' \in Entries \cup {None} /\ floor' \in Versions /\ valid' \subseteq valid
      /\ floor <= floor' /\ floor' <= src /\ NeverGoesBack'
      /\ floor' = floor \/ valid' = {}
  <2>1. CASE f \in valid
    <3>1. Entry(h, ver, kind) \in Entries /\ Entry(h, ver, kind).ver = ver
      BY <1>1, EntryType
    <3>2. item' = Entry(h, ver, kind) /\ valid' = {} /\ floor' = IF ver > floor THEN ver ELSE floor
      BY <2>1 DEF Publish, Store
    <3>3. ver >= floor
      BY <1>1, <2>1 DEF ViewInv, FlightInv
    <3>4. ver \in Int /\ floor \in Int
      BY <1>1 DEF ViewInv, TypeOK, Versions
    <3>5. floor' = ver
      BY <3>2, <3>3, <3>4
    <3>6. QED
      BY <1>1, <3>1, <3>2, <3>3, <3>4, <3>5 DEF NeverGoesBack
  <2>2. CASE f \notin valid
    <3>1. UNCHANGED <<item, floor, valid>>
      BY <2>2 DEF Publish
    <3>2. QED
      BY <3>1 DEF ViewInv, TypeOK, NeverGoesBack, Versions
  <2>3. QED
    BY <2>1, <2>2
<1>5. TypeOK' /\ floor' <= src'
  BY <1>1, <1>2, <1>4 DEF ViewInv, TypeOK
<1>6. FlightInv'
  <2> SUFFICES ASSUME NEW g \in Flights
               PROVE  /\ call'[g].state # "spare" => call'[g].host \in Hosts
                      /\ call'[g].ver <= src'
                      /\ call'[g].state = "loaded" => call'[g].answered
                      /\ g \in valid' => /\ call'[g].state # "spare" /\ call'[g].host \notin Off
                                         /\ Returned(g)' => call'[g].ver >= floor'
    BY DEF FlightInv
  <2>1. QED
    BY <1>1, <1>2, <1>3, <1>4 DEF ViewInv, FlightInv
<1>7. GroupInv'
  BY <1>1, <1>3, <1>4 DEF ViewInv, TypeOK, GroupInv
<1>8. CallerInv'
  BY <1>1, <1>2, <1>4 DEF ViewInv, CallerInv, Joinable
<1>9. SinceInv'
  <2>1. \A c \in Callers : since[c] <= floor'
    BY <1>4 DEF ViewInv, SinceInv, TypeOK, Versions
  <2>2. \A c \in Callers : pc[c] = "wait" => flight[c] \in Flights
    BY DEF ViewInv, CallerInv
  <2>3. QED
    BY <1>1, <1>3, <2>1, <2>2 DEF ViewInv, SinceInv
<1>10. QED
  BY <1>4, <1>5, <1>6, <1>7, <1>8, <1>9 DEF ViewInv

LEMMA FinishInv == ASSUME ViewInv, NEW f \in Flights, Finish(f) PROVE ViewInv'
<1>1. /\ call[f].state = "stored" /\ call[f] \in Calls
      /\ call' = [call EXCEPT ![f].state = "done"]
      /\ UNCHANGED <<src, floor, item, valid, via, pc, flight, since>>
  BY DEF Finish, storeVars, callerVars, ViewInv, TypeOK
<1>2. /\ \A g \in Flights \ {f} : call'[g] = call[g]
      /\ call'[f].state = "done" /\ call'[f].host = call[f].host
      /\ call'[f].answered = call[f].answered /\ call'[f].ver = call[f].ver
      /\ call' \in [Flights -> Calls]
  BY <1>1 DEF ViewInv, TypeOK, Calls, States
<1>3. /\ \A h \in Hosts : group'[h] = IF group[h] = f THEN None ELSE group[h]
      /\ group' \in [Hosts -> Flights \cup {None}]
  BY DEF Finish, DropCall, ViewInv, TypeOK
<1>4. TypeOK' /\ NeverGoesBack' /\ floor' <= src'
  BY <1>1, <1>2, <1>3 DEF ViewInv, TypeOK, NeverGoesBack
<1>5. \A g \in Flights : /\ Unfinished(g)' <=> Unfinished(g) /\ g # f
                         /\ Wanted(g)' => Wanted(g) \/ g = f
                         /\ Returned(g)' <=> Returned(g)
                         /\ call'[g].host = call[g].host /\ call'[g].ver = call[g].ver
  BY <1>1, <1>2 DEF Unfinished, Wanted, Returned
<1>6. FlightInv'
  BY <1>1, <1>2, <1>5, OneCallInv DEF ViewInv, FlightInv
<1>7. GroupInv'
  <2>1. \A h \in Hosts : (group[h] # None => Unfinished(group[h]) /\ call[group[h]].host = h)'
    BY <1>3, <1>5 DEF ViewInv, TypeOK, GroupInv
  <2> SUFFICES ASSUME NEW g \in Flights, g # f, Unfinished(g), Wanted(g),
                      g \in valid \/ call[g].host \in Off
               PROVE  group'[call[g].host] = g
    BY <1>1, <1>5, <2>1 DEF GroupInv
  <2>2. QED
    BY <1>3 DEF ViewInv, FlightInv, GroupInv, Unfinished
<1>8. CallerInv'
  <2>1. \A c \in Callers : Joinable(via[c])' => Joinable(via[c])
    BY <1>1, <1>3 DEF Joinable, ViewInv, TypeOK
  <2>2. QED
    BY <1>1, <1>2, <2>1 DEF ViewInv, CallerInv
<1>9. SinceInv'
  <2>1. \A c \in Callers : pc[c] = "wait" => flight[c] \in Flights
    BY DEF ViewInv, CallerInv
  <2>2. QED
    BY <1>1, <1>5, <2>1 DEF ViewInv, SinceInv
<1>10. QED
  BY <1>4, <1>6, <1>7, <1>8, <1>9 DEF ViewInv

LEMMA ExitInv == ASSUME ViewInv, NEW f \in Flights, Exit(f) PROVE ViewInv'
<1>1. /\ call[f].state = "done" /\ \A h \in Hosts : group[h] # f
      /\ valid' = valid \ {f} /\ call' = [call EXCEPT ![f] = NoCall]
      /\ UNCHANGED <<src, floor, item, group, via, pc, flight, since>>
  BY DEF Exit, callerVars, ViewInv, GroupInv, Unfinished
<1>2. \A g \in Flights : IF g = f THEN call'[g] = [host |-> None, state |-> "spare", refresh |-> FALSE,
                                                   answered |-> FALSE, ver |-> 0]
                                  ELSE call'[g] = call[g]
  BY <1>1 DEF ViewInv, TypeOK, NoCall
<1>3. TypeOK'
  <2>1. call'[f] \in Calls
    BY <1>2, NewCall DEF States
  <2>2. QED
    BY <1>1, <2>1 DEF ViewInv, TypeOK
<1>4. NeverGoesBack' /\ floor' <= src'
  BY <1>1 DEF ViewInv, NeverGoesBack
<1>5. FlightInv'
  <2>1. call'[f].ver <= src /\ call'[f].state = "spare" /\ f \notin valid'
    BY <1>1, <1>2 DEF ViewInv, TypeOK, Versions
  <2>2. \A g \in Flights \ {f} : call'[g] = call[g] /\ (g \in valid' => g \in valid)
    BY <1>1, <1>2
  <2>3. QED
    BY <1>1, <2>1, <2>2, OneCallInv
<1>6. GroupInv'
  BY <1>1, <1>2 DEF ViewInv, TypeOK, GroupInv, Unfinished, Wanted
<1>7. CallerInv'
  <2>1. \A c \in Callers : Joinable(via[c])' => Joinable(via[c])
    BY <1>1 DEF Joinable
  <2>2. QED
    BY <1>1, <1>2, <2>1 DEF ViewInv, CallerInv
<1>8. SinceInv'
  BY <1>1, <1>2 DEF ViewInv, CallerInv, SinceInv, Returned
<1>9. QED
  BY <1>3, <1>4, <1>5, <1>6, <1>7, <1>8 DEF ViewInv

-----------------------------------------------------------------------------
LEMMA StutterInv == ASSUME ViewInv, UNCHANGED vars PROVE ViewInv'
<1>1. StoreInv' /\ src' >= src /\ floor' >= floor
  BY DEF vars, storeVars, StoreInv, NeverGoesBack, ViewInv, TypeOK, Versions
<1>2. ~(floor' > floor) /\ valid' \subseteq valid
  BY DEF vars, storeVars, ViewInv, TypeOK, Versions
<1>3. QED
  BY <1>1, <1>2, StoreStepInv DEF vars, storeVars, callerVars

LEMMA NextInv == ASSUME ViewInv, [Next]_vars PROVE ViewInv'
<1>1. ASSUME NEW c \in Callers, CallerStep(c) PROVE ViewInv'
  BY <1>1, HitInv, MissInv, JoinInv, LoadUncachedInv, BeginLoadInv, RecheckHitInv,
     RecheckMissInv, StartRefreshInv, WaitOverInv DEF CallerStep
<1>2. ASSUME NEW f \in Flights, FlightStep(f) PROVE ViewInv'
  BY <1>2, LoaderReturnsInv, PublishInv, FinishInv, ExitInv DEF FlightStep
<1>3. QED
  BY <1>1, <1>2, EnvironmentInv, StutterInv DEF Next

\* The invariant: what a load has read under a valid token is as new as all that
\* was cached, each group holds the load of its own host that can be joined or
\* publish, and a caller at its second look knows a load that no one else does.
THEOREM Invariance == Spec => []ViewInv
<1>1. QED
  BY InitInv, NextInv, PTL DEF Spec

\* What is cached never goes back, through whichever views it is written, loaded
\* and deleted.
THEOREM NeverBack == Spec => []NeverGoesBack
<1>1. ViewInv => NeverGoesBack
  BY DEF ViewInv
<1>2. QED
  BY Invariance, <1>1, PTL

\* No caller collects an answer older than what was cached before its lookup.
THEOREM AnswersFresh == Spec => []AnswerFresh
<1>1. ViewInv => AnswerFresh
  BY DEF ViewInv, SinceInv, AnswerFresh, Waiting, Returned
<1>2. QED
  BY Invariance, <1>1, PTL

\* Each view has one load of the key that callers want, and so has the cache.
THEOREM OneLoad == Spec => []SingleFlight
<1>1. ViewInv => SingleFlight
  BY DEF ViewInv, GroupInv, SingleFlight
<1>2. QED
  BY Invariance, <1>1, PTL

\* The second look: a load that can publish starts when nothing answers its view.
THEOREM Needless == Spec => NoNeedlessLoad
<1> DEFINE Starts == \A f \in Flights :
                       /\ f \in valid
                       /\ call[f].state = "begun" /\ call'[f].state = "running"
                       => ~Answers(call[f].host) /\ ~Joinable(call[f].host)
<1>1. ViewInv /\ [Next]_vars => [Starts]_vars
  <2> SUFFICES ASSUME ViewInv, Next, NEW f \in Flights,
                      call[f].state = "begun", call'[f].state = "running"
               PROVE  ~Answers(call[f].host) /\ ~Joinable(call[f].host)
    OBVIOUS
  <2>1. call \in [Flights -> Calls] /\ call'[f] # call[f]
    BY DEF ViewInv, TypeOK
  <2>2. ASSUME NEW c \in Callers, CallerStep(c)
        PROVE  ~Answers(call[f].host) /\ ~Joinable(call[f].host)
    <3>1. CASE RecheckMiss(c)
      <4>1. f = flight[c]
        BY <2>1, <3>1 DEF RecheckMiss
      <4>2. QED
        BY <3>1, <4>1, RecheckFacts DEF RecheckMiss
    <3>2. ~(\E g \in Flights : LoadUncached(c, g) \/ BeginLoad(c, g) \/ StartRefresh(c, g))
      BY <2>1 DEF LoadUncached, BeginLoad, StartRefresh, Begin, Spare
    <3>3. ~RecheckHit(c)
      BY <2>1 DEF RecheckHit, NoCall
    <3>4. ~(Hit(c) \/ TypeMiss(c) \/ Miss(c) \/ Join(c) \/ SkipRefresh(c) \/ Collect(c) \/ Leave(c))
      BY <2>1 DEF Hit, TypeMiss, Miss, Join, SkipRefresh, Collect, Leave
    <3>5. QED
      BY <2>2, <3>1, <3>2, <3>3, <3>4 DEF CallerStep
  <2>3. ASSUME NEW g \in Flights, FlightStep(g) PROVE FALSE
    BY <2>1, <2>3 DEF FlightStep, LoaderReturns, Publish, Finish, Exit, NoCall
  <2>4. ~Environment
    BY <2>1 DEF Environment, Update, Delete, Forget, Set
  <2>5. QED
    BY <2>2, <2>3, <2>4 DEF Next
<1>2. QED
  BY Invariance, <1>1, PTL DEF Spec, NoNeedlessLoad

=============================================================================
