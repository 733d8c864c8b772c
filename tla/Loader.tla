------------------------------- MODULE Loader -------------------------------
(***************************************************************************)
(* The single flight of one shard: loader.go (GetOrLoad, the flight group, *)
(* load, refresh, run, wait, leave, finish) over the load tokens and the   *)
(* entries of shard.go (set, delete, clear, sweep, get, beginLoad, endLoad,*)
(* invalidateLoads).                                                       *)
(*                                                                         *)
(* A value is the version of the upstream source it was read at.  A step   *)
(* is one critical section of g.mu or s.mu; the only thread that holds     *)
(* g.mu over several critical sections of s.mu is a caller in load(),      *)
(* whose pc is then "recheck" or "expired", and holder names it.  Room in  *)
(* the shard is the subject of module Shard: here an entry may be evicted  *)
(* at any time.                                                            *)
(***************************************************************************)
EXTENDS Integers, FiniteSets

CONSTANTS
    Keys,          \* the keys of the shard
    Callers,       \* goroutines calling GetOrLoad, Get, Lookup
    Flights,       \* a pool of call objects, reused once nothing refers to them
    None,          \* nil
    MaxSource,     \* bound: how often the source is updated
    Outcomes,      \* how a loader may end, a subset of AllOutcomes
    NegativeTTL,   \* Options.NegativeTTL > 0
    RefreshAfter,  \* Options.RefreshAfter > 0
    SplitRead      \* Options.Policy # LRU: get() drops an expired entry in a
                   \* second critical section, after the one that read it

Answers == {"ok", "refused", "absent"}
AllOutcomes == Answers \cup {"failed", "exited"}

ASSUME NoneAssumption == None \notin Flights \cup Callers \cup Keys
ASSUME CallersAssumption == IsFiniteSet(Callers)
ASSUME BoundAssumption == MaxSource \in Nat
ASSUME OptionsAssumption == /\ Outcomes \subseteq AllOutcomes
                            /\ NegativeTTL \in BOOLEAN
                            /\ RefreshAfter \in BOOLEAN
                            /\ SplitRead \in BOOLEAN

VARIABLES
    src,        \* history: the version the upstream source is at
    floor,      \* history: floor[k] is src at k's last Set, Delete or Clear
    items,      \* s.items: an entry, or None
    loads,      \* s.loads: the flights whose token is tracked under a key
    valid,      \* the flights whose token.valid is true
    group,      \* g.calls: the flight registered under a key, or None
    holder,     \* the caller that holds g.mu between steps, or None
    call,       \* the call objects
    cancelled,  \* the flights whose load context is cancelled
    pc, wants, flight,   \* each caller's place, key and call object
    since       \* history: floor of the caller's key when it found it missing

storeVars == <<src, floor, items, loads, valid>>
flightVars == <<group, holder, call, cancelled>>
callerVars == <<pc, wants, flight, since>>
vars == <<storeVars, flightVars, callerVars>>

-----------------------------------------------------------------------------
Versions == 0..MaxSource
Entries == [ver : Versions, neg : BOOLEAN, age : {"fresh", "due", "claimed", "expired"}]
ASSUME EntryAssumption == None \notin Entries \cup [ver : Versions, neg : BOOLEAN]

States == {"spare", "begun", "running", "loaded", "stored", "done"}
Calls == [key : Keys \cup {None}, state : States, refresh : BOOLEAN,
          waiters : Int, outcome : AllOutcomes, ver : Versions]

TypeOK ==
    /\ src \in Versions
    /\ floor \in [Keys -> Versions]
    /\ items \in [Keys -> Entries \cup {None}]
    /\ loads \in [Keys -> SUBSET Flights]
    /\ valid \subseteq Flights
    /\ group \in [Keys -> Flights \cup {None}]
    /\ holder \in Callers \cup {None}
    /\ call \in [Flights -> Calls]
    /\ cancelled \subseteq Flights
    /\ pc \in [Callers -> {"idle", "load", "recheck", "expired", "wait", "refresh", "cancel"}]
    /\ wants \in [Callers -> Keys \cup {None}]
    /\ flight \in [Callers -> Flights \cup {None}]
    /\ since \in [Callers -> Versions]

\* A call object of the pool that stands for none.
NoCall == [key |-> None, state |-> "spare", refresh |-> FALSE,
           waiters |-> 0, outcome |-> "ok", ver |-> 0]

Init ==
    /\ src = 0
    /\ floor = [k \in Keys |-> 0]
    /\ items = [k \in Keys |-> None]
    /\ loads = [k \in Keys |-> {}]
    /\ valid = {}
    /\ group = [k \in Keys |-> None]
    /\ holder = None
    /\ call = [f \in Flights |-> NoCall]
    /\ cancelled = {}
    /\ pc = [c \in Callers |-> "idle"]
    /\ wants = [c \in Callers |-> None]
    /\ flight = [c \in Callers |-> None]
    /\ since = [c \in Callers |-> 0]

-----------------------------------------------------------------------------
(* The shard.                                                              *)

Expired(k) == items[k] # None /\ items[k].age = "expired"
Live(k) == items[k] # None /\ items[k].age # "expired"

\* Mutant: a load that was invalidated is still joined.
JoinableIfRegistered(k) == group[k] # None

\* running(): the load callers of k may join.
Joinable(k) == group[k] # None /\ group[k] \in valid

Drop(k) == items' = [items EXCEPT ![k] = None]

\* get() on a key it reports missing.  Under LRU an expired entry goes in the
\* same critical section; otherwise in a later one, if it is still there, which
\* is then a Sweep.
DropExpired(k) == Drop(k) \/ (SplitRead /\ UNCHANGED items)

InvalidateLoads(ks) ==
    /\ valid' = valid \ UNION {loads[k] : k \in ks}
    /\ loads' = [k \in Keys |-> IF k \in ks THEN {} ELSE loads[k]]

Store(k, v, neg) ==
    /\ InvalidateLoads({k})
    /\ items' = [items EXCEPT ![k] = [ver |-> v, neg |-> neg, age |-> "fresh"]]

\* A call object that nothing refers to any more is the next one allocated.
Spare == {f \in Flights : call[f].state = "spare" /\ \A c \in Callers : flight[c] # f}

\* beginLoad(): a fresh token for the call f that is about to be registered.
Begin(f, k, state, refresh) ==
    /\ loads' = [loads EXCEPT ![k] = @ \cup {f}]
    /\ valid' = valid \cup {f}
    /\ call' = [call EXCEPT ![f] = [key |-> k, state |-> state, refresh |-> refresh,
                                    waiters |-> 1, outcome |-> "ok", ver |-> 0]]

\* Mutant: the token of a finished load stays in s.loads.
EndLoadLeavingToken(k, f) ==
    /\ UNCHANGED <<loads, valid>>
    /\ call' = [call EXCEPT ![f] = NoCall]

\* endLoad(), the last that is seen of the call and its token.
EndLoad(k, f) ==
    /\ loads' = [loads EXCEPT ![k] = @ \ {f}]
    /\ valid' = valid \ {f}
    /\ call' = [call EXCEPT ![f] = NoCall]

Return(c) ==
    /\ pc' = [pc EXCEPT ![c] = "idle"]
    /\ wants' = [wants EXCEPT ![c] = None]
    /\ flight' = [flight EXCEPT ![c] = None]
    /\ since' = [since EXCEPT ![c] = 0]

-----------------------------------------------------------------------------
(* A caller of GetOrLoad.  A hit that claims no refresh, and a Get that     *)
(* misses, change nothing but what Sweep does.                             *)

\* cached(): a hit on an entry that is due claims its one refresh.
Hit(c, k) ==
    /\ pc[c] = "idle" /\ RefreshAfter
    /\ items[k] # None /\ ~items[k].neg /\ items[k].age = "due"
    /\ items' = [items EXCEPT ![k].age = "claimed"]
    /\ pc' = [pc EXCEPT ![c] = "refresh"]
    /\ wants' = [wants EXCEPT ![c] = k]
    /\ UNCHANGED <<src, floor, loads, valid, flightVars, flight, since>>

Miss(c, k) ==
    /\ pc[c] = "idle" /\ ~Live(k)
    /\ DropExpired(k)
    /\ pc' = [pc EXCEPT ![c] = "load"]
    /\ wants' = [wants EXCEPT ![c] = k]
    /\ since' = [since EXCEPT ![c] = floor[k]]
    /\ UNCHANGED <<src, floor, loads, valid, flightVars, flight>>

\* Mutant: joining does not count the waiter.
JoinUncounted(c) ==
    LET k == wants[c] IN
    /\ pc[c] = "load" /\ holder = None /\ Joinable(k)
    /\ flight' = [flight EXCEPT ![c] = group[k]]
    /\ pc' = [pc EXCEPT ![c] = "wait"]
    /\ UNCHANGED <<storeVars, flightVars, wants, since>>

\* load(): wait for the load that is running.
Join(c) ==
    LET k == wants[c] IN
    /\ pc[c] = "load" /\ holder = None /\ Joinable(k)
    /\ call' = [call EXCEPT ![group[k]].waiters = @ + 1]
    /\ flight' = [flight EXCEPT ![c] = group[k]]
    /\ pc' = [pc EXCEPT ![c] = "wait"]
    /\ UNCHANGED <<storeVars, group, holder, cancelled, wants, since>>

\* load(): take g.mu and a token, before the cache is looked at again.
BeginLoad(c, f) ==
    /\ pc[c] = "load" /\ holder = None /\ ~Joinable(wants[c])
    /\ f \in Spare
    /\ Begin(f, wants[c], "begun", FALSE)
    /\ holder' = c
    /\ flight' = [flight EXCEPT ![c] = f]
    /\ pc' = [pc EXCEPT ![c] = "recheck"]
    /\ UNCHANGED <<src, floor, items, group, cancelled, wants, since>>

\* load(): someone published since the lookup; give the token back.
RecheckHit(c) ==
    /\ pc[c] = "recheck" /\ Live(wants[c])
    /\ EndLoad(wants[c], flight[c])
    /\ holder' = None
    /\ Return(c)
    /\ UNCHANGED <<src, floor, items, group, cancelled>>

\* startAndUnlock()
Start(c) ==
    /\ group' = [group EXCEPT ![wants[c]] = flight[c]]
    /\ call' = [call EXCEPT ![flight[c]].state = "running"]
    /\ holder' = None
    /\ pc' = [pc EXCEPT ![c] = "wait"]
    /\ UNCHANGED <<src, floor, loads, valid, cancelled, wants, flight, since>>

\* Mutant: the cache is not looked at again.
StartAnyway(c) ==
    /\ pc[c] = "recheck"
    /\ Drop(wants[c])
    /\ Start(c)

RecheckMiss(c) ==
    /\ pc[c] = "recheck" /\ ~Live(wants[c])
    /\ Drop(wants[c])
    /\ SplitRead => ~Expired(wants[c])
    /\ Start(c)

\* get() read an expired entry and let go of the read lock: whatever happens
\* before it takes the write lock, it reports a miss.
RecheckExpired(c) ==
    /\ pc[c] = "recheck" /\ SplitRead /\ Expired(wants[c])
    /\ pc' = [pc EXCEPT ![c] = "expired"]
    /\ UNCHANGED <<storeVars, flightVars, wants, flight, since>>

StartExpired(c) ==
    /\ pc[c] = "expired"
    /\ IF Expired(wants[c]) THEN DropExpired(wants[c]) ELSE UNCHANGED items
    /\ Start(c)

\* refresh(): the flight's one waiter never leaves.
StartRefresh(c, f) ==
    LET k == wants[c] IN
    /\ pc[c] = "refresh" /\ holder = None /\ ~Joinable(k)
    /\ f \in Spare
    /\ Begin(f, k, "running", TRUE)
    /\ group' = [group EXCEPT ![k] = f]
    /\ Return(c)
    /\ UNCHANGED <<src, floor, items, holder, cancelled>>

SkipRefresh(c) ==
    /\ pc[c] = "refresh" /\ holder = None /\ Joinable(wants[c])
    /\ Return(c)
    /\ UNCHANGED <<storeVars, flightVars>>

\* wait(): the load is over, its answer published.
Collect(c) ==
    /\ pc[c] = "wait" /\ call[flight[c]].state \in {"done", "spare"}
    /\ Return(c)
    /\ UNCHANGED <<storeVars, flightVars>>

\* Mutant: a newer load's registration goes too.
DropWhateverIsThere(f) == group' = [group EXCEPT ![call[f].key] = None]

\* drop()
DropCall(f) ==
    group' = [k \in Keys |-> IF k = call[f].key /\ group[k] = f THEN None ELSE group[k]]

\* Mutant: the first caller to give up cancels the load.
AnyWaiter(f) == call[f].waiters \in Nat

\* wait(), leave(): the caller's context is done, at any time.
LastWaiter(f) == call[f].waiters = 1
Leave(c) ==
    LET f == flight[c] IN
    /\ pc[c] = "wait" /\ call[f].state # "spare" /\ holder = None
    /\ call' = [call EXCEPT ![f].waiters = @ - 1]
    /\ \/ LastWaiter(f) /\ DropCall(f) /\ pc' = [pc EXCEPT ![c] = "cancel"]
                         /\ UNCHANGED <<wants, flight, since>>
       \/ ~LastWaiter(f) /\ Return(c) /\ UNCHANGED group
    /\ UNCHANGED <<storeVars, holder, cancelled>>

\* Mutant: the last waiter leaves without cancelling.
LeaveRunning(c) ==
    /\ pc[c] = "cancel"
    /\ Return(c)
    /\ UNCHANGED <<storeVars, flightVars>>

\* leave(), after g.mu is released.
Cancel(c) ==
    LET f == flight[c] IN
    /\ pc[c] = "cancel"
    /\ cancelled' = IF call[f].state = "spare" THEN cancelled ELSE cancelled \cup {f}
    /\ Return(c)
    /\ UNCHANGED <<storeVars, group, holder, call>>

-----------------------------------------------------------------------------
(* The goroutine of a flight: run().                                       *)

\* What is offered to the shard: "refused" is a value larger than the budget,
\* and a negative is not stored without a NegativeTTL.
Storable(outcome) == outcome = "ok" \/ (outcome = "absent" /\ NegativeTTL)

\* The loader returns what it read of the source; a cancelled one may fail.
LoaderReturns(f, outcome) ==
    /\ call[f].state = "running"
    /\ outcome \in Outcomes \/ (outcome = "failed" /\ f \in cancelled)
    /\ call' = [call EXCEPT ![f].state = IF Storable(outcome) THEN "loaded" ELSE "stored",
                            ![f].outcome = outcome,
                            ![f].ver = IF outcome \in Answers THEN src ELSE 0]
    /\ UNCHANGED <<storeVars, group, holder, cancelled, callerVars>>

\* Mutant: a load does not store over an entry that is there.
PublishIfAbsent(f) ==
    LET k == call[f].key IN
    /\ call[f].state = "loaded"
    /\ IF f \in valid /\ items[k] = None
          THEN Store(k, call[f].ver, call[f].outcome = "absent")
          ELSE UNCHANGED <<items, loads, valid>>
    /\ call' = [call EXCEPT ![f].state = "stored"]
    /\ UNCHANGED <<src, floor, group, holder, cancelled, callerVars>>

\* Mutant: the token is checked before the loader runs, not under the lock.
PublishUnchecked(f) ==
    LET k == call[f].key IN
    /\ call[f].state = "loaded"
    /\ Store(k, call[f].ver, call[f].outcome = "absent")
    /\ call' = [call EXCEPT ![f].state = "stored"]
    /\ UNCHANGED <<src, floor, group, holder, cancelled, callerVars>>

\* set() with the flight's token.
Publish(f) ==
    LET k == call[f].key IN
    /\ call[f].state = "loaded"
    /\ IF f \in valid THEN Store(k, call[f].ver, call[f].outcome = "absent")
                      ELSE UNCHANGED <<items, loads, valid>>
    /\ call' = [call EXCEPT ![f].state = "stored"]
    /\ UNCHANGED <<src, floor, group, holder, cancelled, callerVars>>

\* Mutant: a load that was replaced in the group is not finished.
FinishRegistered(f) ==
    /\ call[f].state = "stored" /\ holder = None
    /\ group[call[f].key] = f
    /\ DropCall(f)
    /\ call' = [call EXCEPT ![f].state = "done"]
    /\ UNCHANGED <<storeVars, holder, cancelled, callerVars>>

\* finish()
Finish(f) ==
    /\ call[f].state = "stored" /\ holder = None
    /\ DropCall(f)
    /\ call' = [call EXCEPT ![f].state = "done"]
    /\ UNCHANGED <<storeVars, holder, cancelled, callerVars>>

\* The deferred cancel() and endLoad().
Exit(f) ==
    /\ call[f].state = "done"
    /\ EndLoad(call[f].key, f)
    /\ cancelled' = cancelled \ {f}
    /\ UNCHANGED <<src, floor, items, group, holder, callerVars>>

-----------------------------------------------------------------------------
(* Everyone else: the source, the application's writes, and time.          *)

Update ==
    /\ src < MaxSource
    /\ src' = src + 1
    /\ UNCHANGED <<floor, items, loads, valid, flightVars, callerVars>>

\* A successful Set or SetNegative, of what the source holds.
Set(k, neg) ==
    /\ Store(k, src, neg)
    /\ floor' = [floor EXCEPT ![k] = src]
    /\ UNCHANGED <<src, flightVars, callerVars>>

\* Delete
Delete(k) ==
    /\ InvalidateLoads({k})
    /\ Drop(k)
    /\ floor' = [floor EXCEPT ![k] = src]
    /\ UNCHANGED <<src, flightVars, callerVars>>

\* Mutant: loads outlive a Clear.
ClearItems ==
    /\ items' = [k \in Keys |-> None]
    /\ floor' = [k \in Keys |-> src]
    /\ UNCHANGED <<src, loads, valid, flightVars, callerVars>>

\* Clear
Clear ==
    /\ InvalidateLoads(Keys)
    /\ items' = [k \in Keys |-> None]
    /\ floor' = [k \in Keys |-> src]
    /\ UNCHANGED <<src, flightVars, callerVars>>

\* Time passes an entry's refreshAt, or its expiresAt.
Age(k) ==
    /\ RefreshAfter /\ items[k] # None /\ ~items[k].neg /\ items[k].age = "fresh"
    /\ items' = [items EXCEPT ![k].age = "due"]
    /\ UNCHANGED <<src, floor, loads, valid, flightVars, callerVars>>

Expire(k) ==
    /\ Live(k)
    /\ items' = [items EXCEPT ![k].age = "expired"]
    /\ UNCHANGED <<src, floor, loads, valid, flightVars, callerVars>>

\* sweep(), or the lookup that drops an expired entry.
Sweep(k) ==
    /\ Expired(k)
    /\ Drop(k)
    /\ UNCHANGED <<src, floor, loads, valid, flightVars, callerVars>>

\* evict(), by the store of another key.
Evict(k) ==
    /\ items[k] # None
    /\ Drop(k)
    /\ UNCHANGED <<src, floor, loads, valid, flightVars, callerVars>>

-----------------------------------------------------------------------------
CallerStep(c) ==
    \/ \E k \in Keys : Hit(c, k) \/ Miss(c, k)
    \/ Join(c)
    \/ \E f \in Flights : BeginLoad(c, f) \/ StartRefresh(c, f)
    \/ RecheckHit(c) \/ RecheckMiss(c) \/ RecheckExpired(c) \/ StartExpired(c)
    \/ SkipRefresh(c)
    \/ Collect(c) \/ Leave(c) \/ Cancel(c)

FlightStep(f) ==
    \/ \E outcome \in AllOutcomes : LoaderReturns(f, outcome)
    \/ Publish(f) \/ Finish(f) \/ Exit(f)

Environment ==
    \/ Update
    \/ Clear
    \/ \E k \in Keys : \/ \E neg \in BOOLEAN : Set(k, neg)
                       \/ Delete(k)
                       \/ Age(k) \/ Expire(k) \/ Sweep(k) \/ Evict(k)

Next ==
    \/ \E c \in Callers : CallerStep(c)
    \/ \E f \in Flights : FlightStep(f)
    \/ Environment

Spec == Init /\ [][Next]_vars

\* Fairness: goroutines that can run do, sync.Mutex hands itself to a waiter it
\* has starved, and the application's loaders return when someone waits for them
\* or their context is cancelled; one that nobody told may run for ever.
MoveOn(c) ==
    \/ Join(c)
    \/ \E f \in Flights : BeginLoad(c, f) \/ StartRefresh(c, f)
    \/ RecheckHit(c) \/ RecheckMiss(c) \/ RecheckExpired(c) \/ StartExpired(c)
    \/ SkipRefresh(c) \/ Collect(c) \/ Cancel(c)

RunOn(f) ==
    /\ call[f].state = "running" => call[f].waiters > 0 \/ f \in cancelled
    /\ FlightStep(f)

FairSpec ==
    /\ Spec
    /\ \A c \in Callers : SF_vars(MoveOn(c))
    /\ \A f \in Flights : SF_vars(RunOn(f))

-----------------------------------------------------------------------------
(* Safety.                                                                 *)

Unfinished(f) == call[f].state \in {"running", "loaded", "stored"}
Done(f) == call[f].state = "done"
Waiting(c, f) == pc[c] = "wait" /\ flight[c] = f

\* The cache never serves what is older than the key's last Set, Delete or
\* Clear, however long ago the load that is storing it began (set() checks the
\* token that invalidateLoads takes away).
Fresh == \A k \in Keys : items[k] # None => items[k].ver >= floor[k]

\* A caller is never answered with what is older than the last invalidation
\* before its lookup, whichever load it joined (running() hides the loads that
\* were invalidated).
AnswerFresh ==
    \A c \in Callers : \A f \in Flights :
        Waiting(c, f) /\ Done(f) /\ call[f].outcome \in Answers => call[f].ver >= since[c]

\* "Callers of a key whose load is running wait for it instead of starting
\* their own" (loader.go:12): of the loads of a key that were neither
\* invalidated nor abandoned, one runs, and no load is joined once it is over.
SingleFlight ==
    /\ \A f, g \in Flights :
        /\ f \in valid /\ Unfinished(f) /\ call[f].waiters > 0
        /\ g \in valid /\ Unfinished(g) /\ call[g].waiters > 0
        /\ call[f].key = call[g].key
        => f = g
    /\ \A k \in Keys : group[k] # None =>
        Unfinished(group[k]) /\ call[group[k]].key = k

\* "Looking again under the lock makes 'one load per key' exact" (loader.go:189):
\* when an ordinary load starts that can still publish, no lookup would hit the
\* key and no load of it could be joined.  With a split read the recheck may
\* miss an entry stored meanwhile, but then its token, taken before, is invalid.
NoNeedlessLoad ==
    [][\A f \in Flights :
        /\ f \in valid
        /\ call[f].state = "begun" /\ call'[f].state = "running"
        => ~Live(call[f].key) /\ ~Joinable(call[f].key)]_vars

\* waiters is what it says while the load runs, a refresh being its own waiter:
\* those who leave are the last exactly when nobody waits any more.
WaitersCounted ==
    \A f \in Flights : Unfinished(f) =>
        call[f].waiters = Cardinality({c \in Callers : Waiting(c, f)})
                          + (IF call[f].refresh THEN 1 ELSE 0)

\* A load is cancelled only once nobody wants it: no caller waits for it or can
\* come to, and it is not a refresh (leave(), and refresh()'s own waiter).
OnlyAbandonedCancelled ==
    \A f \in cancelled : Unfinished(f) =>
        /\ ~call[f].refresh
        /\ \A c \in Callers : ~Waiting(c, f)
        /\ \A k \in Keys : group[k] # f

\* "Only active loads are tracked; invalidation never leaves per-key
\* tombstones" (shard.go:65), and a load that can still publish is tracked, so
\* that the next invalidation reaches it.
TokensTracked ==
    \A f \in Flights : \A k \in Keys :
        f \in loads[k] <=> f \in valid /\ call[f].key = k

\* "A loaded value is stored before this returns" (loader.go:15), unless it was
\* too large, or a write or an invalidation of the key came during the load:
\* storing takes the load's own token away, so a token still valid at the end
\* was never used.
StoredBeforeReturn ==
    \A c \in Callers : \A f \in Flights :
        Waiting(c, f) /\ Done(f) /\ f \in valid =>
            call[f].outcome \notin {"ok", "exited"}

\* The inductive invariant behind Fresh and AnswerFresh.  What a load has read
\* while its token is valid is as new as its key's floor, and its token is where
\* the next invalidation looks.
Returned(f) ==
    \/ call[f].state = "loaded"
    \/ call[f].state \in {"stored", "done"} /\ call[f].outcome \in Answers
ValidFresh ==
    \A f \in valid :
        /\ call[f].state # "spare"
        /\ call[f].key \in Keys
        /\ f \in loads[call[f].key]
        /\ Returned(f) => call[f].ver >= floor[call[f].key] /\ call[f].ver <= src
FloorBounded == \A k \in Keys : floor[k] <= src

\* Only running loads are registered, each under its own key.
Registered == \A k \in Keys : group[k] # None => Unfinished(group[k]) /\ call[group[k]].key = k

\* What a caller's place says of its variables; one caller at most holds g.mu.
CallerInv ==
    \A c \in Callers :
        /\ pc[c] # "idle" => wants[c] \in Keys
        /\ pc[c] \in {"idle", "load", "refresh"} => flight[c] = None
        /\ pc[c] \in {"wait", "cancel"} => flight[c] \in Flights /\ call[flight[c]].state # "begun"
        /\ pc[c] \in {"recheck", "expired"} =>
            /\ holder = c
            /\ flight[c] \in Flights
            /\ call[flight[c]].state = "begun" /\ call[flight[c]].key = wants[c]

\* A caller asks for nothing newer than what its load has, or will have, read.
SinceInv ==
    \A c \in Callers :
        /\ since[c] <= src
        /\ pc[c] = "load" => since[c] <= floor[wants[c]]
        /\ pc[c] = "wait" /\ Returned(flight[c]) => call[flight[c]].ver >= since[c]

LoaderInv ==
    /\ TypeOK
    /\ FloorBounded
    /\ Fresh
    /\ ValidFresh
    /\ Registered
    /\ CallerInv
    /\ SinceInv

\* The inductive invariant behind the others, on top of that one.  Of the loads that
\* can publish and that are wanted, each is where callers look for it; only a load
\* that nobody wants is cancelled; and what holds g.mu has seen no load to join, nor,
\* if its token is still valid, an entry.
Begun == \A f \in Flights :
    call[f].state = "begun" => call[f].waiters = 1 /\ ~call[f].refresh
GroupWanted == \A k \in Keys : group[k] # None => call[group[k]].waiters > 0
WantedGrouped == \A f \in Flights :
    f \in valid /\ Unfinished(f) /\ call[f].waiters > 0 => group[call[f].key] = f
CancelInv ==
    /\ \A f \in cancelled : call[f].state \notin {"spare", "begun"}
    /\ \A f \in cancelled : Unfinished(f) => call[f].waiters = 0
    /\ \A c \in Callers : pc[c] = "cancel" /\ Unfinished(flight[c]) => call[flight[c]].waiters = 0
LockedInv ==
    \A c \in Callers : pc[c] \in {"recheck", "expired"} =>
        /\ ~Joinable(wants[c])
        /\ pc[c] = "expired" /\ flight[c] \in valid => ~Live(wants[c])
Unstored == \A f \in valid : call[f].state \in {"stored", "done"} => call[f].outcome # "ok"

FlightsInv ==
    /\ TokensTracked
    /\ WaitersCounted
    /\ Begun
    /\ GroupWanted
    /\ WantedGrouped
    /\ CancelInv
    /\ LockedInv
    /\ Unstored

-----------------------------------------------------------------------------
(* Liveness, under FairSpec.                                               *)

\* Every call returns, though nobody's context is ever done: no waiter is left
\* behind on a load that ended, was invalidated or was replaced in the group,
\* and none waits for g.mu for ever.
CallsReturn == \A c \in Callers : pc[c] # "idle" ~> pc[c] = "idle"

\* An abandoned load is told: it is cancelled, if it does not end first.
AbandonedCancelled ==
    \A f \in Flights :
        Unfinished(f) /\ call[f].waiters = 0 ~> f \in cancelled \/ ~Unfinished(f)

\* Tokens of loads that ended do not pile up.
TokensReleased ==
    \A f \in Flights : \A k \in Keys : f \in loads[k] ~> f \notin loads[k]

-----------------------------------------------------------------------------
(* What the loads and the writes promise together: module FreshCache.      *)

Visible == [k \in Keys |-> IF Live(k) THEN [ver |-> items[k].ver, neg |-> items[k].neg]
                                      ELSE None]
Abstract == INSTANCE FreshCache WITH cached <- Visible

\* Whatever order lookups, loads, writes and invalidations interleave in, what
\* lookups see is a FreshCache.
ImplementsFreshCache == Abstract!Spec

=============================================================================
