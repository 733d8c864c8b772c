-------------------------------- MODULE View --------------------------------
(***************************************************************************)
(* One key of a cache, read and written through the cache itself and       *)
(* through views of its name (view.go, view_loader.go, and the batchHost   *)
(* of view_loader_batch.go, whose publish, recheck and runOne are these).  *)
(* A view has a type and a flight group of its own; the entry and the      *)
(* tokens of its loads are shared, under the full key.  A view may also    *)
(* have no cache.                                                          *)
(*                                                                         *)
(* A value is the version of the source it was read at, and its type.  The *)
(* group's functions are those of module Loader, which counts waiters and  *)
(* cancels: here a load's waiters are the callers that wait for it, and    *)
(* any load may fail.  Expired entries, and entries that were evicted, are *)
(* none.                                                                   *)
(***************************************************************************)
EXTENDS Integers

CONSTANTS
    Cache,         \* the cache, as one that reads and writes the key
    Views,         \* the views of the name
    Off,           \* those made with a nil cache
    Types,
    TypeOf,        \* the type of each view
    Refreshing,    \* whose RefreshAfter is set
    Callers,       \* goroutines
    Plans,         \* whom they may call, each of them one host: who calls another
                   \* is another caller
    Flights,       \* a pool of call objects, as in Loader
    None,          \* nil
    MaxSource      \* bound: how often the source is updated

Hosts == Views \cup {Cache}
Absent == "absent"
Kinds == Types \cup {Absent}

ASSUME HostsAssumption == /\ Cache \notin Views /\ Off \subseteq Views
                          /\ Refreshing \subseteq Hosts
ASSUME TypesAssumption == /\ TypeOf \in [Views -> Types] /\ Absent \notin Types
ASSUME PlansAssumption == Plans \subseteq [Callers -> Hosts]
ASSUME NoneAssumption == None \notin Flights \cup Hosts
ASSUME BoundAssumption == MaxSource \in Nat

VARIABLES
    src,        \* history: the version the upstream source is at
    floor,      \* history: the newest version that was cached, or the one the
                \* source was at when the key was last written or deleted
    item,       \* the entry of the key, or None
    valid,      \* the flights whose token is tracked and valid
    group,      \* group[h]: the flight registered in h's group, or None
    call,       \* the call objects
    via,        \* the host each caller calls
    pc, flight, \* each caller's place and call object
    since       \* history: floor when the caller found the key missing

storeVars == <<src, floor, item, valid>>
callerVars == <<via, pc, flight, since>>
vars == <<storeVars, group, call, callerVars>>

-----------------------------------------------------------------------------
Versions == 0..MaxSource
\* refreshAt is 0 or not: when it is not, it may have passed by now.
Entries == [ver : Versions, kind : Kinds, byView : BOOLEAN, refreshAt : BOOLEAN]
ASSUME EntryAssumption == None \notin Entries
States == {"spare", "begun", "running", "loaded", "stored", "done"}
Calls == [host : Hosts \cup {None}, state : States, refresh : BOOLEAN,
          answered : BOOLEAN, ver : Versions]

TypeOK ==
    /\ src \in Versions
    /\ floor \in Versions
    /\ item \in Entries \cup {None}
    /\ valid \subseteq Flights
    /\ group \in [Hosts -> Flights \cup {None}]
    /\ call \in [Flights -> Calls]
    /\ pc \in [Callers -> {"idle", "load", "recheck", "wait", "refresh"}]
    /\ via \in [Callers -> Hosts]
    /\ flight \in [Callers -> Flights \cup {None}]
    /\ since \in [Callers -> Versions]

NoCall == [host |-> None, state |-> "spare", refresh |-> FALSE,
           answered |-> FALSE, ver |-> 0]

Init ==
    /\ src = 0
    /\ floor = 0
    /\ item = None
    /\ valid = {}
    /\ group = [h \in Hosts |-> None]
    /\ call = [f \in Flights |-> NoCall]
    /\ pc = [c \in Callers |-> "idle"]
    /\ via \in Plans
    /\ flight = [c \in Callers |-> None]
    /\ since = [c \in Callers |-> 0]

-----------------------------------------------------------------------------
(* The shard, and the flight groups.                                       *)

\* A view has one type; the cache's is any.
KindsOf(h) == IF h = Cache THEN Kinds ELSE {Absent, TypeOf[h]}

\* What h writes.
Entry(h, ver, kind) ==
    [ver |-> ver, kind |-> kind, byView |-> h # Cache /\ kind # Absent,
     refreshAt |-> h \in Refreshing /\ kind # Absent]

\* Mutant: a store leaves the other loads their tokens.
StoreOver(entry, ver) ==
    /\ item' = entry
    /\ floor' = IF ver > floor THEN ver ELSE floor
    /\ UNCHANGED valid

\* set(): the key's loads, through whatever host, may no longer publish.
Store(entry, ver) ==
    /\ item' = entry
    /\ floor' = IF ver > floor THEN ver ELSE floor
    /\ valid' = {}

\* A negative entry, or a value of the type of h.
Answers(h) == item # None /\ item.kind \in KindsOf(h)

\* claimRefresh(), by a read through h: it swaps refreshAt for 0.
Claim(h) ==
    /\ item # None /\ item.refreshAt
    /\ h \in Refreshing
    /\ item.byView <=> h # Cache
    /\ item' = [item EXCEPT !.refreshAt = FALSE]

\* Mutant: a load whose token another's store took away is still joined.
JoinableIfRegistered(h) == group[h] # None

\* running(): a load without a cache has no token.
Joinable(h) == group[h] # None /\ (h \in Off \/ group[h] \in valid)

\* The caller at "recheck" holds its host's g.mu.
Unlocked(h) == \A c \in Callers : ~(pc[c] = "recheck" /\ via[c] = h)

Spare == {f \in Flights : call[f].state = "spare" /\ \A c \in Callers : flight[c] # f}

Begin(f, h, state, refresh) ==
    call' = [call EXCEPT ![f] = [NoCall EXCEPT !.host = h, !.state = state, !.refresh = refresh]]

Return(c) ==
    /\ pc' = [pc EXCEPT ![c] = "idle"]
    /\ UNCHANGED via
    /\ flight' = [flight EXCEPT ![c] = None]
    /\ since' = [since EXCEPT ![c] = 0]

Wait(c, f) ==
    /\ pc' = [pc EXCEPT ![c] = "wait"]
    /\ flight' = [flight EXCEPT ![c] = f]
    /\ UNCHANGED <<via, since>>

-----------------------------------------------------------------------------
(* A caller.  A hit that claims no refresh, and a Get that finds nothing,  *)
(* change nothing.                                                         *)

\* lookup(): a hit on what is due.
Hit(c) ==
    LET h == via[c] IN
    /\ pc[c] = "idle" /\ h \notin Off /\ Answers(h) /\ Claim(h)
    /\ pc' = [pc EXCEPT ![c] = "refresh"]
    /\ UNCHANGED <<src, floor, valid, group, call, via, flight, since>>

\* lookup() of Get, on a value of another type: the refresh it claims is started
\* by nobody.
TypeMiss(c) ==
    LET h == via[c] IN
    /\ pc[c] = "idle" /\ h \notin Off /\ ~Answers(h) /\ Claim(h)
    /\ UNCHANGED <<src, floor, valid, group, call, callerVars>>

\* getOrLoad(): nothing, or a value of another type, which it may claim too.
Miss(c) ==
    LET h == via[c] IN
    /\ pc[c] = "idle"
    /\ \/ h \in Off /\ UNCHANGED item
       \/ h \notin Off /\ ~Answers(h) /\ (Claim(h) \/ UNCHANGED item)
    /\ pc' = [pc EXCEPT ![c] = "load"]
    /\ since' = [since EXCEPT ![c] = IF h \in Off THEN 0 ELSE floor]
    /\ UNCHANGED <<src, floor, valid, group, call, via, flight>>

Join(c) ==
    /\ pc[c] = "load" /\ Unlocked(via[c]) /\ Joinable(via[c])
    /\ Wait(c, group[via[c]])
    /\ UNCHANGED <<storeVars, group, call>>

\* Mutant: each call of a view without a cache loads for itself.
LoadAlone(c, f) ==
    /\ pc[c] = "load" /\ via[c] \in Off
    /\ f \in Spare
    /\ Begin(f, via[c], "running", FALSE)
    /\ group' = [group EXCEPT ![via[c]] = f]
    /\ Wait(c, f)
    /\ UNCHANGED storeVars

\* loadUncached(): no token, and nothing to look at again.
LoadUncached(c, f) ==
    /\ pc[c] = "load" /\ via[c] \in Off /\ ~Joinable(via[c])
    /\ f \in Spare
    /\ Begin(f, via[c], "running", FALSE)
    /\ group' = [group EXCEPT ![via[c]] = f]
    /\ Wait(c, f)
    /\ UNCHANGED storeVars

\* load(): lock the group and take a token under the full key.
BeginLoad(c, f) ==
    /\ pc[c] = "load" /\ via[c] \notin Off /\ Unlocked(via[c]) /\ ~Joinable(via[c])
    /\ f \in Spare
    /\ Begin(f, via[c], "begun", FALSE)
    /\ valid' = valid \cup {f}
    /\ pc' = [pc EXCEPT ![c] = "recheck"]
    /\ flight' = [flight EXCEPT ![c] = f]
    /\ UNCHANGED <<src, floor, item, group, via, since>>

\* Mutant: the token of the load that is not needed stays in the shard.
RecheckHitLeavingToken(c) ==
    /\ pc[c] = "recheck" /\ Answers(via[c])
    /\ call' = [call EXCEPT ![flight[c]] = NoCall]
    /\ Return(c)
    /\ UNCHANGED <<storeVars, group>>

\* load(): someone has published an answer of this type.
RecheckHit(c) ==
    /\ pc[c] = "recheck" /\ Answers(via[c])
    /\ valid' = valid \ {flight[c]}
    /\ call' = [call EXCEPT ![flight[c]] = NoCall]
    /\ Return(c)
    /\ UNCHANGED <<src, floor, item, group>>

\* Mutant: the cache is not looked at again.
StartAnyway(c) ==
    /\ pc[c] = "recheck"
    /\ group' = [group EXCEPT ![via[c]] = flight[c]]
    /\ call' = [call EXCEPT ![flight[c]].state = "running"]
    /\ pc' = [pc EXCEPT ![c] = "wait"]
    /\ UNCHANGED <<storeVars, via, flight, since>>

\* load(): "a value of another type still needs loading".
RecheckMiss(c) ==
    /\ pc[c] = "recheck" /\ ~Answers(via[c])
    /\ group' = [group EXCEPT ![via[c]] = flight[c]]
    /\ call' = [call EXCEPT ![flight[c]].state = "running"]
    /\ pc' = [pc EXCEPT ![c] = "wait"]
    /\ UNCHANGED <<storeVars, via, flight, since>>

StartRefresh(c, f) ==
    /\ pc[c] = "refresh" /\ Unlocked(via[c]) /\ ~Joinable(via[c])
    /\ f \in Spare
    /\ Begin(f, via[c], "running", TRUE)
    /\ valid' = valid \cup {f}
    /\ group' = [group EXCEPT ![via[c]] = f]
    /\ Return(c)
    /\ UNCHANGED <<src, floor, item>>

SkipRefresh(c) ==
    /\ pc[c] = "refresh" /\ Unlocked(via[c]) /\ Joinable(via[c])
    /\ Return(c)
    /\ UNCHANGED <<storeVars, group, call>>

\* wait(): the answer is published.
Collect(c) ==
    /\ pc[c] = "wait" /\ call[flight[c]].state \in {"done", "spare"}
    /\ Return(c)
    /\ UNCHANGED <<storeVars, group, call>>

\* drop()
DropCall(f) == group' = [h \in Hosts |-> IF group[h] = f THEN None ELSE group[h]]

\* leave(): the caller's context is done, at any time; the last waiter abandons the load.
Wanted(f) == call[f].refresh \/ \E c \in Callers : pc[c] = "wait" /\ flight[c] = f
Leave(c) ==
    LET f == flight[c] IN
    /\ pc[c] = "wait" /\ call[f].state # "spare" /\ Unlocked(via[c])
    /\ IF call[f].refresh \/ \E d \in Callers \ {c} : pc[d] = "wait" /\ flight[d] = f
          THEN UNCHANGED group
          ELSE DropCall(f)
    /\ Return(c)
    /\ UNCHANGED <<storeVars, call>>

-----------------------------------------------------------------------------
(* The goroutine of a flight: run().                                       *)

\* The loader answers with what it read of the source, or fails.  An answer that is
\* too large, or negative where no NegativeTTL is set, is not stored.
LoaderReturns(f, answered, storable) ==
    /\ call[f].state = "running"
    /\ storable => answered /\ call[f].host \notin Off
    /\ call' = [call EXCEPT ![f].state = IF storable THEN "loaded" ELSE "stored",
                            ![f].answered = answered, ![f].ver = IF answered THEN src ELSE 0]
    /\ UNCHANGED <<storeVars, group, callerVars>>

\* setValue(), setNegative() under the flight's token.
Publish(f, kind) ==
    LET h == call[f].host IN
    /\ call[f].state = "loaded" /\ kind \in KindsOf(h)
    /\ IF f \in valid THEN Store(Entry(h, call[f].ver, kind), call[f].ver)
                       ELSE UNCHANGED <<item, floor, valid>>
    /\ call' = [call EXCEPT ![f].state = "stored"]
    /\ UNCHANGED <<src, group, callerVars>>

Finish(f) ==
    /\ call[f].state = "stored" /\ Unlocked(call[f].host)
    /\ DropCall(f)
    /\ call' = [call EXCEPT ![f].state = "done"]
    /\ UNCHANGED <<storeVars, callerVars>>

\* The deferred endLoad().
Exit(f) ==
    /\ call[f].state = "done"
    /\ valid' = valid \ {f}
    /\ call' = [call EXCEPT ![f] = NoCall]
    /\ UNCHANGED <<src, floor, item, group, callerVars>>

-----------------------------------------------------------------------------
(* Everyone else: the source, the application's writes, and time.          *)

Update ==
    /\ src < MaxSource
    /\ src' = src + 1
    /\ UNCHANGED <<floor, item, valid, group, call, callerVars>>

\* Set, SetNegative, of what the source holds; a view without a cache has ErrDisabled.
Set(h, kind) ==
    /\ h \notin Off
    /\ kind \in KindsOf(h)
    /\ Store(Entry(h, src, kind), src)
    /\ UNCHANGED <<src, group, call, callerVars>>

\* Delete through the cache or a view that has one, or Clear.
Delete ==
    /\ Store(None, src)
    /\ UNCHANGED <<src, group, call, callerVars>>

\* Expiry and eviction: the key's loads keep their tokens.
Forget ==
    /\ item # None
    /\ item' = None
    /\ UNCHANGED <<src, floor, valid, group, call, callerVars>>

-----------------------------------------------------------------------------
CallerStep(c) ==
    \/ Hit(c) \/ TypeMiss(c) \/ Miss(c) \/ Join(c)
    \/ \E f \in Flights : LoadUncached(c, f) \/ BeginLoad(c, f) \/ StartRefresh(c, f)
    \/ RecheckHit(c) \/ RecheckMiss(c)
    \/ SkipRefresh(c)
    \/ Collect(c) \/ Leave(c)

FlightStep(f) ==
    \/ \E answered, storable \in BOOLEAN : LoaderReturns(f, answered, storable)
    \/ \E kind \in Kinds : Publish(f, kind)
    \/ Finish(f) \/ Exit(f)

Environment ==
    \/ Update \/ Delete \/ Forget
    \/ \E h \in Hosts, kind \in Kinds : Set(h, kind)

Next ==
    \/ \E c \in Callers : CallerStep(c)
    \/ \E f \in Flights : FlightStep(f)
    \/ Environment

Spec == Init /\ [][Next]_vars

-----------------------------------------------------------------------------
(* Safety.                                                                 *)

Unfinished(f) == call[f].state \in {"running", "loaded", "stored"}
Waiting(c, f) == pc[c] = "wait" /\ flight[c] = f

\* What is cached never goes back: whichever of the cache and the views wrote,
\* loaded or deleted the key last, nothing older comes after it.  Each has loads
\* of its own that know nothing of the others' but that set() takes the tokens of
\* all (shard.go:194, "A successful write supersedes outstanding loads").
NeverGoesBack == item # None => item.ver >= floor

\* Nor is a caller answered with what is older than anything that was cached, or
\* written, before its lookup, through whichever view: a load that another view's
\* has overtaken is not joined (running() looks at the token).
AnswerFresh ==
    \A c \in Callers : \A f \in Flights :
        Waiting(c, f) /\ call[f].state = "done" /\ call[f].answered
        => call[f].ver >= since[c]

\* "Loads coalesce within one View instance" (view.go:25), also where nothing is
\* cached: of a host's loads that callers want, one can be joined or publish.
SingleFlight ==
    \A f, g \in Flights :
        /\ Unfinished(f) /\ Wanted(f) /\ (f \in valid \/ call[f].host \in Off)
        /\ Unfinished(g) /\ Wanted(g) /\ (g \in valid \/ call[g].host \in Off)
        /\ call[f].host = call[g].host
        => f = g

\* An ordinary load that can publish starts only when its own view finds no
\* answer: what another view has published meanwhile answers it when it is of its
\* type, or is negative, and only then (view_loader.go:113).
NoNeedlessLoad ==
    [][\A f \in Flights :
        /\ f \in valid
        /\ call[f].state = "begun" /\ call'[f].state = "running"
        => ~Answers(call[f].host) /\ ~Joinable(call[f].host)]_vars

\* The inductive invariant behind these.  What a load has read while its token is
\* valid is as new as what was cached since; views without a cache have no tokens.
Returned(f) == call[f].state \in {"loaded", "stored", "done"} /\ call[f].answered
FlightInv ==
    \A f \in Flights :
        /\ call[f].state # "spare" => call[f].host \in Hosts
        /\ call[f].ver <= src
        /\ call[f].state = "loaded" => call[f].answered
        /\ f \in valid =>
            /\ call[f].state # "spare" /\ call[f].host \notin Off
            /\ Returned(f) => call[f].ver >= floor

\* The group of a host holds a running load of its own: the one, if there is one,
\* that callers want and that can be joined or publish.
GroupInv ==
    /\ \A h \in Hosts : group[h] # None => Unfinished(group[h]) /\ call[group[h]].host = h
    /\ \A f \in Flights :
        Unfinished(f) /\ Wanted(f) /\ (f \in valid \/ call[f].host \in Off)
        => group[call[f].host] = f

\* What a caller's place says; at "recheck" it holds its group's mutex, alone, and
\* a load that no one else knows of.
CallerInv ==
    \A c \in Callers :
        /\ pc[c] \in {"idle", "load", "refresh"} => flight[c] = None
        /\ pc[c] = "refresh" => via[c] \notin Off
        /\ pc[c] = "wait" => /\ flight[c] \in Flights
                             /\ call[flight[c]].state # "begun"
                             /\ call[flight[c]].state # "spare" => call[flight[c]].host = via[c]
        /\ pc[c] = "recheck" =>
            /\ via[c] \notin Off /\ ~Joinable(via[c])
            /\ flight[c] \in Flights
            /\ call[flight[c]].state = "begun" /\ call[flight[c]].host = via[c]
            /\ \A d \in Callers :
                (pc[d] = "recheck" /\ via[d] = via[c]) \/ flight[d] = flight[c] => d = c

\* A caller asks for nothing newer than what its load has, or will have, read.
SinceInv ==
    \A c \in Callers :
        /\ since[c] <= floor
        /\ via[c] \in Off => since[c] = 0
        /\ pc[c] = "wait" /\ Returned(flight[c]) => call[flight[c]].ver >= since[c]

ViewInv ==
    /\ TypeOK
    /\ floor <= src
    /\ NeverGoesBack
    /\ FlightInv
    /\ GroupInv
    /\ CallerInv
    /\ SinceInv

=============================================================================
