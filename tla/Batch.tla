-------------------------------- MODULE Batch --------------------------------
(***************************************************************************)
(* GetManyOrLoad: several keys loaded in one call of the batch loader, and *)
(* calls that share some of their keys (loader_batch.go: getMany, acquire, *)
(* runBatch, collect, refreshMany, batchLoad.join; leave and finish of     *)
(* loader.go).  GetOrLoad of a key is a call for that one key.             *)
(*                                                                         *)
(* What a load's token keeps out of the cache, and what a key's second     *)
(* look is for, is module Loader's subject: here the critical section of   *)
(* g.mu is one step, with those of s.mu inside it, and an entry is there   *)
(* or not.                                                                 *)
(***************************************************************************)
EXTENDS Integers, FiniteSets, Sequences

CONSTANTS
    Keys,
    Callers,    \* calls of GetManyOrLoad, or of its refreshMany: each is made
                \* once, and fills at most one batch, which has its name
    None,       \* nil
    Outcomes,   \* how a batch loader may end, a subset of AllOutcomes
    Negatives   \* the keys whose negative entries are stored: none without
                \* Options.NegativeTTL, and none that the budget has no room for

\* For each key an answer, a value, one larger than the budget, or none; or for all of
\* them an error, one that wraps ErrNotFound, a panic, or the end of the goroutine.
Answers == {"ok", "refused", "absent"}
AllOutcomes == Answers \cup {"error", "notfound", "panic", "exited"}
ASSUME NoneAssumption == None \notin Callers
ASSUME FiniteAssumption == IsFiniteSet(Keys) /\ IsFiniteSet(Callers)
ASSUME OutcomesAssumption == Outcomes \subseteq AllOutcomes /\ Negatives \subseteq Keys

VARIABLES
    cached,     \* s.items: a value, a negative entry ("absent"), or "none"
    group,      \* g.calls: whose call object is registered under a key, or None
    call,       \* call[b][k]: the call object of key k in batch b
    batch,      \* the batches and how far their goroutines have come
    pc, todo, waits     \* each caller's place, keys to acquire, and flights to
                        \* wait for

cacheVars == <<cached, group>>
callerVars == <<pc, todo, waits>>
vars == <<cacheVars, call, batch, callerVars>>

-----------------------------------------------------------------------------
NoResult == "none"
Calls == [waiters : Nat, valid : BOOLEAN, stopped : BOOLEAN, done : BOOLEAN,
          result : {NoResult} \cup AllOutcomes]
NoCall == [waiters |-> 0, valid |-> FALSE, stopped |-> FALSE, done |-> FALSE, result |-> NoResult]

\* next counts the keys of fresh that publishing, or finishing, has come to.
States == {"filling", "running", "publishing", "finishing", "exiting", "gone"}
BatchRecords == [state : States, refresh : BOOLEAN, fresh : Seq(Keys), next : Nat,
                 live : Nat, cancelled : BOOLEAN]
NoBatch == [state |-> "filling", refresh |-> FALSE, fresh |-> <<>>, next |-> 1,
            live |-> 0, cancelled |-> FALSE]

\* No count of waiters or of live keys goes below zero.
TypeOK ==
    /\ cached \in [Keys -> {"none", "value", "absent"}]
    /\ group \in [Keys -> Callers \cup {None}]
    /\ call \in [Callers -> [Keys -> Calls]]
    /\ batch \in [Callers -> BatchRecords]
    /\ pc \in [Callers -> {"idle", "acquire", "refresh", "collect", "leave", "cancel", "returned"}]
    /\ todo \in [Callers -> Seq(Keys)]
    /\ waits \in [Callers -> Seq(Callers \X Keys)]

Init ==
    /\ cached \in [Keys -> {"none", "value", "absent"}]
    /\ group = [k \in Keys |-> None]
    /\ call = [b \in Callers |-> [k \in Keys |-> NoCall]]
    /\ batch = [b \in Callers |-> NoBatch]
    /\ pc = [c \in Callers |-> "idle"]
    /\ todo = [c \in Callers |-> <<>>]
    /\ waits = [c \in Callers |-> <<>>]

-----------------------------------------------------------------------------
In(x, seq) == \E i \in DOMAIN seq : seq[i] = x
\* The keys of a call, without duplicates, in any order.
KeyLists == UNION {{ks \in [1..n -> Keys] : \A i, j \in 1..n : ks[i] = ks[j] => i = j}
                   : n \in 1..Cardinality(Keys)}

\* running()
Joinable(k) == group[k] # None /\ call[group[k]][k].valid

\* A key's call and its context, registered in the batch that caller c fills:
\* join() of the batch counts it live.
Register(c, k) ==
    /\ call' = [call EXCEPT ![c][k] = [NoCall EXCEPT !.waiters = 1, !.valid = TRUE]]
    /\ batch' = [batch EXCEPT ![c].fresh = Append(@, k), ![c].live = @ + 1]
    /\ group' = [group EXCEPT ![k] = c]

\* The tokens of a key's loads, in whichever batch.
Invalidated(k) == [b \in Callers |-> [call[b] EXCEPT ![k].valid = FALSE]]

Goto(c, place, keys, flights) ==
    /\ pc' = [pc EXCEPT ![c] = place]
    /\ todo' = [todo EXCEPT ![c] = keys]
    /\ waits' = [waits EXCEPT ![c] = flights]

\* Waits or leaves go on with the flights that are left, or the call returns.
GoOn(c, place, flights) ==
    Goto(c, IF flights = <<>> THEN "returned" ELSE place, <<>>, flights)

-----------------------------------------------------------------------------
(* A call of GetManyOrLoad.                                                *)

\* getMany(): the keys that were not hits.
GetMany(c, keys) ==
    /\ pc[c] = "idle" /\ \A i \in DOMAIN keys : cached[keys[i]] = "none"
    /\ Goto(c, "acquire", keys, <<>>)
    /\ UNCHANGED <<cacheVars, call, batch>>

\* refreshMany(), for the keys whose refresh the call has claimed.
RefreshMany(c, keys) ==
    /\ pc[c] = "idle" /\ \A i \in DOMAIN keys : cached[keys[i]] = "value"
    /\ Goto(c, "refresh", keys, <<>>)
    /\ batch' = [batch EXCEPT ![c].refresh = TRUE]
    /\ UNCHANGED <<cacheVars, call>>

\* Mutant: joining does not count the waiter.
AcquireJoinUncounted(c) ==
    LET k == Head(todo[c]) IN
    /\ pc[c] = "acquire" /\ todo[c] # <<>> /\ Joinable(k)
    /\ Goto(c, "acquire", Tail(todo[c]), Append(waits[c], <<group[k], k>>))
    /\ UNCHANGED <<cacheVars, call, batch>>

\* acquire(): the key is loading elsewhere.
AcquireJoin(c) ==
    LET k == Head(todo[c]) IN
    /\ pc[c] = "acquire" /\ todo[c] # <<>> /\ Joinable(k)
    /\ call' = [call EXCEPT ![group[k]][k].waiters = @ + 1]
    /\ Goto(c, "acquire", Tail(todo[c]), Append(waits[c], <<group[k], k>>))
    /\ UNCHANGED <<cacheVars, batch>>

\* acquire(): its load has published since the lookup.
AcquireHit(c) ==
    LET k == Head(todo[c]) IN
    /\ pc[c] = "acquire" /\ todo[c] # <<>> /\ ~Joinable(k) /\ cached[k] # "none"
    /\ Goto(c, "acquire", Tail(todo[c]), waits[c])
    /\ UNCHANGED <<cacheVars, call, batch>>

\* Mutant: a load that can be joined is replaced.
AcquireAnyway(c) ==
    LET k == Head(todo[c]) IN
    /\ pc[c] = "acquire" /\ todo[c] # <<>> /\ cached[k] = "none"
    /\ Register(c, k)
    /\ Goto(c, "acquire", Tail(todo[c]), Append(waits[c], <<c, k>>))
    /\ UNCHANGED cached

\* acquire(): it is this call's to load.
AcquireNew(c) ==
    LET k == Head(todo[c]) IN
    /\ pc[c] = "acquire" /\ todo[c] # <<>> /\ ~Joinable(k) /\ cached[k] = "none"
    /\ Register(c, k)
    /\ Goto(c, "acquire", Tail(todo[c]), Append(waits[c], <<c, k>>))
    /\ UNCHANGED cached

\* refreshMany(): a key that is not loading gets a waiter that never leaves.
RefreshNew(c) ==
    LET k == Head(todo[c]) IN
    /\ pc[c] = "refresh" /\ todo[c] # <<>> /\ ~Joinable(k)
    /\ Register(c, k)
    /\ Goto(c, "refresh", Tail(todo[c]), <<>>)
    /\ UNCHANGED cached

RefreshSkip(c) ==
    /\ pc[c] = "refresh" /\ todo[c] # <<>> /\ Joinable(Head(todo[c]))
    /\ Goto(c, "refresh", Tail(todo[c]), <<>>)
    /\ UNCHANGED <<cacheVars, call, batch>>

\* The batch is started if it has keys, and the call waits for its own and the
\* others' flights alike.
Launched(c) ==
    [batch EXCEPT ![c].state = IF batch[c].fresh = <<>> THEN "gone" ELSE "running"]

\* Mutant: the others' flights are waited for first.
StartAfterOthers(c) ==
    /\ pc[c] \in {"acquire", "refresh"} /\ todo[c] = <<>>
    /\ \A i \in DOMAIN waits[c] : waits[c][i][1] # c => call[waits[c][i][1]][waits[c][i][2]].done
    /\ batch' = Launched(c)
    /\ GoOn(c, "collect", waits[c])
    /\ UNCHANGED <<cacheVars, call>>

Start(c) ==
    /\ pc[c] \in {"acquire", "refresh"} /\ todo[c] = <<>>
    /\ batch' = Launched(c)
    /\ GoOn(c, "collect", waits[c])
    /\ UNCHANGED <<cacheVars, call>>

\* The call object that caller c waits for, or leaves, next.
Flight(c) == call[Head(waits[c])[1]][Head(waits[c])[2]]

\* collect(): the next flight is over.  A panic goes on in this caller, once it
\* has left the rest.
Collect(c) ==
    /\ pc[c] = "collect" /\ Flight(c).done
    /\ GoOn(c, IF Flight(c).result = "panic" THEN "leave" ELSE "collect", Tail(waits[c]))
    /\ UNCHANGED <<cacheVars, call, batch>>

\* collect(): the caller's context is done, at any time.
GiveUp(c) ==
    /\ pc[c] = "collect"
    /\ GoOn(c, "leave", waits[c])
    /\ UNCHANGED <<cacheVars, call, batch>>

\* leave(), for the next flight.
Leave(c) ==
    LET b == Head(waits[c])[1]  k == Head(waits[c])[2] IN
    /\ pc[c] = "leave"
    /\ call' = [call EXCEPT ![b][k].waiters = @ - 1]
    /\ IF Flight(c).waiters = 1
          THEN /\ group' = IF group[k] = b THEN [group EXCEPT ![k] = None] ELSE group
               /\ GoOn(c, "cancel", waits[c])
          ELSE /\ UNCHANGED group
               /\ GoOn(c, "leave", Tail(waits[c]))
    /\ UNCHANGED <<cached, batch>>

\* Mutant: a key that nobody waits for cancels its batch.
CancelAtOnce(c) ==
    LET b == Head(waits[c])[1] IN
    /\ pc[c] = "cancel"
    /\ batch' = [batch EXCEPT ![b].cancelled = TRUE]
    /\ GoOn(c, "leave", Tail(waits[c]))
    /\ UNCHANGED <<cacheVars, call>>

\* Mutant: nobody's leaving reaches the batch.
CancelNever(c) ==
    /\ pc[c] = "cancel"
    /\ GoOn(c, "leave", Tail(waits[c]))
    /\ UNCHANGED <<cacheVars, call, batch>>

\* leave(), after g.mu: the call's cancel, once, and the batch's after the last.
Cancel(c) ==
    LET b == Head(waits[c])[1]  k == Head(waits[c])[2] IN
    /\ pc[c] = "cancel"
    /\ call' = [call EXCEPT ![b][k].stopped = TRUE]
    /\ batch' = IF call[b][k].stopped THEN batch
                ELSE [batch EXCEPT ![b].live = @ - 1, ![b].cancelled = @ \/ batch[b].live = 1]
    /\ GoOn(c, "leave", Tail(waits[c]))
    /\ UNCHANGED cacheVars

-----------------------------------------------------------------------------
(* The goroutine of a batch: runBatch().                                   *)

FreshKeys(b) == {batch[b].fresh[i] : i \in DOMAIN batch[b].fresh}

\* What the calls of a batch carry, for a result per key.
Carry(b, results) ==
    [call EXCEPT ![b] = [k \in Keys |->
        IF k \in FreshKeys(b) THEN [@[k] EXCEPT !.result = results[k]] ELSE @[k]]]
All(b, outcome) == [k \in FreshKeys(b) |-> outcome]

\* The ways in which a batch loader ends; a cancelled one may fail.
Ends(b) ==
    [FreshKeys(b) -> Outcomes \cap Answers]
    \cup {All(b, outcome) : outcome \in Outcomes \ Answers}
    \cup {All(b, outcome) : outcome \in IF batch[b].cancelled THEN {"error"} ELSE {}}

\* loadMany() returns, or does not: then there is nothing to publish, and only the
\* deferred functions run.  A call's result is set as its key is published, or by the
\* panic, and read after finish().
LoaderReturns(b, results) ==
    /\ batch[b].state = "running"
    /\ call' = Carry(b, results)
    /\ batch' = [batch EXCEPT ![b].state =
                    IF results \in {All(b, "panic"), All(b, "exited")} THEN "finishing" ELSE "publishing"]
    /\ UNCHANGED <<cacheVars, callerVars>>

\* Past the last key, the goroutine is at the next thing it does.
Advance(b, after) ==
    batch' = [batch EXCEPT ![b].next = IF @ = Len(batch[b].fresh) THEN 1 ELSE @ + 1,
                           ![b].state = IF batch[b].next = Len(batch[b].fresh) THEN after ELSE @]

\* Mutant: the call is answered, and left to whoever comes to store it.
PublishNothing(b) ==
    /\ batch[b].state = "publishing"
    /\ Advance(b, "finishing")
    /\ UNCHANGED <<cacheVars, call, callerVars>>

\* What publish() stores: a value that fits, and a negative entry for ErrNotFound.
Storable(k, result) ==
    result = "ok" \/ (result \in {"absent", "notfound"} /\ k \in Negatives)

\* publish() of the next key: set() under the key's token, which takes the tokens
\* of the key's loads away.  What is refused leaves them as they are.
Publish(b) ==
    LET k == batch[b].fresh[batch[b].next]
        result == call[b][k].result
        stores == Storable(k, result) /\ call[b][k].valid
    IN
    /\ batch[b].state = "publishing"
    /\ cached' = IF stores THEN [cached EXCEPT ![k] = IF result = "ok" THEN "value" ELSE "absent"]
                           ELSE cached
    /\ call' = IF stores THEN Invalidated(k) ELSE call
    /\ Advance(b, "finishing")
    /\ UNCHANGED <<group, callerVars>>

\* Options.Cost panics on the next value, when some are stored already: it can
\* where a loader can.  It is asked of the values that are refused, too.
CostPanics(b) ==
    /\ batch[b].state = "publishing" /\ "panic" \in Outcomes
    /\ call[b][batch[b].fresh[batch[b].next]].result \in {"ok", "refused"}
    /\ call' = Carry(b, All(b, "panic"))
    /\ batch' = [batch EXCEPT ![b].state = "finishing", ![b].next = 1]
    /\ UNCHANGED <<cacheVars, callerVars>>

\* finish() of the next key.
Finish(b) ==
    LET k == batch[b].fresh[batch[b].next] IN
    /\ batch[b].state = "finishing"
    /\ group' = IF group[k] = b THEN [group EXCEPT ![k] = None] ELSE group
    /\ call' = [call EXCEPT ![b][k].done = TRUE]
    /\ Advance(b, "exiting")
    /\ UNCHANGED <<cached, callerVars>>

\* The deferred endLoad of every key, and cancel.
Exit(b) ==
    /\ batch[b].state = "exiting"
    /\ batch' = [batch EXCEPT ![b].state = "gone", ![b].cancelled = TRUE]
    /\ call' = [call EXCEPT ![b] = [k \in Keys |-> [@[k] EXCEPT !.valid = FALSE]]]
    /\ UNCHANGED <<cacheVars, callerVars>>

-----------------------------------------------------------------------------
(* Everyone else.                                                          *)

\* Delete, Clear of a key.
Delete(k) ==
    /\ cached' = [cached EXCEPT ![k] = "none"]
    /\ call' = Invalidated(k)
    /\ UNCHANGED <<group, batch, callerVars>>

\* Expiry and eviction: the key's loads keep their tokens.
Forget(k) ==
    /\ cached[k] # "none"
    /\ cached' = [cached EXCEPT ![k] = "none"]
    /\ UNCHANGED <<group, call, batch, callerVars>>

-----------------------------------------------------------------------------
MoveOn(c) ==
    \/ AcquireJoin(c) \/ AcquireHit(c) \/ AcquireNew(c)
    \/ RefreshNew(c) \/ RefreshSkip(c)
    \/ Start(c) \/ Collect(c) \/ Leave(c) \/ Cancel(c)

CallerStep(c) ==
    \/ \E keys \in KeyLists : GetMany(c, keys) \/ RefreshMany(c, keys)
    \/ GiveUp(c)
    \/ MoveOn(c)

BatchStep(b) ==
    \/ \E results \in Ends(b) : LoaderReturns(b, results)
    \/ Publish(b) \/ CostPanics(b) \/ Finish(b) \/ Exit(b)

Next ==
    \/ \E c \in Callers : CallerStep(c)
    \/ \E b \in Callers : BatchStep(b)
    \/ \E k \in Keys : Delete(k) \/ Forget(k)

Spec == Init /\ [][Next]_vars

Unfinished(b, k) == In(k, batch[b].fresh) /\ ~call[b][k].done
Abandoned(b) == ~batch[b].refresh /\ \A k \in FreshKeys(b) : call[b][k].waiters = 0

\* Fairness: goroutines that can run do, and a batch loader returns when someone
\* waits for one of its keys or its context is cancelled.
RunOn(b) ==
    /\ batch[b].state = "running" => ~Abandoned(b) \/ batch[b].cancelled
    /\ BatchStep(b)

FairSpec ==
    /\ Spec
    /\ \A c \in Callers : WF_vars(MoveOn(c))
    /\ \A b \in Callers : WF_vars(RunOn(b))

-----------------------------------------------------------------------------
(* Safety.                                                                 *)

Waits(c, b, k) == In(<<b, k>>, waits[c])

\* waiters is what it says while a key's load runs, however many keys its callers
\* asked for, collected or left so far, a refresh being its own waiter; the
\* caller at Cancel has left already.  No count goes below zero (TypeOK).
WaitersCounted ==
    /\ TypeOK
    /\ \A b \in Callers : \A k \in Keys : Unfinished(b, k) =>
        call[b][k].waiters =
            Cardinality({c \in Callers : /\ Waits(c, b, k)
                                         /\ ~(pc[c] = "cancel" /\ Head(waits[c]) = <<b, k>>)})
            + (IF batch[b].refresh THEN 1 ELSE 0)

\* "The context is cancelled once no caller waits for any of its keys"
\* (cache.go:164), and no sooner: not while keys are still being added, and never
\* a refresh.
OnlyAbandonedCancelled ==
    \A b \in Callers : batch[b].cancelled /\ batch[b].state # "gone" =>
        /\ batch[b].state # "filling" /\ Abandoned(b)
        /\ \A k \in FreshKeys(b) : ~Unfinished(b, k) \/ group[k] # b

\* "Single flight and invalidation work per key, as in GetOrLoad"
\* (loader_batch.go:14): of a key's loads, in whichever batches, one can be joined
\* or still publish.
SingleFlight ==
    \A k \in Keys : \A a, b \in Callers :
        /\ Unfinished(a, k) /\ call[a][k].valid /\ call[a][k].waiters > 0
        /\ Unfinished(b, k) /\ call[b][k].valid /\ call[b][k].waiters > 0
        => a = b

\* Every key of a batch is answered before it is done, and what can be stored was,
\* unless a write or an invalidation came: a token still valid was never used.
\* Neither the order of the keys, nor a key that is refused, nor a panic in the
\* middle changes that for the others.
AnsweredAndStored ==
    \A c \in Callers : \A b \in Callers : \A k \in Keys :
        Waits(c, b, k) /\ call[b][k].done =>
            /\ call[b][k].result # NoResult
            /\ call[b][k].valid => ~Storable(k, call[b][k].result)

\* "An error fails every key, and nothing from the call is cached" (cache.go:163).
NothingCachedOnError ==
    [][\A b \in Callers : \A k \in Keys :
        /\ batch[b].state = "publishing" /\ batch'[b] # batch[b]
        /\ k \in FreshKeys(b) /\ call[b][k].result \in {"error", "notfound"}
        => cached' = cached]_vars

-----------------------------------------------------------------------------
(* Liveness, under FairSpec.                                               *)

\* Every call returns, though nobody's context is ever done: calls that load some
\* of each other's keys, in whatever order, do not wait for each other in a ring.
\* (A call is made once, so it is over for good.)
CallsReturn == <>[](\A c \in Callers : pc[c] \in {"idle", "returned"})

\* "The context is cancelled once no caller waits for any of its keys"
\* (cache.go:164): no batch runs on that nobody waits for, unless told.
Untold(b) == batch[b].state = "running" /\ Abandoned(b) /\ ~batch[b].cancelled
AbandonedCancelled == <>[](\A b \in Callers : ~Untold(b))

=============================================================================
