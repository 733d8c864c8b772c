# A formal model of sanecache

sanecache is an in-process Go cache: sharded, with TTLs, three eviction policies, a
single-flight loader, background refresh, batch loading and typed views. This directory
holds TLA+ models of it, the configurations that check them with TLC, and proofs that
TLAPS checks. Paths such as `shard.go:188` are relative to the repository.

    tlc -workers 2 -config MCLoader.cfg MCLoader.tla     # one run
    tlapm LoaderProofs.tla                               # a module's proofs

`PROJECT.json` lists the runs, the mutants that show each property can fail, the source
lines each definition stands for, the hazards and the findings.

## Inventory

| Component | State | Operations | What is hard | What makes it correct |
|---|---|---|---|---|
| Single flight (`loader.go`) | `flightGroup.calls`, per call: waiters, outcome, `done`, context | `load`, `refresh`, `run`, `wait`, `leave`, `finish` | two locks (group, then shard), loads that outlive their callers, invalidations in between | one useful load per key, nobody left waiting, only abandoned loads cancelled |
| Load tokens (`shard.go:364-398`) | `shard.loads`, `token.valid` | `beginLoad`, `endLoad`, `invalidateLoads` | a write must reach every load that could still publish | nothing older than the last write or invalidation is ever cached; no tombstones |
| Shard and policies (`shard.go`, `s3fifo.go`) | map, two intrusive lists, byte and length accounts, ghosts | `set`, `get`, `delete`, `sweep`, `clear`, `evict*` | pointer surgery in any order of calls; eviction that rotates entries | lists = map, accounts exact, budget met, eviction ends |
| Reads and reports (`shard.go:44-179`, `cache.go:528-596`) | `refreshAt`, counters, `OnEvict` | `get`, `claimRefresh`, `countLookup`, `notify` | the lock is let go between seeing and removing; readers share the read lock | one refresh, one count, one report per entry |
| Writes (`cache.go:350-526`) | - | `Set*`, `SetNegative*`, `Delete`, `Clear` | loads, views and sweeps run against them | as above |
| Deadlines and budgets (`cache.go:251-298, 632-667, 760-776`) | `core`'s numbers, `expiresAt`, `refreshAt` | `New`, `deadlines`, `divideBudget`, `shardCount`, `checkClock` | words that wrap, floats that round, jitter of 100% | an entry with a ttl expires, and in time; the refresh inside the life; a budget never stricter than asked |
| Clock and sweeper (`cache.go:304-327, 620-718`) | `coarse`, the tickers, the stop channel | `clockLoop`, `sweepLoop`, `sweep`, `Close` | times read first and used later; ticks late and dropped; a stop at any moment | time never goes back; expiry off by an interval at most; every shard swept; `Close` ends both |
| Batch loader (`loader_batch.go`) | `batchLoad.live`, flights of several keys | `getMany`, `acquire`, `runBatch`, `collect`, `refreshMany` | overlapping batches, the count of live keys, partial failure | every key answered, a batch cancelled only when all its keys are abandoned |
| Views (`view*.go`) | type, flight groups and counters of its own over the cache's shards | the cache's, typed | several flight groups over one token map; values of another type; no cache at all | nothing older comes back over what any of them cached; one load per view; answers as fresh as what another view cached |
| Statistics (`stats.go`) | atomic counters | `countLoad`, `addTo`, `Sub` | each event counted once | |
| Construction, iteration | - | `New`, `NewView`, `All`, `Stats` | - | |

How they interact: a public call finds the key's shard, calls `shard.get` or `shard.set`
(which take the shard lock), and counts and notifies after. `GetOrLoad` takes the group
lock of the shard, and inside it the shard lock; a load runs on a goroutine of its own,
publishes with `shard.set` under its token, then leaves the group and closes `done`.
The sweeper and the clock are goroutines of the cache, stopped by `Close`.

## Modules

| Module | Models | Checked by |
|---|---|---|
| `Loader` | single flight and tokens over one shard | `MCLoader*.cfg` |
| `FreshCache` | the abstract promise of loads and writes; `Loader` implements it | `MCLoader.cfg`, and proved |
| `LoaderProofs` | theorems about `Loader`: freshness and the refinement | TLAPS |
| `LoaderFlightsProofs` | theorems about `Loader`: waiters, one load per key, cancellation, tokens | TLAPS |
| `Batch` | calls that load several keys at once, and share some | `MCBatch*.cfg` |
| `BatchProofs` | theorems about `Batch` | TLAPS |
| `View` | one key through a cache, typed views of it, and views without a cache | `MCView.cfg` |
| `ViewProofs` | theorems about `View` | TLAPS |
| `Shard` | one shard under its lock: lists, accounts, policies, ghosts | `MCShard*.cfg` |
| `ShardProofs` | theorems about `Shard`, the refinement with them | TLAPS |
| `BoundedCache` | the abstract promise of a budget; `Shard` implements it under every policy | `MCShard.cfg`, and proved |
| `ShardReads` | who sees, claims, drops and reports an entry | `MCShardReads*.cfg` |
| `ShardReadsProofs` | theorems about `ShardReads` | TLAPS |
| `Clock` | the coarse clock, the sweeper, `Close`, and callers that read the time before the lock | `MCClock.cfg` |
| `ClockProofs` | theorems about `Clock` | TLAPS |
| `Deadlines` | the numbers of `New`, and the deadlines of what is stored | `MCDeadlines.cfg` |
| `DeadlinesProofs` | theorems about `Deadlines`: words, floats, and what is computed with them | TLAPS |
| `MCLoader`, `MCBatch`, `MCView`, `MCShard`, `MCShardReads`, `MCClock`, `MCDeadlines` | symmetry, hash functions, views and their types, options, for TLC | |

Each models one layer and takes the others at their word. `Loader` and `Batch` see a shard as
a map whose entries may leave at any time, which `Shard` shows eviction to do; `Batch` takes
the inside of a critical section of the group lock, and what tokens are for, from `Loader`;
`ShardReads` opens the reads that the other two take as one step. `View` takes the counting
of waiters and the cancelling from `Loader`, and looks at what `Loader` has only one of: the
flight group. `Clock` says what time lookups see, `Deadlines` what deadlines they compare it
with; for the rest an entry's age moves when it likes.

Definitions whose comment begins with "Mutant:" are not part of the models: each is a
definition next to it with a plausible mistake in it, and replacing the definition by its
mutant breaks the property that `PROJECT.json` names.

### Loader

A value is the version the upstream source was at when it was read; `floor[k]` is the
version at the key's last Set, Delete or Clear. One action is one critical section.

| Variable | Code |
|---|---|
| `items[k]` | `shard.items`: version, negative or not, and an age in place of `expiresAt` and `refreshAt` ("claimed" is `refreshAt` swapped to 0) |
| `loads[k]`, `valid` | `shard.loads[key]`; the flights whose `token.valid` is true |
| `group[k]`, `holder` | `flightGroup.calls`; who holds `g.mu` between two sections of `s.mu` |
| `call[f]` | the `call` object: waiters, outcome, and how far its goroutine has come |
| `cancelled` | flights whose load context is cancelled |
| `pc`, `wants`, `flight` | each caller's place in `GetOrLoad` |

`Miss` is the counted lookup; `Join`, `BeginLoad`, `RecheckHit`, `RecheckMiss`,
`RecheckExpired`, `StartExpired` are `load`; `Hit`, `StartRefresh`, `SkipRefresh` the refresh
of a due entry; `Collect`, `Leave`, `Cancel` are `wait` and `leave`; `LoaderReturns`,
`Publish`, `Finish`, `Exit` are the goroutine of `run`. A loader may return a value, a value
too large ("refused"), `ErrNotFound` ("absent"), fail or panic ("failed"), or end its
goroutine with `runtime.Goexit` ("exited"). Leaving on a finished context, expiry and
eviction can happen at any time. Call objects are a pool: one is reused when neither its
goroutine nor a caller refers to it, as the garbage collector would allow.

### Batch

A call of `GetManyOrLoad` fills at most one batch, so batches are named for the calls, and a
call is made once: whoever calls again is another caller. `refreshMany` is a caller of its
own, which waits for nothing.

| Variable | Code |
|---|---|
| `cached[k]` | `shard.items`: a value, a negative entry or none |
| `group[k]` | `flightGroup.calls`: the batch whose call object is registered |
| `call[b][k]` | the `call` object of a flight: waiters, `token.valid`, whether its cancel was called, `done`, result |
| `batch[b]` | `fresh`, `batchLoad.live`, whether its context is cancelled, how far `runBatch` has come |
| `pc`, `todo`, `waits` | a call's place in `acquire` or `collect`, the keys and flights it has left |

One action is one critical section of `g.mu` (with those of `s.mu` inside it), one key
published, one key finished, or one cancel after the lock. `acquire` and `refreshMany` go
key by key, in any order of keys, and others move in between.

A batch loader answers each key with a value ("ok"), a value larger than the budget
("refused") or nothing ("absent"); or it fails for all of them, with or without wrapping
`ErrNotFound`, panics, or ends its goroutine ("exited"). `Storable` says what `publish` gets
into the cache under a valid token: values that fit, and a negative entry for the keys in
`Negatives`, which are none without `Options.NegativeTTL` (the default) and none that a small
budget refuses. What is refused leaves the key's tokens valid. `Options.Cost` may panic
between two keys (`CostPanics`).

### Shard

One record is the shard; `Unlink`, `PushFront`, `Remove`, `Admit`, `AddGhost` and so on are
the functions of those names, rewiring `prev`, `next`, heads and tails as the code does, so
that a wrong order of calls would corrupt the lists here too. `set` is a step that inserts,
and one step for each round of `evict`, the lock held. Entries are named by their keys, since
the shard holds one of each. The policy is chosen in `Init`. Ghost hashes keep their add
numbers relative to `ghosts.first`. `seen` is what other goroutines can see, `recency` a
history of uses: the pairs of entries of which the first was used after the second.

Every `set` is a step that inserts (`Set`), rounds of eviction while they are needed, and a
step that unlocks (`EvictDone`). `BoundedCache` sees the first as `Begin` and the last as
`Store`, which must keep the stored entry, take others out only where it does not fit
beside them, and end within the budget; entries leave by `Leave` only when no store is
under way.

### View

The key is one, since views of different names use different keys and views of one name the
same. A host is whoever the key is called through: the cache, a view, or a view made with a
nil cache ("off"). A version is as in `Loader`; `floor` is the newest version that was ever
cached, or that a write or a delete found at the source.

| Variable | Code |
|---|---|
| `item` | the entry under the full key: its version, the type of the value or negative, `byView`, and whether `refreshAt` is set |
| `valid` | the flights, of whatever host, whose token is tracked and valid: `set` and `delete` take them all |
| `group[h]` | the `flightGroup` of the cache, or of the view |
| `call[f]` | the `call` object, its host, and how far `run` has come |
| `via`, `pc`, `flight` | whom a caller calls (for good: who calls another is another caller), its place, its call object |

`Hit`, `TypeMiss` and `Miss` are `lookup` and `cached`, where a read may claim the refresh
of a value it cannot return; `LoadUncached` is `loadUncached`; `Join`, `BeginLoad`,
`RecheckHit`, `RecheckMiss` are `load`; `Collect` and `Leave` are `wait` and `leave`;
`LoaderReturns`, `Publish`, `Finish`, `Exit` are `run` with `publish`.

### Clock

| Variable | Code |
|---|---|
| `wall` | `time.Now()`, which runs on |
| `coarse` | `core.coarse`, 0 once the goroutine stopped |
| `clock`, `sweeper` | `clockLoop` and `sweepLoop`: the place, the ticker's next tick and its channel of one, the time in hand, the shard being swept |
| `late` | how long the clock's goroutine has been ready and not run |
| `items[i]` | the one key of each shard: `expiresAt`, and when its deadline was computed and for what life (history) |
| `pc`, `hand` | a caller between computing a deadline and storing it, or between reading the time and locking the shard |

`TakeTick` and `StoreTime` are the two halves of `c.coarse.Store(time.Now().UnixNano())`,
`Pass` is the world: time, tickers, and a runtime that keeps the clock's goroutine waiting for
`StartDelay` or `MaxDelay` at most. `TickOn` lets the tickers of a closed cache fire on where
the bound `MaxTime` stops the wall, for ever if they like. The granularity of the model is a
whole number of units and expiry is said in the same units.

### Deadlines

`core` holds the numbers that `New` keeps, `entry` the entry stored last with, as history,
what it was stored with. `Life`, `RefreshIn`, `DivideBudget`, `ShardCount` and `Valid` are
the code's expressions over words of `Width` bits that wrap (`Wrap`, `Quo`) and floats of
`Precision` bits that round to even (`Float`, `ScaleFloat`); a random number is one of
`Samples + 1` spread over its range, both ends included. A float past the largest word, as
which a refresh close to a ttl of that size may come out, is converted to what the processor
makes of it: Go leaves that to the implementation, so `RefreshIn` and `Deadlines` are sets.

### ShardReads

Entries are objects, since `get` compares pointers. Each thread may be between the two
critical sections of `get` ("drop"), between load and swap of `refreshAt` with the lock held
("claim"), or after the lock with things left to count and tell ("count", "report").

## Runs and bounds

| Run | Bounds | What it shows |
|---|---|---|
| `loader` | 1 key, 2 callers, 2 loads, 1 source update; loads that answer, find nothing or fail; refresh; reads that drop in two sections | waiters, cancellation, answers, one load per key, nothing stale, the inductive invariant, `FreshCache` |
| `loader_live` | 1 key, 2 callers, 2 loads, LRU; a value too large to store, a loader that ends its goroutine; fair | calls return, abandoned loads are cancelled, tokens are released |
| `batch` | 2 keys, 2 calls, answers with any of the keys, no `NegativeTTL`, so that a key without a value is refused, panics | waiters and live keys, one load per key, cancellation, every key answered and stored |
| `batch_live` | 2 keys, 2 calls, every loader panics unless it was cancelled and fails, fair | calls return, abandoned batches are cancelled |
| `views` | the cache, 2 views of different types, 1 view without a cache; 2 callers: of one view, of the two, of the cache and a view, or of the one without; refreshes through all; 2 loads, 1 source update | nothing older comes back, answers, one load per view, no needless load, the inductive invariant |
| `shard` | 4 keys, 5 bytes, 3 entries, costs 1 and 3, all three policies | lists, accounts, victim order, `BoundedCache` |
| `shard_live` | S3FIFO, 3 keys of one hash, 4 bytes, costs 0, 1, 3, fair | eviction ends; ghosts under collisions |
| `reads` | 2 keys, 3 entries ever stored, 2 threads, both kinds of read | one refresh, one count, one report |
| `clock` | an interval of 1, a sweep every 1, delays up to 1, 2 shards, 1 caller, lives of 1, time up to 5, fair | time never goes back, expiry off by `Lag` at most, shards are swept, `Close` ends both goroutines whatever ticks come, the inductive invariant |
| `deadlines` | 12-bit words, 6-bit floats, some 1260 sets of options, 18 lives of an entry's own, 3 times | deadlines, refreshes and budgets where words wrap and floats round |
| `batch_error`, `reads_told` | those of `batch`, with loaders that fail and a `NegativeTTL`, and of `reads` | violations: see below |

Why they are enough. What `Loader` says is said of each key, and keys meet there only in the
group lock and in `Clear`; two callers can be waiter and last waiter, joiner and starter, and
two loads an abandoned or invalidated one and the one that is current. One update of the
source tells what is stale from what is fresh. In `Batch`, two keys in both orders make two
calls hold what the other needs, one call join half of a batch and load the other half, and a
batch lose its keys' waiters one at a time. `batch` has the outcomes that differ for a key
beside another: stored, refused (a value too large is to `publish` what a negative entry
without `NegativeTTL` is, and a negative entry that is stored what a value is), and
interrupted by a panic; "exited" differs from a panic in that callers go on, and is left to
the proofs. `batch_live` has panics, because a caller that meets one leaves the keys it has
yet to wait for. Two callers and two loads are enough for any two hosts of `View` to be in
each other's way: what a third could do is write or delete, which the environment does through
every host at every moment. `MCPlans` leaves out pairs that tell nothing more: the two views
differ in their type's name only, two callers of the cache are `Loader`, and a view without a
cache shares nothing with the others. Four keys over a budget of three entries fill both
queues, and entries of unequal cost make one store evict several. `SmallShare` is 2 and not 10
so that the small queue of so small a budget can hold and give up entries on its own. Two
threads let a reader or a sweep race over an entry with another, and either replace it.

In `Clock` an interval of one unit is the smallest a tick can be, and a delay of one is long
enough for a tick to be dropped while another waits; five units of time hold two sweeps after
the first entry has expired. An entry's life of 1 is shorter than `Lag`, so that this run
exercises the late side of `Accurate` and not the early one, which longer lives would need;
and its one caller does not look up what another stores meanwhile. Both would take states by
the million, with liveness to check in them; the proof covers them. In `Deadlines` Go's 64 and
53 bits are 12 and 6: the word is wider than the float, as there, the sums that wrap are
within reach of the options listed, and every ttl to 32 is tried with its first, middle and
last refresh, where the float is exact and the refresh may only just be inside the life.

`MaxSource`, `MaxTime`, `Samples`, the pools of flights and objects, the calls of `Batch` and
`MaxFreq` of `shard_live` (2 for 3) are the bounds; where the pool of objects is used up the
system stops, and the `MCShardReads` configurations do not check deadlock for that reason
alone. All other runs check it.

Fairness. `Loader!FairSpec` says that a goroutine that can run does, and that `sync.Mutex`
hands itself to a waiter it has starved (it does after a millisecond): strong fairness,
because the group lock is taken and released between. A loader is only assumed to return
while a caller waits for it or once its context is cancelled: one that is abandoned and
not told may run for ever, which is what makes `AbandonedCancelled` worth checking.
`Batch!FairSpec` is the same; weak fairness is enough there, since a critical section is one
step that is never disabled by another's. No caller's context is assumed to end.
`Shard!FairSpec` says that a goroutine inside `set` keeps running. `Clock!Fairness` says that
time passes, that the two goroutines run (weak fairness of each), and that a `select` which
finds a tick and the stop again and again takes the stop some time: strong fairness of
`StopClock` and `StopSweeper`, because Go's `select` chooses at random among what is ready.
Weak fairness would not do: `TickOn` may have a tick there each time, as a sweep that outlasts
its interval has, and a goroutine that always takes it never stops. Nothing is assumed of
callers or of `Close`. Symmetry is used in
safety runs only.

## What is proved

`LoaderProofs`, for any number of keys, callers and loads, any bound on the source and any
options:

- `Invariance`: `LoaderInv` is invariant. `Fresh` is not inductive alone: a load that has
  read the source and not yet published may be holding an old version. `ValidFresh` says
  that what a load has read *while its token is valid* is as new as the key's floor, and
  that the token is in `loads[k]`, where the next invalidation will find it. That a token
  is never lost needs `CallerInv` (a caller in `load` holds `g.mu` and the object it has
  begun) and `Registered` (the group holds running loads under their own keys).
- `CacheFresh`: no cached entry is older than its key's last Set, Delete or Clear.
- `AnswersFresh`: no caller is answered with anything older than the last invalidation
  before its lookup; `SinceInv` carries it from the lookup through joining to the answer.
- `Refinement`: `Loader` implements `FreshCache`, one lemma for the application's steps, one
  for the loads' and one for the callers'.

The assumptions are those of `Loader`: nil is not a key, caller or load, callers are finitely
many, `MaxSource` is a natural number, options are Boolean. Each action has a lemma of its own.

`LoaderFlightsProofs`, on top of that invariant and under the same assumptions:

- `FlightsInvariance`: `FlightsInv` is invariant with `LoaderInv`. None of the properties
  below is inductive. That one load runs at a time (`SingleFlight`) needs every load that is
  valid and wanted to be the one in the group (`WantedGrouped`), which a new registration
  keeps because the caller that holds `g.mu` has seen nothing to join (`LockedInv`, from the
  moment it takes the lock to its start); that a cancel spares wanted loads needs the last
  waiter, between leaving and cancelling, to know of a load nobody can reach any more
  (`CancelInv`, `GroupWanted`); that a valid token was not used needs `Unstored` and
  `TokensTracked`.
- `EveryWaiterCounted`: the counter against the cardinality of the set of callers that wait;
  `OneMore` and `OneLess` are the steps in which it moves.
- `OneLoadPerKey`, `OnlyUnwantedCancelled`, `TokensAlwaysTracked`, `OnlyNeededLoads` follow.
- `StoredFirst`: a value is stored before the call returns, if no loader ends its goroutine.
  That assumption is needed: one that does stores nothing (see below).

`BatchProofs`, for any finite sets of keys and calls and any of the loader's outcomes:

- `Invariance`: `BatchInv` is invariant. Each property of the run `batch` says what holds when
  a batch is over or cancelled; the invariant says what holds on the way. `PlaceInv` says
  where a call is: it has not yet acquired what is in `todo`, it waits only for keys a batch
  has, and while it fills its own it waits for every key in it. `FlowInv` says how many of
  its keys a batch has published and finished, in their order, so that a panic finds which are
  left, and that a published key whose token is still valid had nothing that could be stored. `GroupInv` says that the group holds what runs and is wanted, and misses nothing that
  can still publish. `CountInv` counts the waiters of a load while it runs, and bounds them once
  it is over, when those who collected it stay counted. `StopInv` says that `live` counts the
  keys not yet stopped, and that whoever is between leaving a key and stopping it left it with
  nobody.
- `EveryWaiterCounted`, `AbandonedOnly`, `OneFlightPerKey`, `EveryKeyAnswered` follow from it:
  the safety properties of that run but for types, which `BatchInv` contains.

Keys and calls are assumed finite (`FiniteAssumption`): a call has finitely many keys, and
the cardinalities that counters are compared with need it.

`ViewProofs`, for any views, types, callers and loads, with or without a cache:

- `Invariance`: `ViewInv` is invariant. It says of every host at once what `LoaderInv` says
  of one: `FlightInv` that what a load has read while its token is valid is as new as what
  was cached since, through whatever view; `GroupInv` that the loads that are wanted are where
  their own callers look; `CallerInv` where the callers are.
- `NeverBack`, `AnswersFresh`, `OneLoad`, `Needless`: the properties of the run `views`.

`ClockProofs`, for any granularity, sweep interval, number of shards and callers, lives and
time, if the runtime delays the goroutine no longer than the granularity:

- `Invariance`: `ClockInv` is invariant. What `coarse` may be behind depends on where the
  goroutine is: `ClockOK` bounds it by the next tick while it waits, and by how late it is
  once a tick is there. A time that is in the goroutine's hand is not stored yet, and a later
  tick may be in the channel already.
- `AccurateExpiry` carries that bound through `born` and `readAt` to lookups that wait for the
  shard and to sweeps; `TimeForward` that the time lookups see never goes back.

`ShardReadsProofs`, for any number of keys, entries and goroutines, and both kinds of lock:

- `Invariance`: `ReadsInv` is invariant. The properties the run checks say nothing of
  goroutines in the middle of something. `InHand` says that what a goroutine brings back to
  the write lock has expired, `ItemsHeld` that what is under a key has not left and is under
  no other, `ClaimsSpent` that a claim leaves `refreshAt` empty, and `OneReporter` that an
  entry that left is the business of one goroutine until it is counted and told.
- `NothingElseExpires`, `RefreshedOnce`, `CountedOnce`, `AllReported`: the four properties of
  the run `reads`, from that invariant.

`ShardProofs`, for any finite set of keys, with any hashes, costs and budgets that are natural
numbers, and each of the three policies:

- `Invariance`: `ShardInv` is invariant. `ListsMatchItems` follows the links from the head, and
  every function of the code rewrites links, so nothing of it survives a step by itself.
  `Chain` names the entries of a list in order, as a sequence; `Sound` says that both lists are
  chains, of what is in the map by its flag, that the accounts are the sums of the costs along
  them, that ghosts are numbered in order and `set` holds the last number of each, and that the
  main list is in the order of use. It is said of a record *but for the entries apart*: `unlink`
  takes an entry out of the chain and leaves it in the map, and there is a lemma for each
  function (`unlink`, `pushFront`, `remove`, `touch`, `admit`, `addGhost`, a round of eviction of
  each policy) that says what it makes of such a record. `StoringInv` says what a store that
  still evicts must know: its own entry is at the front and fits, so that a round never takes it,
  and the others did not fit beside it. What others will see next is `Begun`,
  what they saw with the new entry, unless that does not fit.
- `ListsMatch`, `Accounts`: the lists and accounts, in the middle of an eviction as between calls.
- `Remembered`, `LeastRecent`: what a step may forget, and what it may evict.
- `Refinement`: the shard implements `BoundedCache` under every policy. The inserting
  step of `set` is `Begin`, a round of eviction a stutter, since nobody sees the shard under its
  lock, and the last step is `Store`: it keeps the entry by `StoringInv`, and where others went,
  they and the entry were over the budget together (`OverNeverFit`).

Sums are the community modules' `MapThenSumSet`, whose fold chooses one element at a time: that
there is one fold of a function over a finite set, and that it adds up in any order, is proved
first, from the library's well-founded orders of subsets. `KeysAssumption` says that the keys
that are ever used are finitely many, and that nil is not a cost.

`DeadlinesProofs`, for words of any width and floats of any precision above 3 that is less than
the word's (`WordAssumption`; Go has 64 and 53), any options, lives and times:

- `Invariance`: `DeadlinesInv` says that what `New` checked stays so, and that an entry's
  deadlines are right for what it was stored with.
- `InTimeAlways`: an entry with a ttl expires, within its jitter, or at once. `LifeBound` takes
  the product that wraps and the roll through to a life in bounds, `DeadlineInTime` the sum.
- `ProportionKept`: `FloatClose` says that a float is off by half a unit of its last place,
  whatever exponent it has; `FiveUp` and `FiveDown` put five such roundings and the truncation
  together into six units; `DownToOne` and `TwoUp` keep the refresh inside a life that a float
  holds exactly.
- `BudgetKept`: a budget that is divided rounding up, where the sum wraps and where it does not.

The provers know nothing of powers of two as such: `PowerIs` gets what is needed of them from
the cardinality of a set of subsets, and `WrapIs` says what a wrapped number is.

Two things the proofs corrected, which the small instance did not show. The
rounding of a refresh was first allowed four units of the last place, which holds for 12 and 6
bits and not for 64 and 53, where a search with real floats comes to 4.99; it is six, which is
proved. And a refresh next to a ttl of almost the largest word rounds past the end of the word,
which the instance did not have and now has: `RefreshInProportion` says nothing of such lives.

Only model-checked: liveness, which the prover does not reach (`CallsReturn`,
`AbandonedCancelled`, `TokensReleased`, `EvictionEnds`, `CloseEnds` and `Swept`). Every
invariant and action property of a passing run is a theorem.

## Where the code differs from what is said of it

Two have a run that expects the violation:

- `batch_error`: a batch loader that fails with an error wrapping `ErrNotFound` has every key
  of the call cached as absent (`cache.go:163` says nothing is cached).
- `reads_told`: entries that a lookup finds expired leave without `OnEvict`
  (`cache.go:193`).

Others were met while modelling and have none; the models do what the code does:

- a loader that calls `runtime.Goexit` answers its callers with a zero value and no error,
  and stores nothing (`loader.go:15` promises a stored value); `StoredBeforeReturn` is said
  of the loaders that return;
- ghosts can outnumber the entries held, once those have left by Delete or expiry
  (`README.md:363` speaks of what an add leaves);
- an expired entry that a load's recheck drops is not counted as an expiration
  (`stats.go:11`);
- a delete through a view with a nil cache does not reach the load its own callers wait for
  (`view.go:261`): it has no token to take;
- a read through a view claims the refresh of a value of another type and starts none
  (`view.go:189`, action `TypeMiss`): the entry then lives out its ttl;
- a ttl near the largest integer, added to the time, gives a deadline in the past
  (`cache.go:659`): the entry expires at once, which `ExpiresInTime` allows for; the comment at
  `cache.go:652` says that a life of zero would never expire, though it would expire at once;
- the refresh may land after the expiry for a ttl of more than 2^52 ns, 52 days, where a
  float64 no longer holds twice the ttl (`RefreshInProportion` says how far,
  and nothing of a deadline so close to the largest integer that rounding takes it past);
- the comment at `cache.go:305` fears that lookups before the first tick find nothing expired;
  a zero is read as the wall's time.

## Not modelled

- Values' contents, hashing beyond which keys collide, costs as computed (a cost is a member
  of a set), and what happens when the application's functions panic, except for
  loaders and, in a batch, `Options.Cost`; an `OnEvict` that panics loses the reports after it.
- `All`, `Len`, `Bytes` and `Stats`: each copies one shard after another under its read lock
  and changes nothing, and promises nothing across shards. `Stats.Sub`, `HitRate` and the
  counters of loads are arithmetic on independent counters; that each removal is counted once
  is in `ShardReads`.
- The options that are functions, names and prefixes of views, `cleanupInterval`; of a
  `GetManyOrLoad` on a cache with a `Loader` only, that it starts a load per key, each of
  which is module `Loader`.
- The wall clock set back: `Clock` assumes that time runs on, though `UnixNano` is not
  monotonic.
- Readers that race on `freq` lose each other's counts; the model counts each read, which
  covers the outcomes.
- `examples/` and `benchmarks/`, which are not part of the library.
