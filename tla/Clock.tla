-------------------------------- MODULE Clock -------------------------------
(***************************************************************************)
(* Time in a cache with ClockGranularity (cache.go): the goroutine that    *)
(* stores the time for lookups to read, the one that sweeps, their stop,   *)
(* and callers that read the time first and take the shard's lock later.   *)
(*                                                                         *)
(* Time is the wall's, which runs on; what expires and what is swept is    *)
(* told by the coarse time.  A ticker's channel holds one tick, and drops  *)
(* those that find it full.  How long the runtime leaves the clock's       *)
(* goroutine waiting is bounded, for expiry is accurate only if something  *)
(* is: by StartDelay for its start, by MaxDelay for a tick or a stop.      *)
(* Each shard holds one key: module Shard has what several do.             *)
(***************************************************************************)
EXTENDS Integers

CONSTANTS
    Granularity,   \* Options.ClockGranularity
    SweepEvery,    \* cleanupInterval()
    Shards,        \* how many there are
    Callers,       \* goroutines
    Lives,         \* the lives deadlines() gives entries, 0 for ever
    StartDelay, MaxDelay,
    None,          \* nil
    MaxTime        \* bound: how far the wall's time goes

ASSUME TimesAssumption ==
    /\ Granularity \in Nat \ {0} /\ SweepEvery \in Nat \ {0}
    /\ Lives \subseteq Nat
    /\ StartDelay \in Nat /\ MaxDelay \in 0..Granularity
ASSUME ShardsAssumption == Shards \in Nat \ {0}

VARIABLES
    wall,          \* time.Now()
    coarse,        \* core.coarse: zero once the goroutine has stopped
    closed,        \* the stopper's channel is closed
    clock,         \* clockLoop: its place, its ticker, the time it has in hand
    late,          \* for how long it has been ready to run
    sweeper,       \* sweepLoop, likewise
    items,         \* the entry of each shard, or None
    pc,            \* the place of each caller
    hand           \* the shard and entry, or time, that each caller has in hand

vars == <<wall, coarse, closed, clock, late, sweeper, items, pc, hand>>

-----------------------------------------------------------------------------
Times == 0..MaxTime
\* expiresAt is 0 for an entry that does not expire; born, when its deadline was
\* computed, and life are history.
Entries == [expiresAt : Nat, born : Nat, life : Nat]
ASSUME EntryAssumption == None \notin Entries
Ticker == [at : {"start", "wait", "read", "sweep", "off"},
           next : Nat, tick : 0..1, time : Nat, shard : Nat]
\* readAt, when time was read, is history.
Hands == [shard : 1..Shards, entry : Entries \cup {None}, time : Nat, readAt : Nat]

TypeOK ==
    /\ wall \in Nat /\ coarse \in Nat /\ late \in Nat
    /\ closed \in BOOLEAN
    /\ clock \in Ticker /\ sweeper \in Ticker
    /\ items \in [1..Shards -> Entries \cup {None}]
    /\ pc \in [Callers -> {"idle", "store", "look"}]
    /\ hand \in [Callers -> Hands]

NewTicker == [at |-> "start", next |-> 0, tick |-> 0, time |-> 0, shard |-> 0]
Hand(i, entry, time, readAt) == [shard |-> i, entry |-> entry, time |-> time, readAt |-> readAt]
NoHand == Hand(1, None, 0, 0)

\* Mutant: the clock is left at zero until the first tick.
InitUnseeded ==
    /\ wall = 1 /\ coarse = 0
    /\ closed = FALSE
    /\ clock = NewTicker /\ late = 0
    /\ sweeper = NewTicker
    /\ items = [i \in 1..Shards |-> None]
    /\ pc = [c \in Callers |-> "idle"]
    /\ hand = [c \in Callers |-> NoHand]

\* New() stores the time itself, and starts both goroutines.
Init ==
    /\ wall = 1 /\ coarse = 1
    /\ closed = FALSE
    /\ clock = NewTicker /\ late = 0
    /\ sweeper = NewTicker
    /\ items = [i \in 1..Shards |-> None]
    /\ pc = [c \in Callers |-> "idle"]
    /\ hand = [c \in Callers |-> NoHand]

-----------------------------------------------------------------------------
Now == IF coarse # 0 THEN coarse ELSE wall

Expired(e, now) == e # None /\ e.expiresAt # 0 /\ now >= e.expiresAt

\* A running goroutine's ticker fires.
Due(g, now) == g.at \notin {"start", "off"} /\ g.next = now

\* Mutant: a timer, which fires once, for a ticker.
TicksOnce(g, every, now) ==
    IF Due(g, now) THEN [g EXCEPT !.tick = 1] ELSE g

\* The ticker of a goroutine, when the wall's time moves on to now.
Ticks(g, every, now) ==
    IF Due(g, now) THEN [g EXCEPT !.next = now + every, !.tick = 1] ELSE g

Ready(g) == g.at # "off" /\ ~(g.at = "wait" /\ g.tick = 0 /\ ~closed)

Delay == IF clock.at = "start" THEN StartDelay ELSE MaxDelay

Pass ==
    /\ wall < MaxTime
    /\ Ready(clock) => late < Delay
    /\ wall' = wall + 1
    /\ clock' = Ticks(clock, Granularity, wall + 1)
    /\ late' = IF Ready(clock) THEN late + 1 ELSE 0
    /\ sweeper' = Ticks(sweeper, SweepEvery, wall + 1)
    /\ UNCHANGED <<coarse, closed, items, pc, hand>>

\* Tickers do not stop where the bound MaxTime stops the wall: a closed cache's may
\* still fire, again and again, while their goroutines have the stop to take.  (Callers
\* have done by then what they were at.)
TickOn ==
    /\ wall = MaxTime /\ closed /\ \A c \in Callers : pc[c] = "idle"
    /\ \/ /\ clock.at \notin {"start", "off"}
          /\ clock' = [clock EXCEPT !.tick = 1]
          /\ UNCHANGED sweeper
       \/ /\ sweeper.at \notin {"start", "off"}
          /\ sweeper' = [sweeper EXCEPT !.tick = 1]
          /\ UNCHANGED clock
    /\ UNCHANGED <<wall, coarse, closed, late, items, pc, hand>>

-----------------------------------------------------------------------------
(* clockLoop().                                                            *)

StartClock ==
    /\ clock.at = "start"
    /\ clock' = [clock EXCEPT !.at = "wait", !.next = wall + Granularity]
    /\ late' = 0
    /\ UNCHANGED <<wall, coarse, closed, sweeper, items, pc, hand>>

\* Mutant: the time the tick was sent, instead of the time it is.
TakeTicksTime ==
    /\ clock.at = "wait" /\ clock.tick = 1
    /\ clock' = [clock EXCEPT !.at = "read", !.tick = 0, !.time = wall - late]
    /\ UNCHANGED <<wall, coarse, closed, late, sweeper, items, pc, hand>>

\* The select takes a tick or the stop, as it likes, when both are there; then
\* the goroutine reads the time, as late as it may be.
TakeTick ==
    /\ clock.at = "wait" /\ clock.tick = 1
    /\ clock' = [clock EXCEPT !.at = "read", !.tick = 0, !.time = wall]
    /\ UNCHANGED <<wall, coarse, closed, late, sweeper, items, pc, hand>>

StoreTime ==
    /\ clock.at = "read"
    /\ coarse' = clock.time
    /\ clock' = [clock EXCEPT !.at = "wait", !.time = 0]
    /\ late' = 0
    /\ UNCHANGED <<wall, closed, sweeper, items, pc, hand>>

\* Mutant: the stop is looked at when there is no tick to take.
StopAfterTicks ==
    /\ clock.at = "wait" /\ closed /\ clock.tick = 0
    /\ clock' = [NewTicker EXCEPT !.at = "off"] /\ late' = 0
    /\ coarse' = 0
    /\ UNCHANGED <<wall, closed, sweeper, items, pc, hand>>

StopClock ==
    /\ clock.at = "wait" /\ closed
    /\ clock' = [NewTicker EXCEPT !.at = "off"] /\ late' = 0
    /\ coarse' = 0
    /\ UNCHANGED <<wall, closed, sweeper, items, pc, hand>>

-----------------------------------------------------------------------------
(* sweepLoop().                                                            *)

StartSweeper ==
    /\ sweeper.at = "start"
    /\ sweeper' = [sweeper EXCEPT !.at = "wait", !.next = wall + SweepEvery]
    /\ UNCHANGED <<wall, coarse, closed, clock, late, items, pc, hand>>

\* One time for all the shards.
BeginSweep ==
    /\ sweeper.at = "wait" /\ sweeper.tick = 1
    /\ sweeper' = [sweeper EXCEPT !.at = "sweep", !.tick = 0, !.time = Now, !.shard = 1]
    /\ UNCHANGED <<wall, coarse, closed, clock, late, items, pc, hand>>

\* Mutant: the last shard is not swept.
SweepBefore ==
    LET i == sweeper.shard IN
    /\ sweeper.at = "sweep"
    /\ items' = IF Expired(items[i], sweeper.time) /\ i < Shards
                THEN [items EXCEPT ![i] = None] ELSE items
    /\ sweeper' = IF i < Shards THEN [sweeper EXCEPT !.shard = i + 1]
                                ELSE [sweeper EXCEPT !.at = "wait", !.time = 0, !.shard = 0]
    /\ UNCHANGED <<wall, coarse, closed, clock, late, pc, hand>>

Sweep ==
    LET i == sweeper.shard IN
    /\ sweeper.at = "sweep"
    /\ items' = IF Expired(items[i], sweeper.time) THEN [items EXCEPT ![i] = None] ELSE items
    /\ sweeper' = IF i < Shards THEN [sweeper EXCEPT !.shard = i + 1]
                                ELSE [sweeper EXCEPT !.at = "wait", !.time = 0, !.shard = 0]
    /\ UNCHANGED <<wall, coarse, closed, clock, late, pc, hand>>

StopSweeper ==
    /\ sweeper.at = "wait" /\ closed
    /\ sweeper' = [NewTicker EXCEPT !.at = "off"]
    /\ UNCHANGED <<wall, coarse, closed, clock, late, items, pc, hand>>

-----------------------------------------------------------------------------
(* Callers, who read the time before they lock the shard.                  *)

\* setValue(), setNegative(): the deadline, and then the store.
Prepare(c, i, life) ==
    /\ pc[c] = "idle"
    /\ pc' = [pc EXCEPT ![c] = "store"]
    /\ LET e == IF life = 0 THEN [expiresAt |-> 0, born |-> 0, life |-> 0]
                            ELSE [expiresAt |-> Now + life, born |-> wall, life |-> life]
       IN hand' = [hand EXCEPT ![c] = Hand(i, e, 0, 0)]
    /\ UNCHANGED <<wall, coarse, closed, clock, late, sweeper, items>>

Store(c) ==
    /\ pc[c] = "store"
    /\ items' = [items EXCEPT ![hand[c].shard] = hand[c].entry]
    /\ pc' = [pc EXCEPT ![c] = "idle"]
    /\ hand' = [hand EXCEPT ![c] = NoHand]
    /\ UNCHANGED <<wall, coarse, closed, clock, late, sweeper>>

\* lookup(): the time, and then the shard.
BeginLookup(c, i) ==
    /\ pc[c] = "idle"
    /\ pc' = [pc EXCEPT ![c] = "look"]
    /\ hand' = [hand EXCEPT ![c] = Hand(i, None, Now, wall)]
    /\ UNCHANGED <<wall, coarse, closed, clock, late, sweeper, items>>

Lookup(c) ==
    LET i == hand[c].shard IN
    /\ pc[c] = "look"
    /\ items' = IF Expired(items[i], hand[c].time) THEN [items EXCEPT ![i] = None] ELSE items
    /\ pc' = [pc EXCEPT ![c] = "idle"]
    /\ hand' = [hand EXCEPT ![c] = NoHand]
    /\ UNCHANGED <<wall, coarse, closed, clock, late, sweeper>>

\* Close(), or the cleanup of a cache that was dropped: the channel is closed once.
Close ==
    /\ closed' = TRUE
    /\ UNCHANGED <<wall, coarse, clock, late, sweeper, items, pc, hand>>

-----------------------------------------------------------------------------
ClockStep == StartClock \/ TakeTick \/ StoreTime \/ StopClock
SweeperStep == StartSweeper \/ BeginSweep \/ Sweep \/ StopSweeper
CallerStep(c) ==
    \/ \E i \in 1..Shards : BeginLookup(c, i) \/ \E life \in Lives : Prepare(c, i, life)
    \/ Store(c) \/ Lookup(c)

Next == Pass \/ TickOn \/ ClockStep \/ SweeperStep \/ Close \/ \E c \in Callers : CallerStep(c)

\* Time runs on, and so do the goroutines.  A select that finds a tick and the stop
\* takes one at random, so ticks that are there each time, as when a sweep outlasts
\* its interval, cannot keep the stop waiting for ever: the stops are strongly fair.
\* (Each is taken once, so that fairness to either is fairness to both.)
Fairness ==
    /\ WF_vars(Pass) /\ WF_vars(ClockStep) /\ WF_vars(SweeperStep)
    /\ SF_vars(StopClock \/ StopSweeper)

Spec == Init /\ [][Next]_vars
FairSpec == Spec /\ Fairness

-----------------------------------------------------------------------------
(* Safety.                                                                 *)

\* How far the coarse time can be behind: an interval, and what the runtime adds.
Lag == Granularity + StartDelay + MaxDelay

\* "Expiry is then accurate to one interval either way" (cache.go:187), and what
\* the runtime's delays add: a lookup that has read the time, however long it then
\* waits for the shard, expires no entry that much before its life was over, and
\* finds none that much after; nor does a sweep drop one before.
Accurate ==
    \A i \in 1..Shards :
        LET e == items[i] IN
        e # None /\ e.expiresAt # 0 =>
            /\ \A c \in Callers :
                pc[c] = "look" /\ hand[c].shard = i =>
                    IF Expired(e, hand[c].time)
                    THEN hand[c].readAt + Lag >= e.born + e.life
                    ELSE hand[c].readAt < e.born + e.life + Lag
            /\ sweeper.at = "sweep" /\ sweeper.shard <= i /\ Expired(e, sweeper.time)
               => wall + Lag >= e.born + e.life

\* The time that lookups see never goes back, through the clock's start, its ticks
\* and its stop (cache.go:305, :689): the goroutine stores what it read earlier.
NeverBack == [][Now' >= Now]_vars

\* The inductive invariant: the time in the goroutine's hand and the time stored
\* are no older than its next tick allows, and entries, callers and the sweep hold
\* times that were so when they were read.
ClockOK ==
    /\ 1 <= wall
    /\ coarse <= wall
    /\ clock.at = "off" <=> coarse = 0
    /\ clock.at # "sweep" /\ sweeper.at # "read"
    /\ late <= Delay
    /\ clock.at = "start" => clock.tick = 0 /\ wall <= coarse + late
    /\ clock.at \in {"wait", "read"} =>
        /\ wall < clock.next /\ clock.next <= wall + Granularity
        /\ clock.tick = 0 /\ clock.at = "wait" => clock.next <= coarse + Granularity + StartDelay
        /\ clock.tick = 1 \/ clock.at # "wait" => wall <= coarse + Granularity + StartDelay + late
    /\ clock.at = "read" =>
        /\ coarse <= clock.time /\ clock.time <= wall
        /\ wall <= clock.time + late
        /\ clock.tick = 0 => clock.next <= clock.time + Granularity

Timely(e) == e # None /\ e.expiresAt # 0 =>
    /\ e.born <= wall
    /\ e.expiresAt <= e.born + e.life /\ e.born + e.life <= e.expiresAt + Lag

ClockInv ==
    /\ TypeOK
    /\ ClockOK
    /\ \A i \in 1..Shards : Timely(items[i])
    /\ \A c \in Callers :
        /\ pc[c] = "store" => hand[c].entry # None /\ Timely(hand[c].entry)
        /\ pc[c] = "look" => /\ hand[c].time <= hand[c].readAt /\ hand[c].readAt <= wall
                             /\ hand[c].readAt <= hand[c].time + Lag
    /\ sweeper.at = "sweep" => sweeper.shard \in 1..Shards /\ sweeper.time <= wall

-----------------------------------------------------------------------------
(* Liveness.                                                               *)

\* "Close stops the background goroutines ... and a cache configured with
\* ClockGranularity goes back to reading the wall clock" (cache.go:441), whatever
\* ticks are still there.
CloseEnds == closed ~> clock.at = "off" /\ sweeper.at = "off" /\ Now = wall

\* Entries that nobody looks up do not stay: once the sweeper has started, a shard
\* gets rid of what expires, whatever is stored meanwhile, if the cache is not closed
\* (cache.go:176).  Deadline leaves time for another sweep.
Deadline == MaxTime - Lag - SweepEvery
Swept ==
    \A i \in 1..Shards :
        LET Doomed == items[i] # None /\ items[i].expiresAt \in 1..Deadline IN
        Doomed /\ sweeper.at # "start" /\ wall <= Deadline ~> ~Doomed \/ closed

=============================================================================
