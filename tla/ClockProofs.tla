----------------------------- MODULE ClockProofs -----------------------------
(***************************************************************************)
(* Proofs about Clock, for any granularity, delays, shards, callers and    *)
(* lives, and for any time: the time that lookups see never goes back, and *)
(* expiry is accurate to an interval and the runtime's delays.             *)
(***************************************************************************)
EXTENDS Clock, TLAPS

USE TimesAssumption, ShardsAssumption

LEMMA InitInv == Init => ClockInv
<1> SUFFICES ASSUME Init PROVE ClockInv
  OBVIOUS
<1>1. NewTicker \in Ticker
  BY DEF NewTicker, Ticker
<1>2. NoHand \in Hands
  BY DEF NoHand, Hand, Hands
<1>3. TypeOK
  BY <1>1, <1>2 DEF Init, TypeOK
<1>4. ClockOK
  BY DEF Init, ClockOK, NewTicker, Delay
<1>5. QED
  BY <1>3, <1>4 DEF Init, ClockInv, Timely, NewTicker

-----------------------------------------------------------------------------
(* The coarse time, and the goroutine that stores it.                      *)

\* The types of what the clock's goroutine uses.
ClockTypes ==
    /\ wall \in Nat /\ coarse \in Nat /\ late \in Nat
    /\ closed \in BOOLEAN
    /\ clock \in Ticker /\ sweeper \in Ticker

\* What lookups see is the wall's time, or behind it by Lag at most.
LEMMA NowBehind ==
  ASSUME ClockTypes, ClockOK
  PROVE  Now \in Nat /\ Now <= wall /\ wall <= Now + Lag
  BY DEF ClockTypes, ClockOK, Now, Lag, Delay, Ready, Ticker

LEMMA TicksFields ==
  ASSUME NEW g \in Ticker, NEW every \in Nat, NEW now \in Nat
  PROVE  /\ Ticks(g, every, now) \in Ticker
         /\ Ticks(g, every, now).at = g.at
         /\ Ticks(g, every, now).time = g.time /\ Ticks(g, every, now).shard = g.shard
         /\ ~Due(g, now) => Ticks(g, every, now) = g
         /\ Due(g, now) =>
              Ticks(g, every, now).tick = 1 /\ Ticks(g, every, now).next = now + every
<1> DEFINE n == now + every
           h == [g EXCEPT !.next = n]
           k == [h EXCEPT !.tick = 1]
<1>1. h \in Ticker /\ h.at = g.at /\ h.next = n /\ h.time = g.time /\ h.shard = g.shard
  BY DEF Ticker
<1>2. [g EXCEPT !.next = n, !.tick = 1] = k
  BY DEF Ticker
<1> HIDE DEF h
<1>3. k \in Ticker /\ k.at = h.at /\ k.next = h.next /\ k.tick = 1
      /\ k.time = h.time /\ k.shard = h.shard
  BY <1>1 DEF Ticker
<1>4. CASE ~Due(g, now)
  BY <1>4 DEF Ticks
<1>5. CASE Due(g, now)
  <2>1. Ticks(g, every, now) = k
    BY <1>2, <1>5 DEF Ticks
  <2>2. QED
    BY <1>1, <1>3, <1>5, <2>1
<1>6. QED
  BY <1>4, <1>5

LEMMA PassClock == ASSUME ClockTypes, ClockOK, Pass PROVE ClockTypes' /\ ClockOK'
<1>1. /\ wall' = wall + 1 /\ wall + 1 \in Nat
      /\ clock' = Ticks(clock, Granularity, wall + 1)
      /\ sweeper' = Ticks(sweeper, SweepEvery, wall + 1)
      /\ late' = IF Ready(clock) THEN late + 1 ELSE 0
      /\ Ready(clock) => late < Delay
      /\ UNCHANGED <<coarse, closed>>
  BY DEF Pass, ClockTypes
<1>2. PICK now \in Nat : now = wall + 1
  BY <1>1
<1>3. clock \in Ticker /\ sweeper \in Ticker /\ Granularity \in Nat /\ SweepEvery \in Nat
  BY DEF ClockTypes
<1>4. clock' = Ticks(clock, Granularity, now) /\ sweeper' = Ticks(sweeper, SweepEvery, now)
  BY <1>1, <1>2
<1>5. /\ clock' \in Ticker /\ clock'.at = clock.at /\ clock'.time = clock.time
      /\ ~Due(clock, now) => clock' = clock
      /\ Due(clock, now) => clock'.tick = 1 /\ clock'.next = now + Granularity
  <2> DEFINE T == Ticks(clock, Granularity, now)
  <2>1. /\ T \in Ticker /\ T.at = clock.at /\ T.time = clock.time
        /\ ~Due(clock, now) => T = clock
        /\ Due(clock, now) => T.tick = 1 /\ T.next = now + Granularity
    BY <1>3, TicksFields
  <2>2. clock' = T
    BY <1>4
  <2> HIDE DEF T
  <2>3. QED
    BY <2>1, <2>2
<1>6. sweeper' \in Ticker /\ sweeper'.at = sweeper.at
  BY <1>3, <1>4, TicksFields
<1>7. ClockTypes'
  BY <1>1, <1>5, <1>6 DEF ClockTypes
<1>8. ClockOK'
  BY <1>1, <1>2, <1>5, <1>6, <1>7 DEF ClockTypes, ClockOK, Due, Delay, Ready, Ticker
<1>9. QED
  BY <1>7, <1>8

LEMMA ClockStepOK == ASSUME ClockTypes, ClockOK, ClockStep PROVE ClockTypes' /\ ClockOK'
<1> USE DEF ClockTypes, ClockOK, Delay, Ticker
<1>1. CASE StartClock
  <2>1. clock' = [at |-> "wait", next |-> wall + Granularity, tick |-> clock.tick,
                  time |-> clock.time, shard |-> clock.shard]
    BY <1>1 DEF StartClock
  <2>2. QED
    BY <1>1, <2>1 DEF StartClock
<1>2. CASE TakeTick
  <2>1. clock' = [at |-> "read", next |-> clock.next, tick |-> 0,
                  time |-> wall, shard |-> clock.shard]
    BY <1>2 DEF TakeTick
  <2>2. QED
    BY <1>2, <2>1 DEF TakeTick
<1>3. CASE StoreTime
  <2>1. clock' = [at |-> "wait", next |-> clock.next, tick |-> clock.tick,
                  time |-> 0, shard |-> clock.shard]
    BY <1>3 DEF StoreTime
  <2>2. QED
    BY <1>3, <2>1 DEF StoreTime
<1>4. CASE StopClock
  BY <1>4 DEF StopClock, NewTicker
<1>5. QED
  BY <1>1, <1>2, <1>3, <1>4 DEF ClockStep

\* Whatever the clock does, the time that lookups see does not go back.
LEMMA NowForward ==
  ASSUME ClockTypes, ClockOK, ClockTypes', ClockOK',
         \/ UNCHANGED <<wall, coarse>>
         \/ wall' = wall + 1 /\ UNCHANGED coarse
         \/ clock.at = "read" /\ coarse' = clock.time /\ UNCHANGED wall
         \/ coarse' = 0 /\ UNCHANGED wall
  PROVE  Now' >= Now
  BY DEF ClockTypes, ClockOK, Now, Ticker

\* What the others leave to the clock.
LEMMA ClockUnchanged ==
  ASSUME ClockTypes, ClockOK, UNCHANGED <<wall, coarse, clock, late>>,
         closed' \in BOOLEAN, sweeper' \in Ticker, sweeper'.at # "read"
  PROVE  ClockTypes' /\ ClockOK'
  BY DEF ClockTypes, ClockOK, Delay

-----------------------------------------------------------------------------
(* Entries, callers and the sweeper.                                       *)

\* What ClockInv says of them.
HandOK(c) ==
    /\ pc[c] = "store" => hand[c].entry # None /\ Timely(hand[c].entry)
    /\ pc[c] = "look" => /\ hand[c].time <= hand[c].readAt /\ hand[c].readAt <= wall
                         /\ hand[c].readAt <= hand[c].time + Lag
SweepOK == sweeper.at = "sweep" => sweeper.shard \in 1..Shards /\ sweeper.time <= wall

HeldTypes ==
    /\ items \in [1..Shards -> Entries \cup {None}]
    /\ pc \in [Callers -> {"idle", "store", "look"}]
    /\ hand \in [Callers -> Hands]

LEMMA InvParts ==
  ClockInv <=> /\ ClockTypes /\ HeldTypes /\ ClockOK /\ SweepOK
               /\ \A i \in 1..Shards : Timely(items[i])
               /\ \A c \in Callers : HandOK(c)
  BY DEF ClockInv, TypeOK, ClockTypes, HeldTypes, SweepOK, HandOK

\* The deadline of an entry stays what it was while time goes on.
LEMMA StillTimely ==
  ASSUME NEW e \in Entries \cup {None}, Timely(e), wall \in Nat, wall' \in Nat, wall <= wall'
  PROVE  Timely(e)'
  BY DEF Timely, Entries

\* A step that leaves callers and entries alone.
LEMMA HeldUnchanged ==
  ASSUME ClockInv, ClockTypes', ClockOK', SweepOK', wall' >= wall, UNCHANGED <<items, pc, hand>>
  PROVE  ClockInv'
<1>1. wall \in Nat /\ wall' \in Nat
  BY DEF ClockInv, TypeOK, ClockTypes
<1>2. HeldTypes'
  BY DEF ClockInv, TypeOK, HeldTypes
<1>3. ASSUME NEW i \in 1..Shards PROVE Timely(items[i])'
  BY <1>1, StillTimely DEF ClockInv, TypeOK
<1>4. ASSUME NEW c \in Callers PROVE HandOK(c)'
  <2>1. /\ hand[c].entry \in Entries \cup {None}
        /\ hand[c].readAt \in Nat /\ hand[c].time \in Nat
    BY DEF ClockInv, TypeOK, Hands
  <2>2. pc[c] = "store" => Timely(hand[c].entry)'
    BY <1>1, <2>1, StillTimely DEF ClockInv
  <2>3. QED
    BY <1>1, <2>1, <2>2 DEF ClockInv, HandOK
<1>5. QED
  BY <1>2, <1>3, <1>4 DEF ClockInv, TypeOK, ClockTypes, HeldTypes, HandOK, SweepOK

\* A step of one caller, or of the sweeper, which may take an entry away.
LEMMA HeldStep ==
  ASSUME ClockInv, ClockTypes', ClockOK', SweepOK', HeldTypes', UNCHANGED wall,
         \A i \in 1..Shards : items'[i] = items[i] \/ Timely(items'[i]),
         \A c \in Callers : (pc'[c] = pc[c] /\ hand'[c] = hand[c]) \/ HandOK(c)'
  PROVE  ClockInv'
<1>1. ASSUME NEW i \in 1..Shards PROVE Timely(items[i])'
  BY DEF ClockInv, Timely
<1>2. ASSUME NEW c \in Callers PROVE HandOK(c)'
  BY DEF ClockInv, HandOK, Timely
<1>3. QED
  BY <1>1, <1>2 DEF ClockInv, TypeOK, ClockTypes, HeldTypes, HandOK, SweepOK

LEMMA PassInv == ASSUME ClockInv, Pass PROVE ClockInv' /\ Now' >= Now
<1>1. ClockTypes /\ ClockOK
  BY InvParts
<1>2. ClockTypes' /\ ClockOK'
  BY <1>1, PassClock
<1>3. /\ wall' = wall + 1 /\ UNCHANGED <<coarse, items, pc, hand>>
      /\ sweeper'.at = sweeper.at /\ sweeper'.time = sweeper.time /\ sweeper'.shard = sweeper.shard
  <2>1. wall + 1 \in Nat /\ sweeper \in Ticker
    BY <1>1 DEF ClockTypes
  <2> DEFINE T == Ticks(sweeper, SweepEvery, wall + 1)
  <2>2. T.at = sweeper.at /\ T.time = sweeper.time /\ T.shard = sweeper.shard
    BY <2>1, TicksFields
  <2>3. sweeper' = T /\ wall' = wall + 1 /\ UNCHANGED <<coarse, items, pc, hand>>
    BY DEF Pass
  <2> HIDE DEF T
  <2>4. QED
    BY <2>2, <2>3
<1>4. SweepOK'
  <2>1. sweeper.time \in Nat /\ wall \in Nat
    BY <1>1 DEF ClockTypes, Ticker
  <2>2. QED
    BY <1>3, <2>1, InvParts DEF SweepOK
<1>5. wall' >= wall
  BY <1>1, <1>3 DEF ClockTypes
<1>6. QED
  BY <1>1, <1>2, <1>3, <1>4, <1>5, HeldUnchanged, NowForward

\* A tick that comes after MaxTime finds the goroutine where Ticks would.
LEMMA TickOnInv == ASSUME ClockInv, TickOn PROVE ClockInv' /\ Now' >= Now
<1>1. ClockTypes /\ ClockOK /\ SweepOK
  BY InvParts
<1>2. UNCHANGED <<wall, coarse, closed, late, items, pc, hand>>
  BY DEF TickOn
<1>3. clock \in Ticker /\ sweeper \in Ticker
  BY <1>1 DEF ClockTypes
<1>4. ASSUME NEW g \in Ticker
      PROVE  LET h == [g EXCEPT !.tick = 1] IN
             /\ h \in Ticker /\ h.at = g.at /\ h.next = g.next /\ h.tick = 1
             /\ h.time = g.time /\ h.shard = g.shard
  BY DEF Ticker
<1>5. /\ clock' \in Ticker /\ clock'.at = clock.at /\ clock'.next = clock.next
      /\ clock'.time = clock.time
      /\ clock'.tick = clock.tick \/ (clock'.tick = 1 /\ clock.at # "start")
  BY <1>3, <1>4 DEF TickOn
<1>6. /\ sweeper' \in Ticker /\ sweeper'.at = sweeper.at /\ sweeper'.time = sweeper.time
      /\ sweeper'.shard = sweeper.shard
  BY <1>3, <1>4 DEF TickOn
<1>7. ClockTypes' /\ SweepOK' /\ wall' >= wall
  BY <1>1, <1>2, <1>5, <1>6 DEF ClockTypes, SweepOK
<1>8. ClockOK'
  BY <1>1, <1>2, <1>5, <1>6 DEF ClockTypes, ClockOK, Delay, Ticker
<1>9. QED
  BY <1>1, <1>2, <1>7, <1>8, HeldUnchanged, NowForward

LEMMA ClockStepInv == ASSUME ClockInv, ClockStep PROVE ClockInv' /\ Now' >= Now
<1>1. ClockTypes /\ ClockOK
  BY InvParts
<1>2. ClockTypes' /\ ClockOK'
  BY <1>1, ClockStepOK
<1>3. UNCHANGED <<wall, sweeper, items, pc, hand>>
  BY DEF ClockStep, StartClock, TakeTick, StoreTime, StopClock
<1>4. \/ UNCHANGED coarse
      \/ clock.at = "read" /\ coarse' = clock.time
      \/ coarse' = 0
  BY DEF ClockStep, StartClock, TakeTick, StoreTime, StopClock
<1>5. SweepOK' /\ wall' >= wall
  BY <1>1, <1>3, InvParts DEF SweepOK, ClockTypes
<1>6. QED
  BY <1>1, <1>2, <1>3, <1>4, <1>5, HeldUnchanged, NowForward

LEMMA CloseInv == ASSUME ClockInv, Close PROVE ClockInv' /\ Now' >= Now
<1>1. ClockTypes /\ ClockOK /\ SweepOK
  BY InvParts
<1>2. closed' \in BOOLEAN /\ UNCHANGED <<wall, coarse, clock, late, sweeper, items, pc, hand>>
  BY DEF Close
<1>3. ClockTypes' /\ ClockOK' /\ SweepOK' /\ wall' >= wall
  BY <1>1, <1>2, ClockUnchanged DEF ClockTypes, ClockOK, SweepOK
<1>4. QED
  BY <1>1, <1>2, <1>3, HeldUnchanged, NowForward

\* What the sweeper's steps make of its own state.
LEMMA SweeperFields ==
  ASSUME ClockInv, SweeperStep
  PROVE  /\ sweeper' \in Ticker /\ sweeper'.at # "read" /\ SweepOK'
         /\ UNCHANGED <<wall, coarse, closed, clock, late, pc, hand>>
<1>1. ClockTypes /\ ClockOK /\ SweepOK
  BY InvParts
<1>2. CASE StartSweeper
  <2>1. sweeper' = [at |-> "wait", next |-> wall + SweepEvery, tick |-> sweeper.tick,
                    time |-> sweeper.time, shard |-> sweeper.shard]
    BY <1>1, <1>2 DEF StartSweeper, ClockTypes, Ticker
  <2>2. QED
    BY <1>1, <1>2, <2>1 DEF StartSweeper, ClockTypes, Ticker, SweepOK
<1>3. CASE BeginSweep
  <2>1. sweeper' = [at |-> "sweep", next |-> sweeper.next, tick |-> 0, time |-> Now, shard |-> 1]
    BY <1>1, <1>3 DEF BeginSweep, ClockTypes, Ticker
  <2>2. Now \in Nat /\ Now <= wall
    BY <1>1, NowBehind
  <2>3. QED
    BY <1>1, <1>3, <2>1, <2>2 DEF BeginSweep, ClockTypes, Ticker, SweepOK
<1>4. CASE Sweep
  <2>1. sweeper.shard \in 1..Shards /\ sweeper.time <= wall
    BY <1>1, <1>4 DEF Sweep, SweepOK
  <2>2. CASE sweeper.shard < Shards
    <3>1. sweeper' = [at |-> "sweep", next |-> sweeper.next, tick |-> sweeper.tick,
                      time |-> sweeper.time, shard |-> sweeper.shard + 1]
      BY <1>1, <1>4, <2>2 DEF Sweep, ClockTypes, Ticker
    <3>2. QED
      BY <1>1, <1>4, <2>1, <2>2, <3>1 DEF Sweep, ClockTypes, Ticker, SweepOK
  <2>3. CASE ~(sweeper.shard < Shards)
    <3>1. sweeper' = [at |-> "wait", next |-> sweeper.next, tick |-> sweeper.tick,
                      time |-> 0, shard |-> 0]
      BY <1>1, <1>4, <2>3 DEF Sweep, ClockTypes, Ticker
    <3>2. QED
      BY <1>1, <1>4, <3>1 DEF Sweep, ClockTypes, Ticker, SweepOK
  <2>4. QED
    BY <2>2, <2>3
<1>5. CASE StopSweeper
  <2>1. sweeper' = [at |-> "off", next |-> 0, tick |-> 0, time |-> 0, shard |-> 0]
    BY <1>5 DEF StopSweeper, NewTicker
  <2>2. sweeper' \in Ticker /\ sweeper'.at = "off"
    BY <2>1 DEF Ticker
  <2>3. QED
    BY <1>5, <2>2 DEF StopSweeper, SweepOK
<1>6. QED
  BY <1>2, <1>3, <1>4, <1>5 DEF SweeperStep

LEMMA SweeperStepInv == ASSUME ClockInv, SweeperStep PROVE ClockInv' /\ Now' >= Now
<1>1. ClockTypes /\ ClockOK /\ HeldTypes
  BY InvParts
<1>2. /\ sweeper' \in Ticker /\ sweeper'.at # "read" /\ SweepOK'
      /\ UNCHANGED <<wall, coarse, closed, clock, late, pc, hand>>
  BY SweeperFields
<1>3. ClockTypes' /\ ClockOK'
  BY <1>1, <1>2, ClockUnchanged DEF ClockTypes
<1>4. /\ items' \in [1..Shards -> Entries \cup {None}]
      /\ \A i \in 1..Shards : items'[i] = items[i] \/ items'[i] = None
  BY <1>1 DEF SweeperStep, StartSweeper, BeginSweep, Sweep, StopSweeper, HeldTypes
<1>5. QED
  BY <1>1, <1>2, <1>3, <1>4, HeldStep, NowForward DEF HeldTypes, Timely

LEMMA CallerStepInv ==
  ASSUME ClockInv, NEW c \in Callers, CallerStep(c) PROVE ClockInv' /\ Now' >= Now
<1>1. ClockTypes /\ ClockOK /\ HeldTypes /\ SweepOK /\ HandOK(c)
  BY InvParts
<1>2. UNCHANGED <<wall, coarse, closed, clock, late, sweeper>>
  BY DEF CallerStep, Prepare, BeginLookup, Store, Lookup
<1>3. ClockTypes' /\ ClockOK' /\ SweepOK' /\ Now' >= Now
  BY <1>1, <1>2, ClockUnchanged, NowForward DEF ClockTypes, ClockOK, SweepOK
<1>4. Now \in Nat /\ Now <= wall /\ wall <= Now + Lag /\ wall \in Nat
  BY <1>1, NowBehind DEF ClockTypes
<1>5. ASSUME HeldTypes', \A i \in 1..Shards : items'[i] = items[i] \/ Timely(items'[i]),
             \A d \in Callers \ {c} : pc'[d] = pc[d] /\ hand'[d] = hand[d], HandOK(c)'
      PROVE  ClockInv'
  BY <1>2, <1>3, <1>5, HeldStep
<1>6. ASSUME NEW i \in 1..Shards, NEW life \in Lives, Prepare(c, i, life) PROVE ClockInv'
  <2>0. PICK e : e = IF life = 0 THEN [expiresAt |-> 0, born |-> 0, life |-> 0]
                     ELSE [expiresAt |-> Now + life, born |-> wall, life |-> life]
    OBVIOUS
  <2> DEFINE h == [shard |-> i, entry |-> e, time |-> 0, readAt |-> 0]
  <2>1. e \in Entries /\ Timely(e) /\ e # None
    <3>1. life \in Nat
      OBVIOUS
    <3>2. CASE life = 0
      BY <2>0, <3>2, EntryAssumption DEF Entries, Timely
    <3>3. CASE life # 0
      <4>1. e = [expiresAt |-> Now + life, born |-> wall, life |-> life]
        BY <2>0, <3>3
      <4>2. e \in Entries
        BY <1>4, <3>1, <4>1 DEF Entries
      <4>3. QED
        <5>1. e.expiresAt = Now + life /\ e.born = wall /\ e.life = life /\ e # None
          BY <4>1, <4>2, EntryAssumption
        <5>2. Lag \in Nat
          BY DEF Lag
        <5>3. QED
          BY <1>4, <3>1, <4>2, <5>1, <5>2 DEF Timely
    <3>4. QED
      BY <3>2, <3>3
  <2>2. pc' = [pc EXCEPT ![c] = "store"] /\ hand' = [hand EXCEPT ![c] = h] /\ UNCHANGED items
    BY <1>6, <2>0 DEF Prepare, Hand
  <2>3. h \in Hands
    BY <2>1 DEF Hands
  <2>4. HeldTypes'
    BY <1>1, <2>2, <2>3 DEF HeldTypes
  <2>5. pc'[c] = "store" /\ hand'[c].entry = e
    BY <1>1, <2>2 DEF HeldTypes
  <2>6. HandOK(c)'
    BY <1>2, <2>1, <2>5 DEF HandOK, Timely
  <2>7. QED
    BY <1>1, <1>5, <2>2, <2>4, <2>6 DEF HeldTypes
<1>7. ASSUME NEW i \in 1..Shards, BeginLookup(c, i) PROVE ClockInv'
  <2> DEFINE h == [shard |-> i, entry |-> None, time |-> Now, readAt |-> wall]
  <2>1. pc' = [pc EXCEPT ![c] = "look"] /\ hand' = [hand EXCEPT ![c] = h] /\ UNCHANGED items
    BY <1>7 DEF BeginLookup, Hand
  <2>2. h \in Hands
    BY <1>4 DEF Hands
  <2>3. HeldTypes'
    BY <1>1, <2>1, <2>2 DEF HeldTypes
  <2>4. pc'[c] = "look" /\ hand'[c].time = Now /\ hand'[c].readAt = wall
    BY <1>1, <2>1 DEF HeldTypes
  <2>5. HandOK(c)'
    BY <1>2, <1>4, <2>4 DEF HandOK
  <2>6. QED
    BY <1>1, <1>5, <2>1, <2>3, <2>5 DEF HeldTypes
<1>8. CASE Store(c) \/ Lookup(c)
  <2>1. NoHand \in Hands
    BY DEF NoHand, Hand, Hands
  <2>2. pc' = [pc EXCEPT ![c] = "idle"] /\ hand' = [hand EXCEPT ![c] = NoHand]
    BY <1>8 DEF Store, Lookup
  <2>3. hand[c].entry \in Entries \cup {None} /\ hand[c].shard \in 1..Shards
    BY <1>1 DEF HeldTypes, Hands
  <2>4. /\ items' \in [1..Shards -> Entries \cup {None}]
        /\ \A i \in 1..Shards : items'[i] = items[i] \/ Timely(items'[i])
    <3>1. CASE Store(c)
      BY <1>1, <2>3, <3>1 DEF Store, HeldTypes, HandOK
    <3>2. CASE Lookup(c)
      BY <1>1, <2>3, <3>2 DEF Lookup, HeldTypes, Timely
    <3>3. QED
      BY <1>8, <3>1, <3>2
  <2>5. HeldTypes'
    BY <1>1, <2>1, <2>2, <2>4 DEF HeldTypes
  <2>6. pc'[c] = "idle"
    BY <1>1, <2>2 DEF HeldTypes
  <2>7. HandOK(c)'
    BY <2>6 DEF HandOK
  <2>8. \A d \in Callers \ {c} : pc'[d] = pc[d] /\ hand'[d] = hand[d]
    BY <1>1, <2>2 DEF HeldTypes
  <2>9. QED
    BY <1>3, <1>5, <2>4, <2>5, <2>7, <2>8
<1>9. QED
  BY <1>3, <1>6, <1>7, <1>8 DEF CallerStep

LEMMA StutterInv == ASSUME ClockInv, UNCHANGED vars PROVE ClockInv'
  BY DEF vars, ClockInv, TypeOK, ClockOK, Timely, Delay, Ready

LEMMA NextInv == ASSUME ClockInv, Next PROVE ClockInv' /\ Now' >= Now
  BY PassInv, TickOnInv, ClockStepInv, SweeperStepInv, CloseInv, CallerStepInv DEF Next

-----------------------------------------------------------------------------
\* The invariant: the coarse time is behind the wall's by an interval and the
\* runtime's delays at most, and so is every time and every deadline read from it.
THEOREM Invariance == Spec => []ClockInv
<1>1. ClockInv /\ [Next]_vars => ClockInv'
  BY NextInv, StutterInv
<1>2. QED
  BY InitInv, <1>1, PTL DEF Spec

\* Lookups expire nothing early, and find nothing late, by more than that; sweeps
\* drop nothing early.
THEOREM AccurateExpiry == Spec => []Accurate
<1>1. ClockInv => Accurate
  <2> SUFFICES ASSUME ClockInv, NEW i \in 1..Shards, items[i] # None, items[i].expiresAt # 0
               PROVE  /\ \A c \in Callers :
                          pc[c] = "look" /\ hand[c].shard = i =>
                            IF Expired(items[i], hand[c].time)
                            THEN hand[c].readAt + Lag >= items[i].born + items[i].life
                            ELSE hand[c].readAt < items[i].born + items[i].life + Lag
                      /\ sweeper.at = "sweep" /\ sweeper.shard <= i
                           /\ Expired(items[i], sweeper.time)
                         => wall + Lag >= items[i].born + items[i].life
    BY DEF Accurate
  <2> DEFINE e == items[i]
  <2>1. /\ e.expiresAt \in Nat /\ e.born \in Nat /\ e.life \in Nat
        /\ e.expiresAt <= e.born + e.life /\ e.born + e.life <= e.expiresAt + Lag
    BY DEF ClockInv, TypeOK, Entries, Timely
  <2>2. wall \in Nat /\ sweeper.time \in Nat /\ Lag \in Nat
    BY DEF ClockInv, TypeOK, Ticker, Lag
  <2>3. ASSUME NEW c \in Callers, pc[c] = "look"
        PROVE  IF Expired(e, hand[c].time)
               THEN hand[c].readAt + Lag >= e.born + e.life
               ELSE hand[c].readAt < e.born + e.life + Lag
    <3>1. /\ hand[c].time \in Nat /\ hand[c].readAt \in Nat
          /\ hand[c].time <= hand[c].readAt /\ hand[c].readAt <= hand[c].time + Lag
      BY <2>3 DEF ClockInv, TypeOK, Hands
    <3>2. QED
      BY <2>1, <2>2, <3>1 DEF Expired
  <2>4. ASSUME sweeper.at = "sweep", Expired(e, sweeper.time)
        PROVE  wall + Lag >= e.born + e.life
    BY <2>1, <2>2, <2>4 DEF ClockInv, Expired
  <2>5. QED
    BY <2>3, <2>4
<1>2. QED
  BY Invariance, <1>1, PTL

\* The time that lookups see never goes back.
THEOREM TimeForward == Spec => NeverBack
<1>1. ClockInv /\ [Next]_vars => [Now' >= Now]_vars
  BY NextInv
<1>2. QED
  BY Invariance, <1>1, PTL DEF Spec, NeverBack

=============================================================================
