------------------------------ MODULE Deadlines -----------------------------
(***************************************************************************)
(* The arithmetic of a cache (cache.go): what New() makes of the options   *)
(* that are numbers, and the deadlines of the entries stored.              *)
(*                                                                         *)
(* Go's int64 is a word of Width bits, whose sums and products wrap, and   *)
(* its float64 has a significand of Precision bits, which is less than the *)
(* word has, as there.  A random number is any of Samples evenly spread.   *)
(* Time is what now() returned (module Clock); an entry is stored alone,   *)
(* for none keeps anything of the one it replaces.                         *)
(***************************************************************************)
EXTENDS Integers

CONSTANTS
    Width, Precision,
    Options,       \* the options that New() is called with
    Durations,     \* the ttl of SetTTL() and SetNegativeTTL()
    Times,         \* what now() returns
    Samples,       \* bound: how many random numbers are tried, less one
    None           \* nil

ASSUME WordAssumption ==
    Width \in Nat /\ Precision \in Nat /\ 3 < Precision /\ Precision < Width - 1
ASSUME SamplesAssumption == Samples \in Nat \ {0}

VARIABLES
    core,          \* the cache, or None before New() returns one
    entry          \* the entry stored last, or None

vars == <<core, entry>>

MaxInt == 2^(Width - 1) - 1
Ints == -MaxInt - 1..MaxInt
Fits(n) == n <= MaxInt
OptionsRecord ==
    [ttl : Ints, negativeTTL : Ints, refreshAfter : Ints, jitter : Ints,
     granularity : Ints, shards : Ints, budget : Ints]
ASSUME InputsAssumption ==
    Options \subseteq OptionsRecord /\ Durations \subseteq Ints /\ Times \subseteq 1..MaxInt

Init == core = None /\ entry = None

-----------------------------------------------------------------------------
(* Numbers.                                                                *)

\* What a word holds of a sum or product.
Wrap(n) == ((n + 2^(Width - 1)) % 2^Width) - 2^(Width - 1)

\* Division of words truncates.
Quo(a, b) == IF a < 0 THEN -((-a) \div b) ELSE a \div b

\* The integer nearest to num / den, the even one of two.
Nearest(num, den) ==
    LET q == num \div den
        r == 2 * (num % den)
    IN IF r > den \/ (r = den /\ q % 2 = 1) THEN q + 1 ELSE q

Two(n) == IF n > 0 THEN 2^n ELSE 1

\* The significand holds num / den, less its last e binary digits.
Room(num, den, e) == num * Two(-e) < den * 2^Precision * Two(e)

\* num / den as a float, a fraction again: the least exponent that leaves room for
\* the significand.  Below low, the exponent does not matter to the caller.
Float(num, den, low) ==
    LET exp == CHOOSE e \in low..Width : /\ Room(num, den, e)
                                         /\ e = low \/ ~Room(num, den, e - 1)
    IN [num |-> Nearest(num * Two(-exp), den * Two(exp)) * Two(exp), den |-> Two(-exp)]

\* The whole part of float64(a) * (float64(b) / float64(c)), of positive words, b at
\* most 2c.
\* A product below one is zero, whatever its exponent.
ScaleFloat(a, b, c) ==
    LET x == Float(a, 1, 0)
        q == Float(Float(b, 1, 0).num, Float(c, 1, 0).num, -Width - Precision + 1)
        p == Float(x.num * q.num, q.den, 1 - Precision)
    IN p.num \div p.den

\* int64() of a positive float: one past the largest word is what the processor makes of it.
Words(n) == IF Fits(n) THEN {n} ELSE {MaxInt, -MaxInt - 1}

-----------------------------------------------------------------------------
(* New().                                                                  *)

\* checkClock(): a lifetime of at least minClockSteps intervals.
TooCoarse(granularity, d) == granularity > 0 /\ d > 0 /\ d < Wrap(10 * granularity)

\* What New() does not panic on.  The next power of two from more shards is no positive
\* word, and there is no slice of that length; that memory ends sooner is left out.
Valid(o) ==
    /\ o.jitter \in 0..100
    /\ o.budget >= 0 /\ o.shards <= 2^(Width - 2)
    /\ o.ttl >= 0 /\ o.negativeTTL >= 0 /\ o.granularity >= 0
    /\ o.refreshAfter = 0 \/ o.refreshAfter \in 1..o.ttl - 1
    /\ \A d \in {o.ttl, o.negativeTTL, o.refreshAfter} : ~TooCoarse(o.granularity, d)

\* shardCount(): the power of two from n up.
ShardCount(n) == IF n <= 1 THEN 1 ELSE CHOOSE p \in {2^i : i \in 1..Width - 2} : p \div 2 < n /\ n <= p

\* Mutant: a budget rounded down.
DivideBudgetDown(total, n) == IF total <= 0 THEN 0 ELSE Quo(total, n)

\* Rounded up; past the largest word it is negative.
DivideBudget(total, n) == IF total <= 0 THEN 0 ELSE Quo(Wrap(Wrap(total + n) - 1), n)

\* MaxBytes and MaxEntries are divided alike.
New(o) ==
    /\ core = None
    /\ Valid(o)
    /\ LET n == ShardCount(o.shards) IN
       core' = [ttl |-> o.ttl, negativeTTL |-> o.negativeTTL, refreshAfter |-> o.refreshAfter,
                jitter |-> o.jitter, budget |-> o.budget,
                shards |-> n, perShard |-> DivideBudget(o.budget, n)]
    /\ UNCHANGED entry

-----------------------------------------------------------------------------
(* Storing an entry.                                                       *)

Span(ttl) == Quo(Wrap(ttl * core.jitter), 100)
\* rand.Int64N(2 * span + 1).
Rolls(ttl) == LET most == 2 * Span(ttl) IN
    IF most > 0 THEN {(most * i) \div Samples : i \in 0..Samples} ELSE {0}

\* Mutant: a life of zero is left as it is.
LifeMaybeZero(ttl, roll) ==
    IF core.jitter > 0 /\ Span(ttl) > 0 THEN Wrap(ttl + (roll - Span(ttl))) ELSE ttl

Life(ttl, roll) ==
    LET life == IF Span(ttl) > 0 THEN Wrap(ttl + (roll - Span(ttl))) ELSE ttl
    IN IF core.jitter > 0 /\ life <= 0 THEN 1 ELSE life

\* Mutant: the refresh is due at its own time, whatever the life is.
RefreshInUnscaled(ttl, refreshAfter, life) == {refreshAfter}

\* How long the refresh may wait.
RefreshIn(ttl, refreshAfter, life) ==
    {IF at < 1 THEN 1 ELSE at : at \in Words(ScaleFloat(refreshAfter, life, ttl))}

\* What deadlines() may return, of a cache whose jitter fell on roll.
Deadlines(ttl, refreshAfter, roll, now) ==
    LET life == Life(ttl, roll) IN
    {[expiresAt |-> IF ttl <= 0 THEN 0 ELSE Wrap(now + life), refreshAt |-> r] :
        r \in IF 0 < refreshAfter /\ refreshAfter < ttl
              THEN {Wrap(now + at) : at \in RefreshIn(ttl, refreshAfter, life)} ELSE {0}}

\* ttl, refreshAfter and now, as they were, are history.
Stored(ttl, refreshAfter, negative) ==
    \E roll \in Rolls(ttl), now \in Times :
        \E d \in Deadlines(ttl, refreshAfter, roll, now) :
        entry' = [expiresAt |-> d.expiresAt, refreshAt |-> d.refreshAt, negative |-> negative,
                  ttl |-> ttl, refreshAfter |-> refreshAfter, now |-> now]

\* Set(), SetTTL(), SetWithCost() and a load's store, by setValue().
SetValue(ttl) ==
    /\ core # None /\ entry = None
    /\ Stored(ttl, core.refreshAfter, FALSE)
    /\ UNCHANGED core

\* SetNegative(), SetNegativeTTL() and a load that found nothing, by setNegative().
SetNegative(ttl) ==
    /\ core # None /\ entry = None
    /\ ttl > 0
    /\ Stored(ttl, 0, TRUE)
    /\ UNCHANGED core

\* The entry leaves the cache.
Remove ==
    /\ entry # None
    /\ entry' = None
    /\ UNCHANGED core

Next ==
    \/ \E o \in Options : New(o)
    \/ core # None /\ \E ttl \in Durations \cup {core.ttl} : SetValue(ttl)
    \/ core # None /\ \E ttl \in Durations \cup {core.negativeTTL} : SetNegative(ttl)
    \/ Remove

Spec == Init /\ [][Next]_vars

-----------------------------------------------------------------------------
(* Safety.                                                                 *)

Spread(ttl) == (ttl * core.jitter) \div 100

\* "Jitter spreads expiry by up to this percentage either way" (cache.go:110), and an
\* entry with a ttl is never taken for one without: not by full jitter, nor by a sum
\* that wraps.  Where the last deadline that jitter allows is past the largest time,
\* the entry may instead be gone at once, and never stays longer.
ExpiresInTime ==
    entry # None =>
        IF entry.ttl <= 0 THEN entry.expiresAt = 0
        ELSE LET first == entry.now + entry.ttl - Spread(entry.ttl)
                 last == entry.now + entry.ttl + Spread(entry.ttl)
             IN /\ entry.expiresAt # 0
                /\ \/ first <= entry.expiresAt /\ entry.now < entry.expiresAt /\ entry.expiresAt <= last
                   \/ ~Fits(last) /\ entry.expiresAt <= entry.now + 1

Rounding(n) == (6 * n) \div 2^Precision

\* "The refresh sits the same fraction of the way through the entry's life ..., and
\* never lands after it" (cache.go:639): it does not while a float holds twice the ttl,
\* which is up to 52 days, and past that is as far off as rounding five times makes it,
\* six parts of what a float's last bit is of it.  Nothing is said of a life so long that
\* those could take the refresh past the largest time.
RefreshInProportion ==
    entry # None /\ entry.refreshAt # 0 =>
        LET longest == entry.ttl + Spread(entry.ttl)
            life == entry.expiresAt - entry.now
            at == entry.refreshAt - entry.now
            exact == entry.refreshAfter * life     \* at this over the ttl
        IN Fits(entry.now + longest + Rounding(longest)) =>
           /\ 0 < at
           /\ at * entry.ttl <= exact + Rounding(exact) \/ at = 1
           /\ (at + 1) * entry.ttl >= exact - Rounding(exact)
           /\ entry.ttl < 2^(Precision - 1) => at <= life

\* "The shards together are never stricter than the total the caller asked for"
\* (cache.go:768), nor looser by an entry, or byte, each; a limit that is not
\* positive is none (shard.go:315), which is what a sum that wraps makes of it.
NeverStricter ==
    core # None =>
        LET all == core.shards * core.perShard IN
        \/ core.budget = 0 /\ core.perShard = 0
        \/ core.perShard > 0 /\ core.budget <= all /\ all < core.budget + core.shards
        \/ core.perShard < 0 /\ ~Fits(core.budget + core.shards - 1)

=============================================================================
