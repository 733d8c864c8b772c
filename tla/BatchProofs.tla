---------------------------- MODULE BatchProofs -----------------------------
(***************************************************************************)
(* Proofs about Batch: its inductive invariant, and with it the counting   *)
(* of waiters, the batches that are cancelled, the one load of a key and   *)
(* the answers and the entries that a batch leaves.  They hold for every   *)
(* finite set of keys and of calls.                                        *)
(***************************************************************************)
EXTENDS Batch, FiniteSetTheorems, SequenceTheorems, TLAPS

-----------------------------------------------------------------------------
(* Sequences without duplicates, as sets.                                  *)

NoRepeats(s) == \A i, j \in DOMAIN s : s[i] = s[j] => i = j

LEMMA InEmpty == ASSUME NEW x PROVE ~In(x, <<>>) /\ NoRepeats(<<>>)
  BY DEF In, NoRepeats

LEMMA InAppend ==
  ASSUME NEW S, NEW s \in Seq(S), NEW x \in S
  PROVE  /\ Append(s, x) \in Seq(S) /\ Append(s, x) # <<>>
         /\ \A y : In(y, Append(s, x)) <=> In(y, s) \/ y = x
         /\ NoRepeats(s) /\ ~In(x, s) => NoRepeats(Append(s, x))
<1>1. /\ Append(s, x) \in Seq(S) /\ Append(s, x) # <<>>
      /\ Len(Append(s, x)) = Len(s) + 1
      /\ \A i \in 1..Len(s) : Append(s, x)[i] = s[i]
      /\ Append(s, x)[Len(s) + 1] = x
  BY AppendProperties
<1>2. Len(s) \in Nat /\ DOMAIN s = 1..Len(s) /\ DOMAIN Append(s, x) = 1..(Len(s) + 1)
  BY <1>1, LenProperties
<1>3. \A y : In(y, Append(s, x)) <=> In(y, s) \/ y = x
  BY <1>1, <1>2 DEF In
<1>4. NoRepeats(s) /\ ~In(x, s) => NoRepeats(Append(s, x))
  BY <1>1, <1>2 DEF In, NoRepeats
<1>5. QED
  BY <1>1, <1>3, <1>4

LEMMA InTail ==
  ASSUME NEW S, NEW s \in Seq(S), s # <<>>, NoRepeats(s)
  PROVE  /\ Head(s) \in S /\ In(Head(s), s)
         /\ Tail(s) \in Seq(S) /\ NoRepeats(Tail(s))
         /\ \A y : In(y, Tail(s)) <=> In(y, s) /\ y # Head(s)
<1>1. /\ Head(s) \in S /\ Tail(s) \in Seq(S)
      /\ Len(Tail(s)) = Len(s) - 1 /\ Len(s) \in Nat \ {0}
      /\ \A i \in 1..Len(Tail(s)) : Tail(s)[i] = s[i + 1]
  BY HeadTailProperties, EmptySeq
<1>2. DOMAIN s = 1..Len(s) /\ DOMAIN Tail(s) = 1..(Len(s) - 1) /\ Head(s) = s[1]
  BY <1>1, LenProperties
<1>3. In(Head(s), s) /\ NoRepeats(Tail(s))
  BY <1>1, <1>2 DEF In, NoRepeats
<1>4. ASSUME NEW y PROVE In(y, Tail(s)) <=> In(y, s) /\ y # Head(s)
  <2>1. ASSUME In(y, Tail(s)) PROVE In(y, s) /\ y # Head(s)
    BY <1>1, <1>2, <2>1 DEF In, NoRepeats
  <2>2. ASSUME In(y, s), y # Head(s) PROVE In(y, Tail(s))
    <3>1. PICK i \in 2..Len(s) : s[i] = y
      BY <1>1, <1>2, <2>2 DEF In
    <3>2. i - 1 \in DOMAIN Tail(s) /\ Tail(s)[i - 1] = y
      BY <1>1, <1>2, <3>1
    <3>3. QED
      BY <3>2 DEF In
  <2>3. QED
    BY <2>1, <2>2
<1>5. QED
  BY <1>1, <1>3, <1>4

LEMMA InSome ==
  ASSUME NEW S, NEW s \in Seq(S), s # <<>> PROVE \E x \in S : In(x, s)
<1>1. Len(s) \in Nat \ {0} /\ DOMAIN s = 1..Len(s)
  BY EmptySeq, LenProperties
<1>2. s[1] \in S /\ In(s[1], s)
  BY <1>1, ElementOfSeq DEF In
<1>3. QED
  BY <1>2

LEMMA KeyListFacts ==
  ASSUME NEW keys \in KeyLists PROVE keys \in Seq(Keys) /\ keys # <<>> /\ NoRepeats(keys)
<1>1. PICK n \in 1..Cardinality(Keys) :
        /\ keys \in [1..n -> Keys] /\ \A i, j \in 1..n : keys[i] = keys[j] => i = j
  BY DEF KeyLists
<1>2. n \in Nat \ {0}
  BY <1>1, FiniteAssumption, FS_CardinalityType
<1>3. QED
  BY <1>1, <1>2 DEF NoRepeats

-----------------------------------------------------------------------------
(* The inductive invariant.                                                *)

\* k is one of the keys that batch b loads.
Loaded(b, k) == In(k, batch[b].fresh)

\* Where a call is, and what it has left to acquire, to wait for or to leave.  It
\* waits for every key of the batch it is filling; a refresh waits for none.
Placed(c) ==
    /\ pc[c] \in {"idle", "acquire", "refresh"} <=> batch[c].state = "filling"
    /\ pc[c] = "idle" => batch[c] = NoBatch /\ todo[c] = <<>> /\ waits[c] = <<>>
    /\ pc[c] \in {"collect", "leave", "cancel"} => waits[c] # <<>>
    /\ pc[c] = "refresh" => batch[c].refresh
    /\ batch[c].refresh => pc[c] \in {"refresh", "returned"} /\ waits[c] = <<>>
    /\ NoRepeats(todo[c]) /\ NoRepeats(waits[c])
    /\ \A k \in Keys : In(k, todo[c]) => ~Loaded(c, k) /\ \A b \in Callers : ~Waits(c, b, k)
    /\ \A b \in Callers, k \in Keys : Waits(c, b, k) => Loaded(b, k)
    /\ pc[c] = "acquire" => \A k \in Keys : Loaded(c, k) => Waits(c, c, k)
PlaceInv == \A c \in Callers : Placed(c)

\* How far the goroutine of a batch has come, in the order of its keys.
Published(b, i) == \/ batch[b].state = "publishing" /\ i < batch[b].next
                   \/ batch[b].state \in {"finishing", "exiting", "gone"}
Finished(b, i) == \/ batch[b].state = "finishing" /\ i < batch[b].next
                  \/ batch[b].state \in {"exiting", "gone"}
Flowing(b) ==
    /\ NoRepeats(batch[b].fresh)
    /\ batch[b].state \notin {"filling", "gone"} => batch[b].fresh # <<>>
    /\ batch[b].state \notin {"publishing", "finishing"} => batch[b].next = 1
    /\ batch[b].fresh # <<>> => batch[b].next \in DOMAIN batch[b].fresh
    /\ \A i \in DOMAIN batch[b].fresh :
        /\ call[b][batch[b].fresh[i]].done <=> Finished(b, i)
        /\ call[b][batch[b].fresh[i]].valid /\ Published(b, i) =>
            ~Storable(batch[b].fresh[i], call[b][batch[b].fresh[i]].result)
    /\ \A k \in Keys : Loaded(b, k) =>
        (call[b][k].result # NoResult <=> batch[b].state \notin {"filling", "running"})
    /\ \A k \in Keys : call[b][k].valid => Loaded(b, k) /\ batch[b].state # "gone"
FlowInv == \A b \in Callers : Flowing(b)

\* The group holds loads that run and are wanted, and all of these that can publish.
Wanted(b, k) == Unfinished(b, k) /\ call[b][k].waiters > 0
GroupInv ==
    /\ \A k \in Keys : group[k] # None => Wanted(group[k], k)
    /\ \A b \in Callers, k \in Keys : Wanted(b, k) /\ call[b][k].valid => group[k] = b

\* A load that is over may still count those who have collected it.
Waiting(c, b, k) == Waits(c, b, k) /\ ~(pc[c] = "cancel" /\ Head(waits[c]) = <<b, k>>)
Waiters(b, k) == {c \in Callers : Waiting(c, b, k)}
Refreshed(b, k) == batch[b].refresh /\ Loaded(b, k)
Counted(b, k) == Cardinality(Waiters(b, k)) + (IF Refreshed(b, k) THEN 1 ELSE 0)
CountInv ==
    \A b \in Callers, k \in Keys :
        /\ call[b][k].waiters >= Counted(b, k)
        /\ Unfinished(b, k) => call[b][k].waiters = Counted(b, k)

\* Nobody waits for what is stopped, or is about to be; live counts the rest.
Live(b) == {k \in Keys : Loaded(b, k) /\ ~call[b][k].stopped}
Stops(b) ==
    /\ \A k \in Keys : call[b][k].stopped => Loaded(b, k) /\ call[b][k].waiters = 0
    /\ batch[b].live = Cardinality(Live(b))
    /\ batch[b].cancelled /\ batch[b].state # "gone" =>
        batch[b].state # "filling" /\ batch[b].live = 0
Canceller(c) ==
    pc[c] = "cancel" => \A b \in Callers, k \in Keys :
        Head(waits[c]) = <<b, k>> => call[b][k].waiters = 0
StopInv == \A c \in Callers : Stops(c) /\ Canceller(c)

BatchInv ==
    /\ TypeOK
    /\ PlaceInv
    /\ FlowInv
    /\ GroupInv
    /\ CountInv
    /\ StopInv

-----------------------------------------------------------------------------
(* Counting who waits.                                                     *)

LEMMA WaitersFinite ==
  ASSUME NEW b, NEW k
  PROVE  IsFiniteSet(Waiters(b, k)) /\ Cardinality(Waiters(b, k)) \in Nat
<1>1. IsFiniteSet(Waiters(b, k))
  BY FiniteAssumption, FS_Subset DEF Waiters
<1>2. QED
  BY <1>1, FS_CardinalityType

LEMMA LiveFinite ==
  ASSUME NEW b PROVE IsFiniteSet(Live(b)) /\ Cardinality(Live(b)) \in Nat
<1>1. IsFiniteSet(Live(b))
  BY FiniteAssumption, FS_Subset DEF Live
<1>2. QED
  BY <1>1, FS_CardinalityType

LEMMA CountType == ASSUME NEW b, NEW k PROVE Counted(b, k) \in Nat
  BY WaitersFinite DEF Counted

LEMMA CountTypeNext == ASSUME NEW b, NEW k PROVE Counted(b, k)' \in Nat
<1>1. IsFiniteSet(Waiters(b, k)')
  BY FiniteAssumption, FS_Subset DEF Waiters
<1>2. QED
  BY <1>1, FS_CardinalityType DEF Counted

LEMMA SomeWaiter ==
  ASSUME NEW b, NEW k, NEW c \in Callers, Waiting(c, b, k) PROVE Counted(b, k) >= 1
<1>1. Waiters(b, k) # {}
  BY DEF Waiters
<1>2. Cardinality(Waiters(b, k)) \in Nat \ {0}
  BY <1>1, WaitersFinite, FS_EmptySet
<1>3. QED
  BY <1>2 DEF Counted

LEMMA NobodyWaits ==
  ASSUME NEW b, NEW k, \A c \in Callers : ~Waiting(c, b, k)
  PROVE  Counted(b, k) = IF Refreshed(b, k) THEN 1 ELSE 0
<1>1. Waiters(b, k) = {}
  BY DEF Waiters
<1>2. QED
  BY <1>1, FS_EmptySet DEF Counted

LEMMA CountSame ==
  ASSUME NEW b, NEW k, Refreshed(b, k)' <=> Refreshed(b, k),
         \A c \in Callers : Waiting(c, b, k)' <=> Waiting(c, b, k)
  PROVE  Counted(b, k)' = Counted(b, k)
<1>1. Waiters(b, k)' = Waiters(b, k)
  BY DEF Waiters
<1>2. QED
  BY <1>1 DEF Counted

LEMMA CountMore ==
  ASSUME NEW b, NEW k, NEW c \in Callers, Refreshed(b, k)' <=> Refreshed(b, k),
         ~Waiting(c, b, k), Waiting(c, b, k)',
         \A d \in Callers : d # c => (Waiting(d, b, k)' <=> Waiting(d, b, k))
  PROVE  Counted(b, k)' = Counted(b, k) + 1
<1>1. Waiters(b, k)' = Waiters(b, k) \cup {c} /\ c \notin Waiters(b, k)
  BY DEF Waiters
<1>2. Cardinality(Waiters(b, k)') = Cardinality(Waiters(b, k)) + 1
  BY <1>1, WaitersFinite, FS_AddElement
<1>3. QED
  BY <1>2, WaitersFinite DEF Counted

LEMMA CountLess ==
  ASSUME NEW b, NEW k, NEW c \in Callers, Refreshed(b, k)' <=> Refreshed(b, k),
         Waiting(c, b, k), ~Waiting(c, b, k)',
         \A d \in Callers : d # c => (Waiting(d, b, k)' <=> Waiting(d, b, k))
  PROVE  Counted(b, k)' = Counted(b, k) - 1
<1>1. Waiters(b, k)' = Waiters(b, k) \ {c} /\ c \in Waiters(b, k)
  BY DEF Waiters
<1>2. Cardinality(Waiters(b, k)') = Cardinality(Waiters(b, k)) - 1
  BY <1>1, WaitersFinite, FS_RemoveElement
<1>3. QED
  BY <1>2, WaitersFinite DEF Counted

LEMMA LiveSame ==
  ASSUME NEW b, \A k \in Keys : /\ Loaded(b, k)' <=> Loaded(b, k)
                                /\ call'[b][k].stopped <=> call[b][k].stopped
  PROVE  Live(b)' = Live(b)
  BY DEF Live

-----------------------------------------------------------------------------
(* What the invariant says of a batch and of a caller.                     *)

LEMMA FreshIsLoaded ==
  ASSUME TypeOK, NEW b \in Callers, NEW i \in DOMAIN batch[b].fresh
  PROVE  batch[b].fresh[i] \in Keys /\ Loaded(b, batch[b].fresh[i])
<1>1. batch[b].fresh \in Seq(Keys)
  BY DEF TypeOK, BatchRecords
<1>2. batch[b].fresh[i] \in Keys
  BY <1>1, ElementOfSeq, LenProperties
<1>3. QED
  BY <1>2 DEF Loaded, In

LEMMA LoadedFresh == ASSUME NEW b PROVE \A k \in Keys : k \in FreshKeys(b) <=> Loaded(b, k)
  BY DEF FreshKeys, Loaded, In

\* Where the goroutine of a batch is, and its calls' answers, stay as they are.
LEMMA FlowingSame ==
  ASSUME BatchInv, NEW a \in Callers,
         batch'[a].fresh = batch[a].fresh, batch'[a].state = batch[a].state,
         batch'[a].next = batch[a].next,
         \A j \in Keys : /\ call'[a][j].valid => call[a][j].valid
                         /\ call'[a][j].done = call[a][j].done
                         /\ call'[a][j].result = call[a][j].result
  PROVE  Flowing(a)'
<1>1. \A i \in DOMAIN batch[a].fresh : batch[a].fresh[i] \in Keys
  BY FreshIsLoaded DEF BatchInv
<1>2. /\ \A i : Published(a, i)' <=> Published(a, i)
      /\ \A i : Finished(a, i)' <=> Finished(a, i)
      /\ \A j \in Keys : Loaded(a, j)' <=> Loaded(a, j)
  BY DEF Published, Finished, Loaded
<1>3. Flowing(a)
  BY DEF BatchInv, FlowInv
<1>4. /\ \A i \in DOMAIN batch[a].fresh :
            /\ call[a][batch[a].fresh[i]].done <=> Finished(a, i)
            /\ call[a][batch[a].fresh[i]].valid /\ Published(a, i) =>
                ~Storable(batch[a].fresh[i], call[a][batch[a].fresh[i]].result)
      /\ \A j \in Keys : Loaded(a, j) =>
            (call[a][j].result # NoResult <=> batch[a].state \notin {"filling", "running"})
      /\ \A j \in Keys : call[a][j].valid => Loaded(a, j) /\ batch[a].state # "gone"
  BY <1>3 DEF Flowing
<1>5. \A i \in DOMAIN batch[a].fresh :
        /\ call'[a][batch[a].fresh[i]].done <=> Finished(a, i)'
        /\ call'[a][batch[a].fresh[i]].valid /\ Published(a, i)' =>
            ~Storable(batch[a].fresh[i], call'[a][batch[a].fresh[i]].result)
  BY <1>1, <1>2, <1>4
<1>6. /\ \A j \in Keys : Loaded(a, j)' =>
            (call'[a][j].result # NoResult <=> batch[a].state \notin {"filling", "running"})
      /\ \A j \in Keys : call'[a][j].valid => Loaded(a, j)' /\ batch[a].state # "gone"
  BY <1>2, <1>4
<1>7. QED
  BY <1>3, <1>5, <1>6 DEF Flowing

\* A call that waits for nothing it was told to cancel.
LEMMA WaiterCounts ==
  ASSUME BatchInv, NEW c \in Callers, NEW b \in Callers, NEW k \in Keys, Waiting(c, b, k)
  PROVE  call[b][k].waiters >= 1 /\ ~call[b][k].stopped /\ Loaded(b, k)
<1>1. call[b][k].waiters \in Nat /\ call[b][k].waiters >= Counted(b, k)
  BY DEF BatchInv, TypeOK, Calls, CountInv
<1>2. call[b][k].waiters >= 1
  BY <1>1, CountType, SomeWaiter
<1>3. ~call[b][k].stopped
  BY <1>2 DEF BatchInv, StopInv, Stops
<1>4. QED
  BY <1>2, <1>3 DEF BatchInv, PlaceInv, Placed, Waiting

\* A batch that is filling is wanted for each of its keys.
LEMMA FillingWanted ==
  ASSUME BatchInv, NEW b \in Callers, batch[b].state = "filling", NEW k \in Keys, Loaded(b, k)
  PROVE  call[b][k].waiters >= 1
<1>1. CASE pc[b] = "idle"
  BY <1>1, InEmpty DEF BatchInv, PlaceInv, Placed, Loaded, NoBatch
<1>2. CASE pc[b] = "acquire"
  BY <1>2, WaiterCounts DEF BatchInv, PlaceInv, Placed, Waiting
<1>3. CASE pc[b] = "refresh"
  <2>1. Refreshed(b, k)
    BY <1>3 DEF BatchInv, PlaceInv, Placed, Refreshed
  <2>2. call[b][k].waiters \in Nat /\ call[b][k].waiters >= Counted(b, k)
    BY DEF BatchInv, TypeOK, Calls, CountInv
  <2>3. QED
    BY <2>1, <2>2, WaitersFinite DEF Counted
<1>4. QED
  BY <1>1, <1>2, <1>3 DEF BatchInv, PlaceInv, Placed

\* Where a caller is at leave(): the key, and the batch that loads it.
LEMMA HeadOf ==
  ASSUME BatchInv, NEW c \in Callers, pc[c] \in {"collect", "leave", "cancel"}
  PROVE  \E b \in Callers, k \in Keys :
            /\ Head(waits[c]) = <<b, k>> /\ Waits(c, b, k) /\ Loaded(b, k)
            /\ Tail(waits[c]) \in Seq(Callers \X Keys) /\ NoRepeats(Tail(waits[c]))
            /\ \A x : In(x, Tail(waits[c])) <=> In(x, waits[c]) /\ x # <<b, k>>
<1>1. waits[c] \in Seq(Callers \X Keys) /\ waits[c] # <<>> /\ NoRepeats(waits[c])
  BY DEF BatchInv, TypeOK, PlaceInv, Placed
<1>2. /\ Head(waits[c]) \in Callers \X Keys /\ In(Head(waits[c]), waits[c])
      /\ Tail(waits[c]) \in Seq(Callers \X Keys) /\ NoRepeats(Tail(waits[c]))
      /\ \A x : In(x, Tail(waits[c])) <=> In(x, waits[c]) /\ x # Head(waits[c])
  BY <1>1, InTail
<1>3. PICK b \in Callers, k \in Keys : Head(waits[c]) = <<b, k>>
  BY <1>2
<1>4. Waits(c, b, k)
  BY <1>2, <1>3 DEF Waits
<1>5. Loaded(b, k)
  BY <1>4 DEF BatchInv, PlaceInv, Placed
<1>6. QED
  BY <1>2, <1>3, <1>4, <1>5

LEMMA InitInv == ASSUME Init PROVE BatchInv
<1>1. TypeOK
  BY EmptySeq DEF Init, TypeOK, Calls, NoCall, BatchRecords, NoBatch, States, AllOutcomes
<1>2. /\ \A b \in Callers : batch[b] = NoBatch /\ DOMAIN batch[b].fresh = {}
      /\ \A b \in Callers, k \in Keys : /\ call[b][k] = NoCall /\ ~Loaded(b, k)
                                        /\ group[k] = None
  BY InEmpty DEF Init, Loaded, NoBatch
<1>3. \A c \in Callers : pc[c] = "idle" /\ todo[c] = <<>> /\ waits[c] = <<>>
  BY DEF Init
<1>4. PlaceInv
  BY <1>1, <1>2, <1>3, InEmpty DEF PlaceInv, Placed, Init, Waits, NoBatch
<1>5. FlowInv
  BY <1>2, InEmpty DEF FlowInv, Flowing, Init, NoBatch, NoCall
<1>6. GroupInv
  BY <1>2 DEF GroupInv, Wanted, NoCall, Init
<1>7. CountInv
  <2> SUFFICES ASSUME NEW b \in Callers, NEW k \in Keys
               PROVE  call[b][k].waiters = 0 /\ Counted(b, k) = 0
    BY DEF CountInv
  <2>1. \A c \in Callers : ~Waiting(c, b, k)
    BY <1>3, InEmpty DEF Waiting, Waits
  <2>2. QED
    BY <1>2, <2>1, NobodyWaits DEF Refreshed, NoCall
<1>8. StopInv
  <2> SUFFICES ASSUME NEW b \in Callers PROVE Stops(b) /\ Canceller(b)
    BY DEF StopInv
  <2>1. Live(b) = {}
    BY <1>2 DEF Live
  <2>2. QED
    BY <1>2, <1>3, <2>1, FS_EmptySet DEF Stops, Canceller, NoCall, NoBatch
<1>9. QED
  BY <1>1, <1>4, <1>5, <1>6, <1>7, <1>8 DEF BatchInv

-----------------------------------------------------------------------------
(* Two kinds of steps that leave most of the invariant alone.              *)

LEMMA CountAtMost ==
  ASSUME NEW b, NEW k, Refreshed(b, k)' <=> Refreshed(b, k),
         \A c \in Callers : Waiting(c, b, k)' => Waiting(c, b, k)
  PROVE  Counted(b, k)' <= Counted(b, k)
<1>1. Waiters(b, k)' \in SUBSET Waiters(b, k)
  BY DEF Waiters
<1>2. Cardinality(Waiters(b, k)') <= Cardinality(Waiters(b, k)) /\ IsFiniteSet(Waiters(b, k)')
  BY <1>1, WaitersFinite, FS_Subset
<1>3. Cardinality(Waiters(b, k)') \in Nat
  BY <1>2, FS_CardinalityType
<1>4. QED
  BY <1>2, <1>3, WaitersFinite DEF Counted

\* The places of the others, when caller c moves.
LEMMA OthersPlaced ==
  ASSUME PlaceInv, NEW c \in Callers, Placed(c)',
         \A k \in Keys : Loaded(c, k) => Loaded(c, k)',
         \A d \in Callers : d # c =>
            /\ pc'[d] = pc[d] /\ todo'[d] = todo[d] /\ waits'[d] = waits[d]
            /\ batch'[d].fresh = batch[d].fresh
            /\ \/ batch'[d] = batch[d]
               \/ /\ pc[d] # "idle" /\ batch'[d].refresh = batch[d].refresh
                  /\ batch'[d].state = batch[d].state
  PROVE  PlaceInv'
<1> SUFFICES ASSUME NEW d \in Callers, d # c PROVE Placed(d)'
  BY DEF PlaceInv
<1>1. /\ \A k \in Keys : Loaded(d, k)' <=> Loaded(d, k)
      /\ \A b \in Callers, k \in Keys : Loaded(b, k) => Loaded(b, k)'
      /\ \A b \in Callers, k \in Keys : Waits(d, b, k)' <=> Waits(d, b, k)
  BY DEF Loaded, Waits
<1>2. QED
  BY <1>1 DEF PlaceInv, Placed

\* A caller moves, and perhaps its batch, but no call object: it goes on waiting, or
\* no longer waits for what is over.
LEMMA QuietStep ==
  ASSUME BatchInv, NEW c \in Callers, TypeOK', UNCHANGED <<group, call>>,
         \A d \in Callers : d # c =>
            /\ pc'[d] = pc[d] /\ todo'[d] = todo[d] /\ waits'[d] = waits[d]
            /\ batch'[d] = batch[d],
         batch'[c].fresh = batch[c].fresh, batch'[c].live = batch[c].live,
         batch'[c].cancelled = batch[c].cancelled,
         batch'[c].state = "filling" => batch[c].state = "filling",
         batch[c].state = "gone" => batch'[c].state = "gone",
         \A k \in Keys : Refreshed(c, k)' <=> Refreshed(c, k),
         Placed(c)', Flowing(c)', pc'[c] # "cancel",
         \A b \in Callers, k \in Keys :
            /\ Waiting(c, b, k)' => Waiting(c, b, k)
            /\ Waiting(c, b, k) /\ Unfinished(b, k) => Waiting(c, b, k)'
  PROVE  BatchInv'
<1>1. \A b \in Callers, k \in Keys : /\ Loaded(b, k)' <=> Loaded(b, k)
                                     /\ Unfinished(b, k)' <=> Unfinished(b, k)
                                     /\ Refreshed(b, k)' <=> Refreshed(b, k)
                                     /\ Wanted(b, k)' <=> Wanted(b, k)
  BY DEF Loaded, Unfinished, Refreshed, Wanted
<1>2. PlaceInv'
  BY <1>1, OthersPlaced DEF BatchInv
<1>3. FlowInv'
  <2>1. ASSUME NEW a \in Callers, a # c PROVE Flowing(a)'
    BY <2>1, FlowingSame
  <2>2. QED
    BY <2>1 DEF FlowInv
<1>4. GroupInv'
  BY <1>1 DEF BatchInv, TypeOK, GroupInv
<1>5. CountInv'
  <2> SUFFICES ASSUME NEW b \in Callers, NEW k \in Keys
               PROVE  /\ call[b][k].waiters >= Counted(b, k)'
                      /\ Unfinished(b, k) => call[b][k].waiters = Counted(b, k)'
    BY <1>1 DEF CountInv
  <2>1. \A d \in Callers : d # c => (Waiting(d, b, k)' <=> Waiting(d, b, k))
    BY DEF Waiting, Waits
  <2>2. Counted(b, k)' <= Counted(b, k)
    BY <1>1, <2>1, CountAtMost
  <2>3. Unfinished(b, k) => Counted(b, k)' = Counted(b, k)
    BY <1>1, <2>1, CountSame
  <2>4. call[b][k].waiters \in Nat /\ Counted(b, k) \in Nat /\ Counted(b, k)' \in Nat
    BY CountType, CountTypeNext DEF BatchInv, TypeOK, Calls
  <2>5. QED
    BY <2>2, <2>3, <2>4 DEF BatchInv, CountInv
<1>6. StopInv'
  <2>1. \A b \in Callers : Live(b)' = Live(b)
    BY <1>1 DEF Live
  <2>2. ASSUME NEW b \in Callers PROVE Stops(b)'
    BY <1>1, <2>1 DEF BatchInv, StopInv, Stops
  <2>3. ASSUME NEW d \in Callers PROVE Canceller(d)'
    BY DEF BatchInv, StopInv, Canceller
  <2>4. QED
    BY <2>2, <2>3 DEF StopInv
<1>7. QED
  BY <1>2, <1>3, <1>4, <1>5, <1>6 DEF BatchInv

\* The goroutine of a batch, or a write, moves: nobody comes or leaves.
LEMMA LoadsMove ==
  ASSUME BatchInv, TypeOK', UNCHANGED callerVars,
         \A b \in Callers :
            /\ batch'[b].fresh = batch[b].fresh /\ batch'[b].live = batch[b].live
            /\ \/ batch'[b] = batch[b]
               \/ /\ batch[b].state # "filling" /\ batch'[b].state # "filling"
                  /\ batch'[b].refresh = batch[b].refresh
                  /\ batch'[b].cancelled /\ batch'[b].state # "gone" =>
                        batch[b].cancelled /\ batch[b].state # "gone",
         \A b \in Callers, k \in Keys :
            /\ call'[b][k].waiters = call[b][k].waiters
            /\ call'[b][k].stopped = call[b][k].stopped
            /\ call[b][k].done => call'[b][k].done,
         FlowInv', GroupInv'
  PROVE  BatchInv'
<1> USE DEF callerVars
<1>1. \A b \in Callers, k \in Keys : /\ Loaded(b, k)' <=> Loaded(b, k)
                                     /\ Unfinished(b, k)' => Unfinished(b, k)
                                     /\ Refreshed(b, k)' <=> Refreshed(b, k)
  BY DEF Loaded, Unfinished, Refreshed
<1>2. \A c \in Callers : \A b \in Callers, k \in Keys :
        /\ Waits(c, b, k)' <=> Waits(c, b, k)
        /\ Waiting(c, b, k)' <=> Waiting(c, b, k)
  BY DEF Waiting, Waits
<1>3. PlaceInv'
  <2> SUFFICES ASSUME NEW c \in Callers PROVE Placed(c)'
    BY DEF PlaceInv
  <2>1. Placed(c)
    BY DEF BatchInv, PlaceInv
  <2>2. QED
    BY <1>1, <1>2, <2>1 DEF Placed
<1>4. CountInv'
  <2>1. \A b \in Callers, k \in Keys : Counted(b, k)' = Counted(b, k)
    BY <1>1, <1>2, CountSame
  <2>2. QED
    BY <1>1, <2>1 DEF BatchInv, CountInv
<1>5. StopInv'
  <2>1. \A b \in Callers : Live(b)' = Live(b)
    BY <1>1 DEF Live
  <2>2. ASSUME NEW b \in Callers PROVE Stops(b)'
    BY <1>1, <2>1 DEF BatchInv, StopInv, Stops
  <2>3. ASSUME NEW d \in Callers PROVE Canceller(d)'
    BY DEF BatchInv, StopInv, Canceller
  <2>4. QED
    BY <2>2, <2>3 DEF StopInv
<1>6. QED
  BY <1>3, <1>4, <1>5 DEF BatchInv

-----------------------------------------------------------------------------
(* The steps of a caller.                                                  *)

LEMMA GotoFacts ==
  ASSUME TypeOK, NEW c \in Callers, NEW place, NEW keys, NEW flights, Goto(c, place, keys, flights)
  PROVE  /\ pc'[c] = place /\ todo'[c] = keys /\ waits'[c] = flights
         /\ \A d \in Callers : d # c =>
                pc'[d] = pc[d] /\ todo'[d] = todo[d] /\ waits'[d] = waits[d]
  BY DEF Goto, TypeOK

\* Where the goroutine of a call can be.
Places == {"idle", "acquire", "refresh", "collect", "leave", "cancel", "returned"}
LEMMA GotoType ==
  ASSUME TypeOK, NEW c \in Callers, NEW place \in Places, NEW keys \in Seq(Keys),
         NEW flights \in Seq(Callers \X Keys), Goto(c, place, keys, flights)
  PROVE  /\ pc' \in [Callers -> Places] /\ todo' \in [Callers -> Seq(Keys)]
         /\ waits' \in [Callers -> Seq(Callers \X Keys)]
  BY DEF Goto, TypeOK, Places

LEMMA IdleFacts ==
  ASSUME BatchInv, NEW c \in Callers, pc[c] = "idle"
  PROVE  /\ batch[c] = NoBatch /\ waits[c] = <<>>
         /\ \A k \in Keys : ~Loaded(c, k) /\ \A b \in Callers : ~Waits(c, b, k)
  BY InEmpty DEF BatchInv, PlaceInv, Placed, Loaded, Waits, NoBatch

LEMMA GetManyInv ==
  ASSUME BatchInv, NEW c \in Callers, NEW keys \in KeyLists, GetMany(c, keys) PROVE BatchInv'
<1>1. /\ pc[c] = "idle" /\ Goto(c, "acquire", keys, <<>>)
      /\ UNCHANGED <<cached, group, call, batch>>
      /\ keys \in Seq(Keys) /\ NoRepeats(keys)
  BY KeyListFacts DEF GetMany, cacheVars
<1>2. TypeOK'
  BY <1>1, GotoType, EmptySeq DEF BatchInv, TypeOK, Places
<1>3. /\ pc'[c] = "acquire" /\ todo'[c] = keys /\ waits'[c] = <<>>
      /\ \A d \in Callers : d # c => pc'[d] = pc[d] /\ todo'[d] = todo[d] /\ waits'[d] = waits[d]
  BY <1>1, GotoFacts DEF BatchInv
<1>4. \A k \in Keys, b \in Callers : ~Loaded(c, k) /\ ~Loaded(c, k)' /\ ~Waits(c, b, k)
                                     /\ ~Waits(c, b, k)'
  BY <1>1, <1>3, IdleFacts, InEmpty DEF Waits, Loaded
<1>5. Placed(c)'
  BY <1>1, <1>3, <1>4, IdleFacts, InEmpty DEF Placed, NoBatch
<1>6. Flowing(c)'
  BY <1>1 DEF BatchInv, FlowInv, Flowing, Loaded, Published, Finished
<1>7. QED
  BY <1>1, <1>2, <1>3, <1>4, <1>5, <1>6, QuietStep DEF Refreshed, Waiting

LEMMA RefreshManyInv ==
  ASSUME BatchInv, NEW c \in Callers, NEW keys \in KeyLists, RefreshMany(c, keys) PROVE BatchInv'
<1>1. /\ pc[c] = "idle" /\ Goto(c, "refresh", keys, <<>>) /\ UNCHANGED <<cached, group, call>>
      /\ batch' = [batch EXCEPT ![c].refresh = TRUE]
      /\ keys \in Seq(Keys) /\ NoRepeats(keys)
  BY KeyListFacts DEF RefreshMany, cacheVars
<1>2. TypeOK'
  <2>1. batch' \in [Callers -> BatchRecords]
    <3>1. [batch[c] EXCEPT !.refresh = TRUE] \in BatchRecords
      BY DEF BatchInv, TypeOK, BatchRecords
    <3>2. QED
      BY <1>1, <3>1 DEF BatchInv, TypeOK
  <2>2. /\ pc' \in [Callers -> Places] /\ todo' \in [Callers -> Seq(Keys)]
        /\ waits' \in [Callers -> Seq(Callers \X Keys)]
    BY <1>1, GotoType, EmptySeq DEF BatchInv, Places
  <2>3. QED
    BY <1>1, <2>1, <2>2 DEF BatchInv, TypeOK, Places
<1>3. /\ pc'[c] = "refresh" /\ todo'[c] = keys /\ waits'[c] = <<>>
      /\ \A d \in Callers : d # c => pc'[d] = pc[d] /\ todo'[d] = todo[d] /\ waits'[d] = waits[d]
  BY <1>1, GotoFacts DEF BatchInv
<1>4. /\ batch'[c].refresh /\ batch'[c].state = "filling" /\ batch'[c].fresh = <<>>
      /\ batch'[c].next = 1 /\ batch'[c].live = batch[c].live
      /\ batch'[c].cancelled = batch[c].cancelled
      /\ \A d \in Callers : d # c => batch'[d] = batch[d]
  BY <1>1, IdleFacts DEF BatchInv, TypeOK, NoBatch
<1>5. \A k \in Keys, b \in Callers : ~Loaded(c, k) /\ ~Loaded(c, k)' /\ ~Waits(c, b, k)
                                     /\ ~Waits(c, b, k)'
  <2>1. \A k \in Keys, b \in Callers : ~Loaded(c, k) /\ ~Waits(c, b, k)
    BY <1>1, IdleFacts
  <2>2. \A k \in Keys, b \in Callers : ~In(k, <<>>) /\ ~In(<<b, k>>, <<>>)
    BY InEmpty
  <2>3. QED
    BY <1>3, <1>4, <2>1, <2>2 DEF Waits, Loaded
<1>6. Placed(c)'
  BY <1>1, <1>3, <1>4, <1>5, InEmpty DEF Placed
<1>7. Flowing(c)'
  <2>1. \A k \in Keys : ~call[c][k].valid
    BY <1>5 DEF BatchInv, FlowInv, Flowing
  <2>2. NoRepeats(batch'[c].fresh) /\ DOMAIN batch'[c].fresh = {}
    BY <1>4, InEmpty
  <2>3. QED
    BY <1>1, <1>4, <1>5, <2>1, <2>2 DEF Flowing
<1>8. QED
  BY <1>1, <1>2, <1>3, <1>4, <1>5, <1>6, <1>7, QuietStep DEF Refreshed, Waiting, NoBatch

\* A call at a key that it has yet to acquire.
LEMMA NextKey ==
  ASSUME BatchInv, NEW c \in Callers, pc[c] \in {"acquire", "refresh"}, todo[c] # <<>>
  PROVE  /\ Head(todo[c]) \in Keys /\ ~Loaded(c, Head(todo[c]))
         /\ \A b \in Callers : ~Waits(c, b, Head(todo[c]))
         /\ Tail(todo[c]) \in Seq(Keys) /\ NoRepeats(Tail(todo[c]))
         /\ \A k \in Keys : In(k, Tail(todo[c])) <=> In(k, todo[c]) /\ k # Head(todo[c])
<1>1. todo[c] \in Seq(Keys) /\ NoRepeats(todo[c])
  BY DEF BatchInv, TypeOK, PlaceInv, Placed
<1>2. /\ Head(todo[c]) \in Keys /\ In(Head(todo[c]), todo[c])
      /\ Tail(todo[c]) \in Seq(Keys) /\ NoRepeats(Tail(todo[c]))
      /\ \A k \in Keys : In(k, Tail(todo[c])) <=> In(k, todo[c]) /\ k # Head(todo[c])
  BY <1>1, InTail
<1>3. QED
  BY <1>2 DEF BatchInv, PlaceInv, Placed

LEMMA AcquireSkipInv ==
  ASSUME BatchInv, NEW c \in Callers, AcquireHit(c) \/ RefreshSkip(c) PROVE BatchInv'
<1>1. /\ pc[c] \in {"acquire", "refresh"} /\ todo[c] # <<>>
      /\ Goto(c, pc[c], Tail(todo[c]), waits[c])
      /\ UNCHANGED <<cached, group, call, batch>>
  BY DEF AcquireHit, RefreshSkip, cacheVars, BatchInv, PlaceInv, Placed
<1>2. /\ Tail(todo[c]) \in Seq(Keys) /\ NoRepeats(Tail(todo[c]))
      /\ \A k \in Keys : In(k, Tail(todo[c])) => In(k, todo[c])
  BY <1>1, NextKey
<1>3. TypeOK'
  <2>1. waits[c] \in Seq(Callers \X Keys)
    BY DEF BatchInv, TypeOK
  <2>2. QED
    BY <1>1, <1>2, <2>1, GotoType DEF BatchInv, TypeOK, Places
<1>4. /\ pc'[c] = pc[c] /\ todo'[c] = Tail(todo[c]) /\ waits'[c] = waits[c]
      /\ \A d \in Callers : d # c => pc'[d] = pc[d] /\ todo'[d] = todo[d] /\ waits'[d] = waits[d]
  BY <1>1, GotoFacts DEF BatchInv
<1>5. \A k \in Keys, b \in Callers : /\ Loaded(b, k)' <=> Loaded(b, k)
                                     /\ Waits(c, b, k)' <=> Waits(c, b, k)
  BY <1>1, <1>4 DEF Waits, Loaded
<1>6. Placed(c)'
  BY <1>1, <1>2, <1>4, <1>5 DEF BatchInv, PlaceInv, Placed
<1>7. Flowing(c)'
  BY <1>1 DEF BatchInv, FlowInv, Flowing, Loaded, Published, Finished
<1>8. QED
  BY <1>1, <1>3, <1>4, <1>5, <1>6, <1>7, QuietStep DEF Refreshed, Waiting

LEMMA StartInv == ASSUME BatchInv, NEW c \in Callers, Start(c) PROVE BatchInv'
<1>1. /\ pc[c] \in {"acquire", "refresh"} /\ batch[c].state = "filling"
      /\ GoOn(c, "collect", waits[c]) /\ UNCHANGED <<cached, group, call>>
      /\ waits[c] \in Seq(Callers \X Keys)
  BY DEF Start, cacheVars, BatchInv, PlaceInv, Placed, TypeOK
<1>2. /\ pc'[c] = IF waits[c] = <<>> THEN "returned" ELSE "collect"
      /\ todo'[c] = <<>> /\ waits'[c] = waits[c]
      /\ \A d \in Callers : d # c => pc'[d] = pc[d] /\ todo'[d] = todo[d] /\ waits'[d] = waits[d]
  BY <1>1, GotoFacts DEF GoOn, BatchInv
<1>3. /\ \E state \in States : batch' = [batch EXCEPT ![c].state = state]
      /\ batch'[c].state = IF batch[c].fresh = <<>> THEN "gone" ELSE "running"
      /\ batch'[c].fresh = batch[c].fresh /\ batch'[c].refresh = batch[c].refresh
      /\ batch'[c].next = batch[c].next /\ batch'[c].live = batch[c].live
      /\ batch'[c].cancelled = batch[c].cancelled
      /\ \A d \in Callers : d # c => batch'[d] = batch[d]
  BY DEF Start, Launched, BatchInv, TypeOK, BatchRecords, States
<1>4. TypeOK'
  <2>1. batch' \in [Callers -> BatchRecords]
    <3>1. PICK state \in States : batch' = [batch EXCEPT ![c].state = state]
      BY <1>3
    <3>2. [batch[c] EXCEPT !.state = state] \in BatchRecords
      BY DEF BatchInv, TypeOK, BatchRecords
    <3>3. QED
      BY <3>1, <3>2 DEF BatchInv, TypeOK
  <2>2. /\ pc' \in [Callers -> Places] /\ todo' \in [Callers -> Seq(Keys)]
        /\ waits' \in [Callers -> Seq(Callers \X Keys)]
    BY <1>1, GotoType, EmptySeq DEF GoOn, BatchInv, Places
  <2>3. QED
    BY <1>1, <2>1, <2>2 DEF BatchInv, TypeOK, Places
<1>5. \A k \in Keys, b \in Callers : /\ Loaded(b, k)' <=> Loaded(b, k)
                                     /\ Waits(c, b, k)' <=> Waits(c, b, k)
  BY <1>2, <1>3 DEF Waits, Loaded
<1>6. Placed(c)'
  BY <1>1, <1>2, <1>3, <1>5, InEmpty DEF BatchInv, PlaceInv, Placed
<1>7. Flowing(c)'
  <2>1. Flowing(c) /\ (batch[c].fresh = <<>> => \A k \in Keys : ~Loaded(c, k))
    BY InEmpty DEF BatchInv, FlowInv, Loaded
  <2>2. batch[c].fresh = <<>> => DOMAIN batch[c].fresh = {}
    OBVIOUS
  <2>3. QED
    BY <1>1, <1>3, <1>5, <2>1, <2>2 DEF Flowing, Published, Finished
<1>8. QED
  BY <1>1, <1>2, <1>3, <1>4, <1>5, <1>6, <1>7, QuietStep DEF Refreshed, Waiting

\* What a caller has left to wait for, it goes on waiting for or leaves.
LEMMA GoOnInv ==
  ASSUME BatchInv, NEW c \in Callers, Collect(c) \/ GiveUp(c) PROVE BatchInv'
<1> PICK b \in Callers, k \in Keys :
        /\ Head(waits[c]) = <<b, k>> /\ Waits(c, b, k)
        /\ Tail(waits[c]) \in Seq(Callers \X Keys) /\ NoRepeats(Tail(waits[c]))
        /\ \A x : In(x, Tail(waits[c])) <=> In(x, waits[c]) /\ x # <<b, k>>
  BY HeadOf DEF Collect, GiveUp
<1>1. PICK flights \in {waits[c], Tail(waits[c])}, place \in {"collect", "leave"} :
        GoOn(c, place, flights) /\ (flights = waits[c] \/ ~Unfinished(b, k))
  <2>1. CASE Collect(c)
    <3>1. GoOn(c, "leave", Tail(waits[c])) \/ GoOn(c, "collect", Tail(waits[c]))
      BY <2>1 DEF Collect
    <3>2. ~Unfinished(b, k)
      <4>1. Head(waits[c])[1] = b /\ Head(waits[c])[2] = k
        OBVIOUS
      <4>2. call[b][k].done
        BY <2>1, <4>1 DEF Collect, Flight
      <4>3. QED
        BY <4>2 DEF Unfinished
    <3>3. QED
      BY <3>1, <3>2
  <2>2. CASE GiveUp(c)
    BY <2>2 DEF GiveUp
  <2>3. QED
    BY <2>1, <2>2
<1>2. /\ pc[c] = "collect" /\ UNCHANGED <<cached, group, call, batch>>
      /\ waits[c] \in Seq(Callers \X Keys) /\ NoRepeats(waits[c])
  BY DEF Collect, GiveUp, cacheVars, BatchInv, TypeOK, PlaceInv, Placed
<1>3. flights \in Seq(Callers \X Keys) /\ NoRepeats(flights)
  BY <1>1, <1>2
<1>4. /\ pc'[c] = IF flights = <<>> THEN "returned" ELSE place
      /\ todo'[c] = <<>> /\ waits'[c] = flights
      /\ \A d \in Callers : d # c => pc'[d] = pc[d] /\ todo'[d] = todo[d] /\ waits'[d] = waits[d]
  BY <1>1, GotoFacts DEF GoOn, BatchInv
<1>5. TypeOK'
  <2>1. /\ pc' \in [Callers -> Places] /\ todo' \in [Callers -> Seq(Keys)]
        /\ waits' \in [Callers -> Seq(Callers \X Keys)]
    BY <1>1, <1>3, GotoType, EmptySeq DEF GoOn, BatchInv, Places
  <2>2. QED
    BY <1>2, <2>1 DEF BatchInv, TypeOK, Places
<1>6. \A j \in Keys, a \in Callers :
        /\ Loaded(a, j)' <=> Loaded(a, j)
        /\ Waits(c, a, j)' => Waits(c, a, j)
        /\ Waits(c, a, j) /\ Unfinished(a, j) => Waits(c, a, j)'
  BY <1>1, <1>2, <1>4 DEF Waits, Loaded
<1>7. Placed(c)'
  <2>1. /\ pc'[c] \in {"collect", "leave", "returned"} /\ todo'[c] = <<>>
        /\ pc'[c] # "returned" => waits'[c] # <<>>
    BY <1>4
  <2>2. batch[c].state # "filling" /\ ~batch[c].refresh
    BY <1>2 DEF BatchInv, PlaceInv, Placed
  <2>3. \A a \in Callers, j \in Keys : Waits(c, a, j) => Loaded(a, j)
    BY DEF BatchInv, PlaceInv, Placed
  <2>4. NoRepeats(waits'[c]) /\ NoRepeats(todo'[c]) /\ \A j \in Keys : ~In(j, todo'[c])
    BY <1>3, <1>4, <2>1, InEmpty
  <2>5. QED
    BY <1>2, <1>6, <2>1, <2>2, <2>3, <2>4 DEF Placed
<1>8. Flowing(c)'
  BY <1>2 DEF BatchInv, FlowInv, Flowing, Loaded, Published, Finished
<1>9. QED
  BY <1>1, <1>2, <1>4, <1>5, <1>6, <1>7, <1>8, QuietStep DEF Refreshed, Waiting

LEMMA RecordCounted ==
  ASSUME NEW old \in Calls, NEW n \in Nat
  PROVE  LET r == [old EXCEPT !.waiters = n] IN
         /\ r \in Calls /\ r.waiters = n /\ r.valid = old.valid /\ r.done = old.done
         /\ r.stopped = old.stopped /\ r.result = old.result
  BY DEF Calls

\* The waiters of a call object are counted, and nothing else of it changes.
CountTo(b, k, n) == call' = [call EXCEPT ![b][k].waiters = n]
LEMMA CallCounted ==
  ASSUME TypeOK, NEW b \in Callers, NEW k \in Keys, NEW n \in Nat, CountTo(b, k, n)
  PROVE  /\ call' \in [Callers -> [Keys -> Calls]] /\ call'[b][k].waiters = n
         /\ \A a \in Callers, j \in Keys :
                /\ a # b \/ j # k => call'[a][j] = call[a][j]
                /\ call'[a][j].valid = call[a][j].valid /\ call'[a][j].done = call[a][j].done
                /\ call'[a][j].stopped = call[a][j].stopped
                /\ call'[a][j].result = call[a][j].result
<1>1. call[b][k] \in Calls
  BY DEF TypeOK
<1>2. PICK r \in Calls : /\ r = [call[b][k] EXCEPT !.waiters = n]
                         /\ r.waiters = n /\ r.valid = call[b][k].valid
                         /\ r.done = call[b][k].done /\ r.stopped = call[b][k].stopped
                         /\ r.result = call[b][k].result
  BY <1>1, RecordCounted
<1>3. call' = [call EXCEPT ![b][k] = r]
  BY <1>2 DEF CountTo
<1>4. /\ call' \in [Callers -> [Keys -> Calls]] /\ call'[b][k] = r
      /\ \A a \in Callers, j \in Keys : a # b \/ j # k => call'[a][j] = call[a][j]
  BY <1>3 DEF TypeOK
<1>5. QED
  BY <1>2, <1>4

\* A key that is loading elsewhere: its load is wanted, so that nobody stops it.
LEMMA AcquireJoinInv ==
  ASSUME BatchInv, NEW c \in Callers, AcquireJoin(c) PROVE BatchInv'
<1> PICK k \in Keys, b \in Callers : k = Head(todo[c]) /\ b = group[k]
  BY NextKey DEF AcquireJoin, Joinable, BatchInv, TypeOK
<1>1. PICK flights \in Seq(Callers \X Keys) : flights = Append(waits[c], <<b, k>>)
  BY InAppend DEF BatchInv, TypeOK
<1>2. /\ pc[c] = "acquire" /\ todo[c] # <<>>
      /\ Goto(c, "acquire", Tail(todo[c]), flights)
      /\ UNCHANGED <<cached, group, batch>>
  BY <1>1 DEF AcquireJoin, cacheVars
<1>3. /\ Wanted(b, k) /\ Loaded(b, k) /\ ~Loaded(c, k)
      /\ \A a \in Callers : ~Waits(c, a, k)
      /\ call[b][k].waiters \in Nat /\ call[b][k].waiters > 0
  <2>1. Wanted(b, k)
    BY NoneAssumption DEF BatchInv, GroupInv
  <2>2. ~Loaded(c, k) /\ \A a \in Callers : ~Waits(c, a, k)
    BY <1>2, NextKey
  <2>3. Loaded(b, k) /\ call[b][k].waiters > 0
    BY <2>1 DEF Wanted, Unfinished, Loaded
  <2>4. call[b][k].waiters \in Nat
    BY DEF BatchInv, TypeOK, Calls
  <2>5. QED
    BY <2>1, <2>2, <2>3, <2>4
<1>4. /\ Tail(todo[c]) \in Seq(Keys) /\ NoRepeats(Tail(todo[c]))
      /\ \A j \in Keys : In(j, Tail(todo[c])) <=> In(j, todo[c]) /\ j # k
  BY <1>2, NextKey
<1>5. /\ flights # <<>> /\ NoRepeats(flights)
      /\ \A x : In(x, flights) <=> In(x, waits[c]) \/ x = <<b, k>>
  <2>1. /\ waits[c] \in Seq(Callers \X Keys) /\ NoRepeats(waits[c]) /\ ~In(<<b, k>>, waits[c])
        /\ <<b, k>> \in Callers \X Keys
    BY <1>3 DEF BatchInv, TypeOK, PlaceInv, Placed, Waits
  <2>2. QED
    BY <1>1, <2>1, InAppend
<1>6. /\ pc'[c] = "acquire" /\ todo'[c] = Tail(todo[c])
      /\ waits'[c] = flights
      /\ \A d \in Callers : d # c => pc'[d] = pc[d] /\ todo'[d] = todo[d] /\ waits'[d] = waits[d]
  BY <1>3, <1>2, GotoFacts DEF BatchInv
<1>7. PICK n \in Nat : n = call[b][k].waiters + 1 /\ n > 0
  <2>1. PICK old \in Nat : old = call[b][k].waiters
    BY <1>3
  <2>2. old + 1 \in Nat /\ old + 1 > 0
    OBVIOUS
  <2>3. QED
    BY <2>1, <2>2
<1>8. CountTo(b, k, n)
  BY <1>7 DEF AcquireJoin, CountTo
<1>9. /\ call'[b][k].waiters = n
      /\ \A a \in Callers, j \in Keys :
            /\ a # b \/ j # k => call'[a][j] = call[a][j]
            /\ call'[a][j].valid = call[a][j].valid /\ call'[a][j].stopped = call[a][j].stopped
            /\ call'[a][j].done = call[a][j].done /\ call'[a][j].result = call[a][j].result
  BY <1>8, CallCounted DEF BatchInv
<1>10. TypeOK'
  <2>1. call' \in [Callers -> [Keys -> Calls]]
    BY <1>8, CallCounted DEF BatchInv
  <2>2. QED
    BY <1>3, <1>2, <1>4, <1>5, <2>1, GotoType DEF BatchInv, TypeOK, Places
<1>11. \A a \in Callers, j \in Keys :
        /\ Loaded(a, j)' <=> Loaded(a, j)
        /\ Unfinished(a, j)' <=> Unfinished(a, j)
        /\ Refreshed(a, j)' <=> Refreshed(a, j)
        /\ Waits(c, a, j)' <=> Waits(c, a, j) \/ (a = b /\ j = k)
  <2>1. \A a \in Callers, j \in Keys :
          /\ Loaded(a, j)' <=> Loaded(a, j)
          /\ Unfinished(a, j)' <=> Unfinished(a, j)
          /\ Refreshed(a, j)' <=> Refreshed(a, j)
    BY <1>2, <1>9 DEF Loaded, Unfinished, Refreshed
  <2>2. \A a \in Callers, j \in Keys : Waits(c, a, j)' <=> Waits(c, a, j) \/ <<a, j>> = <<b, k>>
    BY <1>5, <1>6 DEF Waits
  <2>3. QED
    BY <2>1, <2>2
<1>12. PlaceInv'
  <2>1. Placed(c)'
    BY <1>3, <1>2, <1>4, <1>5, <1>6, <1>11 DEF BatchInv, PlaceInv, Placed
  <2>2. QED
    BY <1>3, <1>2, <1>6, <1>11, <2>1, OthersPlaced DEF BatchInv
<1>13. FlowInv'
  <2> SUFFICES ASSUME NEW a \in Callers PROVE Flowing(a)'
    BY DEF FlowInv
  <2>1. QED
    BY <1>2, <1>9, FlowingSame
<1>14. GroupInv'
  <2>1. \A a \in Callers, j \in Keys : Wanted(a, j)' <=> Wanted(a, j)
    <3>1. \A a \in Callers, j \in Keys : a # b \/ j # k => (Wanted(a, j)' <=> Wanted(a, j))
      BY <1>9, <1>11 DEF Wanted
    <3>2. Wanted(b, k)'
      <4>1. Unfinished(b, k)
        BY <1>3 DEF Wanted
      <4>2. QED
        BY <1>7, <1>9, <1>11, <4>1 DEF Wanted
    <3>3. QED
      BY <1>3, <3>1, <3>2
  <2>2. \A j \in Keys : group[j] # None => group[j] \in Callers /\ Wanted(group[j], j)
    BY DEF BatchInv, TypeOK, GroupInv
  <2>3. \A a \in Callers, j \in Keys : Wanted(a, j) /\ call[a][j].valid => group[j] = a
    BY DEF BatchInv, GroupInv
  <2>4. QED
    BY <1>2, <1>9, <2>1, <2>2, <2>3 DEF GroupInv
<1>15. CountInv'
  <2> SUFFICES ASSUME NEW a \in Callers, NEW j \in Keys
               PROVE  /\ call'[a][j].waiters >= Counted(a, j)'
                      /\ Unfinished(a, j) => call'[a][j].waiters = Counted(a, j)'
    BY <1>11 DEF CountInv
  <2>1. \A d \in Callers : d # c => (Waiting(d, a, j)' <=> Waiting(d, a, j))
    BY <1>6 DEF Waiting, Waits
  <2>2. CASE a = b /\ j = k
    <3>1. ~Waiting(c, b, k) /\ Waiting(c, b, k)'
      BY <1>3, <1>2, <1>6, <1>11 DEF Waiting
    <3>2. Counted(b, k)' = Counted(b, k) + 1
      BY <1>11, <2>1, <2>2, <3>1, CountMore
    <3>3. QED
      <4>1. PICK old \in Nat, count \in Nat : /\ old = call[b][k].waiters
                                             /\ count = Counted(b, k)
        BY <1>3, CountType
      <4>2. old >= count /\ (Unfinished(b, k) => old = count)
        BY <4>1 DEF BatchInv, CountInv
      <4>3. n = old + 1 /\ Counted(b, k)' = count + 1
        BY <1>7, <3>2, <4>1
      <4>4. QED
        BY <1>9, <2>2, <4>2, <4>3
  <2>3. CASE a # b \/ j # k
    <3>1. Waiting(c, a, j)' <=> Waiting(c, a, j)
      BY <1>3, <1>2, <1>6, <1>11, <2>3 DEF Waiting
    <3>2. Counted(a, j)' = Counted(a, j)
      BY <1>11, <2>1, <3>1, CountSame
    <3>3. QED
      BY <1>9, <2>3, <3>2 DEF BatchInv, CountInv
  <2>4. QED
    BY <2>2, <2>3
<1>16. StopInv'
  <2>1. \A a \in Callers : Live(a)' = Live(a)
    BY <1>9, <1>11, LiveSame
  <2>2. ~call[b][k].stopped
    BY <1>3 DEF BatchInv, StopInv, Stops
  <2>3. ASSUME NEW a \in Callers PROVE Stops(a)'
    BY <1>3, <1>2, <1>9, <1>11, <2>1, <2>2 DEF BatchInv, StopInv, Stops
  <2>4. ASSUME NEW d \in Callers PROVE Canceller(d)'
    BY <1>3, <1>2, <1>6, <1>9 DEF BatchInv, StopInv, Canceller
  <2>5. QED
    BY <2>3, <2>4 DEF StopInv
<1>17. QED
  BY <1>10, <1>12, <1>13, <1>14, <1>15, <1>16 DEF BatchInv

\* The keys of a batch that is filled, and nothing else of it, change.
Filled(c, keys, n) == batch' = [batch EXCEPT ![c].fresh = keys, ![c].live = n]
FilledRecord(old, keys, n) == [old EXCEPT !.fresh = keys, !.live = n]
LEMMA RecordFilled ==
  ASSUME NEW old \in BatchRecords, NEW keys \in Seq(Keys), NEW n \in Nat
  PROVE  LET r == FilledRecord(old, keys, n) IN
         /\ r \in BatchRecords /\ r.fresh = keys /\ r.live = n /\ r.state = old.state
         /\ r.refresh = old.refresh /\ r.next = old.next /\ r.cancelled = old.cancelled
  BY DEF FilledRecord, BatchRecords

LEMMA BatchFilled ==
  ASSUME TypeOK, NEW c \in Callers, NEW keys \in Seq(Keys), NEW n \in Nat, Filled(c, keys, n)
  PROVE  /\ batch' \in [Callers -> BatchRecords]
         /\ batch'[c].fresh = keys /\ batch'[c].live = n
         /\ batch'[c].state = batch[c].state /\ batch'[c].refresh = batch[c].refresh
         /\ batch'[c].next = batch[c].next /\ batch'[c].cancelled = batch[c].cancelled
         /\ \A a \in Callers : a # c => batch'[a] = batch[a]
<1>1. batch[c] \in BatchRecords
  BY DEF TypeOK
<1>2. PICK r \in BatchRecords :
        /\ r = FilledRecord(batch[c], keys, n)
        /\ r.fresh = keys /\ r.live = n /\ r.state = batch[c].state
        /\ r.refresh = batch[c].refresh /\ r.next = batch[c].next
        /\ r.cancelled = batch[c].cancelled
  BY <1>1, RecordFilled
<1>3. batch' = [batch EXCEPT ![c] = r]
  BY <1>2 DEF Filled, FilledRecord, TypeOK
<1>4. /\ batch' \in [Callers -> BatchRecords] /\ batch'[c] = r
      /\ \A a \in Callers : a # c => batch'[a] = batch[a]
  BY <1>3 DEF TypeOK
<1>5. QED
  BY <1>2, <1>4

\* A key that is nobody's: its call object is new, and counts the caller, or the
\* refresh, that its batch is filled by.
LEMMA RegisterInv ==
  ASSUME BatchInv, NEW c \in Callers, AcquireNew(c) \/ RefreshNew(c) PROVE BatchInv'
<1>1. /\ pc[c] \in {"acquire", "refresh"} /\ todo[c] # <<>>
      /\ Register(c, Head(todo[c])) /\ ~Joinable(Head(todo[c])) /\ UNCHANGED cached
      /\ Goto(c, pc[c], Tail(todo[c]),
              IF pc[c] = "acquire" THEN Append(waits[c], <<c, Head(todo[c])>>) ELSE <<>>)
  BY DEF AcquireNew, RefreshNew
<1> PICK k \in Keys : k = Head(todo[c])
  BY <1>1, NextKey
<1>2. PICK flights \in Seq(Callers \X Keys) :
        flights = IF pc[c] = "acquire" THEN Append(waits[c], <<c, k>>) ELSE <<>>
  BY InAppend, EmptySeq DEF BatchInv, TypeOK
<1>3. Goto(c, pc[c], Tail(todo[c]), flights)
  BY <1>1, <1>2
<1>4. /\ \A a \in Callers : ~Waits(c, a, k)
      /\ ~Loaded(c, k) /\ batch[c].state = "filling"
      /\ pc[c] = "refresh" <=> batch[c].refresh
      /\ pc[c] = "refresh" => waits[c] = <<>>
      /\ Tail(todo[c]) \in Seq(Keys) /\ NoRepeats(Tail(todo[c]))
      /\ \A j \in Keys : In(j, Tail(todo[c])) <=> In(j, todo[c]) /\ j # k
  BY <1>1, NextKey DEF BatchInv, PlaceInv, Placed
<1>5. /\ NoRepeats(flights)
      /\ \A x : In(x, flights) <=> In(x, waits[c]) \/ (pc[c] = "acquire" /\ x = <<c, k>>)
  <2>1. /\ waits[c] \in Seq(Callers \X Keys) /\ NoRepeats(waits[c]) /\ ~In(<<c, k>>, waits[c])
        /\ <<c, k>> \in Callers \X Keys
    BY <1>4 DEF BatchInv, TypeOK, PlaceInv, Placed, Waits
  <2>2. CASE pc[c] = "acquire"
    BY <1>2, <2>1, <2>2, InAppend
  <2>3. CASE pc[c] = "refresh"
    BY <1>4, <1>2, <2>3, InEmpty
  <2>4. QED
    BY <1>1, <2>2, <2>3
<1>6. /\ pc'[c] = pc[c] /\ todo'[c] = Tail(todo[c]) /\ waits'[c] = flights
      /\ \A d \in Callers : d # c => pc'[d] = pc[d] /\ todo'[d] = todo[d] /\ waits'[d] = waits[d]
  BY <1>3, GotoFacts DEF BatchInv
<1>7. /\ \A a \in Callers, j \in Keys : a # c \/ j # k => call'[a][j] = call[a][j]
      /\ call'[c][k].waiters = 1 /\ call'[c][k].valid /\ ~call'[c][k].stopped
      /\ ~call'[c][k].done /\ call'[c][k].result = NoResult
  BY <1>1 DEF Register, BatchInv, TypeOK, NoCall
<1>8. PICK keys \in Seq(Keys) :
        /\ keys = Append(batch[c].fresh, k) /\ keys # <<>> /\ NoRepeats(keys)
        /\ \A j : In(j, keys) <=> In(j, batch[c].fresh) \/ j = k
  <2>1. batch[c].fresh \in Seq(Keys) /\ NoRepeats(batch[c].fresh) /\ ~In(k, batch[c].fresh)
    BY <1>4 DEF BatchInv, TypeOK, BatchRecords, FlowInv, Flowing, Loaded
  <2>2. /\ Append(batch[c].fresh, k) \in Seq(Keys) /\ Append(batch[c].fresh, k) # <<>>
        /\ NoRepeats(Append(batch[c].fresh, k))
        /\ \A j : In(j, Append(batch[c].fresh, k)) <=> In(j, batch[c].fresh) \/ j = k
    BY <2>1, InAppend
  <2>3. QED
    BY <2>2
<1>9. PICK n \in Nat : n = batch[c].live + 1
  BY DEF BatchInv, TypeOK, BatchRecords
<1>10. Filled(c, keys, n)
  BY <1>1, <1>8, <1>9 DEF Filled, Register
<1>11. /\ batch'[c].fresh = keys /\ batch'[c].live = n
      /\ batch'[c].state = "filling" /\ batch'[c].refresh = batch[c].refresh
      /\ batch'[c].next = batch[c].next /\ batch'[c].cancelled = batch[c].cancelled
      /\ \A a \in Callers : a # c => batch'[a] = batch[a]
  BY <1>4, <1>10, BatchFilled DEF BatchInv
<1>12. /\ keys # <<>> /\ NoRepeats(keys)
      /\ \A j : In(j, keys) <=> In(j, batch[c].fresh) \/ j = k
  BY <1>8
<1>13. group'[k] = c /\ \A j \in Keys : j # k => group'[j] = group[j]
  BY <1>1 DEF Register, BatchInv, TypeOK
<1>14. TypeOK'
  <2>1. call' \in [Callers -> [Keys -> Calls]]
    BY <1>1 DEF Register, BatchInv, TypeOK, Calls, NoCall
  <2>2. batch' \in [Callers -> BatchRecords]
    BY <1>10, BatchFilled DEF BatchInv
  <2>3. group' \in [Keys -> Callers \cup {None}]
    BY <1>1 DEF Register, BatchInv, TypeOK
  <2>4. QED
    BY <1>1, <1>4, <1>3, <2>1, <2>2, <2>3, GotoType DEF BatchInv, TypeOK, Places
<1>15. \A a \in Callers, j \in Keys :
        /\ Loaded(a, j)' <=> Loaded(a, j) \/ (a = c /\ j = k)
        /\ Unfinished(a, j)' <=> Unfinished(a, j) \/ (a = c /\ j = k)
        /\ Refreshed(a, j)' <=> Refreshed(a, j) \/ (a = c /\ j = k /\ pc[c] = "refresh")
        /\ Waits(c, a, j)' <=> Waits(c, a, j) \/ (a = c /\ j = k /\ pc[c] = "acquire")
  <2>1. \A a \in Callers, j \in Keys : Loaded(a, j)' <=> Loaded(a, j) \/ (a = c /\ j = k)
    BY <1>11, <1>12 DEF Loaded
  <2>2. \A a \in Callers, j \in Keys :
            Waits(c, a, j)' <=> Waits(c, a, j) \/ (a = c /\ j = k /\ pc[c] = "acquire")
    BY <1>5, <1>6 DEF Waits
  <2>3. QED
    BY <1>4, <1>7, <1>11, <2>1, <2>2 DEF Unfinished, Refreshed, Loaded
<1>16. PlaceInv'
  <2>1. Placed(c)'
    <3>1. /\ batch[c].refresh => pc[c] = "refresh"
          /\ \A j \in Keys : In(j, todo[c]) => ~Loaded(c, j) /\ \A b \in Callers : ~Waits(c, b, j)
          /\ \A b \in Callers, j \in Keys : Waits(c, b, j) => Loaded(b, j)
          /\ pc[c] = "acquire" => \A j \in Keys : Loaded(c, j) => Waits(c, c, j)
      BY <1>4 DEF BatchInv, PlaceInv, Placed
    <3>2. \A j \in Keys : In(j, todo'[c]) => /\ ~Loaded(c, j)'
                                            /\ \A b \in Callers : ~Waits(c, b, j)'
      BY <1>4, <1>6, <1>15, <3>1
    <3>3. /\ \A b \in Callers, j \in Keys : Waits(c, b, j)' => Loaded(b, j)'
          /\ pc[c] = "acquire" => \A j \in Keys : Loaded(c, j)' => Waits(c, c, j)'
      BY <1>15, <3>1
    <3>4. pc[c] = "refresh" => flights = <<>>
      BY <1>2
    <3>5. QED
      BY <1>1, <1>4, <1>5, <1>6, <1>11, <3>1, <3>2, <3>3, <3>4 DEF Placed
  <2>2. QED
    BY <1>6, <1>11, <1>15, <2>1, OthersPlaced DEF BatchInv
<1>17. FlowInv'
  <2>1. ASSUME NEW a \in Callers, a # c PROVE Flowing(a)'
    <3>1. \A j \in Keys : call'[a][j] = call[a][j]
      BY <1>7, <2>1
    <3>2. QED
      BY <1>11, <2>1, <3>1, FlowingSame
  <2>2. Flowing(c)'
    <3>1. \A j \in Keys : Loaded(c, j) => ~call[c][j].done /\ call[c][j].result = NoResult
      <4>1. Flowing(c) /\ \A i : ~Finished(c, i)
        BY <1>4 DEF BatchInv, FlowInv, Finished
      <4>2. ASSUME NEW j \in Keys, Loaded(c, j)
            PROVE  ~call[c][j].done /\ call[c][j].result = NoResult
        <5>1. PICK i \in DOMAIN batch[c].fresh : batch[c].fresh[i] = j
          BY <4>2 DEF Loaded, In
        <5>2. QED
          BY <1>4, <4>1, <4>2, <5>1 DEF Flowing
      <4>3. QED
        BY <4>2
    <3>2. \A j \in Keys : Loaded(c, j)' => ~call'[c][j].done /\ call'[c][j].result = NoResult
      BY <1>7, <1>15, <3>1
    <3>3. \A i \in DOMAIN keys : keys[i] \in Keys /\ Loaded(c, keys[i])'
      <4>1. \A i \in DOMAIN keys : keys[i] \in Keys /\ In(keys[i], keys)
        BY ElementOfSeq, LenProperties DEF In
      <4>2. QED
        BY <1>11, <4>1 DEF Loaded
    <3>4. batch'[c].next = 1 /\ 1 \in DOMAIN keys
      <4>1. 1 \in DOMAIN keys
        BY <1>12, EmptySeq, LenProperties
      <4>2. QED
        BY <1>4, <1>11, <4>1 DEF BatchInv, FlowInv, Flowing
    <3>5. \A j \in Keys : call'[c][j].valid => Loaded(c, j)'
      BY <1>7, <1>15 DEF BatchInv, FlowInv, Flowing
    <3>6. QED
      BY <1>11, <1>12, <3>2, <3>3, <3>4, <3>5 DEF Flowing, Published, Finished
  <2>3. QED
    BY <2>1, <2>2 DEF FlowInv
<1>18. GroupInv'
  <2>1. \A a \in Callers, j \in Keys : a # c \/ j # k => (Wanted(a, j)' <=> Wanted(a, j))
    BY <1>7, <1>15 DEF Wanted
  <2>2. Wanted(c, k)'
    BY <1>7, <1>15 DEF Wanted
  <2>3. ASSUME NEW j \in Keys, group'[j] # None
        PROVE  \E a \in Callers : a = group'[j] /\ Wanted(a, j)'
    <3>1. CASE j = k
      BY <1>13, <2>2, <3>1
    <3>2. CASE j # k
      <4>1. PICK a \in Callers : a = group[j] /\ Wanted(a, j)
        BY <1>13, <2>3, <3>2 DEF BatchInv, TypeOK, GroupInv
      <4>2. QED
        BY <1>13, <2>1, <3>2, <4>1
    <3>3. QED
      BY <3>1, <3>2
  <2>4. \A j \in Keys : group'[j] # None => Wanted(group[j], j)'
    BY <2>3
  <2>5. ASSUME NEW a \in Callers, NEW j \in Keys, Wanted(a, j)', call'[a][j].valid
        PROVE  group'[j] = a
    <3>1. CASE a = c /\ j = k
      BY <1>13, <3>1
    <3>2. CASE a # c \/ j # k
      <4>1. group[j] = a /\ call[a][j].valid
        BY <1>7, <2>1, <2>5, <3>2 DEF BatchInv, GroupInv
      <4>2. j # k
        BY <1>1, <4>1, NoneAssumption DEF Joinable
      <4>3. QED
        BY <1>13, <4>1, <4>2
    <3>3. QED
      BY <3>1, <3>2
  <2>6. QED
    BY <2>4, <2>5 DEF GroupInv
<1>19. CountInv'
  <2> SUFFICES ASSUME NEW a \in Callers, NEW j \in Keys
               PROVE  /\ call'[a][j].waiters >= Counted(a, j)'
                      /\ Unfinished(a, j)' => call'[a][j].waiters = Counted(a, j)'
    BY DEF CountInv
  <2>1. \A d \in Callers : d # c => (Waiting(d, a, j)' <=> Waiting(d, a, j))
    BY <1>6 DEF Waiting, Waits
  <2>2. CASE a = c /\ j = k
    <3>1. \A d \in Callers : ~Waiting(d, c, k)
      BY <1>4 DEF BatchInv, PlaceInv, Placed, Waiting
    <3>2. ~Refreshed(c, k) /\ Counted(c, k) = 0
      BY <1>4, <3>1, NobodyWaits DEF Refreshed
    <3>3. CASE pc[c] = "acquire"
      <4>1. Waiting(c, c, k)' /\ ~Refreshed(c, k)'
        BY <1>6, <1>15, <3>2, <3>3 DEF Waiting
      <4>2. Counted(c, k)' = Counted(c, k) + 1
        BY <2>1, <2>2, <3>1, <3>2, <4>1, CountMore
      <4>3. QED
        BY <1>7, <2>2, <3>2, <4>2
    <3>4. CASE pc[c] = "refresh"
      <4>1. Refreshed(c, k)' /\ \A d \in Callers : ~Waiting(d, c, k)'
        BY <1>4, <1>6, <1>15, <2>1, <2>2, <3>1, <3>4 DEF Waiting
      <4>2. Counted(c, k)' = 1
        <5>1. Waiters(c, k)' = {}
          BY <4>1 DEF Waiters
        <5>2. Cardinality(Waiters(c, k)') = 0
          BY <5>1, FS_EmptySet
        <5>3. QED
          BY <4>1, <5>2 DEF Counted
      <4>3. QED
        BY <1>7, <2>2, <4>2
    <3>5. QED
      BY <1>1, <3>3, <3>4
  <2>3. CASE a # c \/ j # k
    <3>1. /\ Waiting(c, a, j)' <=> Waiting(c, a, j)
          /\ Refreshed(a, j)' <=> Refreshed(a, j)
          /\ Unfinished(a, j)' <=> Unfinished(a, j)
      BY <1>1, <1>6, <1>15, <2>3 DEF Waiting
    <3>2. Counted(a, j)' = Counted(a, j)
      BY <2>1, <3>1, CountSame
    <3>3. QED
      BY <1>7, <2>3, <3>1, <3>2 DEF BatchInv, CountInv
  <2>4. QED
    BY <2>2, <2>3
<1>20. StopInv'
  <2>1. ASSUME NEW a \in Callers, a # c PROVE Stops(a)'
    <3>1. Live(a)' = Live(a)
      BY <1>7, <1>15, <2>1, LiveSame
    <3>2. Stops(a) /\ batch'[a] = batch[a] /\ \A j \in Keys : call'[a][j] = call[a][j]
      BY <1>7, <1>11, <2>1 DEF BatchInv, StopInv
    <3>3. \A j \in Keys : Loaded(a, j)' <=> Loaded(a, j)
      BY <1>15, <2>1
    <3>4. QED
      BY <3>1, <3>2, <3>3 DEF Stops
  <2>2. Stops(c)'
    <3>1. Live(c)' = Live(c) \cup {k} /\ k \notin Live(c)
      BY <1>4, <1>7, <1>15 DEF Live
    <3>2. Cardinality(Live(c)') = Cardinality(Live(c)) + 1
      BY <3>1, LiveFinite, FS_AddElement
    <3>3. batch[c].live = Cardinality(Live(c)) /\ ~batch[c].cancelled
      BY <1>4 DEF BatchInv, StopInv, Stops, TypeOK, BatchRecords
    <3>4. \A j \in Keys : call'[c][j].stopped => Loaded(c, j)' /\ call'[c][j].waiters = 0
      BY <1>7, <1>15 DEF BatchInv, StopInv, Stops
    <3>5. QED
      BY <1>11, <1>9, <3>2, <3>3, <3>4 DEF Stops
  <2>3. ASSUME NEW d \in Callers PROVE Canceller(d)'
    <3> SUFFICES ASSUME pc[d] = "cancel", NEW a \in Callers, NEW j \in Keys,
                        Head(waits[d]) = <<a, j>>
                 PROVE  call'[a][j].waiters = 0
      BY <1>1, <1>6 DEF Canceller
    <3>1. call[a][j].waiters = 0 /\ Loaded(a, j)
      BY HeadOf DEF BatchInv, StopInv, Canceller
    <3>2. QED
      BY <1>4, <1>7, <3>1
  <2>4. QED
    BY <2>1, <2>2, <2>3 DEF StopInv
<1>21. QED
  BY <1>14, <1>16, <1>17, <1>18, <1>19, <1>20 DEF BatchInv

\* One that leaves is counted out; the last takes the load out of the group, where
\* nobody can join it any more, and goes on to cancel it.
LEMMA LeaveInv == ASSUME BatchInv, NEW c \in Callers, Leave(c) PROVE BatchInv'
<1>1. PICK b \in Callers, k \in Keys :
        /\ Head(waits[c]) = <<b, k>> /\ Waits(c, b, k) /\ Loaded(b, k)
        /\ Tail(waits[c]) \in Seq(Callers \X Keys) /\ NoRepeats(Tail(waits[c]))
        /\ \A x : In(x, Tail(waits[c])) <=> In(x, waits[c]) /\ x # <<b, k>>
  BY HeadOf DEF Leave
<1>2. /\ pc[c] = "leave" /\ UNCHANGED <<cached, batch>> /\ Waiting(c, b, k)
      /\ waits[c] \in Seq(Callers \X Keys) /\ NoRepeats(waits[c]) /\ waits[c] # <<>>
  BY <1>1 DEF Leave, Waiting, BatchInv, TypeOK, PlaceInv, Placed
<1>3. call[b][k].waiters >= 1 /\ ~call[b][k].stopped /\ call[b][k].waiters \in Nat
  BY <1>2, WaiterCounts DEF BatchInv, TypeOK, Calls
<1>4. PICK n \in Nat : n = call[b][k].waiters - 1
  BY <1>3
<1>5. CountTo(b, k, n)
  <2>1. Head(waits[c])[1] = b /\ Head(waits[c])[2] = k
    BY <1>1
  <2>2. QED
    BY <1>4, <2>1 DEF Leave, CountTo
<1>6. \/ /\ n = 0 /\ group' = IF group[k] = b THEN [group EXCEPT ![k] = None] ELSE group
         /\ GoOn(c, "cancel", waits[c])
      \/ /\ n # 0 /\ group' = group
         /\ GoOn(c, "leave", Tail(waits[c]))
  <2>1. Head(waits[c])[1] = b /\ Head(waits[c])[2] = k
    BY <1>1
  <2>2. call[b][k].waiters = 1 <=> n = 0
    BY <1>3, <1>4
  <2>3. CASE n = 0
    <3>1. Flight(c).waiters = 1
      BY <2>1, <2>2, <2>3 DEF Flight
    <3>2. QED
      BY <2>1, <2>3, <3>1 DEF Leave
  <2>4. CASE n # 0
    <3>1. Flight(c).waiters # 1
      BY <2>1, <2>2, <2>4 DEF Flight
    <3>2. QED
      BY <2>4, <3>1 DEF Leave
  <2>5. QED
    BY <2>3, <2>4
<1>7. PICK flights \in Seq(Callers \X Keys) :
        /\ \/ n = 0 /\ flights = waits[c] /\ GoOn(c, "cancel", flights)
           \/ n # 0 /\ flights = Tail(waits[c]) /\ GoOn(c, "leave", flights)
        /\ NoRepeats(flights)
  BY <1>1, <1>2, <1>6
<1>8. /\ \/ n = 0 /\ pc'[c] = "cancel" /\ waits'[c] = waits[c] /\ waits'[c] # <<>>
         \/ /\ n # 0 /\ waits'[c] = Tail(waits[c])
            /\ pc'[c] = "returned" \/ (pc'[c] = "leave" /\ waits'[c] # <<>>)
      /\ NoRepeats(waits'[c]) /\ todo'[c] = <<>>
      /\ \A d \in Callers : d # c => pc'[d] = pc[d] /\ todo'[d] = todo[d] /\ waits'[d] = waits[d]
  <2>1. CASE n = 0 /\ flights = waits[c] /\ GoOn(c, "cancel", flights)
    <3>1. Goto(c, "cancel", <<>>, flights)
      BY <1>2, <2>1 DEF GoOn
    <3>2. QED
      BY <1>2, <2>1, <3>1, GotoFacts DEF BatchInv
  <2>2. CASE n # 0 /\ flights = Tail(waits[c]) /\ GoOn(c, "leave", flights)
    <3>1. \/ Goto(c, "returned", <<>>, flights)
          \/ Goto(c, "leave", <<>>, flights) /\ flights # <<>>
      BY <2>2 DEF GoOn
    <3>2. QED
      BY <1>7, <2>2, <3>1, GotoFacts DEF BatchInv
  <2>3. QED
    BY <1>7, <2>1, <2>2
<1>9. /\ \A j \in Keys : \/ group'[j] = group[j]
                         \/ n = 0 /\ j = k /\ group[j] = b /\ group'[j] = None
      /\ n = 0 => group'[k] # b
  BY <1>6, NoneAssumption DEF BatchInv, TypeOK
<1>10. /\ call'[b][k].waiters = n
      /\ \A a \in Callers, j \in Keys :
            /\ a # b \/ j # k => call'[a][j] = call[a][j]
            /\ call'[a][j].valid = call[a][j].valid /\ call'[a][j].stopped = call[a][j].stopped
            /\ call'[a][j].done = call[a][j].done /\ call'[a][j].result = call[a][j].result
  BY <1>5, CallCounted DEF BatchInv
<1>11. TypeOK'
  <2>1. call' \in [Callers -> [Keys -> Calls]]
    BY <1>5, CallCounted DEF BatchInv
  <2>2. /\ pc' \in [Callers -> Places] /\ todo' \in [Callers -> Seq(Keys)]
        /\ waits' \in [Callers -> Seq(Callers \X Keys)]
    BY <1>7, GotoType, EmptySeq DEF GoOn, BatchInv, Places
  <2>3. group' \in [Keys -> Callers \cup {None}]
    BY <1>6 DEF BatchInv, TypeOK
  <2>4. QED
    BY <1>2, <2>1, <2>2, <2>3 DEF BatchInv, TypeOK, Places
<1>12. \A a \in Callers, j \in Keys :
        /\ Loaded(a, j)' <=> Loaded(a, j)
        /\ Unfinished(a, j)' <=> Unfinished(a, j)
        /\ Refreshed(a, j)' <=> Refreshed(a, j)
        /\ Waits(c, a, j)' => Waits(c, a, j)
        /\ Waiting(c, a, j)' <=> Waiting(c, a, j) /\ ~(a = b /\ j = k)
  <2>1. \A a \in Callers, j \in Keys :
          /\ Loaded(a, j)' <=> Loaded(a, j)
          /\ Unfinished(a, j)' <=> Unfinished(a, j)
          /\ Refreshed(a, j)' <=> Refreshed(a, j)
    BY <1>2, <1>10 DEF Loaded, Unfinished, Refreshed
  <2>2. CASE n = 0
    BY <1>1, <1>2, <1>8, <2>1, <2>2 DEF Waits, Waiting
  <2>3. CASE n # 0
    BY <1>1, <1>2, <1>8, <2>1, <2>3 DEF Waits, Waiting
  <2>4. QED
    BY <2>2, <2>3
<1>13. PlaceInv'
  <2>1. Placed(c)'
    <3>1. /\ batch[c].state # "filling" /\ ~batch[c].refresh
          /\ \A a \in Callers, j \in Keys : Waits(c, a, j) => Loaded(a, j)
      BY <1>2 DEF BatchInv, PlaceInv, Placed
    <3>2. NoRepeats(todo'[c]) /\ \A j \in Keys : ~In(j, todo'[c])
      BY <1>8, InEmpty
    <3>3. QED
      BY <1>2, <1>8, <1>12, <3>1, <3>2 DEF Placed
  <2>2. QED
    BY <1>2, <1>8, <1>12, <2>1, OthersPlaced DEF BatchInv
<1>14. FlowInv'
  <2> SUFFICES ASSUME NEW a \in Callers PROVE Flowing(a)'
    BY DEF FlowInv
  <2>1. QED
    BY <1>2, <1>10, FlowingSame
<1>15. GroupInv'
  <2>1. \A a \in Callers, j \in Keys :
            Wanted(a, j)' <=> Wanted(a, j) /\ ~(a = b /\ j = k /\ n = 0)
    <3>1. \A a \in Callers, j \in Keys : a # b \/ j # k => (Wanted(a, j)' <=> Wanted(a, j))
      BY <1>10, <1>12 DEF Wanted
    <3>2. Wanted(b, k)' <=> Unfinished(b, k) /\ n # 0
      BY <1>10, <1>12 DEF Wanted
    <3>3. Wanted(b, k) <=> Unfinished(b, k)
      BY <1>3 DEF Wanted
    <3>4. QED
      BY <3>1, <3>2, <3>3
  <2>2. ASSUME NEW j \in Keys, group'[j] # None
        PROVE  \E a \in Callers : a = group'[j] /\ Wanted(a, j)'
    <3>1. PICK a \in Callers : a = group[j] /\ a = group'[j] /\ Wanted(a, j)
      BY <1>9, <2>2 DEF BatchInv, TypeOK, GroupInv
    <3>2. QED
      BY <1>9, <2>1, <3>1
  <2>3. \A j \in Keys : group'[j] # None => Wanted(group[j], j)'
    BY <2>2
  <2>4. ASSUME NEW a \in Callers, NEW j \in Keys, Wanted(a, j)', call'[a][j].valid
        PROVE  group'[j] = a
    <3>1. group[j] = a /\ ~(a = b /\ j = k /\ n = 0)
      BY <1>10, <2>1, <2>4 DEF BatchInv, GroupInv
    <3>2. QED
      BY <1>9, <3>1
  <2>5. QED
    BY <2>3, <2>4 DEF GroupInv
<1>16. CountInv'
  <2> SUFFICES ASSUME NEW a \in Callers, NEW j \in Keys
               PROVE  /\ call'[a][j].waiters >= Counted(a, j)'
                      /\ Unfinished(a, j) => call'[a][j].waiters = Counted(a, j)'
    BY <1>12 DEF CountInv
  <2>1. \A d \in Callers : d # c => (Waiting(d, a, j)' <=> Waiting(d, a, j))
    BY <1>8 DEF Waiting, Waits
  <2>2. CASE a = b /\ j = k
    <3>1. Counted(b, k)' = Counted(b, k) - 1
      BY <1>2, <1>12, <2>1, <2>2, CountLess
    <3>2. QED
      BY <1>3, <1>4, <1>10, <2>2, <3>1, CountType DEF BatchInv, CountInv
  <2>3. CASE a # b \/ j # k
    <3>1. Counted(a, j)' = Counted(a, j)
      BY <1>12, <2>1, <2>3, CountSame
    <3>2. QED
      BY <1>10, <2>3, <3>1 DEF BatchInv, CountInv
  <2>4. QED
    BY <2>2, <2>3
<1>17. StopInv'
  <2>1. \A a \in Callers : Live(a)' = Live(a)
    BY <1>10, <1>12, LiveSame
  <2>2. ASSUME NEW a \in Callers PROVE Stops(a)'
    <3>1. \A j \in Keys : call'[a][j].stopped => Loaded(a, j)' /\ call'[a][j].waiters = 0
      BY <1>3, <1>10, <1>12 DEF BatchInv, StopInv, Stops
    <3>2. QED
      BY <1>2, <2>1, <3>1 DEF BatchInv, StopInv, Stops
  <2>3. ASSUME NEW d \in Callers PROVE Canceller(d)'
    <3> SUFFICES ASSUME pc'[d] = "cancel", NEW a \in Callers, NEW j \in Keys,
                        Head(waits'[d]) = <<a, j>>
                 PROVE  call'[a][j].waiters = 0
      BY DEF Canceller
    <3>1. CASE d = c
      BY <1>1, <1>8, <1>10, <3>1
    <3>2. CASE d # c
      <4>1. call[a][j].waiters = 0
        BY <1>8, <3>2 DEF BatchInv, StopInv, Canceller
      <4>2. QED
        BY <1>3, <1>10, <4>1
    <3>3. QED
      BY <3>1, <3>2
  <2>4. QED
    BY <2>2, <2>3 DEF StopInv
<1>18. QED
  BY <1>11, <1>13, <1>14, <1>15, <1>16, <1>17 DEF BatchInv

\* A call object is stopped, and a batch counts down those that are not.
StoppedRecord(old) == [old EXCEPT !.stopped = TRUE]
LEMMA RecordStopped ==
  ASSUME NEW old \in Calls
  PROVE  LET r == StoppedRecord(old) IN
         /\ r \in Calls /\ r.stopped /\ r.valid = old.valid /\ r.done = old.done
         /\ r.waiters = old.waiters /\ r.result = old.result
  BY DEF StoppedRecord, Calls

StoppedAt(b, k) == call' = [call EXCEPT ![b][k].stopped = TRUE]
LEMMA CallStopped ==
  ASSUME TypeOK, NEW b \in Callers, NEW k \in Keys, StoppedAt(b, k)
  PROVE  /\ call' \in [Callers -> [Keys -> Calls]] /\ call'[b][k].stopped
         /\ \A a \in Callers, j \in Keys :
                /\ a # b \/ j # k => call'[a][j] = call[a][j]
                /\ call'[a][j].valid = call[a][j].valid /\ call'[a][j].done = call[a][j].done
                /\ call'[a][j].waiters = call[a][j].waiters
                /\ call'[a][j].result = call[a][j].result
<1>1. call[b][k] \in Calls
  BY DEF TypeOK
<1>2. PICK r \in Calls : /\ r = StoppedRecord(call[b][k]) /\ r.stopped
                         /\ r.valid = call[b][k].valid /\ r.done = call[b][k].done
                         /\ r.waiters = call[b][k].waiters /\ r.result = call[b][k].result
  BY <1>1, RecordStopped
<1>3. call' = [call EXCEPT ![b][k] = r]
  BY <1>2 DEF StoppedAt, StoppedRecord
<1>4. /\ call' \in [Callers -> [Keys -> Calls]] /\ call'[b][k] = r
      /\ \A a \in Callers, j \in Keys : a # b \/ j # k => call'[a][j] = call[a][j]
  BY <1>3 DEF TypeOK
<1>5. QED
  BY <1>2, <1>4

LoweredRecord(old, n, flag) == [old EXCEPT !.live = n, !.cancelled = flag]
LEMMA RecordLowered ==
  ASSUME NEW old \in BatchRecords, NEW n \in Nat, NEW flag \in BOOLEAN
  PROVE  LET r == LoweredRecord(old, n, flag) IN
         /\ r \in BatchRecords /\ r.live = n /\ r.cancelled = flag /\ r.state = old.state
         /\ r.refresh = old.refresh /\ r.next = old.next /\ r.fresh = old.fresh
  BY DEF LoweredRecord, BatchRecords

Lowered(b, n, flag) == batch' = [batch EXCEPT ![b].live = n, ![b].cancelled = flag]
LEMMA BatchLowered ==
  ASSUME TypeOK, NEW b \in Callers, NEW n \in Nat, NEW flag \in BOOLEAN, Lowered(b, n, flag)
  PROVE  /\ batch' \in [Callers -> BatchRecords]
         /\ batch'[b].live = n /\ batch'[b].cancelled = flag
         /\ batch'[b].state = batch[b].state /\ batch'[b].refresh = batch[b].refresh
         /\ batch'[b].next = batch[b].next /\ batch'[b].fresh = batch[b].fresh
         /\ \A a \in Callers : a # b => batch'[a] = batch[a]
<1>1. batch[b] \in BatchRecords
  BY DEF TypeOK
<1>2. PICK r \in BatchRecords :
        /\ r = LoweredRecord(batch[b], n, flag)
        /\ r.live = n /\ r.cancelled = flag /\ r.state = batch[b].state
        /\ r.refresh = batch[b].refresh /\ r.next = batch[b].next /\ r.fresh = batch[b].fresh
  BY <1>1, RecordLowered
<1>3. batch' = [batch EXCEPT ![b] = r]
  BY <1>2 DEF Lowered, LoweredRecord, TypeOK
<1>4. /\ batch' \in [Callers -> BatchRecords] /\ batch'[b] = r
      /\ \A a \in Callers : a # b => batch'[a] = batch[a]
  BY <1>3 DEF TypeOK
<1>5. QED
  BY <1>2, <1>4

\* Nobody waits for what the last one cancels; a batch whose last live key it is,
\* is cancelled, and was not before.
LEMMA CancelInv == ASSUME BatchInv, NEW c \in Callers, Cancel(c) PROVE BatchInv'
<1>1. PICK b \in Callers, k \in Keys :
        /\ Head(waits[c]) = <<b, k>> /\ Waits(c, b, k) /\ Loaded(b, k)
        /\ Tail(waits[c]) \in Seq(Callers \X Keys) /\ NoRepeats(Tail(waits[c]))
        /\ \A x : In(x, Tail(waits[c])) <=> In(x, waits[c]) /\ x # <<b, k>>
  BY HeadOf DEF Cancel
<1>2. /\ pc[c] = "cancel" /\ UNCHANGED <<cached, group>> /\ call[b][k].waiters = 0
      /\ GoOn(c, "leave", Tail(waits[c]))
      /\ batch[b].state # "filling" /\ pc[b] # "idle"
  <2>1. pc[c] = "cancel" /\ UNCHANGED <<cached, group>> /\ GoOn(c, "leave", Tail(waits[c]))
    BY DEF Cancel, cacheVars
  <2>2. call[b][k].waiters = 0
    BY <1>1, <2>1 DEF BatchInv, StopInv, Canceller
  <2>3. batch[b].state # "filling"
    BY <1>1, <2>2, FillingWanted
  <2>4. QED
    BY <2>1, <2>2, <2>3 DEF BatchInv, PlaceInv, Placed
<1>3. StoppedAt(b, k)
  <2>1. Head(waits[c])[1] = b /\ Head(waits[c])[2] = k
    BY <1>1
  <2>2. QED
    BY <2>1 DEF Cancel, StoppedAt
<1>4. /\ batch[b].live = Cardinality(Live(b)) /\ batch[b].live \in Nat
      /\ ~call[b][k].stopped => batch[b].live >= 1
  <2>1. batch[b].live = Cardinality(Live(b)) /\ Cardinality(Live(b)) \in Nat
    BY LiveFinite DEF BatchInv, StopInv, Stops
  <2>2. ~call[b][k].stopped => Live(b) # {}
    BY <1>1 DEF Live
  <2>3. QED
    BY <2>1, <2>2, LiveFinite, FS_EmptySet
<1>5. PICK n \in Nat, flag \in BOOLEAN :
        /\ call[b][k].stopped => n = batch[b].live /\ flag = batch[b].cancelled
        /\ ~call[b][k].stopped => /\ n = batch[b].live - 1
                                  /\ flag <=> batch[b].cancelled \/ batch[b].live = 1
  <2>1. batch[b].cancelled \in BOOLEAN /\ batch[b].live \in Nat
    BY DEF BatchInv, TypeOK, BatchRecords
  <2>2. CASE call[b][k].stopped
    BY <2>1, <2>2
  <2>3. CASE ~call[b][k].stopped
    <3>1. batch[b].live - 1 \in Nat
      BY <1>4, <2>3
    <3>2. (batch[b].cancelled \/ batch[b].live = 1) \in BOOLEAN
      OBVIOUS
    <3>3. QED
      BY <2>3, <3>1, <3>2
  <2>4. QED
    BY <2>2, <2>3
<1>6. /\ batch' \in [Callers -> BatchRecords]
      /\ batch'[b].live = n /\ batch'[b].cancelled = flag
      /\ batch'[b].state = batch[b].state /\ batch'[b].refresh = batch[b].refresh
      /\ batch'[b].next = batch[b].next /\ batch'[b].fresh = batch[b].fresh
      /\ \A a \in Callers : a # b => batch'[a] = batch[a]
  <2>1. Head(waits[c])[1] = b /\ Head(waits[c])[2] = k
    BY <1>1
  <2>2. CASE call[b][k].stopped
    <3>1. batch' = batch
      BY <2>1, <2>2 DEF Cancel
    <3>2. QED
      BY <1>5, <2>2, <3>1 DEF BatchInv, TypeOK
  <2>3. CASE ~call[b][k].stopped
    <3>1. batch' = [batch EXCEPT ![b].live = batch[b].live - 1,
                                 ![b].cancelled = batch[b].cancelled \/ batch[b].live = 1]
      BY <2>1, <2>3 DEF Cancel
    <3>2. Lowered(b, n, flag)
      BY <1>5, <2>3, <3>1 DEF Lowered
    <3>3. QED
      BY <3>2, BatchLowered DEF BatchInv
  <2>4. QED
    BY <2>2, <2>3
<1>7. /\ pc'[c] = "returned" \/ (pc'[c] = "leave" /\ waits'[c] # <<>>)
      /\ waits'[c] = Tail(waits[c]) /\ todo'[c] = <<>>
      /\ \A d \in Callers : d # c => pc'[d] = pc[d] /\ todo'[d] = todo[d] /\ waits'[d] = waits[d]
  <2>1. PICK flights \in Seq(Callers \X Keys) : flights = Tail(waits[c])
    BY <1>1
  <2>2. \/ Goto(c, "returned", <<>>, flights)
        \/ Goto(c, "leave", <<>>, flights) /\ flights # <<>>
    BY <1>2, <2>1 DEF GoOn
  <2>3. QED
    <3>1. CASE Goto(c, "returned", <<>>, flights)
      BY <2>1, <3>1, GotoFacts DEF BatchInv
    <3>2. CASE Goto(c, "leave", <<>>, flights) /\ flights # <<>>
      <4>1. /\ pc'[c] = "leave" /\ todo'[c] = <<>> /\ waits'[c] = flights
            /\ \A d \in Callers : d # c =>
                    pc'[d] = pc[d] /\ todo'[d] = todo[d] /\ waits'[d] = waits[d]
        BY <3>2, GotoFacts DEF BatchInv
      <4>2. QED
        BY <2>1, <3>2, <4>1
    <3>3. QED
      BY <2>2, <3>1, <3>2
<1>8. /\ call'[b][k].stopped
      /\ \A a \in Callers, j \in Keys :
            /\ a # b \/ j # k => call'[a][j] = call[a][j]
            /\ call'[a][j].valid = call[a][j].valid /\ call'[a][j].waiters = call[a][j].waiters
            /\ call'[a][j].done = call[a][j].done /\ call'[a][j].result = call[a][j].result
  BY <1>3, CallStopped DEF BatchInv
<1>9. TypeOK'
  <2>1. call' \in [Callers -> [Keys -> Calls]]
    BY <1>3, CallStopped DEF BatchInv
  <2>2. /\ pc' \in [Callers -> Places] /\ todo' \in [Callers -> Seq(Keys)]
        /\ waits' \in [Callers -> Seq(Callers \X Keys)]
    BY <1>1, <1>2, GotoType, EmptySeq DEF GoOn, BatchInv, Places
  <2>3. QED
    BY <1>2, <1>6, <2>1, <2>2 DEF BatchInv, TypeOK, Places
<1>10. \A a \in Callers, j \in Keys :
        /\ Loaded(a, j)' <=> Loaded(a, j)
        /\ Unfinished(a, j)' <=> Unfinished(a, j)
        /\ Refreshed(a, j)' <=> Refreshed(a, j)
        /\ Wanted(a, j)' <=> Wanted(a, j)
        /\ Waits(c, a, j)' => Waits(c, a, j)
        /\ Waiting(c, a, j)' <=> Waiting(c, a, j)
  <2>1. \A a \in Callers : batch'[a].fresh = batch[a].fresh /\ batch'[a].refresh = batch[a].refresh
    BY <1>6
  <2>2. \A a \in Callers, j \in Keys :
          /\ Loaded(a, j)' <=> Loaded(a, j)
          /\ Unfinished(a, j)' <=> Unfinished(a, j)
          /\ Refreshed(a, j)' <=> Refreshed(a, j)
          /\ Wanted(a, j)' <=> Wanted(a, j)
    BY <1>8, <2>1 DEF Loaded, Unfinished, Refreshed, Wanted
  <2>3. \A a \in Callers, j \in Keys :
          /\ Waits(c, a, j)' <=> Waits(c, a, j) /\ <<a, j>> # <<b, k>>
          /\ Waiting(c, a, j) <=> Waits(c, a, j) /\ <<a, j>> # <<b, k>>
          /\ Waiting(c, a, j)' <=> Waits(c, a, j)'
    BY <1>1, <1>2, <1>7 DEF Waits, Waiting
  <2>4. QED
    BY <2>2, <2>3
<1>11. PlaceInv'
  <2>1. Placed(c)'
    <3>1. /\ batch[c].state # "filling" /\ ~batch[c].refresh
          /\ \A a \in Callers, j \in Keys : Waits(c, a, j) => Loaded(a, j)
      BY <1>2 DEF BatchInv, PlaceInv, Placed
    <3>2. batch'[c].state = batch[c].state /\ batch'[c].refresh = batch[c].refresh
      BY <1>6
    <3>3. NoRepeats(todo'[c]) /\ (\A j \in Keys : ~In(j, todo'[c])) /\ NoRepeats(waits'[c])
      BY <1>1, <1>7, InEmpty
    <3>4. QED
      BY <1>7, <1>10, <3>1, <3>2, <3>3 DEF Placed
  <2>2. QED
    BY <1>2, <1>7, <1>10, <1>6, <2>1, OthersPlaced DEF BatchInv
<1>12. FlowInv'
  <2> SUFFICES ASSUME NEW a \in Callers PROVE Flowing(a)'
    BY DEF FlowInv
  <2>1. QED
    BY <1>6, <1>8, FlowingSame
<1>13. GroupInv'
  <2>1. \A j \in Keys : group[j] # None => group[j] \in Callers /\ Wanted(group[j], j)
    BY DEF BatchInv, TypeOK, GroupInv
  <2>2. \A a \in Callers, j \in Keys : Wanted(a, j) /\ call[a][j].valid => group[j] = a
    BY DEF BatchInv, GroupInv
  <2>3. QED
    BY <1>2, <1>8, <1>10, <2>1, <2>2 DEF GroupInv
<1>14. CountInv'
  <2> SUFFICES ASSUME NEW a \in Callers, NEW j \in Keys
               PROVE  /\ call'[a][j].waiters >= Counted(a, j)'
                      /\ Unfinished(a, j) => call'[a][j].waiters = Counted(a, j)'
    BY <1>10 DEF CountInv
  <2>1. \A d \in Callers : Waiting(d, a, j)' <=> Waiting(d, a, j)
    BY <1>7, <1>10 DEF Waiting, Waits
  <2>2. Counted(a, j)' = Counted(a, j)
    BY <1>10, <2>1, CountSame
  <2>3. QED
    BY <1>8, <2>2 DEF BatchInv, CountInv
<1>15. StopInv'
  <2>1. ASSUME NEW a \in Callers, a # b PROVE Stops(a)'
    <3>1. Live(a)' = Live(a)
      BY <1>8, <1>10, <2>1, LiveSame
    <3>2. Stops(a) /\ batch'[a] = batch[a] /\ \A j \in Keys : call'[a][j] = call[a][j]
      BY <1>8, <1>6, <2>1 DEF BatchInv, StopInv
    <3>3. QED
      BY <1>10, <3>1, <3>2 DEF Stops
  <2>2. Stops(b)'
    <3>1. /\ \A j \in Keys : call[b][j].stopped => Loaded(b, j) /\ call[b][j].waiters = 0
          /\ batch[b].cancelled /\ batch[b].state # "gone" => batch[b].live = 0
      BY DEF BatchInv, StopInv, Stops
    <3>2. \A j \in Keys : call'[b][j].stopped => Loaded(b, j)' /\ call'[b][j].waiters = 0
      BY <1>1, <1>2, <1>8, <1>10, <3>1
    <3>3. batch'[b].live = Cardinality(Live(b)')
      <4>1. Live(b)' = Live(b) \ {k}
        BY <1>8, <1>10 DEF Live
      <4>2. k \in Live(b) <=> ~call[b][k].stopped
        BY <1>1 DEF Live
      <4>3. Cardinality(Live(b) \ {k}) =
                IF k \in Live(b) THEN Cardinality(Live(b)) - 1 ELSE Cardinality(Live(b))
        BY LiveFinite, FS_RemoveElement
      <4>4. QED
        BY <1>4, <1>5, <1>6, <4>1, <4>2, <4>3
    <3>4. flag /\ batch[b].state # "gone" => n = 0
      <4>1. CASE call[b][k].stopped
        BY <1>5, <3>1, <4>1
      <4>2. CASE ~call[b][k].stopped
        <5>1. batch[b].cancelled /\ batch[b].state # "gone" => FALSE
          BY <1>4, <3>1, <4>2
        <5>2. flag /\ batch[b].state # "gone" => batch[b].live = 1
          BY <1>5, <4>2, <5>1
        <5>3. QED
          BY <1>5, <4>2, <5>2
      <4>3. QED
        BY <4>1, <4>2
    <3>5. QED
      BY <1>2, <1>6, <3>2, <3>3, <3>4 DEF Stops
  <2>3. ASSUME NEW d \in Callers PROVE Canceller(d)'
    BY <1>7, <1>8 DEF BatchInv, StopInv, Canceller
  <2>4. QED
    BY <2>1, <2>2, <2>3 DEF StopInv
<1>16. QED
  BY <1>9, <1>11, <1>12, <1>13, <1>14, <1>15 DEF BatchInv

-----------------------------------------------------------------------------
(* The steps of a batch, and of everyone else.                             *)

LEMMA GroupSame ==
  ASSUME BatchInv, UNCHANGED group,
         \A a \in Callers, j \in Keys : /\ Wanted(a, j)' <=> Wanted(a, j)
                                        /\ call'[a][j].valid => call[a][j].valid
  PROVE  GroupInv'
<1>1. \A j \in Keys : group[j] # None => group[j] \in Callers /\ Wanted(group[j], j)
  BY DEF BatchInv, TypeOK, GroupInv
<1>2. \A a \in Callers, j \in Keys : Wanted(a, j) /\ call[a][j].valid => group[j] = a
  BY DEF BatchInv, GroupInv
<1>3. QED
  BY <1>1, <1>2 DEF GroupInv

LEMMA WantedSame ==
  ASSUME NEW a \in Callers, NEW j \in Keys, batch'[a].fresh = batch[a].fresh,
         call'[a][j].done = call[a][j].done, call'[a][j].waiters = call[a][j].waiters
  PROVE  Wanted(a, j)' <=> Wanted(a, j)
  BY DEF Wanted, Unfinished

\* The tokens of a key's loads are taken away.
InvalidRecord(old) == [old EXCEPT !.valid = FALSE]
LEMMA RecordInvalid ==
  ASSUME NEW old \in Calls
  PROVE  LET r == InvalidRecord(old) IN
         /\ r \in Calls /\ ~r.valid /\ r.stopped = old.stopped /\ r.done = old.done
         /\ r.waiters = old.waiters /\ r.result = old.result
  BY DEF InvalidRecord, Calls

LEMMA CallInvalid ==
  ASSUME TypeOK, NEW k \in Keys, call' = Invalidated(k)
  PROVE  /\ call' \in [Callers -> [Keys -> Calls]]
         /\ \A a \in Callers : ~call'[a][k].valid
         /\ \A a \in Callers, j \in Keys :
                /\ j # k => call'[a][j] = call[a][j]
                /\ call'[a][j].valid => call[a][j].valid
                /\ call'[a][j].stopped = call[a][j].stopped
                /\ call'[a][j].done = call[a][j].done
                /\ call'[a][j].waiters = call[a][j].waiters
                /\ call'[a][j].result = call[a][j].result
<1>1. \A a \in Callers, j \in Keys : call[a][j] \in Calls
  BY DEF TypeOK
<1>2. \A a \in Callers, j \in Keys :
        call'[a][j] = IF j = k THEN InvalidRecord(call[a][j]) ELSE call[a][j]
  BY DEF TypeOK, Invalidated, InvalidRecord
<1>3. call' \in [Callers -> [Keys -> Calls]]
  <2>1. \A a \in Callers : [call[a] EXCEPT ![k] = InvalidRecord(call[a][k])] \in [Keys -> Calls]
    BY <1>1, RecordInvalid DEF TypeOK
  <2>2. call' = [a \in Callers |-> [call[a] EXCEPT ![k] = InvalidRecord(call[a][k])]]
    BY DEF Invalidated, InvalidRecord
  <2>3. QED
    BY <2>1, <2>2
<1>4. QED
  BY <1>1, <1>2, <1>3, RecordInvalid

\* A result for every key that a batch loads.
ResultOfAll(b, results) == \A k \in Keys : Loaded(b, k) => results[k] \in AllOutcomes
CarryRecord(old, result) == [old EXCEPT !.result = result]
LEMMA RecordCarry ==
  ASSUME NEW old \in Calls, NEW result \in AllOutcomes
  PROVE  LET r == CarryRecord(old, result) IN
         /\ r \in Calls /\ r.result = result /\ r.stopped = old.stopped /\ r.done = old.done
         /\ r.waiters = old.waiters /\ r.valid = old.valid
  BY DEF CarryRecord, Calls

LEMMA CallCarry ==
  ASSUME TypeOK, NEW b \in Callers, NEW results, ResultOfAll(b, results),
         call' = Carry(b, results)
  PROVE  /\ call' \in [Callers -> [Keys -> Calls]]
         /\ \A k \in Keys : Loaded(b, k) => call'[b][k].result = results[k]
         /\ \A a \in Callers, j \in Keys :
                /\ a # b => call'[a][j] = call[a][j]
                /\ call'[a][j].valid = call[a][j].valid
                /\ call'[a][j].stopped = call[a][j].stopped
                /\ call'[a][j].done = call[a][j].done
                /\ call'[a][j].waiters = call[a][j].waiters
<1>1. /\ \A a \in Callers, j \in Keys : call[a][j] \in Calls
      /\ \A k \in Keys : k \in FreshKeys(b) => results[k] \in AllOutcomes
  BY LoadedFresh DEF TypeOK, ResultOfAll
<1>2. PICK calls \in [Keys -> Calls] :
        \A k \in Keys : calls[k] = IF k \in FreshKeys(b) THEN CarryRecord(call[b][k], results[k])
                                                          ELSE call[b][k]
  <2>1. \A k \in Keys : (IF k \in FreshKeys(b) THEN CarryRecord(call[b][k], results[k])
                                                ELSE call[b][k]) \in Calls
    BY <1>1, RecordCarry
  <2>2. [k \in Keys |-> IF k \in FreshKeys(b) THEN CarryRecord(call[b][k], results[k])
                                               ELSE call[b][k]] \in [Keys -> Calls]
    BY <2>1
  <2>3. QED
    BY <2>2
<1>3. call' = [call EXCEPT ![b] = calls]
  <2>1. calls = [k \in Keys |-> IF k \in FreshKeys(b) THEN CarryRecord(call[b][k], results[k])
                                                       ELSE call[b][k]]
    BY <1>2
  <2>2. QED
    BY <2>1 DEF Carry, CarryRecord
<1>4. /\ call' \in [Callers -> [Keys -> Calls]] /\ call'[b] = calls
      /\ \A a \in Callers : a # b => call'[a] = call[a]
  BY <1>3 DEF TypeOK
<1>5. ASSUME NEW k \in Keys
      PROVE  /\ Loaded(b, k) => calls[k].result = results[k]
             /\ calls[k].valid = call[b][k].valid /\ calls[k].stopped = call[b][k].stopped
             /\ calls[k].done = call[b][k].done /\ calls[k].waiters = call[b][k].waiters
  <2>1. CASE k \in FreshKeys(b)
    <3>1. calls[k] = CarryRecord(call[b][k], results[k])
      BY <1>2, <2>1
    <3>2. QED
      BY <1>1, <2>1, <3>1, RecordCarry
  <2>2. CASE k \notin FreshKeys(b)
    BY <1>2, <2>2, LoadedFresh
  <2>3. QED
    BY <2>1, <2>2
<1>6. QED
  BY <1>4, <1>5

\* A batch goes on to another place, or key.
MovedRecord(old, state, n) == [old EXCEPT !.next = n, !.state = state]
LEMMA RecordMoved ==
  ASSUME NEW old \in BatchRecords, NEW state \in States, NEW n \in Nat
  PROVE  LET r == MovedRecord(old, state, n) IN
         /\ r \in BatchRecords /\ r.state = state /\ r.next = n /\ r.live = old.live
         /\ r.refresh = old.refresh /\ r.cancelled = old.cancelled /\ r.fresh = old.fresh
  BY DEF MovedRecord, BatchRecords

Moved(b, state, n) == batch' = [batch EXCEPT ![b] = MovedRecord(@, state, n)]
LEMMA BatchMoved ==
  ASSUME TypeOK, NEW b \in Callers, NEW state \in States, NEW n \in Nat, Moved(b, state, n)
  PROVE  /\ batch' \in [Callers -> BatchRecords]
         /\ batch'[b].state = state /\ batch'[b].next = n
         /\ batch'[b].live = batch[b].live /\ batch'[b].refresh = batch[b].refresh
         /\ batch'[b].cancelled = batch[b].cancelled /\ batch'[b].fresh = batch[b].fresh
         /\ \A a \in Callers : a # b => batch'[a] = batch[a]
<1>1. batch[b] \in BatchRecords
  BY DEF TypeOK
<1>2. PICK r \in BatchRecords :
        /\ r = MovedRecord(batch[b], state, n)
        /\ r.state = state /\ r.next = n /\ r.live = batch[b].live
        /\ r.refresh = batch[b].refresh /\ r.cancelled = batch[b].cancelled
        /\ r.fresh = batch[b].fresh
  BY <1>1, RecordMoved
<1>3. batch' = [batch EXCEPT ![b] = r]
  BY <1>2 DEF Moved, TypeOK
<1>4. /\ batch' \in [Callers -> BatchRecords] /\ batch'[b] = r
      /\ \A a \in Callers : a # b => batch'[a] = batch[a]
  BY <1>3 DEF TypeOK
<1>5. QED
  BY <1>2, <1>4

\* A step of a batch that takes no key's load from those that can be joined.
LEMMA GoesOn ==
  ASSUME BatchInv, NEW b \in Callers, NEW state \in States, NEW n \in Nat,
         batch[b].state # "filling", state # "filling", batch[b].state # "gone",
         Moved(b, state, n), UNCHANGED callerVars,
         cached' \in [Keys -> {"none", "value", "absent"}],
         call' \in [Callers -> [Keys -> Calls]],
         group' \in [Keys -> Callers \cup {None}],
         \A a \in Callers, j \in Keys :
            /\ call'[a][j].waiters = call[a][j].waiters
            /\ call'[a][j].stopped = call[a][j].stopped
            /\ call[a][j].done => call'[a][j].done
            /\ call'[a][j].valid => call[a][j].valid,
         \A a \in Callers, j \in Keys : a # b =>
            /\ call'[a][j].done = call[a][j].done /\ call'[a][j].result = call[a][j].result,
         Flowing(b)', GroupInv'
  PROVE  BatchInv'
<1>1. /\ batch' \in [Callers -> BatchRecords]
      /\ batch'[b].state = state /\ batch'[b].next = n
      /\ batch'[b].live = batch[b].live /\ batch'[b].refresh = batch[b].refresh
      /\ batch'[b].cancelled = batch[b].cancelled /\ batch'[b].fresh = batch[b].fresh
      /\ \A a \in Callers : a # b => batch'[a] = batch[a]
  BY BatchMoved DEF BatchInv
<1>2. TypeOK'
  BY <1>1 DEF BatchInv, TypeOK, callerVars
<1>3. FlowInv'
  <2>1. ASSUME NEW a \in Callers, a # b PROVE Flowing(a)'
    BY <1>1, <2>1, FlowingSame
  <2>2. QED
    BY <2>1 DEF FlowInv
<1>4. QED
  BY <1>1, <1>2, <1>3, LoadsMove

\* The batch loader returns, or a cost panics: every call has its result.
LEMMA AnsweredInv ==
  ASSUME BatchInv, NEW b \in Callers, NEW results, ResultOfAll(b, results),
         NEW state \in {"publishing", "finishing"},
         batch[b].state \in {"running", "publishing"},
         Moved(b, state, 1), call' = Carry(b, results),
         state = "finishing" =>
            \A k \in Keys : Loaded(b, k) => results[k] \in {"panic", "exited"},
         UNCHANGED <<cacheVars, callerVars>>
  PROVE  BatchInv'
<1>1. /\ call' \in [Callers -> [Keys -> Calls]]
      /\ \A k \in Keys : Loaded(b, k) => call'[b][k].result = results[k]
      /\ \A a \in Callers, j \in Keys :
            /\ a # b => call'[a][j] = call[a][j]
            /\ call'[a][j].valid = call[a][j].valid
            /\ call'[a][j].stopped = call[a][j].stopped
            /\ call'[a][j].done = call[a][j].done
            /\ call'[a][j].waiters = call[a][j].waiters
  BY CallCarry DEF BatchInv
<1>2. /\ batch'[b].state = state /\ batch'[b].next = 1 /\ batch'[b].fresh = batch[b].fresh
      /\ \A a \in Callers : a # b => batch'[a] = batch[a]
      /\ state \in States
  BY BatchMoved DEF BatchInv, States
<1>3. GroupInv'
  <2>1. \A a \in Callers, j \in Keys : Wanted(a, j)' <=> Wanted(a, j)
    BY <1>1, <1>2, WantedSame
  <2>2. QED
    BY <1>1, <2>1, GroupSame DEF cacheVars
<1>4. Flowing(b)'
  <2>1. /\ Flowing(b) /\ batch[b].fresh # <<>> /\ batch[b].fresh \in Seq(Keys)
        /\ \A i \in DOMAIN batch[b].fresh : /\ batch[b].fresh[i] \in Keys
                                            /\ Loaded(b, batch[b].fresh[i])
    BY FreshIsLoaded DEF BatchInv, FlowInv, Flowing, TypeOK, BatchRecords
  <2>2. DOMAIN batch[b].fresh \subseteq Nat \ {0} /\ 1 \in DOMAIN batch[b].fresh
    BY <2>1, EmptySeq, LenProperties
  <2>3. \A i \in DOMAIN batch[b].fresh : ~call[b][batch[b].fresh[i]].done
    BY <2>1 DEF Flowing, Finished
  <2>4. \A i \in DOMAIN batch[b].fresh : /\ ~Finished(b, i)'
                                         /\ Published(b, i)' => state = "finishing"
    BY <1>2, <2>2 DEF Finished, Published
  <2>5. \A k \in Keys : /\ Loaded(b, k)' <=> Loaded(b, k)
                        /\ Loaded(b, k) => results[k] # NoResult
    BY <1>2 DEF Loaded, ResultOfAll, AllOutcomes, Answers, NoResult
  <2>6. NoRepeats(batch[b].fresh) /\ \A k \in Keys : call[b][k].valid => Loaded(b, k)
    BY <2>1 DEF Flowing
  <2>7. \A i \in DOMAIN batch[b].fresh : Published(b, i)' =>
            ~Storable(batch[b].fresh[i], call'[b][batch[b].fresh[i]].result)
    BY <1>1, <2>1, <2>4 DEF Storable
  <2>8. \A i \in DOMAIN batch[b].fresh : ~call'[b][batch[b].fresh[i]].done
    BY <1>1, <2>1, <2>3
  <2>9. \A k \in Keys : /\ Loaded(b, k)' => call'[b][k].result # NoResult
                        /\ call'[b][k].valid => Loaded(b, k)'
    BY <1>1, <2>5, <2>6
  <2>10. QED
    BY <1>2, <2>1, <2>2, <2>4, <2>6, <2>7, <2>8, <2>9 DEF Flowing
<1>5. /\ cached' \in [Keys -> {"none", "value", "absent"}]
      /\ group' \in [Keys -> Callers \cup {None}]
  BY DEF BatchInv, TypeOK, cacheVars
<1>6. batch[b].state # "filling" /\ batch[b].state # "gone" /\ state # "filling" /\ 1 \in Nat
  OBVIOUS
<1>7. QED
  BY <1>1, <1>2, <1>3, <1>4, <1>5, <1>6, GoesOn

LEMMA LoaderReturnsInv ==
  ASSUME BatchInv, NEW b \in Callers, NEW results \in Ends(b), LoaderReturns(b, results)
  PROVE  BatchInv'
<1>1. ResultOfAll(b, results)
  <2>1. \A k \in Keys : Loaded(b, k) => k \in FreshKeys(b)
    BY LoadedFresh
  <2>2. CASE results \in [FreshKeys(b) -> Outcomes \cap Answers]
    BY <2>1, <2>2 DEF ResultOfAll, AllOutcomes
  <2>3. ASSUME NEW outcome \in AllOutcomes, results = All(b, outcome) PROVE ResultOfAll(b, results)
    BY <2>1, <2>3 DEF ResultOfAll, All
  <2>4. "error" \in AllOutcomes
    BY DEF AllOutcomes
  <2>5. CASE results \in {All(b, outcome) : outcome \in Outcomes \ Answers}
    BY <2>3, <2>5, OutcomesAssumption
  <2>6. CASE results \in {All(b, outcome) : outcome \in IF batch[b].cancelled THEN {"error"} ELSE {}}
    BY <2>3, <2>4, <2>6
  <2>7. QED
    BY <2>2, <2>5, <2>6 DEF Ends
<1>2. PICK state \in {"publishing", "finishing"} :
        state = IF results \in {All(b, "panic"), All(b, "exited")} THEN "finishing" ELSE "publishing"
  OBVIOUS
<1>3. state = "finishing" => \A k \in Keys : Loaded(b, k) => results[k] \in {"panic", "exited"}
  BY <1>2, LoadedFresh DEF All
<1>4. batch[b] \in BatchRecords /\ batch[b].state = "running" /\ batch[b].next = 1
  BY DEF LoaderReturns, BatchInv, FlowInv, Flowing, TypeOK
<1>5. Moved(b, state, 1)
  <2>1. batch' = [batch EXCEPT ![b] = [batch[b] EXCEPT !.state = state]]
    BY <1>2 DEF LoaderReturns
  <2>2. [batch[b] EXCEPT !.state = state] = MovedRecord(batch[b], state, 1)
    BY <1>4 DEF MovedRecord, BatchRecords
  <2>3. QED
    BY <2>1, <2>2 DEF Moved
<1>6. QED
  BY <1>1, <1>3, <1>4, <1>5, AnsweredInv DEF LoaderReturns

LEMMA CostPanicsInv == ASSUME BatchInv, NEW b \in Callers, CostPanics(b) PROVE BatchInv'
<1>1. PICK results : results = All(b, "panic")
  OBVIOUS
<1>2. \A k \in Keys : Loaded(b, k) => results[k] = "panic"
  BY <1>1, LoadedFresh DEF All
<1>3. ResultOfAll(b, results)
  BY <1>2 DEF ResultOfAll, AllOutcomes
<1>4. batch[b] \in BatchRecords /\ batch[b].state = "publishing"
  BY DEF CostPanics, BatchInv, TypeOK
<1>5. Moved(b, "finishing", 1)
  BY <1>4 DEF CostPanics, Moved, MovedRecord, BatchRecords
<1>6. call' = Carry(b, results) /\ UNCHANGED <<cacheVars, callerVars>>
  BY <1>1 DEF CostPanics
<1>7. QED
  BY <1>2, <1>3, <1>4, <1>5, <1>6, AnsweredInv

\* Where Advance goes.
LEMMA AdvanceTo ==
  ASSUME BatchInv, NEW b \in Callers, NEW after \in States, Advance(b, after),
         batch[b].fresh # <<>>
  PROVE  \E n \in Nat, state \in States :
            /\ Moved(b, state, n) /\ n \in DOMAIN batch[b].fresh
            /\ batch[b].next \in DOMAIN batch[b].fresh
            /\ \/ /\ state = batch[b].state /\ n = batch[b].next + 1
               \/ /\ state = after /\ n = 1
                  /\ \A i \in DOMAIN batch[b].fresh : i <= batch[b].next
<1>1. /\ batch[b] \in BatchRecords /\ batch[b].fresh \in Seq(Keys)
      /\ batch[b].next \in DOMAIN batch[b].fresh /\ batch[b].state \in States
  BY DEF BatchInv, TypeOK, BatchRecords, FlowInv, Flowing
<1>2. PICK m \in Nat : m = Len(batch[b].fresh) /\ DOMAIN batch[b].fresh = 1..m
  BY <1>1, LenProperties
<1>3. m >= 1 /\ batch[b].next \in 1..m
  BY <1>1, <1>2
<1>4. CASE batch[b].next = m
  <2>1. batch' = [batch EXCEPT ![b] = [batch[b] EXCEPT !.next = 1, !.state = after]]
    BY <1>2, <1>4 DEF Advance
  <2>2. Moved(b, after, 1)
    BY <2>1 DEF Moved, MovedRecord
  <2>3. 1 \in DOMAIN batch[b].fresh /\ \A i \in DOMAIN batch[b].fresh : i <= batch[b].next
    BY <1>2, <1>3, <1>4
  <2>4. QED
    BY <1>1, <2>2, <2>3
<1>5. CASE batch[b].next # m
  <2>1. PICK n \in Nat : n = batch[b].next + 1 /\ n \in DOMAIN batch[b].fresh
    <3>1. PICK j \in 1..m : j = batch[b].next
      BY <1>3
    <3>2. j + 1 \in 1..m
      BY <1>5, <3>1
    <3>3. QED
      BY <1>2, <3>1, <3>2
  <2>2. batch' = [batch EXCEPT ![b] = [batch[b] EXCEPT !.next = n, !.state = batch[b].state]]
    BY <1>2, <1>5, <2>1 DEF Advance
  <2>3. Moved(b, batch[b].state, n)
    BY <2>2 DEF Moved, MovedRecord
  <2>4. QED
    BY <1>1, <2>1, <2>3
<1>6. QED
  BY <1>4, <1>5

\* The key that a batch publishes, or finishes, next.
LEMMA NextFresh ==
  ASSUME BatchInv, NEW b \in Callers, batch[b].state \in {"publishing", "finishing"}
  PROVE  /\ batch[b].fresh # <<>> /\ batch[b].next \in DOMAIN batch[b].fresh
         /\ batch[b].fresh[batch[b].next] \in Keys
         /\ Loaded(b, batch[b].fresh[batch[b].next])
         /\ DOMAIN batch[b].fresh \subseteq Nat \ {0}
<1>1. /\ batch[b].fresh # <<>> /\ batch[b].next \in DOMAIN batch[b].fresh
      /\ batch[b].fresh \in Seq(Keys)
  BY DEF BatchInv, FlowInv, Flowing, TypeOK, BatchRecords
<1>2. QED
  BY <1>1, FreshIsLoaded, LenProperties DEF BatchInv

\* What is stored takes the tokens of the key's loads; what is not had lost its own,
\* or cannot be stored.
LEMMA PublishInv == ASSUME BatchInv, NEW b \in Callers, Publish(b) PROVE BatchInv'
<1>1. batch[b].state = "publishing"
  BY DEF Publish
<1>2. PICK i \in DOMAIN batch[b].fresh, k \in Keys :
        /\ i = batch[b].next /\ k = batch[b].fresh[i] /\ Loaded(b, k)
        /\ batch[b].fresh # <<>> /\ DOMAIN batch[b].fresh \subseteq Nat \ {0}
  BY <1>1, NextFresh
<1>3. /\ UNCHANGED <<group, callerVars>>
      /\ cached' \in [Keys -> {"none", "value", "absent"}]
      /\ \/ call' = Invalidated(k)
         \/ call' = call /\ (call[b][k].valid => ~Storable(k, call[b][k].result))
  BY <1>2 DEF Publish, BatchInv, TypeOK
<1>4. /\ call' \in [Callers -> [Keys -> Calls]]
      /\ call'[b][k].valid => ~Storable(k, call[b][k].result)
      /\ \A a \in Callers, j \in Keys :
            /\ call'[a][j].valid => call[a][j].valid
            /\ call'[a][j].stopped = call[a][j].stopped
            /\ call'[a][j].done = call[a][j].done
            /\ call'[a][j].waiters = call[a][j].waiters
            /\ call'[a][j].result = call[a][j].result
  <2>1. CASE call' = Invalidated(k)
    BY <2>1, CallInvalid DEF BatchInv
  <2>2. CASE call' = call /\ (call[b][k].valid => ~Storable(k, call[b][k].result))
    BY <2>2 DEF BatchInv, TypeOK
  <2>3. QED
    BY <1>3, <2>1, <2>2
<1>5. PICK n \in Nat, state \in States :
            /\ Moved(b, state, n) /\ n \in DOMAIN batch[b].fresh
            /\ \/ state = "publishing" /\ n = i + 1
               \/ /\ state = "finishing" /\ n = 1
                  /\ \A h \in DOMAIN batch[b].fresh : h <= i
  <2>1. Advance(b, "finishing") /\ "finishing" \in States
    BY DEF Publish, States
  <2>2. QED
    BY <1>1, <1>2, <2>1, AdvanceTo
<1>6. /\ batch'[b].state = state /\ batch'[b].next = n /\ batch'[b].fresh = batch[b].fresh
      /\ \A a \in Callers : a # b => batch'[a] = batch[a]
  BY <1>5, BatchMoved DEF BatchInv
<1>7. GroupInv'
  <2>1. \A a \in Callers, j \in Keys : Wanted(a, j)' <=> Wanted(a, j)
    BY <1>4, <1>6, WantedSame
  <2>2. QED
    BY <1>3, <1>4, <2>1, GroupSame
<1>8. Flowing(b)'
  <2>1. Flowing(b) /\ \A h \in DOMAIN batch[b].fresh : batch[b].fresh[h] \in Keys
    BY FreshIsLoaded DEF BatchInv, FlowInv
  <2>2. \A h \in DOMAIN batch[b].fresh :
            /\ ~Finished(b, h) /\ ~Finished(b, h)'
            /\ Published(b, h)' => Published(b, h) \/ h = i
    BY <1>1, <1>2, <1>5, <1>6 DEF Finished, Published
  <2>3. \A j \in Keys : Loaded(b, j)' <=> Loaded(b, j)
    BY <1>6 DEF Loaded
  <2>4. ASSUME NEW h \in DOMAIN batch[b].fresh, Published(b, h)',
               call'[b][batch[b].fresh[h]].valid
        PROVE  ~Storable(batch[b].fresh[h], call'[b][batch[b].fresh[h]].result)
    <3>1. CASE h = i
      BY <1>4, <1>2, <2>4, <3>1
    <3>2. CASE Published(b, h)
      BY <1>4, <2>1, <2>4, <3>2 DEF Flowing
    <3>3. QED
      BY <2>2, <2>4, <3>1, <3>2
  <2>5. \A h \in DOMAIN batch[b].fresh : ~call'[b][batch[b].fresh[h]].done
    BY <1>4, <2>1, <2>2 DEF Flowing
  <2>6. \A j \in Keys : /\ Loaded(b, j)' => call'[b][j].result # NoResult
                        /\ call'[b][j].valid => Loaded(b, j)'
    BY <1>1, <1>4, <2>1, <2>3 DEF Flowing
  <2>7. NoRepeats(batch[b].fresh)
    BY <2>1 DEF Flowing
  <2>8. QED
    BY <1>5, <1>6, <1>2, <2>2, <2>4, <2>5, <2>6, <2>7 DEF Flowing
<1>9. group' \in [Keys -> Callers \cup {None}]
  BY <1>3 DEF BatchInv, TypeOK
<1>10. state # "filling"
  BY <1>5
<1>11. QED
  BY <1>1, <1>3, <1>4, <1>5, <1>7, <1>8, <1>9, <1>10, GoesOn

\* A call object is done.
DoneRecord(old) == [old EXCEPT !.done = TRUE]
LEMMA RecordDone ==
  ASSUME NEW old \in Calls
  PROVE  LET r == DoneRecord(old) IN
         /\ r \in Calls /\ r.done /\ r.stopped = old.stopped /\ r.valid = old.valid
         /\ r.waiters = old.waiters /\ r.result = old.result
  BY DEF DoneRecord, Calls

DoneAt(b, k) == call' = [call EXCEPT ![b][k].done = TRUE]
LEMMA CallDone ==
  ASSUME TypeOK, NEW b \in Callers, NEW k \in Keys, DoneAt(b, k)
  PROVE  /\ call' \in [Callers -> [Keys -> Calls]] /\ call'[b][k].done
         /\ \A a \in Callers, j \in Keys :
                /\ a # b \/ j # k => call'[a][j] = call[a][j]
                /\ call'[a][j].valid = call[a][j].valid
                /\ call'[a][j].stopped = call[a][j].stopped
                /\ call'[a][j].waiters = call[a][j].waiters
                /\ call'[a][j].result = call[a][j].result
<1>1. call[b][k] \in Calls
  BY DEF TypeOK
<1>2. PICK r \in Calls : /\ r = DoneRecord(call[b][k]) /\ r.done
                         /\ r.valid = call[b][k].valid /\ r.stopped = call[b][k].stopped
                         /\ r.waiters = call[b][k].waiters /\ r.result = call[b][k].result
  BY <1>1, RecordDone
<1>3. call' = [call EXCEPT ![b][k] = r]
  BY <1>2 DEF DoneAt, DoneRecord
<1>4. /\ call' \in [Callers -> [Keys -> Calls]] /\ call'[b][k] = r
      /\ \A a \in Callers, j \in Keys : a # b \/ j # k => call'[a][j] = call[a][j]
  BY <1>3 DEF TypeOK
<1>5. QED
  BY <1>2, <1>4

\* What is over is nobody's to join.
LEMMA FinishInv == ASSUME BatchInv, NEW b \in Callers, Finish(b) PROVE BatchInv'
<1>1. batch[b].state = "finishing"
  BY DEF Finish
<1>2. PICK i \in DOMAIN batch[b].fresh, k \in Keys :
        /\ i = batch[b].next /\ k = batch[b].fresh[i] /\ Loaded(b, k)
        /\ batch[b].fresh # <<>> /\ DOMAIN batch[b].fresh \subseteq Nat \ {0}
  BY <1>1, NextFresh
<1>3. /\ UNCHANGED <<cached, callerVars>> /\ DoneAt(b, k)
      /\ group' = IF group[k] = b THEN [group EXCEPT ![k] = None] ELSE group
  BY <1>2 DEF Finish, DoneAt
<1>4. /\ call' \in [Callers -> [Keys -> Calls]] /\ call'[b][k].done
      /\ \A a \in Callers, j \in Keys :
            /\ a # b \/ j # k => call'[a][j] = call[a][j]
            /\ call'[a][j].valid = call[a][j].valid
            /\ call'[a][j].stopped = call[a][j].stopped
            /\ call'[a][j].waiters = call[a][j].waiters
            /\ call'[a][j].result = call[a][j].result
  BY <1>3, CallDone DEF BatchInv
<1>5. PICK n \in Nat, state \in States :
            /\ Moved(b, state, n) /\ n \in DOMAIN batch[b].fresh
            /\ \/ state = "finishing" /\ n = i + 1
               \/ /\ state = "exiting" /\ n = 1
                  /\ \A h \in DOMAIN batch[b].fresh : h <= i
  <2>1. Advance(b, "exiting") /\ "exiting" \in States
    BY DEF Finish, States
  <2>2. QED
    BY <1>1, <1>2, <2>1, AdvanceTo
<1>6. /\ batch'[b].state = state /\ batch'[b].next = n
      /\ \A a \in Callers : batch'[a].fresh = batch[a].fresh
      /\ \A a \in Callers : a # b => batch'[a] = batch[a]
  BY <1>5, BatchMoved DEF BatchInv
<1>7. /\ group' \in [Keys -> Callers \cup {None}]
      /\ group'[k] # b
      /\ \A j \in Keys : \/ group'[j] = group[j]
                         \/ j = k /\ group[j] = b /\ group'[j] = None
  BY <1>3, NoneAssumption DEF BatchInv, TypeOK
<1>8. \A a \in Callers, j \in Keys :
        /\ Loaded(a, j)' <=> Loaded(a, j)
        /\ Wanted(a, j)' <=> Wanted(a, j) /\ ~(a = b /\ j = k)
  <2>1. \A a \in Callers, j \in Keys : Loaded(a, j)' <=> Loaded(a, j)
    BY <1>6 DEF Loaded
  <2>2. \A a \in Callers, j \in Keys : a # b \/ j # k => (Wanted(a, j)' <=> Wanted(a, j))
    BY <1>4, <1>6, WantedSame
  <2>3. ~Wanted(b, k)'
    BY <1>4 DEF Wanted, Unfinished
  <2>4. QED
    BY <2>1, <2>2, <2>3
<1>9. GroupInv'
  <2>1. ASSUME NEW j \in Keys, group'[j] # None
        PROVE  \E a \in Callers : a = group'[j] /\ Wanted(a, j)'
    <3>1. PICK a \in Callers : a = group[j] /\ a = group'[j] /\ Wanted(a, j)
      BY <1>7, <2>1 DEF BatchInv, TypeOK, GroupInv
    <3>2. QED
      BY <1>7, <1>8, <3>1
  <2>2. \A j \in Keys : group'[j] # None => Wanted(group[j], j)'
    BY <2>1
  <2>3. ASSUME NEW a \in Callers, NEW j \in Keys, Wanted(a, j)', call'[a][j].valid
        PROVE  group'[j] = a
    <3>1. group[j] = a /\ ~(a = b /\ j = k)
      BY <1>4, <1>8, <2>3 DEF BatchInv, GroupInv
    <3>2. QED
      BY <1>7, <3>1
  <2>4. QED
    BY <2>2, <2>3 DEF GroupInv
<1>10. Flowing(b)'
  <2>1. Flowing(b) /\ \A h \in DOMAIN batch[b].fresh : batch[b].fresh[h] \in Keys
    BY FreshIsLoaded DEF BatchInv, FlowInv
  <2>2. \A h \in DOMAIN batch[b].fresh :
            /\ Finished(b, h)' <=> Finished(b, h) \/ h = i
            /\ Published(b, h)
    BY <1>1, <1>2, <1>5, <1>6 DEF Finished, Published
  <2>3. NoRepeats(batch[b].fresh) /\ \A h \in DOMAIN batch[b].fresh :
            batch[b].fresh[h] = k <=> h = i
    BY <1>2, <2>1 DEF Flowing, NoRepeats
  <2>4. \A h \in DOMAIN batch[b].fresh :
            call'[b][batch[b].fresh[h]].done <=> Finished(b, h)'
    <3> SUFFICES ASSUME NEW h \in DOMAIN batch[b].fresh
                 PROVE  call'[b][batch[b].fresh[h]].done <=> Finished(b, h)'
      OBVIOUS
    <3>1. CASE h = i
      BY <1>4, <1>2, <2>2, <3>1
    <3>2. CASE h # i
      BY <1>4, <2>1, <2>2, <2>3, <3>2 DEF Flowing
    <3>3. QED
      BY <3>1, <3>2
  <2>5. \A h \in DOMAIN batch[b].fresh : call'[b][batch[b].fresh[h]].valid =>
            ~Storable(batch[b].fresh[h], call'[b][batch[b].fresh[h]].result)
    BY <1>4, <2>1, <2>2 DEF Flowing
  <2>6. \A j \in Keys : /\ Loaded(b, j)' => call'[b][j].result # NoResult
                        /\ call'[b][j].valid => Loaded(b, j)'
    BY <1>1, <1>4, <1>8, <2>1 DEF Flowing
  <2>7. QED
    BY <1>5, <1>6, <1>2, <2>3, <2>4, <2>5, <2>6 DEF Flowing
<1>11. /\ state # "filling" /\ cached' \in [Keys -> {"none", "value", "absent"}]
      /\ UNCHANGED callerVars
  BY <1>3, <1>5 DEF BatchInv, TypeOK
<1>12. \A a \in Callers, j \in Keys :
            /\ call[a][j].done => call'[a][j].done
            /\ a # b => /\ call'[a][j].done = call[a][j].done
                        /\ call'[a][j].result = call[a][j].result
  BY <1>4
<1>13. QED
  BY <1>1, <1>4, <1>5, <1>7, <1>9, <1>10, <1>11, <1>12, GoesOn

\* The batch is gone, with the tokens it has left.
ExitRecord(old) == [old EXCEPT !.state = "gone", !.cancelled = TRUE]
LEMMA RecordExit ==
  ASSUME NEW old \in BatchRecords
  PROVE  LET r == ExitRecord(old) IN
         /\ r \in BatchRecords /\ r.state = "gone" /\ r.live = old.live /\ r.next = old.next
         /\ r.refresh = old.refresh /\ r.fresh = old.fresh
  BY DEF ExitRecord, BatchRecords, States

LEMMA ExitInv == ASSUME BatchInv, NEW b \in Callers, Exit(b) PROVE BatchInv'
<1>1. batch[b].state = "exiting" /\ UNCHANGED <<cached, group, callerVars>>
  BY DEF Exit, cacheVars
<1>2. \A a \in Callers, j \in Keys : call[a][j] \in Calls
  BY DEF BatchInv, TypeOK
<1>3. PICK calls \in [Keys -> Calls] : \A j \in Keys : calls[j] = InvalidRecord(call[b][j])
  <2>1. [j \in Keys |-> InvalidRecord(call[b][j])] \in [Keys -> Calls]
    BY <1>2, RecordInvalid
  <2>2. QED
    BY <2>1
<1>4. call' = [call EXCEPT ![b] = calls]
  <2>1. calls = [j \in Keys |-> InvalidRecord(call[b][j])]
    BY <1>3
  <2>2. QED
    BY <2>1 DEF Exit, InvalidRecord
<1>5. /\ call' \in [Callers -> [Keys -> Calls]] /\ call'[b] = calls
      /\ \A a \in Callers : a # b => call'[a] = call[a]
  BY <1>4 DEF BatchInv, TypeOK
<1>6. \A j \in Keys : /\ ~calls[j].valid /\ calls[j].done = call[b][j].done
                      /\ calls[j].stopped = call[b][j].stopped
                      /\ calls[j].waiters = call[b][j].waiters
                      /\ calls[j].result = call[b][j].result
  BY <1>2, <1>3, RecordInvalid
<1>7. \A a \in Callers, j \in Keys :
        /\ call'[a][j].valid => call[a][j].valid
        /\ call'[a][j].stopped = call[a][j].stopped
        /\ call'[a][j].done = call[a][j].done
        /\ call'[a][j].waiters = call[a][j].waiters
        /\ call'[a][j].result = call[a][j].result
  BY <1>5, <1>6
<1>8. PICK r \in BatchRecords : /\ r = ExitRecord(batch[b]) /\ r.state = "gone"
                                /\ r.live = batch[b].live /\ r.next = batch[b].next
                                /\ r.refresh = batch[b].refresh /\ r.fresh = batch[b].fresh
  BY RecordExit DEF BatchInv, TypeOK
<1>9. batch' = [batch EXCEPT ![b] = r]
  BY <1>8 DEF Exit, ExitRecord
<1>10. /\ batch' \in [Callers -> BatchRecords] /\ batch'[b] = r
      /\ \A a \in Callers : a # b => batch'[a] = batch[a]
  BY <1>9 DEF BatchInv, TypeOK
<1>11. GroupInv'
  <2>1. \A a \in Callers : batch'[a].fresh = batch[a].fresh
    BY <1>8, <1>10
  <2>2. \A a \in Callers, j \in Keys : Wanted(a, j)' <=> Wanted(a, j)
    BY <1>7, <2>1, WantedSame
  <2>3. QED
    BY <1>1, <1>7, <2>2, GroupSame
<1>12. FlowInv'
  <2>1. ASSUME NEW a \in Callers, a # b PROVE Flowing(a)'
    BY <1>7, <1>10, <2>1, FlowingSame
  <2>2. Flowing(b)'
    <3>1. Flowing(b) /\ \A h \in DOMAIN batch[b].fresh : batch[b].fresh[h] \in Keys
      BY FreshIsLoaded DEF BatchInv, FlowInv
    <3>2. /\ batch'[b].fresh = batch[b].fresh /\ batch'[b].next = batch[b].next
          /\ batch'[b].state = "gone"
      BY <1>8, <1>10
    <3>3. /\ \A h : Finished(b, h) /\ Finished(b, h)'
          /\ \A j \in Keys : Loaded(b, j)' <=> Loaded(b, j)
      BY <1>1, <3>2 DEF Finished, Loaded
    <3>4. \A j \in Keys : ~call'[b][j].valid
      BY <1>5, <1>6
    <3>5. \A h \in DOMAIN batch[b].fresh : call'[b][batch[b].fresh[h]].done
      BY <1>7, <3>1, <3>3 DEF Flowing
    <3>6. \A j \in Keys : Loaded(b, j)' => call'[b][j].result # NoResult
      BY <1>1, <1>7, <3>1, <3>3 DEF Flowing
    <3>7. NoRepeats(batch[b].fresh) /\ batch[b].next = 1
          /\ (batch[b].fresh # <<>> => batch[b].next \in DOMAIN batch[b].fresh)
      BY <1>1, <3>1 DEF Flowing
    <3>8. QED
      BY <3>1, <3>2, <3>3, <3>4, <3>5, <3>6, <3>7 DEF Flowing
  <2>3. QED
    BY <2>1, <2>2 DEF FlowInv
<1>13. TypeOK'
  BY <1>1, <1>5, <1>10 DEF BatchInv, TypeOK, callerVars
<1>14. \A a \in Callers :
        /\ batch'[a].fresh = batch[a].fresh /\ batch'[a].live = batch[a].live
        /\ \/ batch'[a] = batch[a]
           \/ /\ batch[a].state # "filling" /\ batch'[a].state = "gone"
              /\ batch'[a].refresh = batch[a].refresh
  BY <1>1, <1>8, <1>10
<1>15. QED
  BY <1>1, <1>7, <1>11, <1>12, <1>13, <1>14, LoadsMove

\* A write or an invalidation takes tokens; what expires or is evicted takes none.
LEMMA ElsewhereInv ==
  ASSUME BatchInv, NEW k \in Keys, Delete(k) \/ Forget(k) PROVE BatchInv'
<1>1. /\ UNCHANGED <<group, batch, callerVars>>
      /\ cached' \in [Keys -> {"none", "value", "absent"}]
      /\ call' = Invalidated(k) \/ call' = call
  BY DEF Delete, Forget, BatchInv, TypeOK
<1>2. /\ call' \in [Callers -> [Keys -> Calls]]
      /\ \A a \in Callers, j \in Keys :
            /\ call'[a][j].valid => call[a][j].valid
            /\ call'[a][j].stopped = call[a][j].stopped
            /\ call'[a][j].done = call[a][j].done
            /\ call'[a][j].waiters = call[a][j].waiters
            /\ call'[a][j].result = call[a][j].result
  <2>1. CASE call' = Invalidated(k)
    BY <2>1, CallInvalid DEF BatchInv
  <2>2. CASE call' = call
    BY <2>2 DEF BatchInv, TypeOK
  <2>3. QED
    BY <1>1, <2>1, <2>2
<1>3. TypeOK'
  BY <1>1, <1>2 DEF BatchInv, TypeOK, callerVars
<1>4. GroupInv'
  <2>1. \A a \in Callers, j \in Keys : Wanted(a, j)' <=> Wanted(a, j)
    BY <1>1, <1>2, WantedSame
  <2>2. QED
    BY <1>1, <1>2, <2>1, GroupSame
<1>5. FlowInv'
  BY <1>1, <1>2, FlowingSame DEF FlowInv
<1>6. QED
  BY <1>1, <1>2, <1>3, <1>4, <1>5, LoadsMove

LEMMA StutterInv == ASSUME BatchInv, UNCHANGED vars PROVE BatchInv'
<1> USE DEF vars, cacheVars, callerVars
<1>1. TypeOK'
  BY DEF BatchInv, TypeOK
<1>2. GroupInv'
  <2>1. \A a \in Callers, j \in Keys : Wanted(a, j)' <=> Wanted(a, j)
    BY WantedSame
  <2>2. QED
    BY <2>1, GroupSame
<1>3. FlowInv'
  BY FlowingSame DEF FlowInv
<1>4. QED
  BY <1>1, <1>2, <1>3, LoadsMove

-----------------------------------------------------------------------------
LEMMA NextInv == ASSUME BatchInv, [Next]_vars PROVE BatchInv'
<1>1. ASSUME NEW c \in Callers, NEW keys \in KeyLists, GetMany(c, keys) \/ RefreshMany(c, keys)
      PROVE  BatchInv'
  BY <1>1, GetManyInv, RefreshManyInv
<1>2. ASSUME NEW c \in Callers, GiveUp(c) \/ MoveOn(c) PROVE BatchInv'
  BY <1>2, AcquireJoinInv, AcquireSkipInv, RegisterInv, StartInv, GoOnInv, LeaveInv, CancelInv
     DEF MoveOn
<1>3. ASSUME NEW b \in Callers, BatchStep(b) PROVE BatchInv'
  BY <1>3, LoaderReturnsInv, PublishInv, CostPanicsInv, FinishInv, ExitInv DEF BatchStep
<1>4. ASSUME NEW k \in Keys, Delete(k) \/ Forget(k) PROVE BatchInv'
  BY <1>4, ElsewhereInv
<1>5. QED
  BY <1>1, <1>2, <1>3, <1>4, StutterInv DEF Next, CallerStep

\* A waiter is counted once, a load of the group is wanted, a stopped one is not, and
\* a batch has answered as many of its keys as it has come to: the inductive invariant
\* of the batch loader (loader_batch.go).
THEOREM Invariance == Spec => []BatchInv
<1>1. Init => BatchInv
  BY InitInv
<1>2. BatchInv /\ [Next]_vars => BatchInv'
  BY NextInv
<1>3. QED
  BY <1>1, <1>2, PTL DEF Spec

\* waiters is what it says while a key's load runs (batch.join and leave): each caller
\* that has acquired the key and has not left counts once, a refresh counts itself, and
\* no count goes below zero.
THEOREM EveryWaiterCounted == Spec => []WaitersCounted
<1>1. BatchInv => WaitersCounted
  <2> SUFFICES ASSUME BatchInv, NEW b \in Callers, NEW k \in Keys, Unfinished(b, k)
               PROVE  call[b][k].waiters =
                        Cardinality({c \in Callers :
                            /\ Waits(c, b, k)
                            /\ ~(pc[c] = "cancel" /\ Head(waits[c]) = <<b, k>>)})
                        + (IF batch[b].refresh THEN 1 ELSE 0)
    BY DEF WaitersCounted, BatchInv
  <2>1. call[b][k].waiters = Counted(b, k)
    BY DEF BatchInv, CountInv
  <2>2. Refreshed(b, k) <=> batch[b].refresh
    BY DEF Refreshed, Loaded, Unfinished
  <2>3. QED
    BY <2>1, <2>2 DEF Counted, Waiters, Waiting
<1>2. QED
  BY <1>1, Invariance, PTL

\* "The context is cancelled once no caller waits for any of its keys" (cache.go:164),
\* and no sooner: not while keys are still being added, and never a refresh.
THEOREM AbandonedOnly == Spec => []OnlyAbandonedCancelled
<1>1. BatchInv => OnlyAbandonedCancelled
  <2> SUFFICES ASSUME BatchInv, NEW b \in Callers, batch[b].cancelled, batch[b].state # "gone"
               PROVE  /\ batch[b].state # "filling" /\ Abandoned(b)
                      /\ \A k \in FreshKeys(b) : ~Unfinished(b, k) \/ group[k] # b
    BY DEF OnlyAbandonedCancelled
  <2>1. batch[b].state # "filling" /\ Cardinality(Live(b)) = 0
    BY DEF BatchInv, StopInv, Stops
  <2>2. Live(b) = {}
    BY <2>1, LiveFinite, FS_EmptySet
  <2>3. \A k \in Keys : Loaded(b, k) => call[b][k].waiters = 0
    BY <2>2 DEF Live, BatchInv, StopInv, Stops
  <2>4. FreshKeys(b) \subseteq Keys
    BY FreshIsLoaded DEF FreshKeys, BatchInv
  <2>5. ~batch[b].refresh
    <3>1. PICK k \in Keys : Loaded(b, k)
      <4>1. batch[b].fresh # <<>> /\ batch[b].fresh \in Seq(Keys)
        BY <2>1 DEF BatchInv, FlowInv, Flowing, TypeOK, BatchRecords
      <4>2. QED
        BY <4>1, InSome DEF Loaded
    <3>2. call[b][k].waiters = 0 /\ call[b][k].waiters >= Counted(b, k)
      BY <2>3, <3>1 DEF BatchInv, CountInv
    <3>3. batch[b].refresh => Counted(b, k) >= 1
      BY <3>1, WaitersFinite DEF Counted, Refreshed
    <3>4. QED
      BY <3>2, <3>3, CountType
  <2>6. \A k \in FreshKeys(b) : call[b][k].waiters = 0
    BY <2>3, <2>4, LoadedFresh
  <2>7. \A k \in FreshKeys(b) : group[k] # b
    <3> SUFFICES ASSUME NEW k \in FreshKeys(b), group[k] = b PROVE FALSE
      OBVIOUS
    <3>1. Wanted(b, k)
      BY <2>4, NoneAssumption DEF BatchInv, GroupInv
    <3>2. QED
      BY <2>6, <3>1 DEF Wanted
  <2>8. QED
    BY <2>1, <2>5, <2>6, <2>7 DEF Abandoned
<1>2. QED
  BY <1>1, Invariance, PTL

\* "Single flight and invalidation work per key" (loader_batch.go:14): of a key's
\* loads, in whichever batches, one can be joined or still publish.
THEOREM OneFlightPerKey == Spec => []SingleFlight
<1>1. BatchInv => SingleFlight
  BY DEF BatchInv, GroupInv, Wanted, SingleFlight
<1>2. QED
  BY <1>1, Invariance, PTL

\* Every key of a batch is answered before it is done, and what can be stored was,
\* unless its token had gone (runBatch), wherever a panic interrupts the keys and
\* whichever of them the shard refuses.
THEOREM EveryKeyAnswered == Spec => []AnsweredAndStored
<1>1. BatchInv => AnsweredAndStored
  <2> SUFFICES ASSUME BatchInv, NEW c \in Callers, NEW b \in Callers, NEW k \in Keys,
                      Waits(c, b, k), call[b][k].done
               PROVE  /\ call[b][k].result # NoResult
                      /\ call[b][k].valid => ~Storable(k, call[b][k].result)
    BY DEF AnsweredAndStored
  <2>1. Loaded(b, k)
    BY DEF BatchInv, PlaceInv, Placed
  <2>2. PICK i \in DOMAIN batch[b].fresh : batch[b].fresh[i] = k
    BY <2>1 DEF Loaded, In
  <2>3. Finished(b, i)
    BY <2>2 DEF BatchInv, FlowInv, Flowing
  <2>4. batch[b].state \notin {"filling", "running"} /\ Published(b, i)
    BY <2>3 DEF Finished, Published
  <2>5. QED
    BY <2>1, <2>2, <2>4 DEF BatchInv, FlowInv, Flowing
<1>2. QED
  BY <1>1, Invariance, PTL

=============================================================================
