------------------------------- MODULE Shard --------------------------------
(***************************************************************************)
(* One shard under its write lock: the map, the intrusive lists, the byte  *)
(* accounts and the three eviction policies of shard.go and s3fifo.go.     *)
(*                                                                         *)
(* An entry is named by its key, since the shard holds one per key.  The   *)
(* shard is one record, and each function of the code that rewires it is   *)
(* an operator from the record to the record.  set() is a step that        *)
(* inserts, one step per round of evict(), and one in which evict() has    *)
(* nothing left to do and the lock, held all along, is let go (storing     *)
(* names the entry that evict must keep).                                  *)
(***************************************************************************)
EXTENDS Integers, FiniteSets, FiniteSetsExt, Sequences

CONSTANTS
    Keys,
    Hashes, Hash,       \* Hash[k] is maphash.Comparable(seed, k)
    None,               \* nil
    Policies,           \* those of Options.Policy to look at
    MaxBytes, MaxEntries,   \* the shard's budget; zero means unlimited
    Costs,              \* what an entry may cost
    SmallShare,         \* smallShare: 10 in the code
    MaxFreq             \* maxFreq: 3 in the code

AllPolicies == {"LRU", "ClearOnFull", "S3FIFO"}
ASSUME PolicyAssumption == Policies \subseteq AllPolicies
ASSUME BudgetAssumption == /\ MaxBytes \in Nat /\ MaxEntries \in Nat
                           /\ SmallShare \in Nat \ {0} /\ MaxFreq \in Nat
                           /\ Costs \subseteq Nat
ASSUME HashAssumption == Hash \in [Keys -> Hashes] /\ None \notin Keys
ASSUME KeysAssumption == IsFiniteSet(Keys) /\ None \notin Costs

VARIABLES
    s,          \* the shard
    storing,    \* the key whose set() holds the lock, or None
    seen,       \* history: what each key's entry costs, as of the last unlock
    recency     \* history: under LRU, <<j, k>> if j, cached, was used after k, cached

vars == <<s, storing, seen, recency>>

-----------------------------------------------------------------------------
Entries == [cost : Costs \cup {0}, freq : 0..MaxFreq, small : BOOLEAN,
            prev : Keys \cup {None}, next : Keys \cup {None}]
NoEntry == [cost |-> 0, freq |-> 0, small |-> FALSE, prev |-> None, next |-> None]

\* ghosts.set maps a ghost's hash to the number of its last add, counted from
\* ghosts.first: add number first+i is queue[i].
NotGhost == -1
Shards == [items : SUBSET Keys, e : [Keys -> Entries],
           head : Keys \cup {None}, tail : Keys \cup {None},
           smallHead : Keys \cup {None}, smallTail : Keys \cup {None},
           bytes : Int, smallBytes : Int, smallLen : Int,
           set : [Hashes -> Nat \cup {NotGhost}], queue : Seq(Hashes),
           policy : AllPolicies]

TypeOK ==
    /\ s \in Shards
    /\ storing \in Keys \cup {None}
    /\ seen \in [Keys -> Costs \cup {None}]
    /\ recency \subseteq Keys \X Keys

Empty(policy) ==
         [items |-> {}, e |-> [k \in Keys |-> NoEntry],
          head |-> None, tail |-> None, smallHead |-> None, smallTail |-> None,
          bytes |-> 0, smallBytes |-> 0, smallLen |-> 0,
          set |-> [h \in Hashes |-> NotGhost], queue |-> <<>>,
          policy |-> policy]

Init ==
    /\ \E policy \in Policies : s = Empty(policy)
    /\ storing = None
    /\ seen = [k \in Keys |-> None]
    /\ recency = {}

-----------------------------------------------------------------------------
(* The lists.                                                              *)

\* The entries around k let go of it, and it of them.
Detach(e, k) ==
    [j \in Keys |->
        IF j = k THEN [e[k] EXCEPT !.prev = None, !.next = None]
        ELSE [e[j] EXCEPT !.next = IF j = e[k].prev THEN e[k].next ELSE @,
                          !.prev = IF j = e[k].next THEN e[k].prev ELSE @]]

\* Entry k goes in front of the list whose head is h.
Attach(e, k, h) ==
    [j \in Keys |->
        IF j = k THEN [e[k] EXCEPT !.prev = None, !.next = h]
        ELSE [e[j] EXCEPT !.prev = IF j = h THEN k ELSE @]]

\* unlink()
Unlink(t, k) ==
    [t EXCEPT !.e = Detach(t.e, k),
              !.head = IF t.e[k].prev = None /\ @ = k THEN t.e[k].next ELSE @,
              !.tail = IF t.e[k].next = None /\ @ = k THEN t.e[k].prev ELSE @]

\* pushFront()
PushFront(t, k) ==
    [t EXCEPT !.e = Attach(t.e, k, t.head),
              !.head = k,
              !.tail = IF @ = None THEN k ELSE @]

\* Mutant: a read leaves its entry where it is.
TouchNothing(t, k) == t

\* touch()
Touch(t, k) == IF t.head = k THEN t ELSE PushFront(Unlink(t, k), k)

\* unlinkSmall()
UnlinkSmall(t, k) ==
    [t EXCEPT !.e = Detach(t.e, k),
              !.smallHead = IF t.e[k].prev = None /\ @ = k THEN t.e[k].next ELSE @,
              !.smallTail = IF t.e[k].next = None /\ @ = k THEN t.e[k].prev ELSE @,
              !.smallBytes = @ - t.e[k].cost,
              !.smallLen = @ - 1]

\* The last case of admit()
PushFrontSmall(t, k) ==
    [t EXCEPT !.e = [Attach(t.e, k, t.smallHead) EXCEPT ![k].small = TRUE],
              !.smallHead = k,
              !.smallTail = IF @ = None THEN k ELSE @,
              !.smallBytes = @ + t.e[k].cost,
              !.smallLen = @ + 1]

\* delete() of the map, and the bytes; the entry is garbage.
Discard(t, k) ==
    [t EXCEPT !.items = @ \ {k}, !.bytes = @ - t.e[k].cost, !.e[k] = NoEntry]

\* Mutant: every entry is taken for one of the main queue.
RemoveFromMain(t, k) == Discard(Unlink(t, k), k)

\* remove()
Remove(t, k) == Discard(IF t.e[k].small THEN UnlinkSmall(t, k) ELSE Unlink(t, k), k)

-----------------------------------------------------------------------------
(* The ghosts of S3FIFO.                                                   *)

\* ghosts.take(): the hash stays in the queue.
Take(t, h) == [t EXCEPT !.set[h] = NotGhost]

\* ghosts.add(): the hash goes in, numbered, and the oldest go out beyond limit.
Numbered(t, h) == [t.set EXCEPT ![h] = Len(t.queue)]
Beyond(t, limit) == Max({0, Len(t.queue) + 1 - Max({limit, 1})})

\* What is left of the numbers once the oldest out have left the queue.
Forget(set, forgotten, out) ==
    [h \in Hashes |-> IF set[h] = NotGhost \/ h \in forgotten THEN NotGhost ELSE set[h] - out]

\* Mutant: what leaves the queue is forgotten, even if it was added again.
AddGhostForgetting(t, h, limit) ==
    LET queue == Append(t.queue, h)
        out == Beyond(t, limit)
    IN [t EXCEPT
        !.queue = SubSeq(queue, out + 1, Len(queue)),
        !.set = Forget(Numbered(t, h), {queue[i] : i \in 1..out}, out)]

AddGhost(t, h, limit) ==
    LET queue == Append(t.queue, h)
        set == Numbered(t, h)
        out == Beyond(t, limit)
    IN [t EXCEPT
        !.queue = SubSeq(queue, out + 1, Len(queue)),
        !.set = Forget(set, {queue[i] : i \in {n \in 1..out : set[queue[n]] = n - 1}}, out)]

-----------------------------------------------------------------------------
(* The budget and the policies.                                            *)

Exceeds(bytes, entries) ==
    \/ MaxBytes > 0 /\ bytes > MaxBytes
    \/ MaxEntries > 0 /\ entries > MaxEntries

\* over()
Over(t) == Exceeds(t.bytes, Cardinality(t.items))

\* smallFull()
SmallFull(t) ==
    \/ MaxBytes > 0 /\ t.smallBytes >= Max({MaxBytes \div SmallShare, 1})
    \/ MaxEntries > 0 /\ t.smallLen >= Max({MaxEntries \div SmallShare, 1})

\* admit(), old being the entry that k replaces, or NoEntry.
Admit(t, k, replaces, old) ==
    CASE replaces /\ ~old.small -> PushFront([t EXCEPT !.e[k].freq = old.freq], k)
      [] ~(replaces /\ ~old.small) /\ t.set[Hash[k]] # NotGhost ->
            PushFront(Take(t, Hash[k]), k)
      [] OTHER -> PushFrontSmall(t, k)

\* set(), up to evict().
Insert(t, k, cost) ==
    LET replaces == k \in t.items
        removed == IF replaces THEN Remove(t, k) ELSE t
        added == [removed EXCEPT !.items = @ \cup {k},
                                 !.bytes = @ + cost,
                                 !.e[k] = [NoEntry EXCEPT !.cost = cost]]
    IN IF t.policy = "S3FIFO" THEN Admit(added, k, replaces, t.e[k])
                            ELSE PushFront(added, k)

\* One round of the LRU loop of evict(): its victim, or None when it ends.
OldestLRU(t, keep) == IF t.tail # keep THEN t.tail ELSE None

\* Mutant: keep is left linked to what was evicted.
KeepOnlyLinked(t, keep) ==
    [t EXCEPT !.items = {keep}, !.head = keep, !.tail = keep, !.bytes = t.e[keep].cost]

\* evict() under ClearOnFull: everything but keep.
KeepOnly(t, keep) ==
    [t EXCEPT !.items = {keep},
              !.head = keep, !.tail = keep,
              !.bytes = t.e[keep].cost,
              !.e = [k \in Keys |-> IF k = keep
                        THEN [t.e[k] EXCEPT !.prev = None, !.next = None] ELSE NoEntry]]

MainEmpty(t, keep) == t.tail = None \/ (t.tail = keep /\ t.e[keep].prev = None)
SmallGives(t, keep) ==
    t.smallTail \notin {None, keep} /\ (SmallFull(t) \/ MainEmpty(t, keep))

\* The small queue gives up its oldest entry: to the main queue if it was read
\* since it came in, out as a ghost otherwise.
GiveSmall(t) ==
    LET k == t.smallTail
        u == UnlinkSmall(t, k)
    IN IF t.e[k].freq > 0
          THEN PushFront([u EXCEPT !.e[k].small = FALSE, !.e[k].freq = 0], k)
          ELSE LET v == Discard(u, k) IN AddGhost(v, Hash[k], Cardinality(v.items))

\* Mutant: the oldest entry is taken even if it is the one being stored.
OldestMainOrKeep(t, keep) == t.tail

\* The main queue's oldest entry goes round again, one read the poorer, or out.
OldestMain(t, keep) == IF t.tail = keep /\ keep # None THEN t.e[keep].prev ELSE t.tail

\* Mutant: an entry goes round without losing a read.
GiveMainForEver(t, k) == IF t.e[k].freq > 0 THEN Touch(t, k) ELSE Remove(t, k)

GiveMain(t, k) ==
    IF t.e[k].freq > 0 THEN Touch([t EXCEPT !.e[k].freq = @ - 1], k) ELSE Remove(t, k)

-----------------------------------------------------------------------------
(* Steps.                                                                  *)

Seen(t) == [k \in Keys |-> IF k \in t.items THEN t.e[k].cost ELSE None]
Used(k) == recency' = IF s.policy = "LRU"
                      THEN {p \in recency : k # p[1] /\ k # p[2]} \cup ({k} \X (s.items \ {k}))
                      ELSE recency
Gone(t) == recency' = {p \in recency : p[1] \in t.items /\ p[2] \in t.items}

\* The lock is let go.
Unlock ==
    /\ storing' = None
    /\ seen' = Seen(s')

\* get() of an entry that has not expired.  Readers that race on freq lose each
\* other's counts, which leaves what fewer reads would.
Read(k) ==
    /\ storing = None /\ k \in s.items
    /\ s' = CASE s.policy = "LRU" -> Touch(s, k)
              [] s.policy = "S3FIFO" -> [s EXCEPT !.e[k].freq = Min({@ + 1, MaxFreq})]
              [] OTHER -> s
    /\ Used(k)
    /\ UNCHANGED <<storing, seen>>

\* set() of a value that fits; one that does not is refused.
Set(k, cost) ==
    /\ storing = None
    /\ MaxBytes > 0 => cost <= MaxBytes
    /\ s' = Insert(s, k, cost)
    /\ Used(k)
    /\ storing' = k /\ UNCHANGED seen

EvictLRU ==
    /\ storing # None /\ s.policy = "LRU" /\ Over(s) /\ OldestLRU(s, storing) # None
    /\ s' = Remove(s, s.tail)
    /\ Gone(s')
    /\ UNCHANGED <<storing, seen>>

EvictAll ==
    /\ storing # None /\ s.policy = "ClearOnFull" /\ Over(s)
    /\ s' = KeepOnly(s, storing)
    /\ Gone(s')
    /\ Unlock

EvictSmall ==
    /\ storing # None /\ s.policy = "S3FIFO" /\ Over(s) /\ SmallGives(s, storing)
    /\ s' = GiveSmall(s)
    /\ UNCHANGED <<storing, seen, recency>>

EvictMain ==
    /\ storing # None /\ s.policy = "S3FIFO" /\ Over(s) /\ ~SmallGives(s, storing)
    /\ OldestMain(s, storing) # None
    /\ s' = GiveMain(s, OldestMain(s, storing))
    /\ UNCHANGED <<storing, seen, recency>>

\* evict() returns: the budget is met, or there is nothing left to evict.
EvictDone ==
    /\ storing # None
    /\ \/ ~Over(s)
       \/ s.policy = "LRU" /\ OldestLRU(s, storing) = None
       \/ s.policy = "S3FIFO" /\ ~SmallGives(s, storing) /\ OldestMain(s, storing) = None
    /\ UNCHANGED <<s, recency>>
    /\ Unlock

Evict == EvictLRU \/ EvictAll \/ EvictSmall \/ EvictMain \/ EvictDone

\* delete(), and what get() and sweep() do to an entry that has expired.
Leave(k) ==
    /\ storing = None /\ k \in s.items
    /\ s' = Remove(s, k)
    /\ Gone(s')
    /\ Unlock

\* clear()
Clear ==
    /\ storing = None
    /\ s' = Empty(s.policy)
    /\ Gone(s')
    /\ Unlock

Next ==
    \/ \E k \in Keys : Read(k) \/ Leave(k) \/ \E cost \in Costs : Set(k, cost)
    \/ Evict
    \/ Clear

Spec == Init /\ [][Next]_vars

\* Fairness: a goroutine inside set() keeps running.
FairSpec == Spec /\ WF_vars(Evict)

-----------------------------------------------------------------------------
(* Safety.                                                                 *)

\* The first entries of a list, followed along next or prev.
Follow(first, link) ==
    LET at[n \in 0..Cardinality(Keys)] ==
            IF n = 0 THEN first ELSE IF at[n - 1] = None THEN None ELSE link[at[n - 1]]
    IN [n \in 0..Cardinality(Keys) |-> at[n]]
Listed(walk) == {walk[n] : n \in DOMAIN walk} \ {None}
NextOf == [k \in Keys |-> s.e[k].next]
PrevOf == [k \in Keys |-> s.e[k].prev]

\* A list read from its head is the list read from its tail, backwards, and
\* holds exactly these entries.
IsList(head, tail, members) ==
    LET down == Follow(head, NextOf)
        up == Follow(tail, PrevOf)
        n == Cardinality(members)
    IN /\ Listed(down) = members /\ Listed(up) = members
       /\ down[n] = None
       /\ \A i \in 0..(n - 1) : down[i] = up[n - 1 - i]

\* The intrusive lists and the map hold the same entries through every order of
\* inserts, reads, evictions and removals, each where its small flag says.
ListsMatchItems ==
    LET small == {k \in s.items : s.e[k].small} IN
    /\ IsList(s.head, s.tail, s.items \ small)
    /\ IsList(s.smallHead, s.smallTail, small)

\* Every ghost is in the queue at its own number, that of its last add: "so that a
\* hash added again is not forgotten when its older add leaves" (s3fifo.go:120).
GhostsAgree ==
    \A h \in Hashes : s.set[h] # NotGhost =>
        LET n == s.set[h] + 1 IN
        /\ n \in DOMAIN s.queue /\ s.queue[n] = h
        /\ \A i \in DOMAIN s.queue : s.queue[i] = h => i <= n

\* The types; the ghosts; and bytes, smallBytes and smallLen, which are kept by
\* increments in seven places, are what the entries add up to.
AccountsExact ==
    /\ TypeOK
    /\ GhostsAgree
    /\ LET small == {k \in s.items : s.e[k].small}
           Total(ks) == MapThenSumSet(LAMBDA k : s.e[k].cost, ks)
       IN /\ s.bytes = Total(s.items)
          /\ s.smallBytes = Total(small)
          /\ s.smallLen = Cardinality(small)

\* A ghost is forgotten when its key comes back, into the main queue, or when its
\* last add has left the queue: not when an older one does.
GhostsRemembered ==
    [][\A h \in Hashes : s.set[h] # NotGhost /\ s'.set[h] = NotGhost =>
        \/ \A i \in DOMAIN s'.queue : s'.queue[i] # h
        \/ \E k \in s'.items : /\ Hash[k] = h /\ ~s'.e[k].small
                               /\ k \in s.items => s.e[k].small]_vars

\* LRU evicts the key whose last use, by a read or a write, is furthest back.
EvictsLeastRecent ==
    [][s.policy = "LRU" /\ storing # None =>
        \A k \in s.items \ s'.items : \A j \in s.items \ {k} : <<j, k>> \in recency]_vars

\* Eviction ends, though entries go round: it cannot hold the lock for ever.
EvictionEnds == storing # None ~> storing = None

-----------------------------------------------------------------------------
(* What every policy promises: module BoundedCache.                        *)

\* The store under way: its entry costs what it cost when set() began.
Pending == IF storing = None THEN {} ELSE {<<storing, s.e[storing].cost>>}

Abstract == INSTANCE BoundedCache WITH held <- seen, pending <- Pending

\* Seen from outside the lock, every policy is a BoundedCache: whatever rounds its
\* eviction takes, a store keeps its own entry, "never evicting keep" (s3fifo.go:66),
\* leaves the others alone where it fits beside them, and ends within the budget.
ImplementsBoundedCache == Abstract!Spec

=============================================================================
