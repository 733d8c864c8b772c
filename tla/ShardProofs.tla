----------------------------- MODULE ShardProofs ----------------------------
(***************************************************************************)
(* Proofs about Shard, for every finite set of keys, every hash, cost and  *)
(* budget and all three policies: the lists hold the entries and are       *)
(* whole, the accounts are exact, a ghost is forgotten only when it may    *)
(* be, LRU evicts what was used longest ago, and the shard implements      *)
(* BoundedCache.                                                           *)
(*                                                                         *)
(* A list is followed by links that every function rewrites, so nothing of *)
(* it survives a step by itself.  The invariant names its entries in order *)
(* (Chain), and the proofs follow that sequence and the sums of the costs  *)
(* through each function of the code: Sound says that a record is right    *)
(* but for the entries apart, which a function has taken out of the lists  *)
(* and not put back yet.                                                   *)
(***************************************************************************)
EXTENDS Shard, FiniteSetTheorems, SequenceTheorems, WellFoundedInduction, TLAPS

-----------------------------------------------------------------------------
(* Sums over finite sets.  The folds of the community modules choose an    *)
(* element at a time: there is one such fold, and it adds up.              *)

\* Of the subsets of a finite set, and of numbers, there is a least: what a proof by a
\* least counterexample starts from.
LEMMA LeastSubset ==
  ASSUME NEW S, IsFiniteSet(S), NEW B \in SUBSET SUBSET S, B # {}
  PROVE  \E T \in B : \A U \in B : U \subseteq T => U = T
<1>1. IsWellFoundedOn(StrictSubsetOrdering(S), SUBSET S)
  BY FS_StrictSubsetOrderingWellFounded, FS_FiniteSubsetsOfFinite
<1>2. PICK T \in B : \A U \in B : <<U, T>> \notin StrictSubsetOrdering(S)
  BY <1>1, WFMin
<1>3. QED
  BY <1>2 DEF StrictSubsetOrdering

LEMMA LeastNat ==
  ASSUME NEW B \in SUBSET Nat, B # {}
  PROVE  \E n \in B : \A m \in B : n <= m
<1>1. PICK n \in B : \A m \in B : <<m, n>> \notin OpToRel(<, Nat)
  BY NatLessThanWellFounded, WFMin
<1>2. \A m \in B : ~(m < n)
  BY <1>1 DEF OpToRel
<1>3. QED
  BY <1>2

\* How the folds choose, and what makes it a fold of f over the subsets of S.
Pick(T) == CHOOSE x \in T : TRUE
IsFold(it, f, S) ==
    it = [T \in SUBSET S |-> IF T = {} THEN 0 ELSE f[Pick(T)] + it[T \ {Pick(T)}]]

LEMMA PickIn == ASSUME NEW T, T # {} PROVE Pick(T) \in T
  BY DEF Pick

\* There is at most one fold.
LEMMA FoldUnique ==
  ASSUME NEW S, IsFiniteSet(S), NEW f, NEW g, NEW h, IsFold(g, f, S), IsFold(h, f, S)
  PROVE  g = h
<1>1. \A T \in SUBSET S : g[T] = h[T]
  <2>1. PICK B \in SUBSET SUBSET S : B = {T \in SUBSET S : g[T] # h[T]}
    OBVIOUS
  <2>2. SUFFICES ASSUME B # {} PROVE FALSE
    BY <2>1
  <2>3. PICK T \in B : \A U \in B : U \subseteq T => U = T
    BY <2>2, LeastSubset
  <2>4. T \in SUBSET S /\ g[T] # h[T] /\ \A U \in SUBSET S : U \subseteq T /\ g[U] # h[U] => U = T
    BY <2>1, <2>3
  <2>5. T # {}
    BY <2>4 DEF IsFold
  <2>6. T \ {Pick(T)} \in SUBSET S /\ T \ {Pick(T)} # T
    BY <2>5, PickIn
  <2>7. g[T \ {Pick(T)}] = h[T \ {Pick(T)}]
    BY <2>4, <2>6
  <2>8. QED
    BY <2>4, <2>5, <2>7 DEF IsFold
<1>2. QED
  BY <1>1 DEF IsFold

\* A fold over a set, kept to the subsets of a smaller one, is a fold.
LEMMA FoldRestrict ==
  ASSUME NEW S, NEW f, NEW g, IsFold(g, f, S), NEW R \in SUBSET S
  PROVE  IsFold([T \in SUBSET R |-> g[T]], f, R)
<1> DEFINE h == [T \in SUBSET R |-> g[T]]
<1>1. \A T \in SUBSET R : h[T] = IF T = {} THEN 0 ELSE f[Pick(T)] + h[T \ {Pick(T)}]
  BY DEF IsFold
<1>2. QED
  BY <1>1 DEF IsFold

\* The fold, if there is one.
FoldsOf(f, T) == {it \in [SUBSET T -> Int] : IsFold(it, f, T)}
FoldTo(f, T) == (CHOOSE it : it \in FoldsOf(f, T))[T]

LEMMA FoldToIs ==
  ASSUME NEW S, IsFiniteSet(S), NEW f, NEW it \in FoldsOf(f, S)
  PROVE  FoldTo(f, S) = it[S] /\ FoldTo(f, S) \in Int
<1>1. PICK g : g = CHOOSE h : h \in FoldsOf(f, S)
  OBVIOUS
<1>2. g \in FoldsOf(f, S)
  BY <1>1
<1>3. g = it
  BY <1>2, FoldUnique DEF FoldsOf
<1>4. QED
  BY <1>1, <1>3 DEF FoldTo, FoldsOf

\* A fold adds the element it chooses to the fold of the rest.
LEMMA FoldStep ==
  ASSUME NEW S, IsFiniteSet(S), NEW f, FoldsOf(f, S) # {}
  PROVE  FoldTo(f, S) = IF S = {} THEN 0 ELSE f[Pick(S)] + FoldTo(f, S \ {Pick(S)})
<1>1. PICK g : g \in FoldsOf(f, S)
  OBVIOUS
<1>2. FoldTo(f, S) = g[S]
  BY <1>1, FoldToIs
<1>3. g[S] = IF S = {} THEN 0 ELSE f[Pick(S)] + g[S \ {Pick(S)}]
  BY <1>1 DEF FoldsOf, IsFold
<1>4. FoldTo(f, S \ {Pick(S)}) = g[S \ {Pick(S)}]
  <2>1. S \ {Pick(S)} \in SUBSET S /\ IsFiniteSet(S \ {Pick(S)})
    BY FS_Subset
  <2>2. PICK R : R = S \ {Pick(S)}
    OBVIOUS
  <2>3. PICK h : h = [T \in SUBSET R |-> g[T]]
    OBVIOUS
  <2>4. h \in [SUBSET R -> Int]
    BY <1>1, <2>1, <2>2, <2>3 DEF FoldsOf
  <2>5. IsFold(h, f, R)
    <3>1. IsFold(g, f, S) /\ R \in SUBSET S
      BY <1>1, <2>1, <2>2 DEF FoldsOf
    <3>2. IsFold([T \in SUBSET R |-> g[T]], f, R)
      BY <3>1, FoldRestrict
    <3>3. QED
      BY <2>3, <3>2
  <2>6. h \in FoldsOf(f, R)
    BY <2>4, <2>5 DEF FoldsOf
  <2>7. FoldTo(f, R) = h[R]
    BY <2>1, <2>2, <2>6, FoldToIs
  <2>8. QED
    BY <2>2, <2>3, <2>7
<1>5. QED
  BY <1>2, <1>3, <1>4

\* Every function of integers has a fold.
LEMMA FoldExists ==
  ASSUME NEW S, IsFiniteSet(S), NEW f, \A k \in S : f[k] \in Int
  PROVE  FoldsOf(f, S) # {}
<1>1. PICK B \in SUBSET SUBSET S : B = {T \in SUBSET S : FoldsOf(f, T) = {}}
  OBVIOUS
<1>2. SUFFICES ASSUME B # {} PROVE FALSE
  BY <1>1
<1>3. PICK T \in B : \A U \in B : U \subseteq T => U = T
  BY <1>2, LeastSubset
<1>4. T \in SUBSET S /\ FoldsOf(f, T) = {} /\ \A U \in SUBSET T : U # T => FoldsOf(f, U) # {}
  BY <1>1, <1>3
<1>5. ASSUME NEW U \in SUBSET T, U # T
      PROVE  /\ FoldTo(f, U) \in Int
             /\ FoldTo(f, U) = IF U = {} THEN 0 ELSE f[Pick(U)] + FoldTo(f, U \ {Pick(U)})
  <2>1. IsFiniteSet(U) /\ FoldsOf(f, U) # {}
    BY <1>4, <1>5, FS_Subset
  <2>2. QED
    BY <2>1, FoldToIs, FoldStep
<1>6. ASSUME NEW U \in SUBSET T, U # {}
      PROVE  f[Pick(U)] \in Int /\ U \ {Pick(U)} \in SUBSET T /\ U \ {Pick(U)} # T
  BY <1>4, <1>6, PickIn
<1> DEFINE w(U) == IF U = {} THEN 0 ELSE f[Pick(U)] + FoldTo(f, U \ {Pick(U)})
<1>7. PICK it : it = [U \in SUBSET T |-> w(U)]
  OBVIOUS
<1>8. it \in [SUBSET T -> Int]
  <2>1. ASSUME NEW U \in SUBSET T PROVE w(U) \in Int
    <3>1. CASE U = {}
      BY <3>1
    <3>2. CASE U # {}
      <4>1. f[Pick(U)] \in Int /\ FoldTo(f, U \ {Pick(U)}) \in Int
        BY <1>5, <1>6, <3>2
      <4>2. QED
        BY <3>2, <4>1
    <3>3. QED
      BY <3>1, <3>2
  <2>2. QED
    BY <1>7, <2>1
<1>9. \A U \in SUBSET T : U # T => it[U] = FoldTo(f, U)
  BY <1>5, <1>7
<1>10. \A U \in SUBSET T : it[U] = IF U = {} THEN 0 ELSE f[Pick(U)] + it[U \ {Pick(U)}]
  <2> SUFFICES ASSUME NEW U \in SUBSET T
               PROVE  it[U] = IF U = {} THEN 0 ELSE f[Pick(U)] + it[U \ {Pick(U)}]
    OBVIOUS
  <2>1. it[U] = w(U)
    BY <1>7
  <2>2. U # {} => it[U \ {Pick(U)}] = FoldTo(f, U \ {Pick(U)})
    BY <1>6, <1>9
  <2>3. QED
    BY <2>1, <2>2
<1>11. IsFold(it, f, T)
  <2>1. it = [U \in SUBSET T |-> it[U]]
    BY <1>7
  <2>2. QED
    BY <1>10, <2>1 DEF IsFold
<1>12. it \in FoldsOf(f, T)
  BY <1>8, <1>11 DEF FoldsOf
<1>13. QED
  BY <1>4, <1>12

\* The sum of f over S, as the models write it.
Sum(f, S) == MapThenSumSet(LAMBDA k : f[k], S)

LEMMA SumIsFold ==
  ASSUME NEW S, IsFiniteSet(S), NEW f, \A k \in S : f[k] \in Int
  PROVE  Sum(f, S) = FoldTo(f, S)
<1>1. Sum(f, S) = (CHOOSE h : IsFold(h, f, S))[S]
  BY DEF Sum, MapThenSumSet, MapThenFoldSet, IsFold, Pick
<1>2. PICK it : it \in FoldsOf(f, S)
  BY FoldExists
<1>3. PICK g : g = CHOOSE h : IsFold(h, f, S)
  OBVIOUS
<1>4. IsFold(g, f, S)
  BY <1>2, <1>3 DEF FoldsOf
<1>5. g = it
  BY <1>2, <1>4, FoldUnique DEF FoldsOf
<1>6. QED
  BY <1>1, <1>2, <1>3, <1>5, FoldToIs

\* One element at a time, the one the fold chooses.
LEMMA SumPicked ==
  ASSUME NEW S, IsFiniteSet(S), NEW f, \A k \in S : f[k] \in Int
  PROVE  /\ Sum(f, S) \in Int
         /\ S = {} => Sum(f, S) = 0
         /\ S # {} => Sum(f, S) = f[Pick(S)] + Sum(f, S \ {Pick(S)})
<1>1. Sum(f, S) \in Int
  BY SumIsFold, FoldExists, FoldToIs
<1>2. Sum(f, S) = IF S = {} THEN 0 ELSE f[Pick(S)] + FoldTo(f, S \ {Pick(S)})
  BY SumIsFold, FoldExists, FoldStep
<1>3. IsFiniteSet(S \ {Pick(S)}) /\ S \ {Pick(S)} \in SUBSET S
  BY FS_Subset
<1>4. Sum(f, S \ {Pick(S)}) = FoldTo(f, S \ {Pick(S)})
  BY <1>3, SumIsFold
<1>5. QED
  BY <1>1, <1>2, <1>4

\* Any element at a time.
LEMMA SumRemove ==
  ASSUME NEW S, IsFiniteSet(S), NEW f, \A k \in S : f[k] \in Int, NEW x \in S
  PROVE  Sum(f, S) = f[x] + Sum(f, S \ {x})
<1>1. PICK B \in SUBSET SUBSET S :
        B = {T \in SUBSET S : \E y \in T : Sum(f, T) # f[y] + Sum(f, T \ {y})}
  OBVIOUS
<1>2. SUFFICES ASSUME B # {} PROVE FALSE
  BY <1>1
<1>3. PICK T \in B : \A U \in B : U \subseteq T => U = T
  BY <1>2, LeastSubset
<1>4. PICK y \in T : Sum(f, T) # f[y] + Sum(f, T \ {y})
  BY <1>1, <1>3
<1>5. \A U \in SUBSET T : U # T => \A z \in U : Sum(f, U) = f[z] + Sum(f, U \ {z})
  BY <1>1, <1>3
<1>6. \A U \in SUBSET T : IsFiniteSet(U) /\ Sum(f, U) \in Int
  BY <1>1, <1>3, FS_Subset, SumPicked
<1>7. PICK p \in T : p = Pick(T)
  BY PickIn
<1>8. Sum(f, T) = f[p] + Sum(f, T \ {p})
  BY <1>1, <1>3, <1>6, <1>7, SumPicked
<1>9. p # y
  BY <1>4, <1>8
<1>10. Sum(f, T \ {p}) = f[y] + Sum(f, (T \ {p}) \ {y})
  BY <1>5, <1>9
<1>11. Sum(f, T \ {y}) = f[p] + Sum(f, (T \ {y}) \ {p})
  BY <1>5, <1>9
<1>12. (T \ {p}) \ {y} = (T \ {y}) \ {p}
  OBVIOUS
<1>13. f[p] \in Int /\ f[y] \in Int /\ Sum(f, (T \ {p}) \ {y}) \in Int
  BY <1>1, <1>3, <1>6
<1>14. PICK a \in Int, b \in Int, c \in Int :
         a = f[p] /\ b = f[y] /\ c = Sum(f, (T \ {p}) \ {y})
  BY <1>13
<1>15. Sum(f, T) = a + (b + c) /\ Sum(f, T \ {y}) = a + c
  BY <1>8, <1>10, <1>11, <1>12, <1>14
<1>16. QED
  BY <1>4, <1>14, <1>15

\* The sum depends on nothing but the values.
LEMMA SumSame ==
  ASSUME NEW S, IsFiniteSet(S), NEW f, NEW g, \A k \in S : f[k] \in Int /\ g[k] = f[k]
  PROVE  Sum(f, S) = Sum(g, S)
<1>1. PICK it : it \in FoldsOf(f, S)
  BY FoldExists
<1>2. it \in FoldsOf(g, S)
  <2>1. \A T \in SUBSET S : T # {} => f[Pick(T)] = g[Pick(T)]
    BY PickIn
  <2>2. QED
    BY <1>1, <2>1 DEF FoldsOf, IsFold
<1>3. QED
  BY <1>1, <1>2, SumIsFold, FoldToIs
-----------------------------------------------------------------------------
(* Lists.                                                                  *)

\* The entries of a list, n of them, are q[1], the most recent, to q[n].
Chain(e, first, last, n, q) ==
    /\ n \in Nat /\ q \in [1..n -> Keys]
    /\ first = IF n = 0 THEN None ELSE q[1]
    /\ last = IF n = 0 THEN None ELSE q[n]
    /\ \A i \in 1..n : /\ e[q[i]].prev = IF i = 1 THEN None ELSE q[i - 1]
                       /\ e[q[i]].next = IF i = n THEN None ELSE q[i + 1]
    /\ \A i, j \in 1..n : q[i] = q[j] => i = j

\* The entries in it.
Members(n, q) == {q[i] : i \in 1..n}

\* A list without its entry i, and with a new entry in front.
Off(n, q, i) == [j \in 1..(n - 1) |-> IF j < i THEN q[j] ELSE q[j + 1]]
InFront(k, n, q) == [j \in 1..(n + 1) |-> IF j = 1 THEN k ELSE q[j - 1]]

\* What the lists have nothing to do with stays.
SameData(e, d) == \A j \in Keys : /\ d[j].cost = e[j].cost
                                  /\ d[j].freq = e[j].freq /\ d[j].small = e[j].small
SameLinks(e, d, j) == d[j].prev = e[j].prev /\ d[j].next = e[j].next

\* What the splices of unlink() and pushFront() leave in each entry.
LEMMA DetachFacts ==
  ASSUME NEW e \in [Keys -> Entries], NEW k \in Keys
  PROVE  /\ Detach(e, k) \in [Keys -> Entries]
         /\ SameData(e, Detach(e, k))
         /\ \A j \in Keys :
              /\ Detach(e, k)[j].prev = IF j = k THEN None
                                        ELSE IF j = e[k].next THEN e[k].prev ELSE e[j].prev
              /\ Detach(e, k)[j].next = IF j = k THEN None
                                        ELSE IF j = e[k].prev THEN e[k].next ELSE e[j].next
  BY DEF Detach, SameData, Entries

LEMMA AttachFacts ==
  ASSUME NEW e \in [Keys -> Entries], NEW k \in Keys, NEW h \in Keys \cup {None}
  PROVE  /\ Attach(e, k, h) \in [Keys -> Entries]
         /\ SameData(e, Attach(e, k, h))
         /\ \A j \in Keys :
              /\ Attach(e, k, h)[j].prev = IF j = k THEN None ELSE IF j = h THEN k ELSE e[j].prev
              /\ Attach(e, k, h)[j].next = IF j = k THEN h ELSE e[j].next
  BY DEF Attach, SameData, Entries

\* What a chain is made of.
LEMMA ChainType ==
  ASSUME NEW e, NEW first, NEW last, NEW n, NEW q, Chain(e, first, last, n, q)
  PROVE  /\ n \in Nat /\ q \in [1..n -> Keys]
         /\ first \in Keys \cup {None} /\ last \in Keys \cup {None}
         /\ Members(n, q) \subseteq Keys
         /\ \A a, b \in 1..n : q[a] = q[b] => a = b
<1>1. n \in Nat /\ q \in [1..n -> Keys] /\ (n # 0 => 1 \in 1..n /\ n \in 1..n)
  BY DEF Chain
<1>2. QED
  BY <1>1 DEF Chain, Members

\* A chain is its entries' links.
LEMMA ChainSame ==
  ASSUME NEW e, NEW d, NEW first, NEW last, NEW n, NEW q, Chain(e, first, last, n, q),
         \A j \in Members(n, q) : SameLinks(e, d, j)
  PROVE  Chain(d, first, last, n, q)
  BY DEF Chain, Members, SameLinks

\* What the new sequences hold, and that they too have no duplicates.
LEMMA OffFacts ==
  ASSUME NEW n \in Nat, NEW q \in [1..n -> Keys], NEW i \in 1..n,
         \A a, b \in 1..n : q[a] = q[b] => a = b
  PROVE  /\ n - 1 \in Nat /\ Off(n, q, i) \in [1..(n - 1) -> Keys]
         /\ \A j \in 1..(n - 1) : Off(n, q, i)[j] = IF j < i THEN q[j] ELSE q[j + 1]
         /\ \A a, b \in 1..(n - 1) : Off(n, q, i)[a] = Off(n, q, i)[b] => a = b
         /\ Members(n - 1, Off(n, q, i)) = Members(n, q) \ {q[i]}
<1>1. n - 1 \in Nat /\ \A j \in 1..(n - 1) : j \in 1..n /\ j + 1 \in 1..n
  OBVIOUS
<1>2. \A j \in 1..(n - 1) : Off(n, q, i)[j] = IF j < i THEN q[j] ELSE q[j + 1]
  BY DEF Off
<1>3. Off(n, q, i) \in [1..(n - 1) -> Keys]
  BY <1>1 DEF Off
<1>4. \A a, b \in 1..(n - 1) : Off(n, q, i)[a] = Off(n, q, i)[b] => a = b
  BY <1>1, <1>2
<1>5. Members(n - 1, Off(n, q, i)) \subseteq Members(n, q) \ {q[i]}
  BY <1>1, <1>2 DEF Members
<1>6. ASSUME NEW x \in Members(n, q) \ {q[i]} PROVE x \in Members(n - 1, Off(n, q, i))
  <2>1. PICK j \in 1..n : x = q[j] /\ j # i
    BY DEF Members
  <2>2. CASE j < i
    <3>1. j \in 1..(n - 1) /\ Off(n, q, i)[j] = x
      BY <1>2, <2>1, <2>2
    <3>2. QED
      BY <3>1 DEF Members
  <2>3. CASE j > i
    <3>1. j - 1 \in 1..(n - 1) /\ Off(n, q, i)[j - 1] = x
      BY <1>2, <2>1, <2>3
    <3>2. QED
      BY <3>1 DEF Members
  <2>4. QED
    BY <2>1, <2>2, <2>3
<1>7. QED
  BY <1>1, <1>2, <1>3, <1>4, <1>5, <1>6

LEMMA InFrontFacts ==
  ASSUME NEW n \in Nat, NEW q \in [1..n -> Keys], NEW k \in Keys, k \notin Members(n, q),
         \A a, b \in 1..n : q[a] = q[b] => a = b
  PROVE  /\ InFront(k, n, q) \in [1..(n + 1) -> Keys]
         /\ \A j \in 1..(n + 1) : InFront(k, n, q)[j] = IF j = 1 THEN k ELSE q[j - 1]
         /\ \A a, b \in 1..(n + 1) : InFront(k, n, q)[a] = InFront(k, n, q)[b] => a = b
         /\ Members(n + 1, InFront(k, n, q)) = Members(n, q) \cup {k}
<1>1. \A j \in 1..(n + 1) : j # 1 => j - 1 \in 1..n
  OBVIOUS
<1>2. \A j \in 1..(n + 1) : InFront(k, n, q)[j] = IF j = 1 THEN k ELSE q[j - 1]
  BY DEF InFront
<1>3. InFront(k, n, q) \in [1..(n + 1) -> Keys]
  BY <1>1 DEF InFront
<1>4. \A a, b \in 1..(n + 1) : InFront(k, n, q)[a] = InFront(k, n, q)[b] => a = b
  BY <1>1, <1>2 DEF Members
<1>5. Members(n + 1, InFront(k, n, q)) \subseteq Members(n, q) \cup {k}
  BY <1>1, <1>2 DEF Members
<1>6. k \in Members(n + 1, InFront(k, n, q))
  BY <1>2 DEF Members
<1>7. ASSUME NEW j \in 1..n PROVE q[j] \in Members(n + 1, InFront(k, n, q))
  <2>1. j + 1 \in 1..(n + 1) /\ InFront(k, n, q)[j + 1] = q[j]
    BY <1>2
  <2>2. QED
    BY <2>1 DEF Members
<1>8. QED
  BY <1>2, <1>3, <1>4, <1>5, <1>6, <1>7 DEF Members

\* Unlinking an entry of a list, wherever it is, leaves the others linked.
LEMMA ChainDetach ==
  ASSUME NEW e \in [Keys -> Entries], NEW first, NEW last, NEW n, NEW q,
         Chain(e, first, last, n, q), NEW i \in 1..n
  PROVE  Chain(Detach(e, q[i]),
               IF e[q[i]].prev = None /\ first = q[i] THEN e[q[i]].next ELSE first,
               IF e[q[i]].next = None /\ last = q[i] THEN e[q[i]].prev ELSE last,
               n - 1, Off(n, q, i))
<1>1. /\ n \in Nat /\ q \in [1..n -> Keys] /\ q[i] \in Keys /\ n >= 1
      /\ \A a, b \in 1..n : q[a] = q[b] => a = b
  BY DEF Chain
<1>2. PICK k \in Keys : k = q[i]
  BY <1>1
<1>3. PICK p, x : k = q[i] /\ p = e[k].prev /\ x = e[k].next
  BY <1>2
<1>4. p = (IF i = 1 THEN None ELSE q[i - 1]) /\ x = IF i = n THEN None ELSE q[i + 1]
  BY <1>3 DEF Chain
<1>5. \A j \in 1..n : q[j] # None
  BY <1>1, HashAssumption
<1>6. PICK r \in [1..(n - 1) -> Keys] : r = Off(n, q, i)
  <2>1. Off(n, q, i) \in [1..(n - 1) -> Keys]
    BY <1>1, OffFacts
  <2>2. QED
    BY <2>1
<1>7. /\ \A j \in 1..(n - 1) : r[j] = IF j < i THEN q[j] ELSE q[j + 1]
      /\ \A a, b \in 1..(n - 1) : r[a] = r[b] => a = b
  <2>1. \A j \in 1..(n - 1) : Off(n, q, i)[j] = IF j < i THEN q[j] ELSE q[j + 1]
    BY <1>1, OffFacts
  <2>2. \A a, b \in 1..(n - 1) : Off(n, q, i)[a] = Off(n, q, i)[b] => a = b
    BY <1>1, OffFacts
  <2>3. QED
    BY <1>6, <2>1, <2>2
<1>8. PICK d : d = Detach(e, k)
  OBVIOUS
<1>9. \A j \in Keys : /\ d[j].prev = IF j = k THEN None ELSE IF j = x THEN p ELSE e[j].prev
                      /\ d[j].next = IF j = k THEN None ELSE IF j = p THEN x ELSE e[j].next
  BY <1>3, <1>8, DetachFacts
<1>10. (IF p = None /\ first = k THEN x ELSE first) = IF n - 1 = 0 THEN None ELSE r[1]
  <2>1. CASE i = 1
    <3>1. p = None /\ first = k
      BY <1>1, <1>3, <1>4, <2>1 DEF Chain
    <3>2. n - 1 # 0 => r[1] = q[2]
      BY <1>1, <1>7, <2>1
    <3>3. QED
      BY <1>1, <1>4, <2>1, <3>1, <3>2
  <2>2. CASE i # 1
    <3>1. p # None /\ first = q[1]
      BY <1>1, <1>4, <1>5, <2>2 DEF Chain
    <3>2. n - 1 # 0 /\ r[1] = q[1]
      BY <1>1, <1>7, <2>2
    <3>3. QED
      BY <3>1, <3>2
  <2>3. QED
    BY <2>1, <2>2
<1>11. (IF x = None /\ last = k THEN p ELSE last) = IF n - 1 = 0 THEN None ELSE r[n - 1]
  <2>1. CASE i = n
    <3>1. x = None /\ last = k
      BY <1>1, <1>3, <1>4, <2>1 DEF Chain
    <3>2. n - 1 # 0 => r[n - 1] = q[n - 1]
      BY <1>1, <1>7, <2>1
    <3>3. QED
      BY <1>1, <1>4, <2>1, <3>1, <3>2
  <2>2. CASE i # n
    <3>1. x # None /\ last = q[n]
      BY <1>1, <1>4, <1>5, <2>2 DEF Chain
    <3>2. n - 1 # 0 /\ r[n - 1] = q[n]
      BY <1>1, <1>7, <2>2
    <3>3. QED
      BY <3>1, <3>2
  <2>3. QED
    BY <2>1, <2>2
<1>12. ASSUME NEW j \in 1..(n - 1)
       PROVE  /\ d[r[j]].prev = IF j = 1 THEN None ELSE r[j - 1]
              /\ d[r[j]].next = IF j = n - 1 THEN None ELSE r[j + 1]
  <2>1. PICK m \in 1..n : r[j] = q[m] /\ m = (IF j < i THEN j ELSE j + 1) /\ m # i
    BY <1>1, <1>7
  <2>2. /\ e[q[m]].prev = IF m = 1 THEN None ELSE q[m - 1]
        /\ e[q[m]].next = IF m = n THEN None ELSE q[m + 1]
    BY DEF Chain
  <2>3. q[m] # k /\ (q[m] = x <=> m = i + 1) /\ (q[m] = p <=> m = i - 1)
    BY <1>1, <1>3, <1>4, <1>5, <2>1
  <2>4. d[r[j]].prev = IF m = i + 1 THEN p ELSE e[q[m]].prev
    BY <1>9, <2>1, <2>3
  <2>5. d[r[j]].next = IF m = i - 1 THEN x ELSE e[q[m]].next
    BY <1>9, <2>1, <2>3
  <2>6. d[r[j]].prev = IF j = 1 THEN None ELSE r[j - 1]
    BY <1>1, <1>4, <1>7, <2>1, <2>2, <2>4
  <2>7. d[r[j]].next = IF j = n - 1 THEN None ELSE r[j + 1]
    BY <1>1, <1>4, <1>7, <2>1, <2>2, <2>5
  <2>8. QED
    BY <2>6, <2>7
<1>13. QED
  BY <1>1, <1>3, <1>6, <1>7, <1>8, <1>10, <1>11, <1>12 DEF Chain

\* So does putting a new one in front.
LEMMA ChainAttach ==
  ASSUME NEW e \in [Keys -> Entries], NEW first, NEW last, NEW n, NEW q,
         Chain(e, first, last, n, q), NEW k \in Keys, k \notin Members(n, q)
  PROVE  Chain(Attach(e, k, first), k, IF last = None THEN k ELSE last,
               n + 1, InFront(k, n, q))
<1>1. /\ n \in Nat /\ q \in [1..n -> Keys] /\ first \in Keys \cup {None}
      /\ \A a, b \in 1..n : q[a] = q[b] => a = b
  BY ChainType
<1>2. \A j \in 1..n : q[j] # None /\ q[j] # k
  BY <1>1, HashAssumption DEF Members
<1>3. PICK r \in [1..(n + 1) -> Keys] : r = InFront(k, n, q)
  <2>1. InFront(k, n, q) \in [1..(n + 1) -> Keys]
    BY <1>1, InFrontFacts
  <2>2. QED
    BY <2>1
<1>4. /\ \A j \in 1..(n + 1) : r[j] = IF j = 1 THEN k ELSE q[j - 1]
      /\ \A a, b \in 1..(n + 1) : r[a] = r[b] => a = b
  <2>1. /\ \A j \in 1..(n + 1) : InFront(k, n, q)[j] = IF j = 1 THEN k ELSE q[j - 1]
        /\ \A a, b \in 1..(n + 1) : InFront(k, n, q)[a] = InFront(k, n, q)[b] => a = b
    BY <1>1, InFrontFacts
  <2>2. QED
    BY <1>3, <2>1
<1>5. PICK d : d = Attach(e, k, first)
  OBVIOUS
<1>6. \A j \in Keys : /\ d[j].prev = IF j = k THEN None ELSE IF j = first THEN k ELSE e[j].prev
                      /\ d[j].next = IF j = k THEN first ELSE e[j].next
  <2>1. \A j \in Keys :
          /\ Attach(e, k, first)[j].prev = IF j = k THEN None ELSE IF j = first THEN k ELSE e[j].prev
          /\ Attach(e, k, first)[j].next = IF j = k THEN first ELSE e[j].next
    <3>1. first \in Keys \cup {None}
      BY <1>1
    <3>2. QED
      BY <3>1, AttachFacts
  <2>2. QED
    BY <1>5, <2>1
<1>7. k = r[1] /\ (IF last = None THEN k ELSE last) = r[n + 1]
  BY <1>1, <1>2, <1>4 DEF Chain
<1>8. ASSUME NEW j \in 1..(n + 1)
      PROVE  /\ d[r[j]].prev = IF j = 1 THEN None ELSE r[j - 1]
             /\ d[r[j]].next = IF j = n + 1 THEN None ELSE r[j + 1]
  <2>1. CASE j = 1
    <3>1. r[j] = k /\ d[k].prev = None /\ d[k].next = first
      BY <1>4, <1>6, <2>1
    <3>2. first = IF n = 0 THEN None ELSE q[1]
      BY DEF Chain
    <3>3. n # 0 => r[2] = q[1]
      BY <1>1, <1>4
    <3>4. QED
      BY <1>1, <2>1, <3>1, <3>2, <3>3
  <2>2. CASE j # 1
    <3>1. PICK m \in 1..n : m = j - 1 /\ r[j] = q[m]
      BY <1>1, <1>4, <2>2
    <3>2. /\ e[q[m]].prev = IF m = 1 THEN None ELSE q[m - 1]
          /\ e[q[m]].next = IF m = n THEN None ELSE q[m + 1]
      BY DEF Chain
    <3>3. q[m] \in Keys /\ q[m] # k /\ (q[m] = first <=> m = 1)
      BY <1>1, <1>2 DEF Chain
    <3>4. d[q[m]].prev = (IF m = 1 THEN k ELSE e[q[m]].prev) /\ d[q[m]].next = e[q[m]].next
      BY <1>6, <3>3
    <3>5. QED
      BY <1>1, <1>4, <2>2, <3>1, <3>2, <3>4
  <2>3. QED
    BY <2>1, <2>2
<1>9. QED
  BY <1>1, <1>3, <1>4, <1>5, <1>7, <1>8 DEF Chain

\* A list that an entry is not in does not notice.
LEMMA ChainApart ==
  ASSUME NEW e \in [Keys -> Entries], NEW first, NEW last, NEW n, NEW q,
         Chain(e, first, last, n, q), NEW f2, NEW l2, NEW m, NEW r,
         Chain(e, f2, l2, m, r), Members(n, q) \cap Members(m, r) = {}
  PROVE  /\ \A i \in 1..n : Chain(Detach(e, q[i]), f2, l2, m, r)
         /\ \A k \in Keys \ Members(m, r) : Chain(Attach(e, k, first), f2, l2, m, r)
<1>1. /\ n \in Nat /\ q \in [1..n -> Keys] /\ first \in Keys \cup {None}
      /\ Members(m, r) \subseteq Keys
  BY ChainType
<1>2. ASSUME NEW i \in 1..n PROVE Chain(Detach(e, q[i]), f2, l2, m, r)
  <2>1. \A j \in Members(m, r) : j # q[i] /\ j # e[q[i]].prev /\ j # e[q[i]].next
    <3>1. \A a \in 1..n : q[a] \notin Members(m, r)
      BY DEF Members
    <3>2. None \notin Members(m, r)
      BY <1>1, HashAssumption
    <3>3. /\ e[q[i]].prev = IF i = 1 THEN None ELSE q[i - 1]
          /\ e[q[i]].next = IF i = n THEN None ELSE q[i + 1]
      BY DEF Chain
    <3>4. (i # 1 => i - 1 \in 1..n) /\ (i # n => i + 1 \in 1..n)
      BY <1>1
    <3>5. QED
      BY <3>1, <3>2, <3>3, <3>4
  <2>2. \A j \in Members(m, r) : SameLinks(e, Detach(e, q[i]), j)
    BY <1>1, <2>1, DetachFacts DEF SameLinks
  <2>3. QED
    BY <2>2, ChainSame
<1>3. ASSUME NEW k \in Keys \ Members(m, r) PROVE Chain(Attach(e, k, first), f2, l2, m, r)
  <2>1. first \notin Members(m, r)
    <3>1. n # 0 => q[1] \notin Members(m, r)
      <4>1. n # 0 => 1 \in 1..n
        BY <1>1
      <4>2. QED
        BY <4>1 DEF Members
    <3>2. QED
      BY <1>1, <3>1, HashAssumption DEF Chain
  <2>2. \A j \in Members(m, r) : SameLinks(e, Attach(e, k, first), j)
    <3>1. k \in Keys /\ first \in Keys \cup {None}
      BY <1>1
    <3>2. \A j \in Keys \ {k, first} : SameLinks(e, Attach(e, k, first), j)
      BY <3>1, AttachFacts DEF SameLinks
    <3>3. QED
      BY <1>1, <1>3, <2>1, <3>2
  <2>3. QED
    BY <2>2, ChainSame
<1>4. QED
  BY <1>2, <1>3

-----------------------------------------------------------------------------
(* A chain is what ListsMatchItems calls a list.                           *)

\* c steps along the links from first.
IsWalk(w, c, first, link) ==
    /\ w = [i \in 0..c |-> w[i]] /\ w[0] = first
    /\ \A i \in 1..c : w[i] = IF w[i - 1] = None THEN None ELSE link[w[i - 1]]

\* Follow() of Shard is that walk.
LEMMA FollowIs ==
  ASSUME NEW first, NEW link, NEW c \in Nat, c = Cardinality(Keys),
         NEW w, IsWalk(w, c, first, link)
  PROVE  Follow(first, link) = w
<1>1. /\ w = [i \in 0..c |-> w[i]] /\ w[0] = first
      /\ \A i \in 1..c : w[i] = IF w[i - 1] = None THEN None ELSE link[w[i - 1]]
  BY DEF IsWalk
<1> DEFINE step(at, n) == IF n = 0 THEN first
                          ELSE IF at[n - 1] = None THEN None ELSE link[at[n - 1]]
           walk(at) == [n \in 0..c |-> step(at, n)]
<1>2. w = walk(w)
  <2>1. ASSUME NEW n \in 0..c PROVE w[n] = step(w, n)
    <3>1. n # 0 => n \in 1..c
      OBVIOUS
    <3>2. QED
      BY <1>1, <3>1
  <2>2. QED
    BY <1>1, <2>1
<1>3. PICK at : at = CHOOSE g : g = walk(g)
  OBVIOUS
<1>4. at = walk(at)
  BY <1>2, <1>3
<1>5. \A n \in 0..c : at[n] = w[n]
  <2>1. PICK B : B = {n \in 0..c : at[n] # w[n]}
    OBVIOUS
  <2>2. B \in SUBSET Nat
    BY <2>1
  <2>3. SUFFICES ASSUME B # {} PROVE FALSE
    BY <2>1
  <2>4. PICK n \in B : \A m \in B : n <= m
    BY <2>3, <2>2, LeastNat
  <2>5. n \in 0..c /\ at[n] # w[n]
    BY <2>1, <2>4
  <2>6. at[0] = first
    BY <1>4
  <2>7. n # 0
    BY <1>1, <2>5, <2>6
  <2>8. n - 1 \in 0..c /\ n - 1 \notin B /\ n \in 1..c
    BY <2>4, <2>5, <2>7
  <2>9. at[n - 1] = w[n - 1]
    BY <2>1, <2>8
  <2>10. at[n] = IF at[n - 1] = None THEN None ELSE link[at[n - 1]]
    BY <1>4, <2>5, <2>7
  <2>11. QED
    BY <1>1, <2>5, <2>8, <2>9, <2>10
<1>6. Follow(first, link) = [n \in 0..c |-> at[n]]
  BY <1>3 DEF Follow
<1>7. QED
  BY <1>1, <1>5, <1>6

\* A chain is no longer than there are keys.
LEMMA ChainLength ==
  ASSUME NEW e, NEW first, NEW last, NEW n, NEW q, Chain(e, first, last, n, q)
  PROVE  Cardinality(Members(n, q)) = n /\ n <= Cardinality(Keys) /\ Cardinality(Keys) \in Nat
<1>1. /\ n \in Nat /\ q \in [1..n -> Keys] /\ Members(n, q) \in SUBSET Keys
      /\ \A a, b \in 1..n : q[a] = q[b] => a = b
  BY ChainType
<1>2. q \in Bijection(1..n, Members(n, q))
  BY <1>1 DEF Bijection, Injection, Surjection, Members, IsInjective
<1>3. IsFiniteSet(1..n) /\ Cardinality(1..n) = n
  BY <1>1, FS_Interval
<1>4. Cardinality(Members(n, q)) = n
  BY <1>2, <1>3, FS_Bijection DEF ExistsBijection
<1>5. QED
  BY <1>1, <1>4, KeysAssumption, FS_Subset, FS_CardinalityType

\* Forwards and backwards, the walk over a chain meets its entries and ends.
LEMMA ChainIsList ==
  ASSUME NEW n, NEW q, Chain(s.e, s.head, s.tail, n, q) \/ Chain(s.e, s.smallHead, s.smallTail, n, q)
  PROVE  /\ Chain(s.e, s.head, s.tail, n, q) => IsList(s.head, s.tail, Members(n, q))
         /\ Chain(s.e, s.smallHead, s.smallTail, n, q) =>
                IsList(s.smallHead, s.smallTail, Members(n, q))
<1> SUFFICES ASSUME NEW first, NEW last, Chain(s.e, first, last, n, q)
             PROVE  IsList(first, last, Members(n, q))
  OBVIOUS
<1>1. /\ n \in Nat /\ q \in [1..n -> Keys] /\ Members(n, q) \subseteq Keys
      /\ \A j \in 1..n : q[j] \in Members(n, q)
  BY ChainType DEF Members
<1>2. PICK c \in Nat : c = Cardinality(Keys)
  BY ChainLength
<1>3. n <= c /\ Cardinality(Members(n, q)) = n
  BY <1>2, ChainLength
<1>4. PICK down : down = [i \in 0..c |-> IF i < n THEN q[i + 1] ELSE None]
  OBVIOUS
<1>5. PICK up : up = [i \in 0..c |-> IF i < n THEN q[n - i] ELSE None]
  OBVIOUS
<1>6. \A j \in 1..n : /\ q[j] \in Keys /\ q[j] # None
                      /\ PrevOf[q[j]] = IF j = 1 THEN None ELSE q[j - 1]
                      /\ NextOf[q[j]] = IF j = n THEN None ELSE q[j + 1]
  BY <1>1, HashAssumption DEF Chain, PrevOf, NextOf
<1>7. Follow(first, NextOf) = down
  <2>1. down[0] = first
    BY <1>1, <1>4 DEF Chain
  <2>2. \A i \in 1..c : down[i] = IF down[i - 1] = None THEN None ELSE NextOf[down[i - 1]]
    <3> SUFFICES ASSUME NEW i \in 1..c
                 PROVE  down[i] = IF down[i - 1] = None THEN None ELSE NextOf[down[i - 1]]
      OBVIOUS
    <3>1. down[i] = (IF i < n THEN q[i + 1] ELSE None)
          /\ down[i - 1] = (IF i - 1 < n THEN q[i] ELSE None)
      BY <1>4
    <3>2. i - 1 < n => i \in 1..n
      BY <1>1
    <3>3. QED
      BY <1>1, <1>6, <3>1, <3>2
  <2>3. down = [i \in 0..c |-> down[i]]
    BY <1>4
  <2>4. IsWalk(down, c, first, NextOf)
    BY <2>1, <2>2, <2>3 DEF IsWalk
  <2>5. QED
    BY <1>2, <2>4, FollowIs
<1>8. Follow(last, PrevOf) = up
  <2>1. up[0] = last
    BY <1>1, <1>5 DEF Chain
  <2>2. \A i \in 1..c : up[i] = IF up[i - 1] = None THEN None ELSE PrevOf[up[i - 1]]
    <3> SUFFICES ASSUME NEW i \in 1..c
                 PROVE  up[i] = IF up[i - 1] = None THEN None ELSE PrevOf[up[i - 1]]
      OBVIOUS
    <3>1. up[i] = (IF i < n THEN q[n - i] ELSE None)
          /\ up[i - 1] = (IF i - 1 < n THEN q[n - (i - 1)] ELSE None)
      BY <1>5
    <3>2. i - 1 < n => n - (i - 1) \in 1..n /\ (n - (i - 1)) - 1 = n - i
      BY <1>1
    <3>3. i - 1 < n => (n - (i - 1) = 1 <=> ~(i < n))
      BY <1>1
    <3>4. QED
      BY <1>1, <1>6, <3>1, <3>2, <3>3
  <2>3. up = [i \in 0..c |-> up[i]]
    BY <1>5
  <2>4. IsWalk(up, c, last, PrevOf)
    BY <2>1, <2>2, <2>3 DEF IsWalk
  <2>5. QED
    BY <1>2, <2>4, FollowIs
<1>9. Listed(down) = Members(n, q) /\ Listed(up) = Members(n, q)
  <2>1. \A j \in 1..n : /\ j - 1 \in 0..c /\ down[j - 1] = q[j]
                        /\ n - j \in 0..c /\ up[n - j] = q[j]
    BY <1>1, <1>3, <1>4, <1>5
  <2>2. \A i \in 0..c : /\ down[i] = None \/ \E j \in 1..n : down[i] = q[j]
                        /\ up[i] = None \/ \E j \in 1..n : up[i] = q[j]
    <3> SUFFICES ASSUME NEW i \in 0..c
                 PROVE  /\ down[i] = None \/ \E j \in 1..n : down[i] = q[j]
                        /\ up[i] = None \/ \E j \in 1..n : up[i] = q[j]
      OBVIOUS
    <3>1. i < n => i + 1 \in 1..n /\ n - i \in 1..n
      BY <1>1
    <3>2. QED
      BY <1>4, <1>5, <3>1
  <2>3. DOMAIN down = 0..c /\ DOMAIN up = 0..c
    BY <1>4, <1>5
  <2>4. QED
    <3>1. Listed(down) \subseteq Members(n, q) /\ Listed(up) \subseteq Members(n, q)
      BY <2>2, <2>3 DEF Listed, Members
    <3>2. \A j \in 1..n : q[j] \in Listed(down) /\ q[j] \in Listed(up)
      BY <1>6, <2>1, <2>3 DEF Listed
    <3>3. QED
      BY <3>1, <3>2 DEF Members
<1>10. down[n] = None
  BY <1>1, <1>3, <1>4
<1>11. \A i \in 0..(n - 1) : down[i] = up[n - 1 - i]
  <2> SUFFICES ASSUME NEW i \in 0..(n - 1) PROVE down[i] = up[n - 1 - i]
    OBVIOUS
  <2>1. /\ i \in 0..c /\ i < n /\ n - 1 - i \in 0..c /\ n - 1 - i < n
        /\ n - (n - 1 - i) = i + 1
    BY <1>1, <1>3
  <2>2. down[i] = q[i + 1]
    BY <1>4, <2>1
  <2>3. up[n - 1 - i] = q[n - (n - 1 - i)]
    BY <1>5, <2>1
  <2>4. QED
    BY <2>1, <2>2, <2>3
<1>12. QED
  BY <1>3, <1>7, <1>8, <1>9, <1>10, <1>11 DEF IsList

-----------------------------------------------------------------------------
(* What each function of the record changes, field by field.               *)

\* All but the lists and the accounts of the small queue.
SameRest(t, u) == /\ u.items = t.items /\ u.bytes = t.bytes
                  /\ u.set = t.set /\ u.queue = t.queue /\ u.policy = t.policy
SameSmall(t, u) == /\ u.smallHead = t.smallHead /\ u.smallTail = t.smallTail
                   /\ u.smallBytes = t.smallBytes /\ u.smallLen = t.smallLen
SameLists(t, u) == u.head = t.head /\ u.tail = t.tail /\ SameSmall(t, u)

\* The fields of an entry, as numbers.
LEMMA EntryTypes ==
  ASSUME NEW t \in Shards, NEW k \in Keys
  PROVE  /\ t.e[k] \in Entries /\ t.e[k].cost \in Nat /\ t.e[k].small \in BOOLEAN
         /\ t.e[k].freq \in 0..MaxFreq
         /\ t.bytes \in Int /\ t.smallBytes \in Int /\ t.smallLen \in Int
         /\ t.e \in [Keys -> Entries]
<1>1. t.e[k] \in Entries /\ t.e \in [Keys -> Entries]
  BY DEF Shards
<1>2. t.e[k].cost \in Costs \cup {0} /\ t.e[k].small \in BOOLEAN /\ t.e[k].freq \in 0..MaxFreq
  BY <1>1 DEF Entries
<1>3. t.e[k].cost \in Nat
  <2>1. Costs \cup {0} \subseteq Nat
    BY BudgetAssumption
  <2>2. QED
    BY <1>2, <2>1
<1>4. t.bytes \in Int /\ t.smallBytes \in Int /\ t.smallLen \in Int
  BY DEF Shards
<1>5. QED
  BY <1>1, <1>2, <1>3, <1>4

\* The functions that put an entry on a list and take it off.
LEMMA UnlinkFacts ==
  ASSUME NEW t \in Shards, NEW k \in Keys
  PROVE  /\ Unlink(t, k) \in Shards
         /\ SameRest(t, Unlink(t, k)) /\ SameSmall(t, Unlink(t, k))
         /\ Unlink(t, k).e = Detach(t.e, k)
         /\ Unlink(t, k).head =
                IF t.e[k].prev = None /\ t.head = k THEN t.e[k].next ELSE t.head
         /\ Unlink(t, k).tail =
                IF t.e[k].next = None /\ t.tail = k THEN t.e[k].prev ELSE t.tail
<1>1. Detach(t.e, k) \in [Keys -> Entries] /\ t.e[k] \in Entries
  BY DetachFacts DEF Shards
<1>2. QED
  BY <1>1 DEF Unlink, Shards, Entries, SameRest, SameSmall

LEMMA PushFrontFacts ==
  ASSUME NEW t \in Shards, NEW k \in Keys
  PROVE  /\ PushFront(t, k) \in Shards
         /\ SameRest(t, PushFront(t, k)) /\ SameSmall(t, PushFront(t, k))
         /\ PushFront(t, k).e = Attach(t.e, k, t.head)
         /\ PushFront(t, k).head = k
         /\ PushFront(t, k).tail = IF t.tail = None THEN k ELSE t.tail
<1>1. Attach(t.e, k, t.head) \in [Keys -> Entries]
  BY AttachFacts DEF Shards
<1>2. QED
  BY <1>1 DEF PushFront, Shards, SameRest, SameSmall

LEMMA UnlinkSmallFacts ==
  ASSUME NEW t \in Shards, NEW k \in Keys
  PROVE  /\ UnlinkSmall(t, k) \in Shards
         /\ SameRest(t, UnlinkSmall(t, k))
         /\ UnlinkSmall(t, k).e = Detach(t.e, k)
         /\ UnlinkSmall(t, k).head = t.head /\ UnlinkSmall(t, k).tail = t.tail
         /\ UnlinkSmall(t, k).smallHead =
                IF t.e[k].prev = None /\ t.smallHead = k THEN t.e[k].next ELSE t.smallHead
         /\ UnlinkSmall(t, k).smallTail =
                IF t.e[k].next = None /\ t.smallTail = k THEN t.e[k].prev ELSE t.smallTail
         /\ UnlinkSmall(t, k).smallBytes = t.smallBytes - t.e[k].cost
         /\ UnlinkSmall(t, k).smallLen = t.smallLen - 1
<1>1. Detach(t.e, k) \in [Keys -> Entries] /\ t.e[k] \in Entries
  BY EntryTypes, DetachFacts
<1>2. PICK a \in Int, b \in Int : a = t.smallBytes - t.e[k].cost /\ b = t.smallLen - 1
  BY EntryTypes
<1>3. QED
  BY <1>1, <1>2 DEF UnlinkSmall, Shards, Entries, SameRest

LEMMA PushFrontSmallFacts ==
  ASSUME NEW t \in Shards, NEW k \in Keys
  PROVE  LET d == Attach(t.e, k, t.smallHead)
             u == PushFrontSmall(t, k)
         IN /\ u \in Shards /\ SameRest(t, u)
            /\ u.e = [d EXCEPT ![k].small = TRUE]
            /\ u.head = t.head /\ u.tail = t.tail
            /\ u.smallHead = k
            /\ u.smallTail = IF t.smallTail = None THEN k ELSE t.smallTail
            /\ u.smallBytes = t.smallBytes + t.e[k].cost
            /\ u.smallLen = t.smallLen + 1
<1>1. PICK d \in [Keys -> Entries] : d = Attach(t.e, k, t.smallHead)
  <2>1. Attach(t.e, k, t.smallHead) \in [Keys -> Entries]
    BY AttachFacts DEF Shards
  <2>2. QED
    BY <2>1
<1>2. PICK a \in Int, b \in Int : a = t.smallBytes + t.e[k].cost /\ b = t.smallLen + 1
  BY EntryTypes
<1>3. [d EXCEPT ![k].small = TRUE] \in [Keys -> Entries]
  BY DEF Entries
<1>4. QED
  BY <1>1, <1>2, <1>3 DEF PushFrontSmall, Shards, SameRest

LEMMA DiscardFacts ==
  ASSUME NEW t \in Shards, NEW k \in Keys
  PROVE  /\ Discard(t, k) \in Shards
         /\ Discard(t, k).items = t.items \ {k}
         /\ Discard(t, k).bytes = t.bytes - t.e[k].cost
         /\ Discard(t, k).e = [t.e EXCEPT ![k] = NoEntry]
         /\ SameLists(t, Discard(t, k))
         /\ Discard(t, k).set = t.set /\ Discard(t, k).queue = t.queue
         /\ Discard(t, k).policy = t.policy
<1>1. PICK a \in Int : a = t.bytes - t.e[k].cost
  BY EntryTypes
<1>2. NoEntry \in Entries
  BY BudgetAssumption DEF Entries, NoEntry
<1>3. [t.e EXCEPT ![k] = NoEntry] \in [Keys -> Entries]
  BY <1>2 DEF Shards
<1>4. QED
  BY <1>2, <1>3, <1>1 DEF Discard, Shards, SameLists, SameSmall

-----------------------------------------------------------------------------
(* The shard's record is sound, whatever happens in between.               *)

\* The entries of each queue, and what they cost.
Main(t) == {k \in t.items : ~t.e[k].small}
Small(t) == {k \in t.items : t.e[k].small}
CostOf(t) == [k \in Keys |-> t.e[k].cost]

\* The lists hold the entries, but for those of apart, which are in neither; and
\* the main list has them in an order that R allows.
Linked(t, apart, R) ==
    \E n, q, m, r :
        /\ Chain(t.e, t.head, t.tail, n, q)
        /\ Chain(t.e, t.smallHead, t.smallTail, m, r)
        /\ Members(n, q) = Main(t) \ apart /\ Members(m, r) = Small(t) \ apart
        /\ \A i, j \in 1..n : i < j => <<q[i], q[j]>> \in R

\* The accounts add up, but for those of apart, which the small queue does not count.
Counted(t, apart) ==
    /\ t.bytes = Sum(CostOf(t), t.items)
    /\ t.smallBytes = Sum(CostOf(t), Small(t) \ apart)
    /\ t.smallLen = Cardinality(Small(t) \ apart)
    /\ \A k \in t.items : t.e[k].cost \in Costs

\* GhostsAgree, of the record t.
Agree(t) ==
    \A h \in Hashes : t.set[h] # NotGhost =>
        LET n == t.set[h] + 1 IN
        /\ n \in DOMAIN t.queue /\ t.queue[n] = h
        /\ \A i \in DOMAIN t.queue : t.queue[i] = h => i <= n

\* The invariant of a shard's record, at any place inside a function.
Sound(t, apart, R) == t \in Shards /\ Linked(t, apart, R) /\ Counted(t, apart) /\ Agree(t)

\* The sums and counts of an account, and what one entry is of them.
LEMMA Sizes ==
  ASSUME NEW t \in Shards, NEW A \in SUBSET t.items
  PROVE  /\ IsFiniteSet(A) /\ A \subseteq Keys
         /\ Sum(CostOf(t), A) \in Int /\ Cardinality(A) \in Nat
         /\ \A k \in A : /\ Sum(CostOf(t), A) = t.e[k].cost + Sum(CostOf(t), A \ {k})
                         /\ Sum(CostOf(t), A \ {k}) \in Int
                         /\ Cardinality(A) = Cardinality(A \ {k}) + 1
                         /\ Cardinality(A \ {k}) \in Nat
<1>1. A \subseteq Keys
  BY DEF Shards
<1>2. IsFiniteSet(A) /\ \A k \in A : IsFiniteSet(A \ {k})
  BY <1>1, KeysAssumption, FS_Subset
<1>3. \A k \in Keys : CostOf(t)[k] = t.e[k].cost /\ CostOf(t)[k] \in Int
  BY EntryTypes DEF CostOf
<1>4. PICK f : f = CostOf(t)
  OBVIOUS
<1>5. \A k \in A : f[k] = t.e[k].cost /\ f[k] \in Int
  BY <1>1, <1>3, <1>4
<1>6. Sum(f, A) \in Int
  BY <1>2, <1>5, SumPicked
<1>7. ASSUME NEW k \in A
      PROVE  Sum(f, A) = f[k] + Sum(f, A \ {k}) /\ Sum(f, A \ {k}) \in Int
  <2>1. IsFiniteSet(A \ {k}) /\ \A j \in A \ {k} : f[j] \in Int
    BY <1>2, <1>5
  <2>2. Sum(f, A \ {k}) \in Int
    BY <2>1, SumPicked
  <2>3. QED
    BY <1>2, <1>5, <2>2, SumRemove
<1>8. ASSUME NEW k \in A
      PROVE  Cardinality(A) = Cardinality(A \ {k}) + 1 /\ Cardinality(A \ {k}) \in Nat
  BY <1>2, FS_RemoveElement, FS_CardinalityType
<1>9. Cardinality(A) \in Nat
  BY <1>2, FS_CardinalityType
<1>10. QED
  BY <1>1, <1>2, <1>4, <1>5, <1>6, <1>7, <1>8, <1>9

\* The same costs make the same sum.
LEMMA SumApart ==
  ASSUME NEW t \in Shards, NEW u \in Shards, NEW A \in SUBSET t.items,
         \A k \in A : u.e[k].cost = t.e[k].cost
  PROVE  Sum(CostOf(u), A) = Sum(CostOf(t), A)
<1>1. IsFiniteSet(A) /\ A \subseteq Keys
  BY Sizes
<1>2. PICK f, g : f = CostOf(t) /\ g = CostOf(u)
  OBVIOUS
<1>3. \A k \in A : f[k] \in Int /\ g[k] = f[k]
  BY <1>1, <1>2, EntryTypes DEF CostOf
<1>4. Sum(f, A) = Sum(g, A)
  BY <1>1, <1>3, SumSame
<1>5. QED
  BY <1>2, <1>4

\* Links make no difference to the queues' entries and costs.
LEMMA SameSets ==
  ASSUME NEW t, NEW u, t.items \subseteq Keys, u.items = t.items, SameData(t.e, u.e)
  PROVE  Main(u) = Main(t) /\ Small(u) = Small(t) /\ CostOf(u) = CostOf(t)
<1>1. \A k \in Keys : u.e[k].cost = t.e[k].cost /\ u.e[k].small = t.e[k].small
  BY DEF SameData
<1>2. QED
  BY <1>1 DEF Main, Small, CostOf

\* Out of the main list, and out of the small one.
LEMMA UnlinkSound ==
  ASSUME NEW t, NEW R, Sound(t, {}, R), NEW k \in Main(t), NEW u, u = Unlink(t, k)
  PROVE  /\ Sound(u, {k}, R) /\ Main(u) = Main(t) /\ Small(u) = Small(t)
         /\ SameRest(t, u) /\ SameSmall(t, u) /\ SameData(t.e, u.e)
         /\ u.head = t.head \/ t.head = k
<1>1. t \in Shards /\ k \in Keys /\ k \in t.items /\ k \notin Small(t) /\ t.items \subseteq Keys
      /\ t.e \in [Keys -> Entries]
  BY EntryTypes DEF Sound, Main, Small, Shards
<1>2. /\ u \in Shards /\ SameRest(t, u) /\ SameSmall(t, u) /\ u.e = Detach(t.e, k)
      /\ u.head = IF t.e[k].prev = None /\ t.head = k THEN t.e[k].next ELSE t.head
      /\ u.tail = IF t.e[k].next = None /\ t.tail = k THEN t.e[k].prev ELSE t.tail
  BY <1>1, UnlinkFacts
<1>3. SameData(t.e, u.e)
  BY <1>1, <1>2, DetachFacts
<1>4. Main(u) = Main(t) /\ Small(u) = Small(t) /\ CostOf(u) = CostOf(t)
  BY <1>1, <1>2, <1>3, SameSets DEF SameRest
<1>5. Linked(u, {k}, R)
  <2>1. PICK n, q, m, r :
          /\ Chain(t.e, t.head, t.tail, n, q)
          /\ Chain(t.e, t.smallHead, t.smallTail, m, r)
          /\ Members(n, q) = Main(t) /\ Members(m, r) = Small(t)
          /\ \A i, j \in 1..n : i < j => <<q[i], q[j]>> \in R
    BY DEF Sound, Linked
  <2>2. PICK i \in 1..n : k = q[i]
    BY <2>1 DEF Members
  <2>3. /\ n \in Nat /\ q \in [1..n -> Keys] /\ \A a, b \in 1..n : q[a] = q[b] => a = b
    BY <2>1, ChainType
  <2>4. Chain(u.e, u.head, u.tail, n - 1, Off(n, q, i))
    BY <1>1, <1>2, <2>1, <2>2, ChainDetach
  <2>5. Chain(u.e, u.smallHead, u.smallTail, m, r)
    <3>1. Members(n, q) \cap Members(m, r) = {}
      BY <2>1 DEF Main, Small
    <3>2. Chain(Detach(t.e, q[i]), t.smallHead, t.smallTail, m, r)
      BY <1>1, <2>1, <3>1, ChainApart
    <3>3. QED
      BY <1>2, <2>2, <3>2 DEF SameSmall
  <2>6. Members(n - 1, Off(n, q, i)) = Main(u) \ {k} /\ Members(m, r) = Small(u) \ {k}
    <3>1. Members(n - 1, Off(n, q, i)) = Members(n, q) \ {q[i]}
      BY <2>3, OffFacts
    <3>2. QED
      BY <1>1, <1>4, <2>1, <2>2, <3>1
  <2>7. \A a, b \in 1..(n - 1) : a < b => <<Off(n, q, i)[a], Off(n, q, i)[b]>> \in R
    <3>1. \A j \in 1..(n - 1) : Off(n, q, i)[j] = IF j < i THEN q[j] ELSE q[j + 1]
      BY <2>3, OffFacts
    <3>2. QED
      BY <2>1, <2>3, <3>1
  <2>8. QED
    BY <2>4, <2>5, <2>6, <2>7 DEF Linked
<1>6. Counted(u, {k})
  <2>1. Small(t) \ {} = Small(t) \ {k}
    BY <1>1
  <2>2. \A j \in u.items : u.e[j].cost = t.e[j].cost
    BY <1>1, <1>2, <1>3 DEF SameData, SameRest
  <2>3. QED
    BY <1>2, <1>4, <2>1, <2>2 DEF Sound, Counted, SameRest, SameSmall
<1>7. Agree(u)
  BY <1>2 DEF Sound, Agree, SameRest
<1>8. QED
  BY <1>2, <1>3, <1>4, <1>5, <1>6, <1>7 DEF Sound

LEMMA UnlinkSmallSound ==
  ASSUME NEW t, NEW R, Sound(t, {}, R), NEW k \in Small(t), NEW u, u = UnlinkSmall(t, k)
  PROVE  /\ Sound(u, {k}, R) /\ Main(u) = Main(t) /\ Small(u) = Small(t)
         /\ SameRest(t, u) /\ SameData(t.e, u.e)
         /\ u.smallHead = t.smallHead \/ t.smallHead = k
         /\ u.head = t.head
<1>1. t \in Shards /\ k \in Keys /\ k \in t.items /\ k \notin Main(t) /\ t.items \subseteq Keys
      /\ t.e \in [Keys -> Entries]
  BY EntryTypes DEF Sound, Main, Small, Shards
<1>2. /\ u \in Shards /\ SameRest(t, u) /\ u.e = Detach(t.e, k)
      /\ u.head = t.head /\ u.tail = t.tail
      /\ u.smallHead = IF t.e[k].prev = None /\ t.smallHead = k THEN t.e[k].next ELSE t.smallHead
      /\ u.smallTail = IF t.e[k].next = None /\ t.smallTail = k THEN t.e[k].prev ELSE t.smallTail
      /\ u.smallBytes = t.smallBytes - t.e[k].cost /\ u.smallLen = t.smallLen - 1
  BY <1>1, UnlinkSmallFacts
<1>3. SameData(t.e, u.e)
  BY <1>1, <1>2, DetachFacts
<1>4. Main(u) = Main(t) /\ Small(u) = Small(t) /\ CostOf(u) = CostOf(t)
  BY <1>1, <1>2, <1>3, SameSets DEF SameRest
<1>5. Linked(u, {k}, R)
  <2>1. PICK n, q, m, r :
          /\ Chain(t.e, t.head, t.tail, n, q)
          /\ Chain(t.e, t.smallHead, t.smallTail, m, r)
          /\ Members(n, q) = Main(t) /\ Members(m, r) = Small(t)
          /\ \A i, j \in 1..n : i < j => <<q[i], q[j]>> \in R
    BY DEF Sound, Linked
  <2>2. PICK i \in 1..m : k = r[i]
    BY <2>1 DEF Members
  <2>3. /\ m \in Nat /\ r \in [1..m -> Keys] /\ \A a, b \in 1..m : r[a] = r[b] => a = b
    BY <2>1, ChainType
  <2>4. Chain(u.e, u.smallHead, u.smallTail, m - 1, Off(m, r, i))
    BY <1>1, <1>2, <2>1, <2>2, ChainDetach
  <2>5. Chain(u.e, u.head, u.tail, n, q)
    <3>1. Members(m, r) \cap Members(n, q) = {}
      BY <2>1 DEF Main, Small
    <3>2. Chain(Detach(t.e, r[i]), t.head, t.tail, n, q)
      BY <1>1, <2>1, <3>1, ChainApart
    <3>3. QED
      BY <1>2, <2>2, <3>2
  <2>6. Members(m - 1, Off(m, r, i)) = Small(u) \ {k} /\ Members(n, q) = Main(u) \ {k}
    <3>1. Members(m - 1, Off(m, r, i)) = Members(m, r) \ {r[i]}
      BY <2>3, OffFacts
    <3>2. QED
      BY <1>1, <1>4, <2>1, <2>2, <3>1
  <2>7. QED
    BY <2>1, <2>4, <2>5, <2>6 DEF Linked
<1>6. Counted(u, {k})
  <2>1. Small(t) \in SUBSET t.items /\ Small(t) \ {} = Small(t)
    BY DEF Small
  <2>2. /\ Sum(CostOf(t), Small(t)) = t.e[k].cost + Sum(CostOf(t), Small(t) \ {k})
        /\ Sum(CostOf(t), Small(t) \ {k}) \in Int
        /\ Cardinality(Small(t)) = Cardinality(Small(t) \ {k}) + 1
        /\ Cardinality(Small(t) \ {k}) \in Nat
    BY <1>1, <2>1, Sizes
  <2>3. t.smallBytes = Sum(CostOf(t), Small(t)) /\ t.smallLen = Cardinality(Small(t))
    BY <2>1 DEF Sound, Counted
  <2>4. u.smallBytes = Sum(CostOf(t), Small(t) \ {k}) /\ u.smallLen = Cardinality(Small(t) \ {k})
    BY <1>1, <1>2, <2>2, <2>3, EntryTypes
  <2>5. \A j \in u.items : u.e[j].cost = t.e[j].cost
    BY <1>1, <1>2, <1>3 DEF SameData, SameRest
  <2>6. QED
    BY <1>2, <1>4, <2>4, <2>5 DEF Sound, Counted, SameRest
<1>7. Agree(u)
  BY <1>2 DEF Sound, Agree, SameRest
<1>8. QED
  BY <1>2, <1>3, <1>4, <1>5, <1>6, <1>7 DEF Sound

\* In front of the main list, where R must allow it.
LEMMA PushFrontSound ==
  ASSUME NEW t, NEW k \in Main(t), NEW R, Sound(t, {k}, R), NEW u, u = PushFront(t, k),
         NEW Q, \A a, b \in Main(t) \ {k} : <<a, b>> \in R => <<a, b>> \in Q,
         \A a \in Main(t) \ {k} : <<k, a>> \in Q
  PROVE  /\ Sound(u, {}, Q) /\ Main(u) = Main(t) /\ Small(u) = Small(t) /\ u.head = k
         /\ SameRest(t, u) /\ SameSmall(t, u) /\ SameData(t.e, u.e)
<1>1. t \in Shards /\ k \in Keys /\ k \in t.items /\ k \notin Small(t) /\ t.items \subseteq Keys
      /\ t.e \in [Keys -> Entries] /\ t.head \in Keys \cup {None}
  BY EntryTypes DEF Sound, Main, Small, Shards
<1>2. /\ u \in Shards /\ SameRest(t, u) /\ SameSmall(t, u) /\ u.e = Attach(t.e, k, t.head)
      /\ u.head = k /\ u.tail = IF t.tail = None THEN k ELSE t.tail
  BY <1>1, PushFrontFacts
<1>3. SameData(t.e, u.e)
  BY <1>1, <1>2, AttachFacts
<1>4. Main(u) = Main(t) /\ Small(u) = Small(t) /\ CostOf(u) = CostOf(t)
  BY <1>1, <1>2, <1>3, SameSets DEF SameRest
<1>5. Linked(u, {}, Q)
  <2>1. PICK n, q, m, r :
          /\ Chain(t.e, t.head, t.tail, n, q)
          /\ Chain(t.e, t.smallHead, t.smallTail, m, r)
          /\ Members(n, q) = Main(t) \ {k} /\ Members(m, r) = Small(t) \ {k}
          /\ \A i, j \in 1..n : i < j => <<q[i], q[j]>> \in R
    BY DEF Sound, Linked
  <2>2. k \notin Members(n, q) /\ k \notin Members(m, r)
    BY <2>1
  <2>3. /\ n \in Nat /\ q \in [1..n -> Keys] /\ \A a, b \in 1..n : q[a] = q[b] => a = b
    BY <2>1, ChainType
  <2>4. Chain(u.e, u.head, u.tail, n + 1, InFront(k, n, q))
    BY <1>1, <1>2, <2>1, <2>2, ChainAttach
  <2>5. Chain(u.e, u.smallHead, u.smallTail, m, r)
    <3>1. Members(n, q) \cap Members(m, r) = {}
      BY <2>1 DEF Main, Small
    <3>2. Chain(Attach(t.e, k, t.head), t.smallHead, t.smallTail, m, r)
      BY <1>1, <2>1, <2>2, <3>1, ChainApart
    <3>3. QED
      BY <1>2, <3>2 DEF SameSmall
  <2>6. Members(n + 1, InFront(k, n, q)) = Main(u) \ {} /\ Members(m, r) = Small(u) \ {}
    <3>1. Members(n + 1, InFront(k, n, q)) = Members(n, q) \cup {k}
      BY <1>1, <2>2, <2>3, InFrontFacts
    <3>2. QED
      BY <1>1, <1>4, <2>1, <3>1
  <2>7. \A a, b \in 1..(n + 1) : a < b => <<InFront(k, n, q)[a], InFront(k, n, q)[b]>> \in Q
    <3>1. \A j \in 1..(n + 1) : InFront(k, n, q)[j] = IF j = 1 THEN k ELSE q[j - 1]
      BY <1>1, <2>2, <2>3, InFrontFacts
    <3>2. \A j \in 1..n : q[j] \in Main(t) \ {k}
      BY <2>1 DEF Members
    <3>3. ASSUME NEW a \in 1..(n + 1), NEW b \in 1..(n + 1), a < b
          PROVE  <<InFront(k, n, q)[a], InFront(k, n, q)[b]>> \in Q
      <4>1. b - 1 \in 1..n /\ InFront(k, n, q)[b] = q[b - 1]
        BY <2>3, <3>1, <3>3
      <4>2. CASE a = 1
        BY <3>1, <3>2, <4>1, <4>2
      <4>3. CASE a # 1
        <5>1. a - 1 \in 1..n /\ a - 1 < b - 1 /\ InFront(k, n, q)[a] = q[a - 1]
          BY <2>3, <3>1, <3>3, <4>3
        <5>2. <<q[a - 1], q[b - 1]>> \in R
          BY <2>1, <4>1, <5>1
        <5>3. QED
          BY <3>2, <4>1, <5>1, <5>2
      <4>4. QED
        BY <4>2, <4>3
    <3>4. QED
      BY <3>3
  <2>8. QED
    BY <2>4, <2>5, <2>6, <2>7 DEF Linked
<1>6. Counted(u, {})
  <2>1. Small(t) \ {} = Small(t) \ {k}
    BY <1>1
  <2>2. \A j \in u.items : u.e[j].cost = t.e[j].cost
    BY <1>1, <1>2, <1>3 DEF SameData, SameRest
  <2>3. QED
    BY <1>2, <1>4, <2>1, <2>2 DEF Sound, Counted, SameRest, SameSmall
<1>7. Agree(u)
  BY <1>2 DEF Sound, Agree, SameRest
<1>8. QED
  BY <1>2, <1>3, <1>4, <1>5, <1>6, <1>7 DEF Sound

\* In front of the small list.
LEMMA PushFrontSmallSound ==
  ASSUME NEW t, NEW k \in t.items, NEW R, Sound(t, {k}, R), NEW u, u = PushFrontSmall(t, k)
  PROVE  /\ Sound(u, {}, R) /\ SameRest(t, u) /\ u.smallHead = k
         /\ u.e[k].small
         /\ \A j \in Keys : u.e[j].cost = t.e[j].cost
         /\ \A j \in Keys \ {k} : u.e[j].small = t.e[j].small
<1>1. t \in Shards /\ k \in Keys /\ t.items \subseteq Keys
      /\ t.e \in [Keys -> Entries] /\ t.smallHead \in Keys \cup {None}
  BY EntryTypes DEF Sound, Shards
<1>2. PICK d : d = Attach(t.e, k, t.smallHead)
  OBVIOUS
<1>3. d \in [Keys -> Entries] /\ SameData(t.e, d)
  BY <1>1, <1>2, AttachFacts
<1>4. /\ u \in Shards /\ SameRest(t, u) /\ u.e = [d EXCEPT ![k].small = TRUE]
      /\ u.head = t.head /\ u.tail = t.tail
      /\ u.smallHead = k /\ u.smallTail = IF t.smallTail = None THEN k ELSE t.smallTail
      /\ u.smallBytes = t.smallBytes + t.e[k].cost /\ u.smallLen = t.smallLen + 1
  BY <1>1, <1>2, PushFrontSmallFacts
<1>5. \A j \in Keys : /\ SameLinks(d, u.e, j) /\ u.e[j].cost = t.e[j].cost
                      /\ u.e[j].small = IF j = k THEN TRUE ELSE t.e[j].small
  <2>1. \A j \in Keys : d[j] \in Entries /\ u.e[j] = IF j = k THEN [d[k] EXCEPT !.small = TRUE] ELSE d[j]
    BY <1>1, <1>3, <1>4
  <2>2. \A j \in Keys : /\ SameLinks(d, u.e, j) /\ u.e[j].cost = d[j].cost
                        /\ u.e[j].small = IF j = k THEN TRUE ELSE d[j].small
    <3> SUFFICES ASSUME NEW j \in Keys
                 PROVE  /\ SameLinks(d, u.e, j) /\ u.e[j].cost = d[j].cost
                        /\ u.e[j].small = IF j = k THEN TRUE ELSE d[j].small
      OBVIOUS
    <3>1. CASE j # k
      BY <2>1, <3>1 DEF SameLinks
    <3>2. CASE j = k
      <4>1. d[k] \in Entries /\ u.e[k] = [d[k] EXCEPT !.small = TRUE]
        BY <1>1, <2>1
      <4>2. QED
        BY <3>2, <4>1 DEF SameLinks, Entries
    <3>3. QED
      BY <3>1, <3>2
  <2>3. QED
    BY <1>3, <2>2 DEF SameData
<1>6. /\ Main(u) = Main(t) \ {k} /\ Small(u) \ {k} = Small(t) \ {k} /\ k \in Small(u)
      /\ CostOf(u) = CostOf(t)
  BY <1>1, <1>4, <1>5 DEF Main, Small, CostOf, SameRest
<1>7. Linked(u, {}, R)
  <2>1. PICK n, q, m, r :
          /\ Chain(t.e, t.head, t.tail, n, q)
          /\ Chain(t.e, t.smallHead, t.smallTail, m, r)
          /\ Members(n, q) = Main(t) \ {k} /\ Members(m, r) = Small(t) \ {k}
          /\ \A i, j \in 1..n : i < j => <<q[i], q[j]>> \in R
    BY DEF Sound, Linked
  <2>2. k \notin Members(n, q) /\ k \notin Members(m, r)
    BY <2>1
  <2>3. /\ m \in Nat /\ r \in [1..m -> Keys] /\ \A a, b \in 1..m : r[a] = r[b] => a = b
    BY <2>1, ChainType
  <2>4. Members(n, q) \subseteq Keys
    BY <2>1, ChainType
  <2>5. Members(m + 1, InFront(k, m, r)) = Members(m, r) \cup {k}
    <3>1. k \in Keys /\ k \notin Members(m, r)
      BY <1>1, <2>2
    <3>2. QED
      BY <2>3, <3>1, InFrontFacts
  <2>6. Chain(u.e, u.smallHead, u.smallTail, m + 1, InFront(k, m, r))
    <3>1. Chain(d, u.smallHead, u.smallTail, m + 1, InFront(k, m, r))
      BY <1>1, <1>2, <1>4, <2>1, <2>2, ChainAttach
    <3>2. \A j \in Members(m + 1, InFront(k, m, r)) : SameLinks(d, u.e, j)
      BY <1>1, <1>5, <2>1, <2>5 DEF Small
    <3>3. QED
      BY <3>1, <3>2, ChainSame
  <2>7. Chain(u.e, u.head, u.tail, n, q)
    <3>1. Members(m, r) \cap Members(n, q) = {}
      BY <2>1 DEF Main, Small
    <3>2. Chain(d, t.head, t.tail, n, q)
      BY <1>1, <1>2, <2>1, <2>2, <3>1, ChainApart
    <3>3. \A j \in Members(n, q) : SameLinks(d, u.e, j)
      BY <1>5, <2>4
    <3>4. QED
      BY <1>4, <3>2, <3>3, ChainSame
  <2>8. Members(m + 1, InFront(k, m, r)) = Small(u) \ {} /\ Members(n, q) = Main(u) \ {}
    BY <1>6, <2>1, <2>5
  <2>9. QED
    BY <2>1, <2>6, <2>7, <2>8 DEF Linked
<1>8. Counted(u, {})
  <2>1. Small(u) \in SUBSET u.items /\ Small(u) \ {} = Small(u)
    BY DEF Small
  <2>2. /\ Sum(CostOf(u), Small(u)) = u.e[k].cost + Sum(CostOf(u), Small(u) \ {k})
        /\ Sum(CostOf(u), Small(u) \ {k}) \in Int
        /\ Cardinality(Small(u)) = Cardinality(Small(u) \ {k}) + 1
        /\ Cardinality(Small(u) \ {k}) \in Nat
    <3>1. u \in Shards /\ k \in Small(u)
      BY <1>4, <1>6
    <3>2. QED
      BY <2>1, <3>1, Sizes
  <2>3. /\ t.smallBytes = Sum(CostOf(u), Small(u) \ {k})
        /\ t.smallLen = Cardinality(Small(u) \ {k})
    BY <1>6 DEF Sound, Counted
  <2>4. u.smallBytes = Sum(CostOf(u), Small(u)) /\ u.smallLen = Cardinality(Small(u))
    <3>1. PICK c \in Nat : c = u.e[k].cost /\ c = t.e[k].cost
      BY <1>1, <1>5, EntryTypes
    <3>2. PICK b \in Int, a \in Nat : b = Sum(CostOf(u), Small(u) \ {k}) /\ a = Cardinality(Small(u) \ {k})
      BY <2>2
    <3>3. u.smallBytes = b + c /\ u.smallLen = a + 1
      BY <1>4, <2>3, <3>1, <3>2
    <3>4. Sum(CostOf(u), Small(u)) = c + b /\ Cardinality(Small(u)) = a + 1
      BY <2>2, <3>1, <3>2
    <3>5. QED
      BY <3>3, <3>4
  <2>5. \A j \in u.items : u.e[j].cost = t.e[j].cost
    BY <1>1, <1>4, <1>5 DEF SameRest
  <2>6. QED
    BY <1>4, <1>6, <2>1, <2>4, <2>5 DEF Sound, Counted, SameRest
<1>9. Agree(u)
  BY <1>4 DEF Sound, Agree, SameRest
<1>10. QED
  BY <1>1, <1>4, <1>5, <1>7, <1>8, <1>9 DEF Sound

\* u is t without an entry that was in neither list.
Lacks(t, u, k) ==
    /\ u.items = t.items \ {k} /\ Main(u) = Main(t) \ {k} /\ Small(u) = Small(t) \ {k}
    /\ SameLists(t, u) /\ u.set = t.set /\ u.queue = t.queue /\ u.policy = t.policy
    /\ \A j \in Keys \ {k} : u.e[j] = t.e[j]

\* An entry in neither list is dropped from the map and the account.
LEMMA DiscardSound ==
  ASSUME NEW t, NEW k \in t.items, NEW R, Sound(t, {k}, R), NEW u, u = Discard(t, k)
  PROVE  Sound(u, {}, R) /\ Lacks(t, u, k)
<1>1. t \in Shards /\ k \in Keys /\ t.items \subseteq Keys /\ t.e \in [Keys -> Entries]
  BY EntryTypes DEF Sound, Shards
<1>2. /\ u \in Shards /\ u.items = t.items \ {k} /\ u.bytes = t.bytes - t.e[k].cost
      /\ u.e = [t.e EXCEPT ![k] = NoEntry] /\ SameLists(t, u)
      /\ u.set = t.set /\ u.queue = t.queue /\ u.policy = t.policy
  BY <1>1, DiscardFacts
<1>3. \A j \in Keys \ {k} : u.e[j] = t.e[j]
  BY <1>1, <1>2
<1>4. Main(u) = Main(t) \ {k} /\ Small(u) = Small(t) \ {k}
  BY <1>1, <1>2, <1>3 DEF Main, Small
<1>5. Linked(u, {}, R)
  <2>1. PICK n, q, m, r :
          /\ Chain(t.e, t.head, t.tail, n, q)
          /\ Chain(t.e, t.smallHead, t.smallTail, m, r)
          /\ Members(n, q) = Main(t) \ {k} /\ Members(m, r) = Small(t) \ {k}
          /\ \A i, j \in 1..n : i < j => <<q[i], q[j]>> \in R
    BY DEF Sound, Linked
  <2>2. \A j \in Keys \ {k} : SameLinks(t.e, u.e, j)
    BY <1>3 DEF SameLinks
  <2>3. Members(n, q) \subseteq Keys \ {k} /\ Members(m, r) \subseteq Keys \ {k}
    BY <1>1, <2>1 DEF Main, Small
  <2>4. Chain(u.e, u.head, u.tail, n, q) /\ Chain(u.e, u.smallHead, u.smallTail, m, r)
    BY <1>2, <2>1, <2>2, <2>3, ChainSame DEF SameLists, SameSmall
  <2>5. Members(n, q) = Main(u) \ {} /\ Members(m, r) = Small(u) \ {}
    BY <1>4, <2>1
  <2>6. QED
    BY <2>1, <2>4, <2>5 DEF Linked
<1>6. Counted(u, {})
  <2>1. /\ t.bytes = Sum(CostOf(t), t.items)
        /\ t.smallBytes = Sum(CostOf(t), Small(t) \ {k})
        /\ t.smallLen = Cardinality(Small(t) \ {k})
        /\ \A j \in t.items : t.e[j].cost \in Costs
    BY DEF Sound, Counted
  <2>2. /\ Sum(CostOf(t), t.items) = t.e[k].cost + Sum(CostOf(t), t.items \ {k})
        /\ Sum(CostOf(t), t.items \ {k}) \in Int
    BY <1>1, Sizes
  <2>3. u.bytes = Sum(CostOf(t), u.items)
    BY <1>1, <1>2, <2>1, <2>2, EntryTypes
  <2>4. u.items \in SUBSET t.items /\ Small(u) \in SUBSET t.items
        /\ \A j \in u.items : u.e[j].cost = t.e[j].cost
    BY <1>1, <1>2, <1>3 DEF Small
  <2>5. Sum(CostOf(u), u.items) = Sum(CostOf(t), u.items)
    BY <1>1, <1>2, <2>4, SumApart
  <2>6. Sum(CostOf(u), Small(u)) = Sum(CostOf(t), Small(u))
    <3>1. \A j \in Small(u) : u.e[j].cost = t.e[j].cost
      BY <2>4 DEF Small
    <3>2. QED
      BY <1>1, <1>2, <2>4, <3>1, SumApart
  <2>7. Small(u) \ {} = Small(u)
    OBVIOUS
  <2>8. QED
    BY <1>2, <1>4, <2>1, <2>3, <2>4, <2>5, <2>6, <2>7 DEF Counted, SameLists, SameSmall
<1>7. Agree(u)
  BY <1>2 DEF Sound, Agree
<1>8. QED
  BY <1>2, <1>3, <1>4, <1>5, <1>6, <1>7 DEF Sound, Lacks

\* What changes no list and no account leaves the record sound.
LEMMA SameSound ==
  ASSUME NEW t, NEW X, NEW R, Sound(t, X, R), NEW u \in Shards, Agree(u),
         u.items = t.items, u.bytes = t.bytes, SameLists(t, u),
         \A j \in Keys : SameLinks(t.e, u.e, j) /\ u.e[j].cost = t.e[j].cost,
         \A j \in Keys \ X : u.e[j].small = t.e[j].small
  PROVE  Sound(u, X, R)
<1>1. t \in Shards /\ t.items \subseteq Keys
  BY DEF Sound, Shards
<1>2. /\ Main(u) \ X = Main(t) \ X /\ Small(u) \ X = Small(t) \ X
      /\ CostOf(u) = CostOf(t)
  BY <1>1 DEF Main, Small, CostOf
<1>3. Linked(u, X, R)
  <2>1. PICK n, q, m, r :
          /\ Chain(t.e, t.head, t.tail, n, q)
          /\ Chain(t.e, t.smallHead, t.smallTail, m, r)
          /\ Members(n, q) = Main(t) \ X /\ Members(m, r) = Small(t) \ X
          /\ \A i, j \in 1..n : i < j => <<q[i], q[j]>> \in R
    BY DEF Sound, Linked
  <2>2. Members(n, q) \subseteq Keys /\ Members(m, r) \subseteq Keys
    BY <1>1, <2>1 DEF Main, Small
  <2>3. Chain(u.e, u.head, u.tail, n, q) /\ Chain(u.e, u.smallHead, u.smallTail, m, r)
    BY <2>1, <2>2, ChainSame DEF SameLists, SameSmall
  <2>4. QED
    BY <1>2, <2>1, <2>3 DEF Linked
<1>4. Counted(u, X)
  <2>1. \A j \in u.items : u.e[j].cost = t.e[j].cost
    BY <1>1
  <2>2. QED
    BY <1>2, <2>1 DEF Sound, Counted, SameLists, SameSmall
<1>5. QED
  BY <1>3, <1>4 DEF Sound

\* freq is the entry's own.
LEMMA FreqSound ==
  ASSUME NEW t, NEW X, NEW R, Sound(t, X, R), NEW k \in Keys, NEW v \in 0..MaxFreq,
         NEW u, u = [t EXCEPT !.e[k].freq = v]
  PROVE  /\ Sound(u, X, R) /\ Main(u) = Main(t) /\ Small(u) = Small(t)
         /\ SameRest(t, u) /\ SameLists(t, u)
         /\ \A j \in Keys : /\ SameLinks(t.e, u.e, j) /\ u.e[j].cost = t.e[j].cost
                            /\ u.e[j].small = t.e[j].small
<1>1. t \in Shards /\ t.items \subseteq Keys /\ t.e \in [Keys -> Entries]
  BY EntryTypes DEF Sound, Shards
<1>2. [t.e[k] EXCEPT !.freq = v] \in Entries
  BY <1>1 DEF Entries
<1>3. PICK d \in [Keys -> Entries] : d = [t.e EXCEPT ![k] = [t.e[k] EXCEPT !.freq = v]]
  BY <1>1, <1>2
<1>4. u = [t EXCEPT !.e = d]
  BY <1>1, <1>3 DEF Shards
<1>5. /\ u \in Shards /\ u.e = d /\ SameRest(t, u) /\ SameLists(t, u)
  BY <1>1, <1>4 DEF Shards, SameRest, SameLists, SameSmall
<1>6. ASSUME NEW j \in Keys
      PROVE  /\ SameLinks(t.e, u.e, j) /\ u.e[j].cost = t.e[j].cost
             /\ u.e[j].small = t.e[j].small
  <2>1. CASE j # k
    BY <1>1, <1>3, <1>5, <2>1 DEF SameLinks
  <2>2. CASE j = k
    <3>1. t.e[k] \in Entries /\ u.e[k] = [t.e[k] EXCEPT !.freq = v]
      BY <1>1, <1>3, <1>5
    <3>2. QED
      BY <2>2, <3>1 DEF SameLinks, Entries
  <2>3. QED
    BY <2>1, <2>2
<1>7. Agree(u)
  BY <1>5 DEF Sound, Agree, SameRest
<1>8. Sound(u, X, R)
  BY <1>5, <1>6, <1>7, SameSound DEF SameRest
<1>9. Main(u) = Main(t) /\ Small(u) = Small(t)
  BY <1>1, <1>5, <1>6 DEF Main, Small, SameRest
<1>10. QED
  BY <1>5, <1>6, <1>8, <1>9

\* A new entry is in neither list yet.
Added(t, k, cost) == [t EXCEPT !.items = @ \cup {k}, !.bytes = @ + cost,
                               !.e[k] = [NoEntry EXCEPT !.cost = cost]]

\* u is t with a new entry, in neither list.
Gains(t, u, k, cost) ==
    /\ u.items = t.items \cup {k} /\ Main(u) = Main(t) \cup {k} /\ Small(u) = Small(t)
    /\ SameLists(t, u) /\ u.set = t.set /\ u.queue = t.queue /\ u.policy = t.policy
    /\ \A j \in Keys \ {k} : u.e[j] = t.e[j]
    /\ u.e[k].cost = cost /\ ~u.e[k].small

\* set() adds an entry to the map and the account, and to a list later.
LEMMA AddedSound ==
  ASSUME NEW t, NEW R, Sound(t, {}, R), NEW k \in Keys \ t.items, NEW cost \in Costs,
         NEW u, u = Added(t, k, cost)
  PROVE  Sound(u, {k}, R) /\ Gains(t, u, k, cost)
<1>1. t \in Shards /\ t.items \subseteq Keys /\ t.e \in [Keys -> Entries] /\ k \in Keys
  BY EntryTypes DEF Sound, Shards
<1>2. PICK x \in Entries : x.cost = cost /\ x.small = FALSE /\ x = [NoEntry EXCEPT !.cost = cost]
  <2>1. NoEntry \in Entries
    BY BudgetAssumption DEF Entries, NoEntry
  <2>2. [NoEntry EXCEPT !.cost = cost] \in Entries
    BY <2>1 DEF Entries
  <2>3. [NoEntry EXCEPT !.cost = cost].cost = cost /\ [NoEntry EXCEPT !.cost = cost].small = FALSE
    BY DEF NoEntry
  <2>4. QED
    BY <2>2, <2>3
<1>3. PICK d \in [Keys -> Entries] : d = [t.e EXCEPT ![k] = x]
  BY <1>1
<1>4. PICK b \in Int : b = t.bytes + cost
  <2>1. cost \in Int
    BY BudgetAssumption
  <2>2. QED
    BY <1>1, <2>1, EntryTypes
<1>5. u = [t EXCEPT !.items = t.items \cup {k}, !.bytes = b, !.e = d]
  BY <1>1, <1>2, <1>3, <1>4 DEF Shards, Added
<1>6. /\ u \in Shards /\ u.e = d /\ u.items = t.items \cup {k} /\ u.bytes = b
      /\ SameLists(t, u) /\ u.set = t.set /\ u.queue = t.queue /\ u.policy = t.policy
  <2>1. u \in Shards
    <3>1. PICK i \in SUBSET Keys : i = t.items \cup {k}
      BY <1>1
    <3>2. u = [t EXCEPT !.items = i, !.bytes = b, !.e = d]
      BY <1>5, <3>1
    <3>3. QED
      BY <1>1, <3>2 DEF Shards
  <2>2. u.e = d /\ u.items = t.items \cup {k} /\ u.bytes = b
    BY <1>1, <1>5 DEF Shards
  <2>3. SameLists(t, u)
    BY <1>1, <1>5 DEF Shards, SameLists, SameSmall
  <2>4. u.set = t.set /\ u.queue = t.queue /\ u.policy = t.policy
    BY <1>1, <1>5 DEF Shards
  <2>5. QED
    BY <2>1, <2>2, <2>3, <2>4
<1>7. u.e[k] = x /\ \A j \in Keys \ {k} : u.e[j] = t.e[j]
  BY <1>1, <1>3, <1>6
<1>8. Main(u) = Main(t) \cup {k} /\ Small(u) = Small(t) /\ k \notin Small(t) /\ k \notin Main(t)
  <2>1. \A j \in u.items : u.e[j].small = IF j = k THEN FALSE ELSE t.e[j].small
    BY <1>1, <1>2, <1>6, <1>7
  <2>2. QED
    BY <1>6, <2>1 DEF Main, Small
<1>9. Linked(u, {k}, R)
  <2>1. PICK n, q, m, r :
          /\ Chain(t.e, t.head, t.tail, n, q)
          /\ Chain(t.e, t.smallHead, t.smallTail, m, r)
          /\ Members(n, q) = Main(t) /\ Members(m, r) = Small(t)
          /\ \A i, j \in 1..n : i < j => <<q[i], q[j]>> \in R
    BY DEF Sound, Linked
  <2>2. \A j \in Keys \ {k} : SameLinks(t.e, u.e, j)
    BY <1>7 DEF SameLinks
  <2>3. Members(n, q) \subseteq Keys \ {k} /\ Members(m, r) \subseteq Keys \ {k}
    BY <1>1, <1>8, <2>1 DEF Main, Small
  <2>4. Chain(u.e, u.head, u.tail, n, q) /\ Chain(u.e, u.smallHead, u.smallTail, m, r)
    BY <1>6, <2>1, <2>2, <2>3, ChainSame DEF SameLists, SameSmall
  <2>5. Members(n, q) = Main(u) \ {k} /\ Members(m, r) = Small(u) \ {k}
    BY <1>8, <2>1
  <2>6. QED
    BY <2>1, <2>4, <2>5 DEF Linked
<1>10. Counted(u, {k})
  <2>1. Small(t) = Small(t) \ {} /\ Small(t) \ {} = Small(u) \ {k}
    BY <1>8
  <2>2. /\ t.bytes = Sum(CostOf(t), t.items)
        /\ t.smallBytes = Sum(CostOf(t), Small(t))
        /\ t.smallLen = Cardinality(Small(t))
        /\ \A j \in t.items : t.e[j].cost \in Costs
    BY <2>1 DEF Sound, Counted
  <2>3. t.items \in SUBSET t.items /\ Small(t) \in SUBSET t.items
        /\ \A j \in t.items : u.e[j].cost = t.e[j].cost
    BY <1>1, <1>7 DEF Small
  <2>4. Sum(CostOf(u), t.items) = Sum(CostOf(t), t.items)
    BY <1>1, <1>6, <2>3, SumApart
  <2>5. Sum(CostOf(u), Small(t)) = Sum(CostOf(t), Small(t))
    <3>1. \A j \in Small(t) : u.e[j].cost = t.e[j].cost
      BY <2>3
    <3>2. QED
      BY <1>1, <1>6, <2>3, <3>1, SumApart
  <2>6. Sum(CostOf(u), u.items) = u.e[k].cost + Sum(CostOf(u), t.items)
    <3>1. u.items \in SUBSET u.items /\ k \in u.items /\ u.items \ {k} = t.items
      BY <1>6
    <3>2. Sum(CostOf(u), u.items) = u.e[k].cost + Sum(CostOf(u), u.items \ {k})
      BY <1>6, <3>1, Sizes
    <3>3. QED
      BY <3>1, <3>2
  <2>7. u.bytes = Sum(CostOf(u), u.items)
    <3>1. cost \in Int
      BY BudgetAssumption
    <3>2. QED
      BY <1>1, <1>2, <1>4, <1>6, <1>7, <2>2, <2>4, <2>6, <3>1, EntryTypes
  <2>8. \A j \in u.items : u.e[j].cost \in Costs
    BY <1>2, <1>6, <1>7, <2>2, <2>3
  <2>9. QED
    BY <1>6, <1>8, <2>1, <2>2, <2>5, <2>7, <2>8 DEF Counted, SameLists, SameSmall
<1>11. Agree(u)
  BY <1>6 DEF Sound, Agree
<1>12. QED
  BY <1>2, <1>6, <1>7, <1>8, <1>9, <1>10, <1>11 DEF Sound, Gains

\* u is t without an entry, as seen by the other entries.
Removed(t, u, k) ==
    /\ u.items = t.items \ {k} /\ Main(u) = Main(t) \ {k} /\ Small(u) = Small(t) \ {k}
    /\ u.set = t.set /\ u.queue = t.queue /\ u.policy = t.policy
    /\ k \in Main(t) \/ t.smallHead # k => u.smallHead = t.smallHead
    /\ t.head # k => u.head = t.head
    /\ \A j \in Keys \ {k} : u.e[j].cost = t.e[j].cost /\ u.e[j].small = t.e[j].small

\* remove(), of any entry.
LEMMA RemoveSound ==
  ASSUME NEW t, NEW R, Sound(t, {}, R), NEW k \in t.items, NEW u, u = Remove(t, k)
  PROVE  Sound(u, {}, R) /\ Removed(t, u, k)
<1>1. t \in Shards /\ k \in Keys /\ t.items \subseteq Keys
  BY DEF Sound, Shards
<1>2. CASE t.e[k].small
  <2>1. k \in Small(t) /\ k \notin Main(t)
    BY <1>2 DEF Small, Main
  <2>2. PICK v : v = UnlinkSmall(t, k)
    OBVIOUS
  <2>3. /\ Sound(v, {k}, R) /\ Main(v) = Main(t) /\ Small(v) = Small(t)
        /\ SameRest(t, v) /\ SameData(t.e, v.e)
        /\ v.smallHead = t.smallHead \/ t.smallHead = k
        /\ v.head = t.head
    BY <2>1, <2>2, UnlinkSmallSound
  <2>4. u = Discard(v, k) /\ k \in v.items
    BY <1>2, <2>2, <2>3 DEF Remove, SameRest
  <2>5. Sound(u, {}, R) /\ Lacks(v, u, k)
    BY <2>3, <2>4, DiscardSound
  <2>6. QED
    BY <2>1, <2>3, <2>5 DEF Lacks, Removed, SameRest, SameData, SameLists, SameSmall
<1>3. CASE ~t.e[k].small
  <2>1. k \in Main(t)
    BY <1>3 DEF Main
  <2>2. PICK v : v = Unlink(t, k)
    OBVIOUS
  <2>3. /\ Sound(v, {k}, R) /\ Main(v) = Main(t) /\ Small(v) = Small(t)
        /\ SameRest(t, v) /\ SameSmall(t, v) /\ SameData(t.e, v.e)
        /\ v.head = t.head \/ t.head = k
    BY <2>1, <2>2, UnlinkSound
  <2>4. u = Discard(v, k) /\ k \in v.items
    BY <1>3, <2>2, <2>3 DEF Remove, SameRest
  <2>5. Sound(u, {}, R) /\ Lacks(v, u, k)
    BY <2>3, <2>4, DiscardSound
  <2>6. QED
    BY <2>1, <2>3, <2>5 DEF Lacks, Removed, SameRest, SameData, SameLists, SameSmall
<1>4. QED
  BY <1>2, <1>3

\* touch(), of an entry of the main list, which R must allow in front of all others.
LEMMA TouchSound ==
  ASSUME NEW t, NEW R, Sound(t, {}, R), NEW k \in Main(t), NEW u, u = Touch(t, k),
         NEW Q, \A a, b \in Main(t) \ {k} : <<a, b>> \in R => <<a, b>> \in Q,
         \A a \in Main(t) \ {k} : <<k, a>> \in Q
  PROVE  /\ Sound(u, {}, Q) /\ Main(u) = Main(t) /\ Small(u) = Small(t) /\ u.head = k
         /\ SameRest(t, u) /\ SameSmall(t, u) /\ SameData(t.e, u.e)
<1>1. CASE t.head # k
  <2>1. PICK v : v = Unlink(t, k)
    OBVIOUS
  <2>2. /\ Sound(v, {k}, R) /\ Main(v) = Main(t) /\ Small(v) = Small(t)
        /\ SameRest(t, v) /\ SameSmall(t, v) /\ SameData(t.e, v.e)
    BY <2>1, UnlinkSound
  <2>3. u = PushFront(v, k) /\ k \in Main(v)
    BY <1>1, <2>1, <2>2 DEF Touch
  <2>4. /\ Sound(u, {}, Q) /\ Main(u) = Main(v) /\ Small(u) = Small(v) /\ u.head = k
        /\ SameRest(v, u) /\ SameSmall(v, u) /\ SameData(v.e, u.e)
    BY <2>2, <2>3, PushFrontSound
  <2>5. SameRest(t, u) /\ SameSmall(t, u)
    BY <2>2, <2>4 DEF SameRest, SameSmall
  <2>6. SameData(t.e, u.e)
    BY <2>2, <2>4 DEF SameData
  <2>7. QED
    BY <2>2, <2>4, <2>5, <2>6
<1>2. CASE t.head = k
  <2>1. u = t
    BY <1>2 DEF Touch
  <2>2. Linked(t, {}, Q)
    <3>1. PICK n, q, m, r :
            /\ Chain(t.e, t.head, t.tail, n, q)
            /\ Chain(t.e, t.smallHead, t.smallTail, m, r)
            /\ Members(n, q) = Main(t) \ {} /\ Members(m, r) = Small(t) \ {}
            /\ \A i, j \in 1..n : i < j => <<q[i], q[j]>> \in R
      BY DEF Sound, Linked
    <3>2. n \in Nat /\ \A a, b \in 1..n : q[a] = q[b] => a = b
      BY <3>1, ChainType
    <3>3. k \in Keys /\ k # None
      BY HashAssumption DEF Main, Sound, Shards
    <3>4. n # 0 /\ q[1] = k
      BY <1>2, <3>1, <3>3 DEF Chain
    <3>5. ASSUME NEW i \in 1..n, NEW j \in 1..n, i < j PROVE <<q[i], q[j]>> \in Q
      <4>1. q[j] \in Main(t) \ {k} /\ q[i] \in Main(t) /\ <<q[i], q[j]>> \in R
        <5>1. q[j] \in Main(t) /\ q[i] \in Main(t)
          BY <3>1 DEF Members
        <5>2. 1 \in 1..n /\ j # 1
          BY <3>2, <3>5
        <5>3. QED
          BY <3>1, <3>2, <3>4, <3>5, <5>1, <5>2
      <4>2. QED
        BY <4>1
    <3>6. QED
      BY <3>1, <3>5 DEF Linked
  <2>3. QED
    BY <1>2, <2>1, <2>2 DEF Sound, SameRest, SameSmall, SameData
<1>3. QED
  BY <1>1, <1>2

-----------------------------------------------------------------------------
(* The ghosts.                                                             *)

\* The community modules' Max and Min, of two.
LEMMA MaxPair ==
  ASSUME NEW a \in Int, NEW b \in Int
  PROVE  Max({a, b}) \in {a, b} /\ Max({a, b}) >= a /\ Max({a, b}) >= b
<1>1. \E x \in {a, b} : \A y \in {a, b} : x >= y
  OBVIOUS
<1>2. QED
  BY <1>1 DEF Max

LEMMA MinPair ==
  ASSUME NEW a \in Int, NEW b \in Int
  PROVE  Min({a, b}) \in {a, b} /\ Min({a, b}) <= a /\ Min({a, b}) <= b
<1>1. \E x \in {a, b} : \A y \in {a, b} : x <= y
  OBVIOUS
<1>2. QED
  BY <1>1 DEF Min

\* add() drops no more ghosts than the queue has.
LEMMA BeyondFacts ==
  ASSUME NEW t \in Shards, NEW limit \in Nat
  PROVE  Beyond(t, limit) \in 0..Len(t.queue)
<1>1. PICK l \in Nat : l = Len(t.queue)
  BY DEF Shards
<1>2. PICK x \in Int : x = Max({limit, 1}) /\ x >= 1
  BY MaxPair
<1>3. PICK y \in Int : y = l + 1 - x /\ y <= l
  BY <1>2
<1>4. Max({0, y}) \in {0, y} /\ Max({0, y}) >= 0
  BY MaxPair
<1>5. QED
  BY <1>1, <1>2, <1>3, <1>4 DEF Beyond

\* What the ghosts of u know that those of t did not: nothing but h, and nothing is
\* forgotten that is still in the queue.
Remembers(t, u) ==
    \A h \in Hashes : t.set[h] # NotGhost /\ u.set[h] = NotGhost =>
        \A i \in DOMAIN u.queue : u.queue[i] # h

\* add() of a ghost numbers it last, and what it drops is in the queue no more.
LEMMA AddGhostFacts ==
  ASSUME NEW t \in Shards, Agree(t), NEW h \in Hashes, NEW limit \in Nat,
         NEW u, u = AddGhost(t, h, limit)
  PROVE  /\ u \in Shards /\ Agree(u) /\ Remembers(t, u)
         /\ u.items = t.items /\ u.bytes = t.bytes /\ u.e = t.e /\ SameLists(t, u)
         /\ u.policy = t.policy
<1>1. PICK l \in Nat, q \in Seq(Hashes), p \in [Hashes -> Nat \cup {NotGhost}] :
        l = Len(t.queue) /\ q = t.queue /\ p = t.set
  BY DEF Shards
<1>2. PICK o \in 0..l : o = Beyond(t, limit)
  BY <1>1, BeyondFacts
<1>3. PICK a : a = Append(q, h)
  OBVIOUS
<1>4. /\ a \in Seq(Hashes) /\ Len(a) = l + 1
      /\ \A i \in 1..(l + 1) : a[i] \in Hashes /\ a[i] = IF i = l + 1 THEN h ELSE q[i]
  BY <1>1, <1>3
<1>5. PICK b \in [Hashes -> Nat \cup {NotGhost}] : b = Numbered(t, h)
  BY <1>1 DEF Numbered, Shards
<1>6. \A g \in Hashes : b[g] = IF g = h THEN l ELSE p[g]
  BY <1>1, <1>5 DEF Numbered
\* Before any leaves the queue.
<1>7. \A g \in Hashes : b[g] # NotGhost =>
        /\ b[g] \in Nat /\ b[g] + 1 \in 1..(l + 1) /\ a[b[g] + 1] = g
        /\ \A i \in 1..(l + 1) : a[i] = g => i <= b[g] + 1
  <2> SUFFICES ASSUME NEW g \in Hashes, b[g] # NotGhost
               PROVE  /\ b[g] \in Nat /\ b[g] + 1 \in 1..(l + 1) /\ a[b[g] + 1] = g
                      /\ \A i \in 1..(l + 1) : a[i] = g => i <= b[g] + 1
    OBVIOUS
  <2>1. CASE g = h
    BY <1>4, <1>6, <2>1
  <2>2. CASE g # h
    <3>1. b[g] = p[g] /\ p[g] \in Nat
      BY <1>6, <2>2
    <3>2. /\ p[g] + 1 \in 1..l /\ q[p[g] + 1] = g
          /\ \A i \in 1..l : q[i] = g => i <= p[g] + 1
      BY <1>1, <3>1 DEF Agree
    <3>3. QED
      BY <1>4, <2>2, <3>1, <3>2
  <2>3. QED
    BY <2>1, <2>2
<1>8. PICK f : f = {a[i] : i \in {n \in 1..o : b[a[n]] = n - 1}}
  OBVIOUS
<1>9. \A g \in Hashes : b[g] # NotGhost => (g \in f <=> b[g] + 1 <= o)
  BY <1>4, <1>7, <1>8
<1>10. PICK c : c = SubSeq(a, o + 1, Len(a))
  OBVIOUS
<1>11. /\ c \in Seq(Hashes) /\ Len(c) = l + 1 - o
       /\ \A i \in 1..(l + 1 - o) : i + o \in 1..(l + 1) /\ c[i] = a[i + o]
  <2>1. \A i \in (o + 1)..(l + 1) : a[i] \in Hashes
    BY <1>4
  <2>2. o + 1 \in Int /\ l + 1 \in Int /\ c = SubSeq(a, o + 1, l + 1)
    BY <1>4, <1>10
  <2>3. /\ c \in Seq(Hashes)
        /\ Len(c) = IF o + 1 <= l + 1 THEN (l + 1) - (o + 1) + 1 ELSE 0
        /\ \A i \in 1..((l + 1) - (o + 1) + 1) : c[i] = a[(o + 1) + i - 1]
    BY <2>1, <2>2, SubSeqProperties
  <2>4. ASSUME NEW i \in 1..(l + 1 - o) PROVE i + o \in 1..(l + 1) /\ c[i] = a[i + o]
    <3>1. i \in 1..((l + 1) - (o + 1) + 1) /\ (o + 1) + i - 1 = i + o
      OBVIOUS
    <3>2. QED
      BY <2>3, <3>1
  <2>5. QED
    BY <2>3, <2>4
<1>12. PICK d : d = Forget(b, f, o)
  OBVIOUS
<1>13. \A g \in Hashes : d[g] = IF b[g] = NotGhost \/ g \in f THEN NotGhost ELSE b[g] - o
  BY <1>12 DEF Forget
<1>14. d \in [Hashes -> Nat \cup {NotGhost}]
  <2>1. \A g \in Hashes : d[g] \in Nat \cup {NotGhost}
    BY <1>7, <1>9, <1>13
  <2>2. d = [g \in Hashes |-> d[g]]
    BY <1>12 DEF Forget
  <2>3. QED
    BY <2>1, <2>2
<1>15. u = [t EXCEPT !.queue = c, !.set = d]
  BY <1>1, <1>2, <1>3, <1>5, <1>8, <1>10, <1>12 DEF AddGhost
<1>16. /\ u \in Shards /\ u.queue = c /\ u.set = d
       /\ u.items = t.items /\ u.bytes = t.bytes /\ u.e = t.e /\ SameLists(t, u)
       /\ u.policy = t.policy
  BY <1>11, <1>14, <1>15 DEF Shards, SameLists, SameSmall
<1>17. Agree(u)
  <2> SUFFICES ASSUME NEW g \in Hashes, d[g] # NotGhost
               PROVE  /\ d[g] + 1 \in 1..(l + 1 - o) /\ c[d[g] + 1] = g
                      /\ \A i \in 1..(l + 1 - o) : c[i] = g => i <= d[g] + 1
    BY <1>11, <1>16 DEF Agree
  <2>1. b[g] # NotGhost /\ g \notin f /\ d[g] = b[g] - o
    BY <1>13
  <2>2. /\ b[g] \in Nat /\ b[g] + 1 \in 1..(l + 1) /\ b[g] + 1 > o /\ a[b[g] + 1] = g
        /\ \A i \in 1..(l + 1) : a[i] = g => i <= b[g] + 1
    BY <1>7, <1>9, <2>1
  <2>3. QED
    <3>1. PICK x \in Nat : x = b[g] /\ x >= o /\ x <= l
      BY <2>2
    <3>2. d[g] + 1 = x - o + 1 /\ x - o + 1 \in 1..(l + 1 - o) /\ (x - o + 1) + o = x + 1
      BY <2>1, <3>1
    <3>3. c[d[g] + 1] = a[x + 1]
      BY <1>11, <3>2
    <3>4. \A i \in 1..(l + 1 - o) : c[i] = g => i + o <= x + 1
      BY <1>11, <2>2, <3>1
    <3>5. QED
      BY <2>2, <3>1, <3>2, <3>3, <3>4
<1>18. Remembers(t, u)
  <2> SUFFICES ASSUME NEW g \in Hashes, p[g] # NotGhost, d[g] = NotGhost,
                      NEW i \in 1..(l + 1 - o)
               PROVE  c[i] # g
    BY <1>1, <1>11, <1>16 DEF Remembers
  <2>1. b[g] # NotGhost
    BY <1>6 DEF NotGhost
  <2>2. g \in f
    BY <1>7, <1>9, <1>13, <2>1 DEF NotGhost
  <2>3. b[g] + 1 <= o /\ \A j \in 1..(l + 1) : a[j] = g => j <= b[g] + 1
    BY <1>7, <1>9, <2>1, <2>2
  <2>4. PICK x \in Nat : x = b[g] /\ x + 1 <= o
    BY <1>7, <2>1, <2>3
  <2>5. i + o \in 1..(l + 1) /\ c[i] = a[i + o] /\ ~(i + o <= x + 1)
    BY <1>11, <2>4
  <2>6. QED
    BY <2>3, <2>4, <2>5
<1>19. QED
  BY <1>16, <1>17, <1>18

LEMMA AddGhostSound ==
  ASSUME NEW t, NEW X, NEW R, Sound(t, X, R), NEW h \in Hashes, NEW limit \in Nat,
         NEW u, u = AddGhost(t, h, limit)
  PROVE  /\ Sound(u, X, R) /\ Remembers(t, u)
         /\ u.items = t.items /\ u.e = t.e /\ SameLists(t, u) /\ u.policy = t.policy
<1>1. t \in Shards /\ Agree(t)
  BY DEF Sound
<1>2. /\ u \in Shards /\ Agree(u) /\ Remembers(t, u)
      /\ u.items = t.items /\ u.bytes = t.bytes /\ u.e = t.e /\ SameLists(t, u)
      /\ u.policy = t.policy
  BY <1>1, AddGhostFacts
<1>3. Sound(u, X, R)
  BY <1>2, SameSound DEF SameLinks
<1>4. QED
  BY <1>2, <1>3

\* take() of a ghost leaves the lists alone.
LEMMA TakeSound ==
  ASSUME NEW t, NEW X, NEW R, Sound(t, X, R), NEW h \in Hashes, NEW u, u = Take(t, h)
  PROVE  /\ Sound(u, X, R)
         /\ u.set = [t.set EXCEPT ![h] = NotGhost] /\ u.queue = t.queue
         /\ u.items = t.items /\ u.e = t.e /\ SameLists(t, u) /\ u.policy = t.policy
<1>1. t \in Shards
  BY DEF Sound
<1>2. PICK p \in [Hashes -> Nat \cup {NotGhost}] : p = [t.set EXCEPT ![h] = NotGhost]
  BY <1>1 DEF Shards
<1>3. u = [t EXCEPT !.set = p]
  BY <1>1, <1>2 DEF Take, Shards
<1>4. /\ u \in Shards /\ u.set = p /\ u.queue = t.queue
      /\ u.items = t.items /\ u.bytes = t.bytes /\ u.e = t.e /\ SameLists(t, u)
      /\ u.policy = t.policy
  BY <1>1, <1>3 DEF Shards, SameLists, SameSmall
<1>5. \A g \in Hashes : u.set[g] # NotGhost => u.set[g] = t.set[g]
  BY <1>1, <1>2, <1>4 DEF Shards
<1>6. Agree(u)
  BY <1>4, <1>5 DEF Sound, Agree
<1>7. Sound(u, X, R)
  BY <1>4, <1>6, SameSound DEF SameLinks
<1>8. QED
  BY <1>2, <1>4, <1>7

-----------------------------------------------------------------------------
(* set() and the rounds of evict().                                        *)

\* Any order that allows what R does of the entries there are.
LEMMA SoundOrder ==
  ASSUME NEW t, NEW X, NEW R, Sound(t, X, R),
         NEW Q, \A a, b \in Main(t) \ X : <<a, b>> \in R => <<a, b>> \in Q
  PROVE  Sound(t, X, Q)
<1>1. PICK n, q, m, r :
        /\ Chain(t.e, t.head, t.tail, n, q)
        /\ Chain(t.e, t.smallHead, t.smallTail, m, r)
        /\ Members(n, q) = Main(t) \ X /\ Members(m, r) = Small(t) \ X
        /\ \A i, j \in 1..n : i < j => <<q[i], q[j]>> \in R
  BY DEF Sound, Linked
<1>2. \A i \in 1..n : q[i] \in Main(t) \ X
  BY <1>1 DEF Members
<1>3. Linked(t, X, Q)
  BY <1>1, <1>2 DEF Linked
<1>4. QED
  BY <1>3 DEF Sound

\* u is t with the entry of k new, at the front of one of the lists.
Stored(t, u, k, cost) ==
    /\ u.items = t.items \cup {k} /\ u.policy = t.policy
    /\ u.e[k].cost = cost /\ \A j \in Keys \ {k} : u.e[j].cost = t.e[j].cost
    /\ IF u.e[k].small THEN u.smallHead = k ELSE u.head = k
    /\ \A j \in Keys \ {k} : u.e[j].small = t.e[j].small
    /\ t.policy # "S3FIFO" => ~u.e[k].small
    /\ \A h \in Hashes : t.set[h] # NotGhost /\ u.set[h] = NotGhost =>
            Hash[k] = h /\ ~u.e[k].small /\ (k \in t.items => t.e[k].small)

\* The entry that set() replaces is out, if there is one, and the new one is in.
Placed(t, w, k, cost) ==
    /\ w.items = t.items \cup {k} /\ w.policy = t.policy
    /\ w.set = t.set /\ w.queue = t.queue
    /\ w.e[k].cost = cost /\ ~w.e[k].small
    /\ \A j \in Keys \ {k} : w.e[j].cost = t.e[j].cost /\ w.e[j].small = t.e[j].small
    /\ Main(w) \subseteq t.items \cup {k} /\ k \in Main(w)

\* The first half of set(): the old entry is removed, and the new one is in the map.
LEMMA PlacedSound ==
  ASSUME NEW t, NEW R, Sound(t, {}, R), NEW k \in Keys, NEW cost \in Costs,
         NEW v, v = IF k \in t.items THEN Remove(t, k) ELSE t,
         NEW w, w = Added(v, k, cost)
  PROVE  Sound(w, {k}, R) /\ Placed(t, w, k, cost)
<1>1. /\ Sound(v, {}, R) /\ v.items = t.items \ {k} /\ v.policy = t.policy
      /\ v.set = t.set /\ v.queue = t.queue
      /\ \A j \in Keys \ {k} : v.e[j].cost = t.e[j].cost /\ v.e[j].small = t.e[j].small
  <2>1. CASE k \in t.items
    <3>1. Sound(v, {}, R) /\ Removed(t, v, k)
      BY <2>1, RemoveSound
    <3>2. QED
      BY <3>1 DEF Removed
  <2>2. CASE k \notin t.items
    BY <2>2
  <2>3. QED
    BY <2>1, <2>2
<1>2. k \in Keys \ v.items
  BY <1>1
<1>3. Sound(w, {k}, R) /\ Gains(v, w, k, cost)
  BY <1>1, <1>2, AddedSound
<1>4. QED
  BY <1>1, <1>3 DEF Gains, Main, Placed

\* The whole of it: into the queue that the policy and the ghosts say.
LEMMA InsertSound ==
  ASSUME NEW t, NEW R, Sound(t, {}, R), NEW k \in Keys, NEW cost \in Costs,
         NEW u, u = Insert(t, k, cost),
         NEW Q, \A a, b \in t.items \ {k} : <<a, b>> \in R => <<a, b>> \in Q,
         \A a \in t.items \ {k} : <<k, a>> \in Q
  PROVE  Sound(u, {}, Q) /\ Stored(t, u, k, cost)
<1>1. PICK v : v = IF k \in t.items THEN Remove(t, k) ELSE t
  OBVIOUS
<1>2. PICK w : w = Added(v, k, cost)
  OBVIOUS
<1>3. Sound(w, {k}, R) /\ Placed(t, w, k, cost)
  BY <1>1, <1>2, PlacedSound
<1>4. w.items = t.items \cup {k} /\ w.policy = t.policy /\ w.set = t.set /\ w.queue = t.queue
  BY <1>3 DEF Placed
<1>5. w.e[k].cost = cost /\ ~w.e[k].small
  BY <1>3 DEF Placed
<1>6. \A j \in Keys \ {k} : w.e[j].cost = t.e[j].cost /\ w.e[j].small = t.e[j].small
  BY <1>3 DEF Placed
<1>7. Main(w) \subseteq t.items \cup {k} /\ k \in Main(w)
  BY <1>3 DEF Placed
<1>8. /\ \A a, b \in Main(w) \ {k} : <<a, b>> \in R => <<a, b>> \in Q
      /\ \A a \in Main(w) \ {k} : <<k, a>> \in Q
  BY <1>7
<1>9. u = IF t.policy = "S3FIFO" THEN Admit(w, k, k \in t.items, t.e[k]) ELSE PushFront(w, k)
  BY <1>1, <1>2 DEF Insert, Added
<1>10. t \in Shards /\ t.items \subseteq Keys /\ t.e[k].freq \in 0..MaxFreq
       /\ Hash[k] \in Hashes
  BY EntryTypes, HashAssumption DEF Sound, Shards
\* In front of the main list, if u is PushFront of a record that differs from w in
\* the freq of k, or in what the ghosts have of it.
<1>11. ASSUME NEW x, Sound(x, {k}, R), Main(x) = Main(w), x.items = w.items, x.policy = w.policy,
              \A j \in Keys : x.e[j].cost = w.e[j].cost /\ x.e[j].small = w.e[j].small,
              \A h \in Hashes : t.set[h] # NotGhost /\ x.set[h] = NotGhost =>
                  Hash[k] = h /\ (k \in t.items => t.e[k].small),
              u = PushFront(x, k)
       PROVE  Sound(u, {}, Q) /\ Stored(t, u, k, cost)
  <2>1. k \in Main(x)
    BY <1>7, <1>11
  <2>2. /\ \A a, b \in Main(x) \ {k} : <<a, b>> \in R => <<a, b>> \in Q
        /\ \A a \in Main(x) \ {k} : <<k, a>> \in Q
    BY <1>8, <1>11
  <2>3. /\ Sound(u, {}, Q) /\ u.head = k
        /\ SameRest(x, u) /\ SameData(x.e, u.e)
    BY <1>11, <2>1, <2>2, PushFrontSound
  <2>4. \A j \in Keys : u.e[j].cost = w.e[j].cost /\ u.e[j].small = w.e[j].small
    BY <1>11, <2>3 DEF SameData
  <2>5. u.items = t.items \cup {k} /\ u.policy = t.policy
    BY <1>4, <1>11, <2>3 DEF SameRest
  <2>6. \A h \in Hashes : t.set[h] # NotGhost /\ u.set[h] = NotGhost =>
            Hash[k] = h /\ ~u.e[k].small /\ (k \in t.items => t.e[k].small)
    BY <1>5, <1>11, <2>3, <2>4 DEF SameRest
  <2>7. QED
    BY <1>5, <1>6, <2>3, <2>4, <2>5, <2>6 DEF Stored
<1>12. CASE t.policy # "S3FIFO"
  BY <1>3, <1>4, <1>9, <1>11, <1>12
<1>13. CASE t.policy = "S3FIFO" /\ k \in t.items /\ ~t.e[k].small
  <2>1. PICK x : x = [w EXCEPT !.e[k].freq = t.e[k].freq]
    OBVIOUS
  <2>2. u = PushFront(x, k)
    BY <1>9, <1>13, <2>1 DEF Admit
  <2>3. /\ Sound(x, {k}, R) /\ Main(x) = Main(w) /\ SameRest(w, x)
        /\ \A j \in Keys : x.e[j].cost = w.e[j].cost /\ x.e[j].small = w.e[j].small
    BY <1>3, <1>10, <2>1, FreqSound
  <2>4. QED
    BY <1>4, <1>11, <2>2, <2>3 DEF SameRest
<1>14. CASE /\ t.policy = "S3FIFO" /\ ~(k \in t.items /\ ~t.e[k].small)
            /\ w.set[Hash[k]] # NotGhost
  <2>1. PICK x : x = Take(w, Hash[k])
    OBVIOUS
  <2>2. u = PushFront(x, k)
    BY <1>9, <1>14, <2>1 DEF Admit
  <2>3. /\ Sound(x, {k}, R) /\ x.set = [w.set EXCEPT ![Hash[k]] = NotGhost]
        /\ x.items = w.items /\ x.e = w.e /\ x.policy = w.policy
    BY <1>3, <1>10, <2>1, TakeSound
  <2>4. Main(x) = Main(w)
    BY <2>3 DEF Main
  <2>5. \A h \in Hashes : t.set[h] # NotGhost /\ x.set[h] = NotGhost => Hash[k] = h
    BY <1>4, <1>10, <2>3 DEF Shards
  <2>6. QED
    BY <1>11, <1>14, <2>2, <2>3, <2>4, <2>5
<1>15. CASE /\ t.policy = "S3FIFO" /\ ~(k \in t.items /\ ~t.e[k].small)
            /\ ~(w.set[Hash[k]] # NotGhost)
  <2>1. u = PushFrontSmall(w, k)
    BY <1>9, <1>15 DEF Admit
  <2>2. k \in w.items
    BY <1>4
  <2>3. /\ Sound(u, {}, R) /\ SameRest(w, u) /\ u.smallHead = k /\ u.e[k].small
        /\ \A j \in Keys : u.e[j].cost = w.e[j].cost
        /\ \A j \in Keys \ {k} : u.e[j].small = w.e[j].small
    BY <1>3, <2>1, <2>2, PushFrontSmallSound
  <2>4. Main(u) = Main(w) \ {k}
    BY <1>4, <1>10, <2>3 DEF Main, SameRest
  <2>5. Sound(u, {}, Q)
    BY <1>8, <2>3, <2>4, SoundOrder
  <2>6. QED
    BY <1>4, <1>5, <1>6, <1>15, <2>3, <2>5 DEF SameRest, Stored
<1>16. QED
  BY <1>12, <1>13, <1>14, <1>15

\* What the ends of the lists say.
Ends(t, R) ==
    /\ t.tail = None => Main(t) = {}
    /\ t.tail # None => /\ t.tail \in Main(t)
                        /\ \A j \in Main(t) \ {t.tail} : <<j, t.tail>> \in R
                        /\ t.e[t.tail].prev = None \/ t.head = t.tail => Main(t) = {t.tail}
                        /\ t.e[t.tail].prev # None => t.e[t.tail].prev \in Main(t) \ {t.tail}
    /\ t.smallTail = None => Small(t) = {}
    /\ t.smallTail # None => /\ t.smallTail \in Small(t)
                             /\ t.smallHead = t.smallTail => Small(t) = {t.smallTail}

LEMMA SoundEnds ==
  ASSUME NEW t, NEW R, Sound(t, {}, R)
  PROVE  Ends(t, R)
<1>1. PICK n, q, m, r :
        /\ Chain(t.e, t.head, t.tail, n, q)
        /\ Chain(t.e, t.smallHead, t.smallTail, m, r)
        /\ Members(n, q) = Main(t) \ {} /\ Members(m, r) = Small(t) \ {}
        /\ \A i, j \in 1..n : i < j => <<q[i], q[j]>> \in R
  BY DEF Sound, Linked
<1>2. n \in Nat /\ q \in [1..n -> Keys] /\ \A a, b \in 1..n : q[a] = q[b] => a = b
  BY <1>1, ChainType
<1>3. m \in Nat /\ r \in [1..m -> Keys] /\ \A a, b \in 1..m : r[a] = r[b] => a = b
  BY <1>1, ChainType
<1>4. /\ \A i \in 1..n : q[i] \in Main(t) /\ q[i] # None
      /\ \A j \in Main(t) : \E i \in 1..n : j = q[i]
  BY <1>1, <1>2, HashAssumption DEF Members
<1>5. /\ \A i \in 1..m : r[i] \in Small(t) /\ r[i] # None
      /\ \A j \in Small(t) : \E i \in 1..m : j = r[i]
  BY <1>1, <1>3, HashAssumption DEF Members
<1>6. t.tail = None => Main(t) = {}
  BY <1>1, <1>2, <1>4 DEF Chain
<1>7. t.smallTail = None => Small(t) = {}
  BY <1>1, <1>3, <1>5 DEF Chain
<1>8. ASSUME t.smallTail # None
      PROVE  t.smallTail \in Small(t) /\ (t.smallHead = t.smallTail => Small(t) = {t.smallTail})
  <2>1. m # 0 /\ 1 \in 1..m /\ m \in 1..m /\ t.smallTail = r[m] /\ t.smallHead = r[1]
    BY <1>1, <1>3, <1>8 DEF Chain
  <2>2. r[1] = r[m] => m = 1
    BY <1>3, <2>1
  <2>3. m = 1 => Small(t) = {r[1]}
    BY <1>5, <2>1
  <2>4. QED
    BY <1>5, <2>1, <2>2, <2>3
<1>9. ASSUME t.tail # None
      PROVE  /\ t.tail \in Main(t)
             /\ \A j \in Main(t) \ {t.tail} : <<j, t.tail>> \in R
             /\ t.e[t.tail].prev = None \/ t.head = t.tail => Main(t) = {t.tail}
             /\ t.e[t.tail].prev # None => t.e[t.tail].prev \in Main(t) \ {t.tail}
  <2>1. n # 0 /\ 1 \in 1..n /\ n \in 1..n /\ t.tail = q[n] /\ t.head = q[1]
    BY <1>1, <1>2, <1>9 DEF Chain
  <2>2. q[1] = q[n] => n = 1
    BY <1>2, <2>1
  <2>3. n = 1 => Main(t) = {q[1]}
    BY <1>4, <2>1
  <2>4. t.e[q[n]].prev = IF n = 1 THEN None ELSE q[n - 1]
    BY <1>1, <2>1 DEF Chain
  <2>5. n # 1 => n - 1 \in 1..n /\ q[n - 1] # q[n]
    BY <1>2, <2>1
  <2>6. \A i \in 1..n : q[i] # q[n] => <<q[i], q[n]>> \in R
    BY <1>1, <1>2, <2>1
  <2>7. QED
    BY <1>4, <2>1, <2>2, <2>3, <2>4, <2>5, <2>6
<1>10. QED
  BY <1>6, <1>7, <1>8, <1>9 DEF Ends

\* u is t after a round of eviction under S3FIFO, in which k moved or left.
Rounded(t, u, k) ==
    /\ u.items \in {t.items, t.items \ {k}} /\ u.policy = t.policy
    /\ \A j \in u.items : u.e[j].cost = t.e[j].cost
    /\ \A j \in Keys \ {k} : /\ u.e[j].small = t.e[j].small
                             /\ t.smallHead = j => u.smallHead = j
    /\ Remembers(t, u)

\* A round on the tail of the small queue: out of it with a ghost, or into the main one.
LEMMA GiveSmallSound ==
  ASSUME NEW t, Sound(t, {}, Keys \X Keys), t.smallTail # None, NEW u, u = GiveSmall(t)
  PROVE  Sound(u, {}, Keys \X Keys) /\ Rounded(t, u, t.smallTail)
<1>1. PICK k \in Small(t) : k = t.smallTail
  BY SoundEnds DEF Ends
<1>2. PICK v : v = UnlinkSmall(t, k)
  OBVIOUS
<1>3. PICK R : R = Keys \X Keys
  OBVIOUS
<1>4. t \in Shards /\ t.items \subseteq Keys /\ k \in t.items /\ k \in Keys /\ Hash[k] \in Hashes
  BY HashAssumption DEF Sound, Shards, Small
<1>5. /\ Sound(v, {k}, R) /\ Main(v) = Main(t) /\ Small(v) = Small(t)
      /\ SameRest(t, v) /\ SameData(t.e, v.e)
      /\ v.smallHead = t.smallHead \/ t.smallHead = k
  BY <1>2, <1>3, UnlinkSmallSound
<1>6. CASE t.e[k].freq > 0
  <2>1. PICK w : w = [v EXCEPT !.e[k].small = FALSE, !.e[k].freq = 0]
    OBVIOUS
  <2>2. u = PushFront(w, k)
    BY <1>1, <1>2, <1>6, <2>1 DEF GiveSmall
  <2>3. v \in Shards /\ v.e \in [Keys -> Entries] /\ v.e[k] \in Entries
    BY <1>4, <1>5, EntryTypes DEF Sound
  <2>4. PICK x : x = [v.e[k] EXCEPT !.small = FALSE, !.freq = 0]
    OBVIOUS
  <2>5. /\ x \in Entries /\ x.small = FALSE /\ x.cost = v.e[k].cost
        /\ x.prev = v.e[k].prev /\ x.next = v.e[k].next
    <3>1. 0 \in 0..MaxFreq /\ FALSE \in BOOLEAN
      BY BudgetAssumption
    <3>2. QED
      BY <2>3, <2>4, <3>1 DEF Entries
  <2>6. PICK d \in [Keys -> Entries] : d = [v.e EXCEPT ![k] = x]
    BY <2>3, <2>5
  <2>7. w = [v EXCEPT !.e = d]
    BY <1>4, <2>1, <2>3, <2>4, <2>6 DEF Shards
  <2>8. w \in Shards /\ w.e = d /\ SameRest(v, w) /\ SameLists(v, w)
    BY <2>3, <2>7 DEF Shards, SameRest, SameLists, SameSmall
  <2>9. /\ \A j \in Keys \ {k} : w.e[j] = v.e[j]
        /\ w.e[k] = x
    BY <1>4, <2>3, <2>6, <2>8
  <2>10. \A j \in Keys : SameLinks(v.e, w.e, j) /\ w.e[j].cost = v.e[j].cost
    BY <2>5, <2>9 DEF SameLinks
  <2>11. Agree(w)
    BY <1>5, <2>8 DEF Sound, Agree, SameRest
  <2>12. Sound(w, {k}, R)
    BY <1>5, <2>8, <2>9, <2>10, <2>11, SameSound DEF SameRest
  <2>13. k \in Main(w) /\ Main(w) \subseteq Keys
    BY <1>4, <1>5, <2>5, <2>8, <2>9 DEF SameRest, Main
  <2>14. /\ Sound(u, {}, R) /\ SameRest(w, u) /\ SameSmall(w, u) /\ SameData(w.e, u.e)
    <3>1. /\ \A a, b \in Main(w) \ {k} : <<a, b>> \in R => <<a, b>> \in R
          /\ \A a \in Main(w) \ {k} : <<k, a>> \in R
      BY <1>3, <1>4, <2>13
    <3>2. QED
      BY <2>2, <2>12, <2>13, <3>1, PushFrontSound
  <2>15. SameRest(t, u)
    BY <1>5, <2>8, <2>14 DEF SameRest
  <2>16. \A j \in Keys : /\ u.e[j].cost = t.e[j].cost
                         /\ j # k => u.e[j].small = t.e[j].small
    BY <1>5, <2>9, <2>10, <2>14 DEF SameData
  <2>17. t.smallHead # k => u.smallHead = t.smallHead
    BY <1>5, <2>8, <2>14 DEF SameLists, SameSmall
  <2>18. QED
    BY <1>1, <1>3, <1>4, <2>14, <2>15, <2>16, <2>17 DEF Rounded, Remembers, SameRest
<1>7. CASE ~(t.e[k].freq > 0)
  <2>1. PICK w : w = Discard(v, k)
    OBVIOUS
  <2>2. u = AddGhost(w, Hash[k], Cardinality(w.items))
    BY <1>1, <1>2, <1>7, <2>1 DEF GiveSmall
  <2>3. k \in v.items
    BY <1>4, <1>5 DEF SameRest
  <2>4. Sound(w, {}, R) /\ Lacks(v, w, k)
    BY <1>5, <2>1, <2>3, DiscardSound
  <2>5. Cardinality(w.items) \in Nat
    BY <2>4, Sizes DEF Sound
  <2>6. /\ Sound(u, {}, R) /\ Remembers(w, u)
        /\ u.items = w.items /\ u.e = w.e /\ SameLists(w, u) /\ u.policy = w.policy
    BY <1>4, <2>2, <2>4, <2>5, AddGhostSound
  <2>7. Remembers(t, u)
    BY <1>5, <2>4, <2>6 DEF SameRest, Lacks, Remembers
  <2>8. u.items = t.items \ {k} /\ u.policy = t.policy
    BY <1>5, <2>4, <2>6 DEF SameRest, Lacks
  <2>9. \A j \in Keys \ {k} : u.e[j].cost = t.e[j].cost /\ u.e[j].small = t.e[j].small
    BY <1>5, <2>4, <2>6 DEF Lacks, SameData
  <2>10. t.smallHead # k => u.smallHead = t.smallHead
    BY <1>5, <2>4, <2>6 DEF Lacks, SameLists, SameSmall
  <2>11. QED
    BY <1>1, <1>3, <1>4, <2>6, <2>7, <2>8, <2>9, <2>10 DEF Rounded
<1>8. QED
  BY <1>6, <1>7

\* A round on the tail of the main queue: out, or to the front again.
LEMMA GiveMainSound ==
  ASSUME NEW t, Sound(t, {}, Keys \X Keys), NEW k \in Main(t), NEW u, u = GiveMain(t, k)
  PROVE  Sound(u, {}, Keys \X Keys) /\ Rounded(t, u, k)
<1>1. PICK R : R = Keys \X Keys
  OBVIOUS
<1>2. t \in Shards /\ t.items \subseteq Keys /\ k \in t.items /\ k \in Keys
      /\ t.e[k].freq \in 0..MaxFreq /\ MaxFreq \in Nat
  BY EntryTypes, BudgetAssumption DEF Sound, Shards, Main
<1>3. CASE t.e[k].freq > 0
  <2>1. PICK w : w = [t EXCEPT !.e[k].freq = @ - 1]
    OBVIOUS
  <2>2. u = Touch(w, k)
    BY <1>3, <2>1 DEF GiveMain
  <2>3. PICK v \in 0..MaxFreq : v = t.e[k].freq - 1
    BY <1>2, <1>3
  <2>4. w = [t EXCEPT !.e[k].freq = v]
    BY <2>1, <2>3
  <2>5. /\ Sound(w, {}, R) /\ Main(w) = Main(t) /\ SameRest(t, w) /\ SameLists(t, w)
        /\ \A j \in Keys : w.e[j].cost = t.e[j].cost /\ w.e[j].small = t.e[j].small
    BY <1>1, <1>2, <2>4, FreqSound
  <2>6. /\ Sound(u, {}, R) /\ SameRest(w, u) /\ SameSmall(w, u) /\ SameData(w.e, u.e)
    <3>1. Main(w) \subseteq Keys
      BY <1>2, <2>5 DEF Main
    <3>2. /\ \A a, b \in Main(w) \ {k} : <<a, b>> \in R => <<a, b>> \in R
          /\ \A a \in Main(w) \ {k} : <<k, a>> \in R
      BY <1>1, <1>2, <3>1
    <3>3. QED
      BY <2>2, <2>5, <3>2, TouchSound
  <2>7. SameRest(t, u) /\ u.smallHead = t.smallHead
    BY <2>5, <2>6 DEF SameRest, SameLists, SameSmall
  <2>8. \A j \in Keys : u.e[j].cost = t.e[j].cost /\ u.e[j].small = t.e[j].small
    BY <2>5, <2>6 DEF SameData
  <2>9. QED
    BY <1>1, <1>2, <2>6, <2>7, <2>8 DEF Rounded, Remembers, SameRest
<1>4. CASE ~(t.e[k].freq > 0)
  <2>1. u = Remove(t, k)
    BY <1>4 DEF GiveMain
  <2>2. Sound(u, {}, R) /\ Removed(t, u, k)
    BY <1>1, <1>2, <2>1, RemoveSound
  <2>3. QED
    BY <1>1, <1>2, <2>2 DEF Rounded, Removed, Remembers
<1>5. QED
  BY <1>3, <1>4

\* The empty shard, and the one that ClearOnFull leaves.
LEMMA EmptySound ==
  ASSUME NEW policy \in AllPolicies, NEW R
  PROVE  /\ Sound(Empty(policy), {}, R)
         /\ Empty(policy).items = {} /\ Empty(policy).policy = policy
         /\ Empty(policy).queue = <<>>
<1>1. PICK t : t = Empty(policy)
  OBVIOUS
<1>2. NoEntry \in Entries
  BY BudgetAssumption DEF Entries, NoEntry
<1>3. PICK d \in [Keys -> Entries] : d = [k \in Keys |-> NoEntry]
  BY <1>2
<1>4. PICK p \in [Hashes -> Nat \cup {NotGhost}] : p = [h \in Hashes |-> NotGhost]
  OBVIOUS
<1>5. <<>> \in Seq(Hashes)
  OBVIOUS
<1>6. /\ t \in Shards /\ t.items = {} /\ t.policy = policy /\ t.queue = <<>> /\ t.set = p
      /\ t.e = d /\ t.head = None /\ t.tail = None /\ t.smallHead = None /\ t.smallTail = None
      /\ t.bytes = 0 /\ t.smallBytes = 0 /\ t.smallLen = 0
  BY <1>1, <1>3, <1>4, <1>5 DEF Empty, Shards
<1>7. Main(t) = {} /\ Small(t) = {}
  BY <1>6 DEF Main, Small
<1>8. Linked(t, {}, R)
  <2>1. PICK q : q = [i \in 1..0 |-> CHOOSE k \in Keys : TRUE]
    OBVIOUS
  <2>2. q \in [1..0 -> Keys] /\ \A i \in 1..0 : FALSE
    BY <2>1
  <2>3. Chain(t.e, None, None, 0, q) /\ Members(0, q) = {}
    BY <2>2 DEF Chain, Members
  <2>4. QED
    BY <1>6, <1>7, <2>2, <2>3 DEF Linked
<1>9. Counted(t, {})
  <2>1. IsFiniteSet({}) /\ Cardinality({}) = 0
    BY FS_EmptySet
  <2>2. PICK f : f = CostOf(t)
    OBVIOUS
  <2>3. Sum(f, {}) = 0
    BY <2>1, SumPicked
  <2>4. QED
    BY <1>6, <1>7, <2>1, <2>2, <2>3 DEF Counted
<1>10. Agree(t)
  BY <1>4, <1>6 DEF Agree
<1>11. QED
  BY <1>1, <1>6, <1>8, <1>9, <1>10 DEF Sound

\* ClearOnFull leaves the one entry, whose links are cut.
LEMMA KeepOnlySound ==
  ASSUME NEW t, NEW R, Sound(t, {}, R), NEW k \in Main(t), Small(t) = {},
         NEW u, u = KeepOnly(t, k), NEW Q
  PROVE  /\ Sound(u, {}, Q) /\ u.items = {k} /\ u.policy = t.policy /\ Small(u) = {}
         /\ u.e[k].cost = t.e[k].cost /\ u.set = t.set /\ u.queue = t.queue
<1>1. t \in Shards /\ k \in Keys /\ k \in t.items /\ t.e[k] \in Entries /\ t.e \in [Keys -> Entries]
  BY EntryTypes DEF Sound, Main, Shards
<1>2. NoEntry \in Entries
  BY BudgetAssumption DEF Entries, NoEntry
<1>3. PICK x : x = [t.e[k] EXCEPT !.prev = None, !.next = None]
  OBVIOUS
<1>4. /\ x \in Entries /\ x.cost = t.e[k].cost /\ x.small = t.e[k].small
      /\ x.prev = None /\ x.next = None
  BY <1>1, <1>3 DEF Entries
<1>5. PICK d \in [Keys -> Entries] : d = [j \in Keys |-> IF j = k THEN x ELSE NoEntry]
  BY <1>2, <1>4
<1>6. PICK c \in Int : c = t.e[k].cost
  BY <1>1, EntryTypes
<1>7. d = [j \in Keys |-> IF j = k THEN [t.e[j] EXCEPT !.prev = None, !.next = None] ELSE NoEntry]
  BY <1>3, <1>5
<1>8. u = [t EXCEPT !.items = {k}, !.head = k, !.tail = k, !.bytes = c, !.e = d]
  BY <1>6, <1>7 DEF KeepOnly
<1>9. /\ u \in Shards /\ u.items = {k} /\ u.policy = t.policy /\ u.e = d
      /\ u.head = k /\ u.tail = k /\ u.bytes = c /\ SameSmall(t, u)
      /\ u.set = t.set /\ u.queue = t.queue
  <2>1. {k} \in SUBSET Keys
    BY <1>1
  <2>2. QED
    BY <1>1, <1>8, <2>1 DEF Shards, SameSmall
<1>10. u.e[k] = x /\ ~x.small
  BY <1>1, <1>4, <1>5, <1>9 DEF Main
<1>11. Main(u) = {k} /\ Small(u) = {}
  BY <1>9, <1>10 DEF Main, Small
<1>12. Linked(u, {}, Q)
  <2>1. PICK q : q = [i \in 1..1 |-> k]
    OBVIOUS
  <2>2. q \in [1..1 -> Keys] /\ q[1] = k /\ \A i \in 1..1 : i = 1
    BY <1>1, <2>1
  <2>3. Chain(u.e, u.head, u.tail, 1, q)
    BY <1>4, <1>9, <1>10, <2>2 DEF Chain
  <2>4. Members(1, q) = {k}
    BY <2>2 DEF Members
  <2>5. PICK m, r : Chain(t.e, t.smallHead, t.smallTail, m, r) /\ Members(m, r) = {}
    BY DEF Sound, Linked
  <2>6. Chain(u.e, u.smallHead, u.smallTail, m, r)
    BY <1>9, <2>5, ChainSame DEF SameSmall
  <2>7. QED
    BY <1>11, <2>2, <2>3, <2>4, <2>5, <2>6 DEF Linked
<1>13. Counted(u, {})
  <2>1. /\ Sum(CostOf(u), {k}) = u.e[k].cost + Sum(CostOf(u), {k} \ {k})
        /\ Sum(CostOf(u), {k} \ {k}) \in Int
    <3>1. {k} \in SUBSET u.items /\ k \in {k}
      BY <1>9
    <3>2. QED
      BY <1>9, <3>1, Sizes
  <2>2. {k} \ {k} = {} /\ Sum(CostOf(u), {}) = 0 /\ Sum(CostOf(t), {}) = 0
    <3>1. IsFiniteSet({})
      BY FS_EmptySet
    <3>2. ASSUME NEW f PROVE Sum(f, {}) = 0
      BY <3>1, SumPicked
    <3>3. QED
      BY <3>2
  <2>3. u.bytes = Sum(CostOf(u), u.items)
    <3>1. Sum(CostOf(u), {k} \ {k}) = 0
      BY <2>2
    <3>2. u.e[k].cost = c
      BY <1>4, <1>6, <1>10
    <3>3. Sum(CostOf(u), {k}) = c + 0
      BY <2>1, <3>1, <3>2
    <3>4. QED
      BY <1>9, <3>3
  <2>4. u.smallBytes = Sum(CostOf(u), {}) /\ u.smallLen = Cardinality({})
    <3>1. t.smallBytes = Sum(CostOf(t), {}) /\ t.smallLen = Cardinality({})
      BY DEF Sound, Counted
    <3>2. QED
      BY <1>9, <2>2, <3>1 DEF SameSmall
  <2>5. \A j \in u.items : u.e[j].cost \in Costs
    BY <1>1, <1>4, <1>9, <1>10 DEF Sound, Counted
  <2>6. QED
    BY <1>11, <2>3, <2>4, <2>5 DEF Counted
<1>14. Agree(u)
  BY <1>9 DEF Sound, Agree
<1>15. QED
  BY <1>4, <1>9, <1>10, <1>11, <1>12, <1>13, <1>14 DEF Sound

-----------------------------------------------------------------------------
(* The sums of AccountsExact and of BoundedCache are Sum.                  *)

\* The fold as AccountsExact writes it.
IsTotal(it, S) ==
    it = [T \in SUBSET S |-> IF T = {} THEN 0 ELSE s.e[Pick(T)].cost + it[T \ {Pick(T)}]]

LEMMA TotalIsSum ==
  ASSUME NEW S \in SUBSET Keys, s \in Shards
  PROVE  MapThenSumSet(LAMBDA k : s.e[k].cost, S) = Sum(CostOf(s), S)
<1>1. MapThenSumSet(LAMBDA k : s.e[k].cost, S) = (CHOOSE h : IsTotal(h, S))[S]
  BY DEF MapThenSumSet, MapThenFoldSet, IsTotal, Pick
<1>2. PICK f : f = CostOf(s)
  OBVIOUS
<1>3. IsFiniteSet(S) /\ \A k \in S : f[k] \in Int /\ f[k] = s.e[k].cost
  BY <1>2, KeysAssumption, FS_Subset, EntryTypes DEF CostOf
<1>4. ASSUME NEW h PROVE IsTotal(h, S) <=> IsFold(h, f, S)
  <2>1. \A T \in SUBSET S : T # {} => f[Pick(T)] = s.e[Pick(T)].cost
    BY <1>3, PickIn
  <2>2. QED
    BY <2>1 DEF IsTotal, IsFold
<1>5. PICK it : it \in FoldsOf(f, S)
  BY <1>3, FoldExists
<1>6. PICK g : g = CHOOSE h : IsTotal(h, S)
  OBVIOUS
<1>7. IsTotal(g, S)
  BY <1>4, <1>5, <1>6 DEF FoldsOf
<1>8. g = it
  BY <1>3, <1>4, <1>5, <1>7, FoldUnique DEF FoldsOf
<1>9. Sum(f, S) = it[S]
  BY <1>3, <1>5, SumIsFold, FoldToIs
<1>10. QED
  BY <1>1, <1>2, <1>6, <1>8, <1>9

\* The fold and the count as BoundedCache writes them.
LEMMA HeldIsSum ==
  ASSUME NEW h, NEW S, IsFiniteSet(S), \A k \in S : h[k] \in Int
  PROVE  Abstract!MapThenSumSet(LAMBDA k : h[k], S) = Sum(h, S)
<1>1. Abstract!MapThenSumSet(LAMBDA k : h[k], S) = (CHOOSE g : IsFold(g, h, S))[S]
  BY DEF Abstract!MapThenSumSet, Abstract!MapThenFoldSet, IsFold, Pick
<1>2. Sum(h, S) = (CHOOSE g : IsFold(g, h, S))[S]
  BY DEF Sum, MapThenSumSet, MapThenFoldSet, IsFold, Pick
<1>3. QED
  BY <1>1, <1>2

LEMMA CardinalityIs ==
  ASSUME NEW S PROVE Abstract!Cardinality(S) = Cardinality(S)
  BY DEF Abstract!Cardinality, Cardinality

\* What Fits() of BoundedCache asks.
Within(bytes, entries) == /\ MaxBytes > 0 => bytes <= MaxBytes
                          /\ MaxEntries > 0 => entries <= MaxEntries

\* What is held, if it is the entries' costs, fits if and only if they do.
LEMMA FitsIs ==
  ASSUME NEW t \in Shards, \A k \in t.items : t.e[k].cost \in Costs,
         NEW h, \A k \in Keys : h[k] = IF k \in t.items THEN t.e[k].cost ELSE None
  PROVE  Abstract!Fits(h) <=> Within(Sum(CostOf(t), t.items), Cardinality(t.items))
<1>1. Abstract!Held(h) = t.items /\ t.items \subseteq Keys
  BY KeysAssumption DEF Abstract!Held, Shards
<1>2. IsFiniteSet(t.items) /\ \A k \in t.items : h[k] \in Int /\ h[k] = t.e[k].cost
  BY <1>1, KeysAssumption, FS_Subset, EntryTypes
<1>3. Abstract!MapThenSumSet(LAMBDA k : h[k], Abstract!Held(h)) = Sum(h, t.items)
  <2>1. IsFiniteSet(Abstract!Held(h)) /\ \A k \in Abstract!Held(h) : h[k] \in Int
    BY <1>1, <1>2
  <2>2. Abstract!MapThenSumSet(LAMBDA k : h[k], Abstract!Held(h)) = Sum(h, Abstract!Held(h))
    BY <2>1, HeldIsSum
  <2>3. QED
    BY <1>1, <2>2
<1>4. Sum(CostOf(t), t.items) = Sum(h, t.items)
  <2>1. PICK f : f = CostOf(t)
    OBVIOUS
  <2>2. \A k \in t.items : f[k] \in Int /\ h[k] = f[k]
    BY <1>1, <1>2, <2>1 DEF CostOf
  <2>3. QED
    BY <1>2, <2>1, <2>2, SumSame
<1>5. QED
  <2>1. Abstract!Fits(h) <=> Within(Abstract!MapThenSumSet(LAMBDA k : h[k], Abstract!Held(h)),
                                    Abstract!Cardinality(Abstract!Held(h)))
    BY Zenon DEF Abstract!Fits, Within
  <2>2. Abstract!Cardinality(Abstract!Held(h)) = Cardinality(t.items)
    BY <1>1, CardinalityIs
  <2>3. Abstract!MapThenSumSet(LAMBDA k : h[k], Abstract!Held(h)) = Sum(CostOf(t), t.items)
    BY <1>4, <1>3
  <2>4. QED
    BY <2>1, <2>2, <2>3

-----------------------------------------------------------------------------
(* The inductive invariant.                                                *)

\* Under LRU the main list is in the order of the last uses.
UseOrder == IF s.policy = "LRU" THEN recency ELSE Keys \X Keys

\* While set() holds the lock, the entry it stores is there, at the front of its list,
\* and fits; the others are as they were when the lock was taken; and none of them is
\* gone, or they did not fit beside it.
Begun == [seen EXCEPT ![storing] = s.e[storing].cost]
StoringInv ==
    storing # None =>
        /\ storing \in s.items
        /\ MaxBytes > 0 => s.e[storing].cost <= MaxBytes
        /\ s.policy = "LRU" => s.head = storing
        /\ s.e[storing].small => s.smallHead = storing
        /\ \A k \in s.items \ {storing} : seen[k] = s.e[k].cost
        /\ Seen(s) = Begun \/ ~Abstract!Fits(Begun)

\* The inductive invariant: the record is sound, in the order of use under LRU; only
\* S3-FIFO has a small queue; an unlocked shard is what was last seen of it.
ShardInv ==
    /\ TypeOK
    /\ Sound(s, {}, UseOrder)
    /\ s.policy # "S3FIFO" => Small(s) = {}
    /\ storing = None => seen = Seen(s)
    /\ StoringInv

\* What GhostsRemembered and EvictsLeastRecent say of a step.
RememberedStep ==
    \A h \in Hashes : s.set[h] # NotGhost /\ s'.set[h] = NotGhost =>
        \/ \A i \in DOMAIN s'.queue : s'.queue[i] # h
        \/ \E k \in s'.items : /\ Hash[k] = h /\ ~s'.e[k].small
                               /\ k \in s.items => s.e[k].small
LeastRecentStep ==
    s.policy = "LRU" /\ storing # None =>
        \A k \in s.items \ s'.items : \A j \in s.items \ {k} : <<j, k>> \in recency

\* What every step does.
StepRight ==
    /\ ShardInv' /\ RememberedStep /\ LeastRecentStep
    /\ Abstract!Next \/ UNCHANGED <<seen, Pending>>

\* What a sound record is to BoundedCache.
LEMMA SoundFacts ==
  ASSUME NEW t, NEW R, Sound(t, {}, R)
  PROVE  /\ t \in Shards /\ t.items \subseteq Keys /\ None \notin t.items
         /\ \A k \in t.items : t.e[k].cost \in Costs
         /\ Seen(t) \in [Keys -> Costs \cup {None}]
         /\ \A k \in Keys : Seen(t)[k] = IF k \in t.items THEN t.e[k].cost ELSE None
         /\ t.bytes = Sum(CostOf(t), t.items)
<1>1. /\ t \in Shards /\ t.items \subseteq Keys /\ \A k \in t.items : t.e[k].cost \in Costs
      /\ t.bytes = Sum(CostOf(t), t.items)
  BY DEF Sound, Counted, Shards
<1>2. QED
  BY <1>1, HashAssumption DEF Seen

\* The lock is let go of a sound shard.
LEMMA UnlockInv ==
  ASSUME Unlock, Sound(s', {}, UseOrder'), recency' \subseteq Keys \X Keys,
         s'.policy # "S3FIFO" => Small(s') = {}
  PROVE  ShardInv'
<1>1. storing' = None /\ seen' = Seen(s')
  BY DEF Unlock
<1>2. s' \in Shards /\ seen' \in [Keys -> Costs \cup {None}]
  BY <1>1, SoundFacts
<1>3. QED
  BY <1>1, <1>2 DEF ShardInv, TypeOK, StoringInv

\* over() of exact accounts asks whether the entries fit.
LEMMA OverIs ==
  ASSUME NEW t \in Shards, t.bytes = Sum(CostOf(t), t.items)
  PROVE  Over(t) <=> ~Within(Sum(CostOf(t), t.items), Cardinality(t.items))
<1>1. PICK b \in Int, c \in Nat : b = Sum(CostOf(t), t.items) /\ c = Cardinality(t.items)
  BY Sizes
<1>2. QED
  BY <1>1, BudgetAssumption DEF Over, Exceeds, Within

\* One entry that fits, alone, is within the budget.
LEMMA LoneFits ==
  ASSUME NEW t \in Shards, NEW k \in Keys, t.items = {k},
         MaxBytes > 0 => t.e[k].cost <= MaxBytes
  PROVE  Within(Sum(CostOf(t), t.items), Cardinality(t.items))
<1>1. IsFiniteSet({}) /\ Cardinality({}) = 0 /\ Cardinality({k}) = 1
  BY FS_EmptySet, FS_Singleton
<1>2. Sum(CostOf(t), {k}) = t.e[k].cost + Sum(CostOf(t), {k} \ {k})
  <2>1. {k} \in SUBSET t.items /\ k \in {k}
    OBVIOUS
  <2>2. QED
    BY <2>1, Sizes
<1>3. {k} \ {k} = {} /\ Sum(CostOf(t), {}) = 0
  <2>1. ASSUME NEW f PROVE Sum(f, {}) = 0
    BY <1>1, SumPicked
  <2>2. QED
    BY <2>1
<1>4. PICK c \in Nat : c = t.e[k].cost
  BY EntryTypes
<1>5. Sum(CostOf(t), {k}) = c + 0
  <2>1. Sum(CostOf(t), {k} \ {k}) = 0
    BY <1>3
  <2>2. QED
    BY <1>2, <1>4, <2>1
<1>6. QED
  BY <1>1, <1>4, <1>5, BudgetAssumption DEF Within

\* What is over its budget did not fit when the lock was taken.
LEMMA OverNeverFit ==
  ASSUME ShardInv, storing # None, Over(s)
  PROVE  ~Abstract!Fits(Begun)
<1>1. /\ s \in Shards /\ s.bytes = Sum(CostOf(s), s.items)
      /\ \A k \in s.items : s.e[k].cost \in Costs
      /\ \A k \in Keys : Seen(s)[k] = IF k \in s.items THEN s.e[k].cost ELSE None
  BY SoundFacts DEF ShardInv
<1>2. ~Within(Sum(CostOf(s), s.items), Cardinality(s.items))
  BY <1>1, OverIs
<1>3. PICK h : h = Seen(s)
  OBVIOUS
<1>4. ~Abstract!Fits(h)
  BY <1>1, <1>2, <1>3, FitsIs
<1>5. QED
  BY <1>3, <1>4 DEF ShardInv, StoringInv

\* The lock is let go, after evictions if the entries did not fit: BoundedCache stores.
LEMMA DoneStores ==
  ASSUME ShardInv, storing # None, storing' = None, seen' = Seen(s'),
         s'.items = s.items \/ Over(s),
         Sound(s', {}, UseOrder'), storing \in s'.items, s'.items \subseteq s.items,
         \A k \in s'.items : s'.e[k].cost = s.e[k].cost,
         ~Over(s') \/ s'.items = {storing}
  PROVE  Abstract!Next
<1>1. /\ storing \in Keys /\ seen \in [Keys -> Costs \cup {None}]
      /\ \A k \in s.items \ {storing} : seen[k] = s.e[k].cost
      /\ Seen(s) = Begun \/ ~Abstract!Fits(Begun)
      /\ MaxBytes > 0 => s.e[storing].cost <= MaxBytes
      /\ storing \in s.items
  BY DEF ShardInv, TypeOK, StoringInv
<1>2. PICK c \in Costs : c = s.e[storing].cost
  BY <1>1, SoundFacts DEF ShardInv
<1>3. PICK added : added = [seen EXCEPT ![storing] = c] /\ added = Begun
  BY <1>2 DEF Begun
<1>4. Pending = {<<storing, c>>} /\ Pending' = {}
  BY <1>2 DEF Pending
<1>5. /\ s' \in Shards /\ s'.items \subseteq Keys
      /\ seen' \in [Keys -> Costs \cup {None}]
      /\ \A k \in Keys : seen'[k] = IF k \in s'.items THEN s'.e[k].cost ELSE None
      /\ \A k \in s'.items : s'.e[k].cost \in Costs
      /\ s'.bytes = Sum(CostOf(s'), s'.items)
  BY SoundFacts
<1>6. seen' = Abstract!Without(added, Keys \ s'.items)
  <2>1. \A k \in s'.items : added[k] = s'.e[k].cost
    BY <1>1, <1>2, <1>3, <1>5
  <2>2. \A k \in Keys : seen'[k] = IF k \in Keys \ s'.items THEN None ELSE added[k]
    BY <1>5, <2>1
  <2>3. QED
    BY <1>5, <2>2 DEF Abstract!Without
<1>7. Abstract!Fits(seen')
  <2>1. Within(Sum(CostOf(s'), s'.items), Cardinality(s'.items))
    <3>1. CASE ~Over(s')
      BY <1>5, <3>1, OverIs
    <3>2. CASE s'.items = {storing}
      <4>1. MaxBytes > 0 => s'.e[storing].cost <= MaxBytes
        BY <1>1
      <4>2. QED
        BY <1>1, <1>5, <3>2, <4>1, LoneFits
    <3>3. QED
      BY <3>1, <3>2
  <2>2. QED
    BY <1>5, <2>1, FitsIs
<1>8. seen' = added \/ ~Abstract!Fits(added)
  <2> SUFFICES ASSUME Abstract!Fits(added) PROVE seen' = added
    OBVIOUS
  <2>1. Seen(s) = added /\ s'.items = s.items
    BY <1>1, <1>3, OverNeverFit
  <2>2. /\ added \in [Keys -> Costs \cup {None}]
        /\ \A k \in Keys : added[k] = IF k \in s.items THEN s.e[k].cost ELSE None
    BY <2>1, SoundFacts DEF ShardInv
  <2>3. \A k \in Keys : seen'[k] = added[k]
    BY <1>5, <2>1, <2>2
  <2>4. QED
    BY <1>5, <2>2, <2>3
<1>9. Abstract!Store(storing, c)
  <2>1. Keys \ s'.items \in SUBSET (Keys \ {storing})
    OBVIOUS
  <2>2. QED
    BY <1>3, <1>4, <1>6, <1>7, <1>8, <2>1 DEF Abstract!Store
<1>10. QED
  BY <1>1, <1>2, <1>9 DEF Abstract!Next

-----------------------------------------------------------------------------
(* One step of each kind.                                                  *)

\* A step that drops no ghost forgets none.
LEMMA NoGhostGone ==
  ASSUME ShardInv, s'.set = s.set
  PROVE  RememberedStep
  BY DEF RememberedStep

\* What TypeOK and the order of the uses are after Used(k).
LEMMA UsedFacts ==
  ASSUME ShardInv, NEW k \in Keys, Used(k), s'.policy = s.policy
  PROVE  /\ recency' \subseteq Keys \X Keys
         /\ \A a, b \in s.items \ {k} : <<a, b>> \in UseOrder => <<a, b>> \in UseOrder'
         /\ \A a \in s.items \ {k} : <<k, a>> \in UseOrder'
<1>1. s.items \subseteq Keys /\ recency \subseteq Keys \X Keys
  BY SoundFacts DEF ShardInv, TypeOK
<1>2. CASE s.policy = "LRU"
  <2>1. recency' = {p \in recency : k # p[1] /\ k # p[2]} \cup ({k} \X (s.items \ {k}))
    BY <1>2 DEF Used
  <2>2. UseOrder = recency /\ UseOrder' = recency'
    BY <1>2 DEF UseOrder
  <2>3. QED
    BY <1>1, <2>1, <2>2
<1>3. CASE s.policy # "LRU"
  <2>1. recency' = recency /\ UseOrder = Keys \X Keys /\ UseOrder' = Keys \X Keys
    BY <1>3 DEF Used, UseOrder
  <2>2. QED
    BY <1>1, <2>1
<1>4. QED
  BY <1>2, <1>3

\* And after Gone(s').
LEMMA GoneFacts ==
  ASSUME ShardInv, Gone(s'), s'.policy = s.policy, Sound(s', {}, UseOrder)
  PROVE  recency' \subseteq Keys \X Keys /\ Sound(s', {}, UseOrder')
<1>1. recency \subseteq Keys \X Keys
  BY DEF ShardInv, TypeOK
<1>2. recency' = {p \in recency : p[1] \in s'.items /\ p[2] \in s'.items}
  BY DEF Gone
<1>3. PICK Q : Q = UseOrder'
  OBVIOUS
<1>4. \A a, b \in Main(s') \ {} : <<a, b>> \in UseOrder => <<a, b>> \in Q
  <2>1. Main(s') \subseteq s'.items
    BY DEF Main
  <2>2. CASE s.policy = "LRU"
    BY <1>2, <1>3, <2>1, <2>2 DEF UseOrder
  <2>3. CASE s.policy # "LRU"
    BY <1>3, <2>3 DEF UseOrder
  <2>4. QED
    BY <2>2, <2>3
<1>5. PICK R : R = UseOrder
  OBVIOUS
<1>6. Sound(s', {}, Q)
  BY <1>4, <1>5, SoundOrder
<1>7. QED
  BY <1>1, <1>2, <1>3, <1>6

\* A read: a use, which touches the entry under LRU and counts under S3-FIFO.
LEMMA ReadStep ==
  ASSUME ShardInv, NEW k \in Keys, Read(k)
  PROVE  StepRight
<1>1. storing = None /\ k \in s.items /\ storing' = None /\ seen' = seen /\ Used(k)
  BY DEF Read
<1>2. PICK R : R = UseOrder
  OBVIOUS
<1>3. Sound(s, {}, R) /\ s \in Shards /\ s.items \subseteq Keys /\ seen = Seen(s)
      /\ (s.policy # "S3FIFO" => Small(s) = {})
  BY <1>1, <1>2, SoundFacts DEF ShardInv
<1>4. s.e[k].freq \in 0..MaxFreq /\ MaxFreq \in Nat
  BY <1>3, EntryTypes, BudgetAssumption
<1>5. /\ Sound(s', {}, UseOrder') /\ s'.items = s.items /\ s'.set = s.set
      /\ s'.policy = s.policy /\ Small(s') = Small(s)
      /\ \A j \in Keys : s'.e[j].cost = s.e[j].cost
      /\ recency' \subseteq Keys \X Keys
  <2>1. CASE s.policy = "LRU"
    <3>1. s' = Touch(s, k) /\ k \in Main(s) /\ Main(s) = s.items
      BY <1>1, <1>3, <2>1 DEF Read, Main, Small
    <3>2. s'.policy = s.policy
      BY <1>3, <3>1, UnlinkFacts, PushFrontFacts DEF Touch, SameRest
    <3>3. PICK Q : Q = UseOrder'
      OBVIOUS
    <3>4. /\ \A a, b \in s.items \ {k} : <<a, b>> \in R => <<a, b>> \in Q
          /\ \A a \in s.items \ {k} : <<k, a>> \in Q
      BY <1>1, <1>2, <3>2, <3>3, UsedFacts
    <3>5. /\ Sound(s', {}, Q) /\ Small(s') = Small(s)
          /\ SameRest(s, s') /\ SameData(s.e, s'.e)
      BY <1>3, <3>1, <3>4, TouchSound
    <3>6. recency' \subseteq Keys \X Keys
      BY <1>1, <3>2, UsedFacts
    <3>7. QED
      BY <3>3, <3>5, <3>6 DEF SameRest, SameData
  <2>2. CASE s.policy = "S3FIFO"
    <3>1. PICK v \in 0..MaxFreq : v = Min({s.e[k].freq + 1, MaxFreq})
      <4>1. PICK f \in Nat : f = s.e[k].freq
        BY <1>4
      <4>2. PICK a \in Nat : a = f + 1
        OBVIOUS
      <4>3. Min({a, MaxFreq}) \in {a, MaxFreq} /\ Min({a, MaxFreq}) <= MaxFreq
        <5>1. a \in Int /\ MaxFreq \in Int
          BY <1>4
        <5>2. QED
          BY <5>1, MinPair
      <4>4. QED
        BY <1>4, <4>1, <4>2, <4>3
    <3>2. s' = [s EXCEPT !.e[k].freq = v]
      BY <2>2, <3>1 DEF Read
    <3>3. /\ Sound(s', {}, R) /\ Small(s') = Small(s)
          /\ SameRest(s, s')
          /\ \A j \in Keys : s'.e[j].cost = s.e[j].cost
      <4>1. PICK u : u = s'
        OBVIOUS
      <4>2. Sound(s, {}, R) /\ u = [s EXCEPT !.e[k].freq = v]
        BY <1>3, <3>2, <4>1
      <4>3. /\ Sound(u, {}, R) /\ Small(u) = Small(s) /\ SameRest(s, u)
            /\ \A j \in Keys : u.e[j].cost = s.e[j].cost
        BY <4>2, FreqSound
      <4>4. QED
        BY <4>1, <4>3
    <3>4. UseOrder' = R /\ recency' = recency
      BY <1>1, <1>2, <2>2, <3>3 DEF UseOrder, Used, SameRest
    <3>5. QED
      BY <3>3, <3>4 DEF SameRest, ShardInv, TypeOK
  <2>3. CASE s.policy # "LRU" /\ s.policy # "S3FIFO"
    <3>1. s' = s /\ recency' = recency
      BY <1>1, <2>3 DEF Read, Used
    <3>2. UseOrder' = R
      BY <1>2, <3>1 DEF UseOrder
    <3>3. QED
      BY <1>3, <3>1, <3>2 DEF ShardInv, TypeOK
  <2>4. QED
    BY <2>1, <2>2, <2>3
<1>6. s' \in Shards
  BY <1>5, SoundFacts
<1>7. seen' = Seen(s')
  BY <1>1, <1>3, <1>5 DEF Seen
<1>8. ShardInv'
  BY <1>1, <1>3, <1>5, <1>6, <1>7 DEF ShardInv, TypeOK, StoringInv
<1>9. RememberedStep
  BY <1>5, NoGhostGone
<1>10. UNCHANGED <<seen, Pending>>
  BY <1>1 DEF Pending
<1>11. QED
  BY <1>1, <1>8, <1>9, <1>10 DEF StepRight, LeastRecentStep

\* set(), up to evict(): BoundedCache begins to store.
LEMMA SetStep ==
  ASSUME ShardInv, NEW k \in Keys, NEW cost \in Costs, Set(k, cost)
  PROVE  StepRight
<1>1. /\ storing = None /\ (MaxBytes > 0 => cost <= MaxBytes) /\ s' = Insert(s, k, cost)
      /\ Used(k) /\ storing' = k /\ seen' = seen
  BY DEF Set
<1>2. PICK R : R = UseOrder
  OBVIOUS
<1>3. /\ Sound(s, {}, R) /\ seen = Seen(s) /\ seen \in [Keys -> Costs \cup {None}]
      /\ (s.policy # "S3FIFO" => Small(s) = {})
  BY <1>1, <1>2 DEF ShardInv, TypeOK
<1>4. s.items \subseteq Keys /\ \A j \in Keys : seen[j] = IF j \in s.items THEN s.e[j].cost ELSE None
  BY <1>3, SoundFacts
<1>5. Sound(s', {}, Keys \X Keys) /\ Stored(s, s', k, cost)
  <2>1. PICK Q : Q = Keys \X Keys
    OBVIOUS
  <2>2. /\ \A a, b \in s.items \ {k} : <<a, b>> \in R => <<a, b>> \in Q
        /\ \A a \in s.items \ {k} : <<k, a>> \in Q
    BY <1>4, <2>1
  <2>3. Sound(s', {}, Q) /\ Stored(s, s', k, cost)
    BY <1>1, <1>3, <2>2, InsertSound
  <2>4. QED
    BY <2>1, <2>3
<1>6. s'.policy = s.policy
  BY <1>5 DEF Stored
<1>7. Sound(s', {}, UseOrder') /\ recency' \subseteq Keys \X Keys
  <2>1. PICK Q : Q = UseOrder'
    OBVIOUS
  <2>2. /\ \A a, b \in s.items \ {k} : <<a, b>> \in R => <<a, b>> \in Q
        /\ \A a \in s.items \ {k} : <<k, a>> \in Q
        /\ recency' \subseteq Keys \X Keys
    BY <1>1, <1>2, <1>6, <2>1, UsedFacts
  <2>3. Sound(s', {}, Q)
    BY <1>1, <1>3, <2>2, InsertSound
  <2>4. QED
    BY <2>1, <2>2, <2>3
<1>8. /\ s' \in Shards /\ s'.items = s.items \cup {k}
      /\ s'.e[k].cost = cost /\ \A j \in Keys \ {k} : s'.e[j].cost = s.e[j].cost
      /\ \A j \in s'.items : s'.e[j].cost \in Costs
      /\ s'.bytes = Sum(CostOf(s'), s'.items)
  BY <1>5, SoundFacts DEF Stored
<1>9. s'.policy # "S3FIFO" => Small(s') = {}
  <2>1. ASSUME s'.policy # "S3FIFO", NEW j \in s'.items PROVE ~s'.e[j].small
    <3>1. CASE j = k
      BY <1>5, <1>6, <2>1, <3>1 DEF Stored
    <3>2. CASE j # k
      <4>1. s'.e[j].small = s.e[j].small /\ j \in s.items /\ j \in Keys
        BY <1>4, <1>5, <1>8, <3>2 DEF Stored
      <4>2. QED
        BY <1>3, <1>6, <2>1, <4>1 DEF Small
    <3>3. QED
      BY <3>1, <3>2
  <2>2. QED
    BY <2>1 DEF Small
<1>10. PICK added : added = [seen EXCEPT ![k] = cost]
  OBVIOUS
<1>11. /\ added \in [Keys -> Costs \cup {None}]
       /\ \A j \in Keys : added[j] = IF j \in s'.items THEN s'.e[j].cost ELSE None
  BY <1>3, <1>4, <1>8, <1>10
<1>12. Seen(s') = added /\ added = Begun'
  <2>1. /\ Seen(s') \in [Keys -> Costs \cup {None}]
        /\ \A j \in Keys : Seen(s')[j] = IF j \in s'.items THEN s'.e[j].cost ELSE None
    BY <1>5, SoundFacts
  <2>2. \A j \in Keys : Seen(s')[j] = added[j]
    BY <1>11, <2>1
  <2>3. Seen(s') = added
    BY <1>11, <2>1, <2>2
  <2>4. added = Begun'
    BY <1>1, <1>8, <1>10 DEF Begun
  <2>5. QED
    BY <2>3, <2>4
<1>13. StoringInv'
  <2>1. \A j \in s'.items \ {k} : seen'[j] = s'.e[j].cost
    BY <1>1, <1>4, <1>8
  <2>2. s'.policy = "LRU" => s'.head = k
    BY <1>5, <1>6 DEF Stored
  <2>3. s'.e[k].small => s'.smallHead = k
    BY <1>5 DEF Stored
  <2>4. QED
    BY <1>1, <1>8, <1>12, <2>1, <2>2, <2>3 DEF StoringInv
<1>14. k # None
  BY HashAssumption
<1>15. ShardInv'
  BY <1>1, <1>3, <1>7, <1>8, <1>9, <1>13, <1>14 DEF ShardInv, TypeOK
<1>16. Abstract!Begin(k, cost)
  BY <1>1, <1>8, <1>14 DEF Abstract!Begin, Pending
<1>17. RememberedStep
  BY <1>5 DEF RememberedStep, Stored
<1>18. LeastRecentStep
  BY <1>1 DEF LeastRecentStep
<1>19. QED
  BY <1>15, <1>16, <1>17, <1>18 DEF StepRight, Abstract!Next

\* One round of each of evict()'s loops.
LEMMA EvictLRUStep ==
  ASSUME ShardInv, EvictLRU
  PROVE  StepRight
<1>1. /\ storing # None /\ s.policy = "LRU" /\ s' = Remove(s, s.tail) /\ Gone(s')
      /\ storing' = storing /\ seen' = seen
      /\ s.tail # storing /\ s.tail # None /\ Over(s)
  BY DEF EvictLRU, OldestLRU
<1>2. PICK R : R = UseOrder
  OBVIOUS
<1>3. Sound(s, {}, R) /\ Small(s) = {} /\ R = recency
  BY <1>1, <1>2 DEF ShardInv, UseOrder
<1>4. PICK k \in Main(s) : k = s.tail /\ \A j \in Main(s) \ {k} : <<j, k>> \in recency
  BY <1>1, <1>3, SoundEnds DEF Ends
<1>5. k \in s.items /\ Main(s) = s.items /\ s.items \subseteq Keys
  BY <1>3, SoundFacts DEF Main, Small
<1>6. Sound(s', {}, R) /\ Removed(s, s', k)
  BY <1>1, <1>3, <1>4, <1>5, RemoveSound
<1>7. s'.policy = s.policy /\ s'.items = s.items \ {k} /\ Small(s') = {} /\ s'.set = s.set
  BY <1>3, <1>6 DEF Removed
<1>8. Sound(s', {}, UseOrder') /\ recency' \subseteq Keys \X Keys
  BY <1>1, <1>2, <1>6, <1>7, GoneFacts
<1>9. /\ storing \in s.items /\ storing \in Keys /\ storing # k
      /\ MaxBytes > 0 => s.e[storing].cost <= MaxBytes
      /\ s.head = storing /\ ~s.e[storing].small
      /\ \A j \in s.items \ {storing} : seen[j] = s.e[j].cost
      /\ ~Abstract!Fits(Begun)
  BY <1>1, <1>3, <1>4, <1>5, OverNeverFit DEF ShardInv, StoringInv, Small
<1>10. /\ \A j \in s'.items : s'.e[j].cost = s.e[j].cost
       /\ s'.e[storing].cost = s.e[storing].cost /\ s'.e[storing].small = s.e[storing].small
       /\ s'.head = s.head
  BY <1>5, <1>6, <1>7, <1>9 DEF Removed
<1>11. StoringInv' /\ Pending' = Pending
  <2>1. Begun' = Begun
    BY <1>1, <1>10 DEF Begun
  <2>2. Pending' = Pending
    BY <1>1, <1>10 DEF Pending
  <2>3. QED
    BY <1>1, <1>7, <1>9, <1>10, <2>1, <2>2 DEF StoringInv
<1>12. ShardInv'
  BY <1>1, <1>7, <1>8, <1>11, SoundFacts DEF ShardInv, TypeOK
<1>13. LeastRecentStep
  BY <1>4, <1>5, <1>7 DEF LeastRecentStep
<1>14. QED
  BY <1>1, <1>7, <1>11, <1>12, <1>13, NoGhostGone DEF StepRight

LEMMA EvictAllStep ==
  ASSUME ShardInv, EvictAll
  PROVE  StepRight
<1>1. /\ storing # None /\ s.policy = "ClearOnFull" /\ s' = KeepOnly(s, storing) /\ Gone(s')
      /\ Unlock /\ Over(s)
  BY DEF EvictAll
<1>2. Sound(s, {}, UseOrder) /\ Small(s) = {} /\ storing \in s.items
  BY <1>1 DEF ShardInv, StoringInv
<1>3. storing \in Main(s)
  BY <1>2 DEF Main, Small
<1>4. ASSUME NEW Q
      PROVE  /\ Sound(s', {}, Q) /\ s'.items = {storing} /\ s'.policy = s.policy
             /\ Small(s') = {} /\ s'.e[storing].cost = s.e[storing].cost /\ s'.set = s.set
  BY <1>1, <1>2, <1>3, KeepOnlySound
<1>5. Sound(s', {}, UseOrder') /\ recency' \subseteq Keys \X Keys
  BY <1>1, <1>4, GoneFacts
<1>6. ShardInv'
  BY <1>1, <1>4, <1>5, UnlockInv
<1>7. seen' = Seen(s') /\ storing' = None
  BY <1>1 DEF Unlock
<1>8. Abstract!Next
  BY <1>1, <1>2, <1>4, <1>5, <1>7, DoneStores
<1>9. QED
  BY <1>1, <1>4, <1>6, <1>8, NoGhostGone DEF StepRight, LeastRecentStep

\* A round of S3FIFO, in which an entry other than the one that is being stored moves
\* or leaves.
LEMMA RoundStep ==
  ASSUME ShardInv, storing # None, Over(s), s.policy = "S3FIFO",
         storing' = storing, seen' = seen, recency' = recency,
         NEW k \in Keys, k # storing, Sound(s', {}, Keys \X Keys), Rounded(s, s', k)
  PROVE  StepRight
<1>1. /\ s'.policy = s.policy /\ s'.items \in {s.items, s.items \ {k}}
      /\ \A j \in s'.items : s'.e[j].cost = s.e[j].cost
      /\ \A j \in Keys \ {k} : /\ s'.e[j].small = s.e[j].small
                               /\ s.smallHead = j => s'.smallHead = j
      /\ Remembers(s, s')
  BY DEF Rounded
<1>2. UseOrder' = Keys \X Keys
  BY <1>1 DEF UseOrder
<1>3. /\ storing \in s.items /\ storing \in Keys
      /\ MaxBytes > 0 => s.e[storing].cost <= MaxBytes
      /\ s.e[storing].small => s.smallHead = storing
      /\ \A j \in s.items \ {storing} : seen[j] = s.e[j].cost
      /\ ~Abstract!Fits(Begun)
  BY SoundFacts, OverNeverFit DEF ShardInv, StoringInv
<1>4. /\ storing \in s'.items /\ s'.items \subseteq s.items
      /\ s'.e[storing].cost = s.e[storing].cost
      /\ s'.e[storing].small => s'.smallHead = storing
  BY <1>1, <1>3
<1>5. StoringInv' /\ Pending' = Pending
  <2>1. Begun' = Begun
    BY <1>4 DEF Begun
  <2>2. Pending' = Pending
    BY <1>4 DEF Pending
  <2>3. QED
    BY <1>1, <1>3, <1>4, <2>1, <2>2 DEF StoringInv
<1>6. s' \in Shards
  BY SoundFacts
<1>7. ShardInv'
  BY <1>1, <1>2, <1>5, <1>6 DEF ShardInv, TypeOK
<1>8. RememberedStep
  BY <1>1 DEF Remembers, RememberedStep
<1>9. QED
  BY <1>5, <1>7, <1>8 DEF StepRight, LeastRecentStep

LEMMA EvictSmallStep ==
  ASSUME ShardInv, EvictSmall
  PROVE  StepRight
<1>1. /\ storing # None /\ s.policy = "S3FIFO" /\ s' = GiveSmall(s)
      /\ storing' = storing /\ seen' = seen /\ recency' = recency
      /\ s.smallTail # None /\ s.smallTail # storing /\ Over(s)
  BY DEF EvictSmall, SmallGives
<1>2. Sound(s, {}, Keys \X Keys)
  BY <1>1 DEF ShardInv, UseOrder
<1>3. s.smallTail \in Keys
  BY <1>1, <1>2 DEF Sound, Shards
<1>4. Sound(s', {}, Keys \X Keys) /\ Rounded(s, s', s.smallTail)
  BY <1>1, <1>2, GiveSmallSound
<1>5. QED
  BY <1>1, <1>3, <1>4, RoundStep

LEMMA EvictMainStep ==
  ASSUME ShardInv, EvictMain
  PROVE  StepRight
<1>1. /\ storing # None /\ s.policy = "S3FIFO" /\ s' = GiveMain(s, OldestMain(s, storing))
      /\ storing' = storing /\ seen' = seen /\ recency' = recency
      /\ OldestMain(s, storing) # None /\ Over(s)
  BY DEF EvictMain
<1>2. Sound(s, {}, Keys \X Keys)
  BY <1>1 DEF ShardInv, UseOrder
<1>3. PICK k : k = OldestMain(s, storing)
  OBVIOUS
<1>4. k \in Main(s) /\ k # storing
  <2>1. PICK R : R = Keys \X Keys
    OBVIOUS
  <2>2. Ends(s, R)
    BY <1>2, <2>1, SoundEnds
  <2>3. QED
    BY <1>1, <1>3, <2>2 DEF Ends, OldestMain
<1>5. k \in Keys
  BY <1>2, <1>4, SoundFacts DEF Main
<1>6. Sound(s', {}, Keys \X Keys) /\ Rounded(s, s', k)
  BY <1>1, <1>2, <1>3, <1>4, GiveMainSound
<1>7. QED
  BY <1>1, <1>4, <1>5, <1>6, RoundStep

\* When there is nothing left to evict, the entry that is being stored is alone.
LEMMA EvictDoneStep ==
  ASSUME ShardInv, EvictDone
  PROVE  StepRight
<1>1. /\ storing # None /\ s' = s /\ recency' = recency /\ Unlock
      /\ \/ ~Over(s)
         \/ s.policy = "LRU" /\ OldestLRU(s, storing) = None
         \/ s.policy = "S3FIFO" /\ ~SmallGives(s, storing) /\ OldestMain(s, storing) = None
  BY DEF EvictDone
<1>2. PICK R : R = UseOrder
  OBVIOUS
<1>3. /\ Sound(s, {}, R) /\ storing \in s.items
      /\ (s.policy # "S3FIFO" => Small(s) = {})
      /\ (s.policy = "LRU" => s.head = storing)
      /\ (s.e[storing].small => s.smallHead = storing)
      /\ recency \subseteq Keys \X Keys
  BY <1>1, <1>2 DEF ShardInv, StoringInv, TypeOK
<1>4. Ends(s, R)
  BY <1>3, SoundEnds
<1>5. s.items = Main(s) \cup Small(s) /\ Main(s) \cap Small(s) = {}
      /\ (storing \in Small(s) => s.smallHead = storing)
  BY <1>3 DEF Main, Small
<1>6. ASSUME s.policy = "LRU", OldestLRU(s, storing) = None
      PROVE  s.items = {storing}
  <2>1. s.items = Main(s) /\ storing \in Main(s) /\ s.head = storing
    BY <1>3, <1>5, <1>6
  <2>2. s.tail # None
    BY <1>4, <2>1 DEF Ends
  <2>3. s.tail = storing
    BY <1>6, <2>2 DEF OldestLRU
  <2>4. QED
    BY <1>4, <2>1, <2>2, <2>3 DEF Ends
<1>7. ASSUME s.policy = "S3FIFO", ~SmallGives(s, storing), OldestMain(s, storing) = None
      PROVE  s.items = {storing}
  <2>1. MainEmpty(s, storing)
    BY <1>1, <1>7 DEF OldestMain, MainEmpty
  <2>2. s.smallTail \in {None, storing}
    BY <1>7, <2>1 DEF SmallGives
  <2>3. Main(s) \subseteq {storing}
    BY <1>4, <2>1 DEF MainEmpty, Ends
  <2>4. Small(s) \subseteq {storing}
    BY <1>1, <1>4, <1>5, <2>2 DEF Ends
  <2>5. QED
    BY <1>3, <1>5, <2>3, <2>4
<1>8. ~Over(s) \/ s.items = {storing}
  BY <1>1, <1>6, <1>7
<1>9. UseOrder' = R
  BY <1>1, <1>2 DEF UseOrder
<1>10. ShardInv'
  BY <1>1, <1>3, <1>9, UnlockInv
<1>11. seen' = Seen(s') /\ storing' = None
  BY <1>1 DEF Unlock
<1>12. Abstract!Next
  BY <1>1, <1>3, <1>8, <1>9, <1>11, DoneStores
<1>13. QED
  BY <1>1, <1>10, <1>12, NoGhostGone DEF StepRight, LeastRecentStep

\* A removal, and clear().
LEMMA LeaveStep ==
  ASSUME ShardInv, NEW k \in Keys, Leave(k)
  PROVE  StepRight
<1>1. storing = None /\ k \in s.items /\ s' = Remove(s, k) /\ Gone(s') /\ Unlock
  BY DEF Leave
<1>2. PICK R : R = UseOrder
  OBVIOUS
<1>3. Sound(s, {}, R) /\ seen = Seen(s) /\ (s.policy # "S3FIFO" => Small(s) = {})
  BY <1>1, <1>2 DEF ShardInv
<1>4. Sound(s', {}, R) /\ Removed(s, s', k)
  BY <1>1, <1>3, RemoveSound
<1>5. /\ s'.policy = s.policy /\ s'.items = s.items \ {k} /\ Small(s') = Small(s) \ {k}
      /\ s'.set = s.set /\ \A j \in Keys \ {k} : s'.e[j].cost = s.e[j].cost
  BY <1>4 DEF Removed
<1>6. Sound(s', {}, UseOrder') /\ recency' \subseteq Keys \X Keys
  BY <1>1, <1>2, <1>4, <1>5, GoneFacts
<1>7. ShardInv'
  BY <1>1, <1>3, <1>5, <1>6, UnlockInv
<1>8. seen' = Abstract!Without(seen, {k})
  <2>1. seen' = Seen(s')
    BY <1>1 DEF Unlock
  <2>2. \A j \in Keys : Seen(s')[j] = IF j \in {k} THEN None ELSE seen[j]
    BY <1>3, <1>5 DEF Seen
  <2>3. QED
    BY <2>1, <2>2 DEF Seen, Abstract!Without
<1>9. Abstract!Next
  <2>1. {k} \in SUBSET Keys
    OBVIOUS
  <2>2. Pending = {} /\ Pending' = {}
    BY <1>1 DEF Pending, Unlock
  <2>3. QED
    BY <1>8, <2>1, <2>2 DEF Abstract!Next, Abstract!Leave
<1>10. QED
  BY <1>1, <1>5, <1>7, <1>9, NoGhostGone DEF StepRight, LeastRecentStep

LEMMA ClearStep ==
  ASSUME ShardInv, Clear
  PROVE  StepRight
<1>1. storing = None /\ s' = Empty(s.policy) /\ Gone(s') /\ Unlock
  BY DEF Clear
<1>2. s.policy \in AllPolicies /\ recency \subseteq Keys \X Keys
  BY DEF ShardInv, TypeOK, Shards
<1>3. ASSUME NEW Q
      PROVE  Sound(s', {}, Q) /\ s'.items = {} /\ s'.policy = s.policy /\ s'.queue = <<>>
  BY <1>1, <1>2, EmptySound
<1>4. Small(s') = {}
  BY <1>3 DEF Small
<1>5. recency' \subseteq Keys \X Keys
  BY <1>1, <1>2 DEF Gone
<1>6. ShardInv'
  BY <1>1, <1>3, <1>4, <1>5, UnlockInv
<1>7. seen' = Abstract!Without(seen, Keys)
  BY <1>1, <1>3 DEF Unlock, Seen, Abstract!Without
<1>8. Abstract!Next
  <2>1. Pending = {} /\ Pending' = {}
    BY <1>1 DEF Pending, Unlock
  <2>2. QED
    BY <1>7, <2>1 DEF Abstract!Next, Abstract!Leave
<1>9. RememberedStep
  BY <1>3 DEF RememberedStep
<1>10. QED
  BY <1>1, <1>6, <1>8, <1>9 DEF StepRight, LeastRecentStep

-----------------------------------------------------------------------------
(* The theorems.                                                           *)

\* Every kind of step keeps the invariant, and does what StepRight says.
LEMMA InitInv ==
  ASSUME Init
  PROVE  ShardInv /\ Abstract!Init
<1>1. PICK policy \in Policies : s = Empty(policy)
  BY DEF Init
<1>2. policy \in AllPolicies
  BY PolicyAssumption
<1>3. storing = None /\ seen = [k \in Keys |-> None] /\ recency = {}
  BY DEF Init
<1>4. PICK R : R = UseOrder
  OBVIOUS
<1>5. Sound(s, {}, R) /\ s.items = {}
  BY <1>1, <1>2, EmptySound
<1>6. Small(s) = {} /\ Seen(s) = seen
  BY <1>3, <1>5 DEF Small, Seen
<1>7. seen \in [Keys -> Costs \cup {None}] /\ s \in Shards
  BY <1>5, <1>6, SoundFacts
<1>8. ShardInv
  BY <1>3, <1>4, <1>5, <1>6, <1>7 DEF ShardInv, TypeOK, StoringInv
<1>9. QED
  BY <1>3, <1>8 DEF Abstract!Init, Pending

LEMMA NextStep ==
  ASSUME ShardInv, Next
  PROVE  StepRight
<1>1. CASE \E k \in Keys : Read(k)
  BY <1>1, ReadStep
<1>2. CASE \E k \in Keys : Leave(k)
  BY <1>2, LeaveStep
<1>3. CASE \E k \in Keys : \E cost \in Costs : Set(k, cost)
  BY <1>3, SetStep
<1>4. CASE Evict
  BY <1>4, EvictLRUStep, EvictAllStep, EvictSmallStep, EvictMainStep, EvictDoneStep DEF Evict
<1>5. CASE Clear
  BY <1>5, ClearStep
<1>6. QED
  BY <1>1, <1>2, <1>3, <1>4, <1>5 DEF Next

LEMMA StutterStep ==
  ASSUME ShardInv, UNCHANGED vars
  PROVE  ShardInv' /\ RememberedStep /\ LeastRecentStep /\ UNCHANGED <<seen, Pending>>
<1>1. s' = s /\ storing' = storing /\ seen' = seen /\ recency' = recency
  BY DEF vars
<1>2. ShardInv'
  BY <1>1 DEF ShardInv, TypeOK, UseOrder, StoringInv, Begun
<1>3. QED
  BY <1>1, <1>2 DEF RememberedStep, LeastRecentStep, Pending

\* The strengthening the rest follows from.
THEOREM Invariance == Spec => []ShardInv
<1>1. Init => ShardInv
  BY InitInv
<1>2. ShardInv /\ [Next]_vars => ShardInv'
  BY NextStep, StutterStep DEF StepRight
<1>3. QED
  BY <1>1, <1>2, PTL DEF Spec

\* However sets, reads, evictions and removals follow each other, the two intrusive
\* lists read the same from both ends, end, and hold exactly the entries of the map,
\* each where its small flag says.
THEOREM ListsMatch == Spec => []ListsMatchItems
<1>1. ShardInv => ListsMatchItems
  <2> SUFFICES ASSUME ShardInv PROVE ListsMatchItems
    OBVIOUS
  <2>1. PICK n, q, m, r :
          /\ Chain(s.e, s.head, s.tail, n, q)
          /\ Chain(s.e, s.smallHead, s.smallTail, m, r)
          /\ Members(n, q) = Main(s) /\ Members(m, r) = Small(s)
    BY DEF ShardInv, Sound, Linked
  <2>2. IsList(s.head, s.tail, Main(s))
    BY <2>1, ChainIsList
  <2>3. IsList(s.smallHead, s.smallTail, Small(s))
    BY <2>1, ChainIsList
  <2>4. Main(s) = s.items \ Small(s) /\ Small(s) = {k \in s.items : s.e[k].small}
    BY DEF Main, Small
  <2>5. QED
    BY <2>2, <2>3, <2>4 DEF ListsMatchItems
<1>2. QED
  BY <1>1, Invariance, PTL

\* The byte accounts, kept by increments, are always what the entries add up to, the
\* count of the small queue is how many it has, and the ghosts' numbers are right.
THEOREM Accounts == Spec => []AccountsExact
<1>1. ShardInv => AccountsExact
  <2> SUFFICES ASSUME ShardInv PROVE AccountsExact
    OBVIOUS
  <2>1. TypeOK /\ s \in Shards /\ Sound(s, {}, UseOrder)
    BY DEF ShardInv, TypeOK
  <2>2. GhostsAgree
    BY <2>1 DEF Sound, Agree, GhostsAgree
  <2>3. /\ s.bytes = Sum(CostOf(s), s.items)
        /\ s.smallBytes = Sum(CostOf(s), Small(s)) /\ s.smallLen = Cardinality(Small(s))
    <3>1. Small(s) \ {} = Small(s)
      OBVIOUS
    <3>2. QED
      BY <2>1, <3>1 DEF Sound, Counted
  <2>4. s.items \in SUBSET Keys /\ Small(s) \in SUBSET Keys
    BY <2>1, SoundFacts DEF Small
  <2>5. /\ MapThenSumSet(LAMBDA k : s.e[k].cost, s.items) = Sum(CostOf(s), s.items)
        /\ MapThenSumSet(LAMBDA k : s.e[k].cost, Small(s)) = Sum(CostOf(s), Small(s))
    BY <2>1, <2>4, TotalIsSum
  <2>6. QED
    BY <2>1, <2>2, <2>3, <2>5 DEF AccountsExact, Small
<1>2. QED
  BY <1>1, Invariance, PTL

\* A ghost is forgotten only when its key comes back into the main queue or when its
\* last add has left the ghosts' queue.
THEOREM Remembered == Spec => GhostsRemembered
<1>1. ShardInv /\ [Next]_vars => [RememberedStep]_vars
  BY NextStep DEF StepRight
<1>2. QED
  BY <1>1, Invariance, PTL DEF Spec, GhostsRemembered, RememberedStep

\* Under LRU what evict() removes was last used before everything else in the shard.
THEOREM LeastRecent == Spec => EvictsLeastRecent
<1>1. ShardInv /\ [Next]_vars => [LeastRecentStep]_vars
  BY NextStep DEF StepRight
<1>2. QED
  BY <1>1, Invariance, PTL DEF Spec, EvictsLeastRecent, LeastRecentStep

\* Every policy, seen from outside the lock, is a BoundedCache: a store keeps its
\* entry, makes others leave only if it does not fit beside them, and ends in budget.
THEOREM Refinement == Spec => ImplementsBoundedCache
<1>1. Init => Abstract!Init
  BY InitInv
<1>2. ShardInv /\ [Next]_vars => [Abstract!Next]_(Abstract!vars)
  BY NextStep, StutterStep DEF StepRight, Abstract!vars
<1>3. QED
  BY <1>1, <1>2, Invariance, PTL DEF Spec, ImplementsBoundedCache, Abstract!Spec

=============================================================================
