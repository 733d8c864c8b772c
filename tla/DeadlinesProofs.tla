--------------------------- MODULE DeadlinesProofs --------------------------
(***************************************************************************)
(* Proofs about Deadlines, for words and floats of every width, all        *)
(* options, times, lives and random numbers: an entry with a ttl expires,  *)
(* and in time; its refresh is in proportion; and a budget is divided so   *)
(* that the shards together hold it.                                       *)
(*                                                                         *)
(* The invariant says of the last entry, and of the budget, what the       *)
(* properties do: nothing is remembered but the options, and all the work  *)
(* is in the arithmetic.  Three facts carry it: a sum that leaves the word *)
(* comes back negative (WrapIs), each rounding of a float is off by one    *)
(* part in 2^Precision at most (FloatClose), and five of them by six       *)
(* (FiveUp, FiveDown).                                                     *)
(***************************************************************************)
EXTENDS Deadlines, FiniteSetTheorems, WellFoundedInduction, TLAPS

-----------------------------------------------------------------------------
(* Powers of two, which the provers know nothing of: 2^n is how many       *)
(* subsets 1..n has.                                                       *)

\* They are numbers.
LEMMA PowerIs ==
  ASSUME NEW n \in Nat
  PROVE  /\ IsFiniteSet(SUBSET (1..n)) /\ Cardinality(SUBSET (1..n)) = 2^n
         /\ 2^n \in Nat /\ 2^n >= 1
<1>1. IsFiniteSet(1..n) /\ Cardinality(1..n) = n
  BY FS_Interval
<1>2. IsFiniteSet(SUBSET (1..n)) /\ Cardinality(SUBSET (1..n)) = 2^Cardinality(1..n)
  BY <1>1, FS_SUBSET
<1>3. Cardinality(SUBSET (1..n)) \in Nat /\ Cardinality(SUBSET (1..n)) # 0
  <2>1. SUBSET (1..n) # {}
    OBVIOUS
  <2>2. QED
    BY <1>2, <2>1, FS_CardinalityType, FS_EmptySet
<1>4. QED
  BY <1>1, <1>2, <1>3

\* Powers start at one, never shrink, and double at each step.
LEMMA PowerOfNone == 2^0 = 1
<1>1. SUBSET (1..0) = {{}}
  OBVIOUS
<1>2. Cardinality({{}}) = 1
  BY FS_Singleton
<1>3. Cardinality(SUBSET (1..0)) = 2^0
  BY PowerIs
<1>4. QED
  BY <1>1, <1>2, <1>3

\* Of numbers there is a least.
LEMMA LeastNat ==
  ASSUME NEW B \in SUBSET Nat, B # {}
  PROVE  \E n \in B : \A m \in B : n <= m
<1>1. PICK n \in B : \A m \in B : <<m, n>> \notin OpToRel(<, Nat)
  BY NatLessThanWellFounded, WFMin
<1>2. \A m \in B : ~(m < n)
  BY <1>1 DEF OpToRel
<1>3. QED
  BY <1>2

LEMMA PowerGrows ==
  ASSUME NEW m \in Nat, NEW n \in Nat, m <= n
  PROVE  2^m <= 2^n
<1>1. SUBSET (1..m) \in SUBSET SUBSET (1..n)
  OBVIOUS
<1>2. Cardinality(SUBSET (1..m)) <= Cardinality(SUBSET (1..n))
  BY <1>1, PowerIs, FS_Subset
<1>3. QED
  BY <1>2, PowerIs

LEMMA PowerDoubles ==
  ASSUME NEW n \in Nat
  PROVE  2^(n + 1) = 2 * 2^n
<1>1. PICK A, B, C : /\ A = SUBSET (1..n) /\ C = SUBSET (1..(n + 1))
                     /\ B = {T \cup {n + 1} : T \in A}
  OBVIOUS
<1>2. \A T \in A : n + 1 \notin T
  BY <1>1
<1>3. A \cup B = C
  <2>1. 1..n \subseteq 1..(n + 1) /\ n + 1 \in 1..(n + 1)
    OBVIOUS
  <2>2. A \subseteq C /\ B \subseteq C
    <3>1. A \subseteq C
      BY <1>1, <2>1
    <3>2. ASSUME NEW T \in A PROVE T \cup {n + 1} \in C
      BY <1>1, <2>1
    <3>3. ASSUME NEW U \in B PROVE U \in C
      <4>1. PICK T \in A : U = T \cup {n + 1}
        BY <1>1
      <4>2. QED
        BY <3>2, <4>1
    <3>4. QED
      BY <3>1, <3>3
  <2>3. ASSUME NEW U \in C PROVE U \in A \cup B
    <3>1. U \ {n + 1} \in A
      BY <1>1
    <3>2. CASE n + 1 \in U
      <4>1. U = (U \ {n + 1}) \cup {n + 1}
        BY <3>2
      <4>2. QED
        BY <1>1, <3>1, <4>1
    <3>3. CASE n + 1 \notin U
      <4>1. U = U \ {n + 1}
        BY <3>3
      <4>2. QED
        BY <3>1, <4>1
    <3>4. QED
      BY <3>2, <3>3
  <2>4. QED
    BY <2>2, <2>3
<1>4. A \cap B = {}
  <2>1. ASSUME NEW U \in B PROVE U \notin A
    <3>1. n + 1 \in U
      BY <1>1
    <3>2. QED
      BY <1>2, <3>1
  <2>2. QED
    BY <2>1
<1>5. IsFiniteSet(A) /\ IsFiniteSet(C) /\ Cardinality(A) = 2^n /\ Cardinality(C) = 2^(n + 1)
      /\ 2^n \in Nat
  BY <1>1, PowerIs
<1>6. IsFiniteSet(B) /\ Cardinality(B) = Cardinality(A)
  <2>1. PICK f : f = [T \in A |-> T \cup {n + 1}]
    OBVIOUS
  <2>2. f \in [A -> B] /\ \A U \in B : \E T \in A : f[T] = U
    BY <1>1, <2>1
  <2>3. ASSUME NEW T \in A, NEW U \in A, f[T] = f[U] PROVE T = U
    <3>1. T \cup {n + 1} = U \cup {n + 1} /\ n + 1 \notin T /\ n + 1 \notin U
      BY <1>2, <2>1, <2>3
    <3>2. QED
      BY <3>1
  <2>4. f \in Bijection(A, B)
    BY <2>2, <2>3 DEF Bijection, Injection, Surjection, IsInjective
  <2>5. ExistsBijection(A, B)
    BY <2>4 DEF ExistsBijection
  <2>6. QED
    BY <1>5, <2>5, FS_Bijection
<1>7. Cardinality(C) = Cardinality(A) + Cardinality(B)
  <2>1. Cardinality(C) = Cardinality(A) + Cardinality(B) - Cardinality({})
    <3>1. Cardinality(A \cup B) = Cardinality(A) + Cardinality(B) - Cardinality(A \cap B)
      BY <1>5, <1>6, FS_Union
    <3>2. QED
      BY <1>3, <1>4, <3>1
  <2>2. Cardinality({}) = 0
    BY FS_EmptySet
  <2>3. PICK a \in Nat : Cardinality(A) = a /\ Cardinality(B) = a
    BY <1>5, <1>6
  <2>4. QED
    BY <2>1, <2>2, <2>3
<1>8. QED
  BY <1>5, <1>6, <1>7

-----------------------------------------------------------------------------
(* Words.                                                                  *)

\* The first number past the largest word.
Half == 2^(Width - 1)

\* The powers of two that a word has to do with, as multiples of one.
LEMMA WordIs ==
  /\ Half \in Nat /\ Half >= 2 /\ 2^Width = 2 * Half /\ MaxInt = Half - 1
  /\ 2^(Width - 2) \in Nat /\ Half = 2 * 2^(Width - 2)
<1>1. Width \in Nat /\ Width >= 4 /\ Width - 1 \in Nat /\ Width - 2 \in Nat
  BY WordAssumption
<1>2. (Width - 2) + 1 = Width - 1 /\ (Width - 1) + 1 = Width
  BY <1>1
<1>3. 2^(Width - 1) = 2 * 2^(Width - 2)
  BY <1>1, <1>2, PowerDoubles
<1>4. 2^Width = 2 * 2^(Width - 1)
  BY <1>1, <1>2, PowerDoubles
<1>5. 2^(Width - 2) \in Nat /\ 2^(Width - 2) >= 1
  BY <1>1, PowerIs
<1>6. QED
  BY <1>3, <1>4, <1>5 DEF Half, MaxInt

\* A sum that fits is itself, and one past the largest word is negative.
LEMMA WrapIs ==
  ASSUME NEW n \in Int
  PROVE  /\ Wrap(n) \in -Half..Half - 1
         /\ n \in -Half..Half - 1 => Wrap(n) = n
         /\ n \in Half..3 * Half - 1 => Wrap(n) = n - 2 * Half
         /\ n = -Half - 1 => Wrap(n) = Half - 1
<1>1. PICK h \in Nat : h = Half /\ h >= 2
  BY WordIs
<1>2. Wrap(n) = ((n + h) % (2 * h)) - h
  BY <1>1, WordIs DEF Wrap, Half
<1>3. PICK m \in Nat : m = 2 * h /\ m > 0
  BY <1>1
<1>4. PICK a \in Int : a = n + h
  OBVIOUS
<1>5. a % m \in 0..m - 1
  BY <1>3
<1>6. a \in 0..m - 1 => a % m = a
  BY <1>3
<1>7. a \in m..2 * m - 1 => a % m = a - m
  BY <1>3
<1>8. Wrap(n) = (a % m) - h
  BY <1>2, <1>3, <1>4
<1>9. PICK r \in Int : r = a % m
  BY <1>5
<1>10. Wrap(n) \in -h..h - 1
  BY <1>3, <1>5, <1>8, <1>9
<1>11. n \in -h..h - 1 => Wrap(n) = n
  BY <1>3, <1>4, <1>6, <1>8
<1>12. n \in h..3 * h - 1 => Wrap(n) = n - 2 * h
  BY <1>3, <1>4, <1>7, <1>8
<1>13. n = -h - 1 => Wrap(n) = h - 1
  <2>1. (-1) % m = m - 1
    BY <1>3
  <2>2. QED
    BY <1>3, <1>4, <1>8, <2>1
<1>14. QED
  BY <1>1, <1>10, <1>11, <1>12, <1>13

\* What the quotient is.
LEMMA DivIs ==
  ASSUME NEW a \in Nat, NEW m \in Nat, m > 0
  PROVE  a \div m \in Nat /\ (a \div m) * m <= a /\ a < (a \div m) * m + m
  OBVIOUS

\* Division keeps the order.
LEMMA DivMonotone ==
  ASSUME NEW a \in Nat, NEW b \in Nat, NEW m \in Nat, m > 0, a <= b
  PROVE  a \div m \in Nat /\ b \div m \in Nat /\ a \div m <= b \div m
<1>1. PICK p \in Nat : p = a \div m /\ p * m <= a
  OBVIOUS
<1>2. PICK q \in Nat : q = b \div m /\ b < q * m + m
  OBVIOUS
<1>3. p * m < (q + 1) * m
  BY <1>1, <1>2
<1>4. p < q + 1
  BY <1>3
<1>5. QED
  BY <1>1, <1>2, <1>4

-----------------------------------------------------------------------------
(* Floats.                                                                 *)

\* Exponents add.
LEMMA PowerSum ==
  ASSUME NEW m \in Nat, NEW n \in Nat
  PROVE  2^(m + n) = 2^m * 2^n
<1>1. PICK T \in SUBSET Nat : T = {i \in Nat : 2^(m + i) # 2^m * 2^i}
  OBVIOUS
<1>2. SUFFICES ASSUME T # {} PROVE FALSE
  BY <1>1
<1>3. PICK i \in T : \A j \in T : i <= j
  BY <1>2, LeastNat
<1>4. i \in Nat /\ 2^(m + i) # 2^m * 2^i
  BY <1>1
<1>5. CASE i = 0
  <2>1. m + i = m /\ 2^i = 1
    BY <1>5, PowerOfNone
  <2>2. 2^m \in Nat
    BY PowerIs
  <2>3. 2^(m + i) = 2^m
    BY <2>1
  <2>4. QED
    BY <1>4, <2>1, <2>2, <2>3
<1>6. CASE i # 0
  <2>1. PICK k \in Nat : i = k + 1 /\ m + i = (m + k) + 1
    BY <1>4, <1>6
  <2>2. 2^(m + k) = 2^m * 2^k
    BY <1>1, <1>3, <2>1
  <2>3. PICK a \in Nat, b \in Nat : a = 2^m /\ b = 2^k
    BY PowerIs
  <2>4. 2^i = 2 * b
    BY <2>1, <2>3, PowerDoubles
  <2>5. 2^(m + i) = 2 * 2^(m + k)
    <3>1. m + k \in Nat /\ 2^((m + k) + 1) = 2 * 2^(m + k)
      BY PowerDoubles
    <3>2. QED
      BY <2>1, <3>1
  <2>6. 2^(m + i) = 2 * (a * b) /\ 2^m * 2^i = a * (2 * b)
    BY <2>2, <2>3, <2>4, <2>5
  <2>7. QED
    BY <1>4, <2>3, <2>6
<1>7. QED
  BY <1>5, <1>6

\* The exponents, and what a step of one does.
LEMMA TwoIs ==
  ASSUME NEW e \in Int
  PROVE  /\ Two(e) \in Nat /\ Two(e) >= 1 /\ (e <= 0 => Two(e) = 1) /\ (e >= 0 => Two(e) = 2^e)
         /\ e >= 0 => Two(e + 1) = 2 * Two(e)
<1>1. CASE e <= 0
  <2>1. Two(e) = 1
    BY <1>1 DEF Two
  <2>2. e = 0 => 2^e = 1
    BY PowerOfNone
  <2>3. e = 0 => Two(e + 1) = 2
    <3>1. SUFFICES ASSUME e = 0 PROVE Two(e + 1) = 2
      OBVIOUS
    <3>2. 2^(0 + 1) = 2 * 2^0 /\ 2^0 = 1
      BY PowerDoubles, PowerOfNone
    <3>3. e + 1 = 0 + 1 /\ e + 1 > 0
      BY <3>1
    <3>4. PICK n : n = e + 1 /\ n = 0 + 1 /\ n > 0
      BY <3>3
    <3>5. Two(n) = 2^n
      BY <3>4 DEF Two
    <3>6. 2^n = 2 * 2^0
      BY <3>2, <3>4
    <3>7. Two(n) = 2
      BY <3>2, <3>5, <3>6
    <3>8. QED
      BY <3>4, <3>7
  <2>4. QED
    BY <1>1, <2>1, <2>2, <2>3
<1>2. CASE e > 0
  <2>1. PICK n \in Nat : n = e
    BY <1>2
  <2>2. 2^n \in Nat /\ 2^n >= 1 /\ 2^(n + 1) = 2 * 2^n
    BY PowerIs, PowerDoubles
  <2>3. Two(e) = 2^n /\ Two(e + 1) = 2^(n + 1)
    BY <1>2, <2>1 DEF Two
  <2>4. QED
    BY <1>2, <2>1, <2>2, <2>3
<1>3. QED
  BY <1>1, <1>2

\* Of a number and its inverse, one step of the exponent halves or doubles one.
LEMMA TwoStep ==
  ASSUME NEW e \in Int
  PROVE  \/ Two(-e) = 1 /\ Two(-(e - 1)) = 1 /\ Two(e) = 2 * Two(e - 1)
         \/ Two(e) = 1 /\ Two(e - 1) = 1 /\ Two(-(e - 1)) = 2 * Two(-e)
<1>1. CASE e >= 1
  <2>1. Two(-e) = 1 /\ Two(-(e - 1)) = 1
    BY <1>1, TwoIs
  <2>2. PICK i \in Nat : i = e - 1 /\ i + 1 = e
    BY <1>1
  <2>3. Two(i + 1) = 2 * Two(i)
    BY TwoIs
  <2>4. QED
    BY <2>1, <2>2, <2>3
<1>2. CASE e <= 0
  <2>1. Two(e) = 1 /\ Two(e - 1) = 1
    BY <1>2, TwoIs
  <2>2. PICK i \in Nat : i = -e /\ i + 1 = -(e - 1)
    BY <1>2
  <2>3. Two(i + 1) = 2 * Two(i)
    BY TwoIs
  <2>4. QED
    BY <2>1, <2>2, <2>3
<1>3. QED
  BY <1>1, <1>2

\* Rounding is off by half at most, and by nothing of a whole number.
LEMMA NearestIs ==
  ASSUME NEW num \in Nat, NEW den \in Nat, den > 0
  PROVE  /\ Nearest(num, den) \in Nat
         /\ 2 * (Nearest(num, den) * den) <= 2 * num + den
         /\ 2 * num <= 2 * (Nearest(num, den) * den) + den
         /\ \A top \in Nat : num <= top * den => Nearest(num, den) <= top
<1>1. PICK q \in Nat, m \in Nat : q = num \div den /\ m = num % den /\ num = q * den + m /\ m < den
  OBVIOUS
<1>2. PICK r : r = Nearest(num, den)
  OBVIOUS
<1>3. r = IF 2 * m > den \/ (2 * m = den /\ q % 2 = 1) THEN q + 1 ELSE q
  BY <1>1, <1>2 DEF Nearest
<1>4. \/ r = q /\ 2 * m <= den
      \/ r = q + 1 /\ 2 * m >= den
  BY <1>3
<1>5. CASE r = q /\ 2 * m <= den
  <2>1. ASSUME NEW top \in Nat, num <= top * den PROVE q <= top
    <3>1. q * den <= top * den
      BY <1>1, <2>1
    <3>2. QED
      BY <3>1
  <2>2. QED
    BY <1>1, <1>2, <1>5, <2>1
<1>6. CASE r = q + 1 /\ 2 * m >= den
  <2>1. ASSUME NEW top \in Nat, num <= top * den PROVE q + 1 <= top
    <3>1. q * den < top * den
      BY <1>1, <1>6, <2>1
    <3>2. q < top
      BY <3>1
    <3>3. QED
      BY <3>2
  <2>2. (q + 1) * den = q * den + den
    OBVIOUS
  <2>3. QED
    BY <1>1, <1>2, <1>6, <2>1, <2>2
<1>7. QED
  BY <1>4, <1>5, <1>6

\* One part in these is what rounding to the last bit of a float may change.
Last == 2^Precision

\* What the exponents' ends are to it.
LEMMA LastIs ==
  /\ Last \in Nat /\ Last >= 16 /\ Last = 2 * 2^(Precision - 1) /\ 2^(Precision - 1) \in Nat
  /\ Two(Precision - 1) = 2^(Precision - 1)
  /\ Two(Width + Precision - 1) = Last * Half
  /\ Last * Half < Last * 2^Width
<1>1. PICK m \in Nat : m = Precision - 1 /\ m + 1 = Precision /\ m >= 3
  BY WordAssumption
<1>2. 2^m \in Nat /\ 2^(m + 1) = 2 * 2^m
  BY PowerIs, PowerDoubles
<1>3. 2^4 >= 16
  <2>1. 2^(0 + 1) = 2 * 2^0 /\ 2^(1 + 1) = 2 * 2^1 /\ 2^(2 + 1) = 2 * 2^2 /\ 2^(3 + 1) = 2 * 2^3
    BY PowerDoubles
  <2>2. 0 + 1 = 1 /\ 1 + 1 = 2 /\ 2 + 1 = 3 /\ 3 + 1 = 4
    OBVIOUS
  <2>3. 2^1 = 2 * 2^0 /\ 2^2 = 2 * 2^1 /\ 2^3 = 2 * 2^2 /\ 2^4 = 2 * 2^3
    BY <2>1, <2>2
  <2>4. 2^1 = 2
    BY <2>3, PowerOfNone
  <2>5. 2^2 = 4
    BY <2>3, <2>4
  <2>6. 2^3 = 8
    BY <2>3, <2>5
  <2>7. QED
    BY <2>3, <2>6
<1>4. 2^4 <= 2^Precision
  <2>1. Precision \in Nat /\ 4 \in Nat /\ 4 <= Precision
    BY <1>1
  <2>2. QED
    BY <2>1, PowerGrows
<1>5. Last = 2 * 2^m /\ Last \in Nat
  BY <1>1, <1>2 DEF Last
<1>6. 2^4 \in Nat
  BY PowerIs
<1>7. Two(m) = 2^m
  BY TwoIs
<1>8. Two(Width + Precision - 1) = Last * Half
  <2>1. PICK n \in Nat : n = Width - 1 /\ Precision \in Nat /\ Precision + n = Width + Precision - 1
    BY WordAssumption
  <2>2. 2^(Precision + n) = Last * Half
    BY <2>1, PowerSum DEF Last, Half
  <2>3. Two(Precision + n) = 2^(Precision + n)
    BY <2>1, TwoIs
  <2>4. QED
    BY <2>1, <2>2, <2>3
<1>9. Last * Half < Last * 2^Width
  <2>1. PICK h \in Nat : h = Half /\ 2^Width = 2 * h /\ h > 0
    BY WordIs
  <2>2. PICK k \in Nat : k = Last /\ k > 0
    BY <1>3, <1>4, <1>5, <1>6 DEF Last
  <2>3. k * h < k * (2 * h)
    BY <2>1, <2>2
  <2>4. QED
    BY <2>1, <2>2, <2>3
<1>10. QED
  BY <1>1, <1>3, <1>4, <1>5, <1>6, <1>7, <1>8, <1>9 DEF Last

\* What Float() rounds, at the exponent e.
FloatAt(f, num, den, low, e) ==
  /\ f.num = Nearest(num * Two(-e), den * Two(e)) * Two(e) /\ f.den = Two(-e)
  /\ Room(num, den, e) /\ (e = low \/ ~Room(num, den, e - 1))

\* The exponent that Float() chooses exists: some leave room, and there is a least.
LEMMA FloatIs ==
  ASSUME NEW num \in Nat, NEW den \in Nat, NEW low \in Int, low <= Width,
         Room(num, den, Width)
  PROVE  \E e \in low..Width : FloatAt(Float(num, den, low), num, den, low, e)
<1>1. PICK w \in Int : w = Width
  BY WordAssumption
<1>2. PICK T \in SUBSET Nat : T = {i \in Nat : Room(num, den, low + i)}
  OBVIOUS
<1>3. w - low \in T
  <2>1. w - low \in Nat /\ low + (w - low) = w
    BY <1>1
  <2>2. QED
    BY <1>1, <1>2, <2>1
<1>4. PICK i \in T : \A j \in T : i <= j
  BY <1>3, LeastNat
<1>5. PICK x \in low..w : x = low + i /\ Room(num, den, x) /\ i \in Nat
  BY <1>1, <1>2, <1>3, <1>4
<1>6. x = low \/ ~Room(num, den, x - 1)
  <2>1. SUFFICES ASSUME x # low PROVE ~Room(num, den, x - 1)
    OBVIOUS
  <2>2. PICK j \in Nat : j = i - 1 /\ x - 1 = low + j
    BY <1>5, <2>1
  <2>3. j \notin T
    BY <1>4, <1>5, <2>2
  <2>4. QED
    BY <1>2, <2>2, <2>3
<1>7. PICK e : e = CHOOSE y \in low..Width : Room(num, den, y) /\ (y = low \/ ~Room(num, den, y - 1))
  OBVIOUS
<1>8. e \in low..Width /\ Room(num, den, e) /\ (e = low \/ ~Room(num, den, e - 1))
  BY <1>1, <1>5, <1>6, <1>7
<1>9. Float(num, den, low) = [num |-> Nearest(num * Two(-e), den * Two(e)) * Two(e), den |-> Two(-e)]
  BY <1>7, Zenon DEF Float
<1>10. FloatAt(Float(num, den, low), num, den, low, e)
  BY <1>8, <1>9 DEF FloatAt
<1>11. QED
  BY <1>8, <1>10

\* f is num / den but for one rounding.
Close(f, num, den) ==
  /\ f.num \in Nat /\ f.den \in Nat /\ f.den >= 1
  /\ Last * (f.num * den) <= (Last + 1) * (num * f.den)
  /\ (Last - 1) * (num * f.den) <= Last * (f.num * den)

\* Where the exponent is not cut off, the significand has all its bits.
LEMMA FloatClose ==
  ASSUME NEW num \in Nat, NEW den \in Nat, den > 0, NEW low, NEW e \in Int, e # low,
         NEW f, FloatAt(f, num, den, low, e)
  PROVE  Close(f, num, den)
<1>1. PICK k \in Nat : k = Last /\ k >= 16
  BY LastIs
<1>2. PICK u \in Nat, d \in Nat : u = Two(e) /\ d = Two(-e) /\ u >= 1 /\ d >= 1
  <2>1. -e \in Int
    OBVIOUS
  <2>2. Two(e) \in Nat /\ Two(e) >= 1 /\ Two(-e) \in Nat /\ Two(-e) >= 1
    BY <2>1, TwoIs
  <2>3. QED
    BY <2>2
<1>3. PICK v \in Nat, c \in Nat : v = Two(e - 1) /\ c = Two(-(e - 1))
  <2>1. e - 1 \in Int /\ -(e - 1) \in Int
    OBVIOUS
  <2>2. Two(e - 1) \in Nat /\ Two(-(e - 1)) \in Nat
    BY <2>1, TwoIs
  <2>3. QED
    BY <2>2
<1>4. \/ d = 1 /\ c = 1 /\ u = 2 * v
      \/ u = 1 /\ v = 1 /\ c = 2 * d
  BY <1>2, <1>3, TwoStep
<1>5. num * c >= den * k * v
  BY <1>1, <1>3 DEF FloatAt, Room, Last
<1>6. PICK n \in Nat, m \in Nat : n = num * d /\ m = den * u /\ m > 0
  BY <1>2
<1>7. k * m <= 2 * n
  BY <1>4, <1>5, <1>6
<1>8. PICK r \in Nat : r = Nearest(n, m) /\ 2 * (r * m) <= 2 * n + m /\ 2 * n <= 2 * (r * m) + m
  BY <1>6, NearestIs
<1>9. k * (r * m) <= (k + 1) * n /\ (k - 1) * n <= k * (r * m)
  <2>1. k * (2 * (r * m)) <= k * (2 * n + m) /\ k * (2 * n) <= k * (2 * (r * m) + m)
    BY <1>8
  <2>2. QED
    BY <1>7, <2>1
<1>10. f.num = r * u /\ f.den = d
  BY <1>2, <1>6, <1>8 DEF FloatAt
<1>11. (r * u) * den = r * m
  BY <1>6
<1>12. QED
  BY <1>1, <1>2, <1>6, <1>9, <1>10, <1>11 DEF Close

\* float64() of a positive word: exact while the significand holds it.
WholeClose(a, x) == /\ x \in 1..Half
                    /\ Last * x <= (Last + 1) * a /\ (Last - 1) * a <= Last * x
                    /\ a < Last => x = a

LEMMA WholeIs ==
  ASSUME NEW a \in 1..Half - 1
  PROVE  /\ Float(a, 1, 0).den = 1 /\ WholeClose(a, Float(a, 1, 0).num)
<1>1. PICK h \in Nat, k \in Nat : h = Half /\ k = Last /\ h >= 2 /\ k >= 16 /\ 2^Width = 2 * h
  BY WordIs, LastIs
<1>2. PICK f : f = Float(a, 1, 0)
  OBVIOUS
<1>3. a \in Nat /\ a >= 1 /\ a < h
  BY <1>1
<1>4. Room(a, 1, Width)
  <2>1. Width \in Nat
    BY WordAssumption
  <2>2. Two(-Width) = 1 /\ Two(Width) = 2 * h
    <3>1. Width \in Int /\ -Width \in Int /\ -Width <= 0 /\ Width >= 0
      BY <2>1
    <3>2. Two(-Width) = 1
      BY <3>1, TwoIs
    <3>3. Two(Width) = 2^Width
      BY <3>1, TwoIs
    <3>4. QED
      BY <1>1, <3>2, <3>3
  <2>3. a * 1 < 1 * k * (2 * h)
    <3>1. h <= k * h
      BY <1>1
    <3>2. QED
      BY <1>3, <3>1
  <2>4. QED
    BY <1>1, <2>2, <2>3 DEF Room, Last
<1>5. PICK e \in 0..Width : FloatAt(f, a, 1, 0, e)
  <2>1. 0 <= Width
    BY WordAssumption
  <2>2. QED
    BY <1>2, <1>3, <1>4, <2>1, FloatIs
<1>6. e \in Nat /\ e <= Width /\ Width \in Nat
  BY WordAssumption
<1>7. Two(-e) = 1
  BY <1>6, TwoIs
<1>8. PICK u \in Nat : u = Two(e) /\ u >= 1
  BY <1>6, TwoIs
<1>9. a < k * u
  BY <1>1, <1>5, <1>7, <1>8 DEF FloatAt, Room, Last
<1>10. f.den = 1 /\ f.num = Nearest(a, u) * u
  <2>1. a * 1 = a /\ 1 * u = u
    BY <1>3
  <2>2. QED
    BY <1>5, <1>7, <1>8, <2>1 DEF FloatAt
<1>11. PICK r \in Nat : r = Nearest(a, u) /\ r <= k /\ 2 * (r * u) <= 2 * a + u /\ 2 * a <= 2 * (r * u) + u
  <2>1. a <= k * u
    BY <1>9
  <2>2. QED
    <3>1. u > 0
      BY <1>8
    <3>2. /\ Nearest(a, u) \in Nat /\ 2 * (Nearest(a, u) * u) <= 2 * a + u
          /\ 2 * a <= 2 * (Nearest(a, u) * u) + u
          /\ \A top \in Nat : a <= top * u => Nearest(a, u) <= top
      BY <1>3, <3>1, NearestIs
    <3>3. QED
      BY <2>1, <3>2
<1>12. CASE e = 0
  <2>1. u = 1
    BY <1>8, <1>12, TwoIs
  <2>2. f.num = a
    BY <1>3, <1>10, <1>11, <2>1
  <2>3. k * a <= (k + 1) * a /\ (k - 1) * a <= k * a
    BY <1>3
  <2>4. QED
    BY <1>1, <1>2, <1>3, <1>10, <2>2, <2>3 DEF WholeClose
<1>13. CASE e # 0
  <2>1. Close(f, a, 1)
    BY <1>3, <1>5, <1>6, <1>13, FloatClose
  <2>2. PICK x \in Nat : x = f.num /\ x = r * u
    BY <1>8, <1>10, <1>11
  <2>3. k * x <= (k + 1) * a /\ (k - 1) * a <= k * x
    BY <1>1, <1>3, <1>10, <2>1, <2>2 DEF Close
  <2>4. x >= 1
    BY <1>1, <1>3, <2>3
  <2>5. PICK i \in Nat : i = e - 1 /\ i + 1 = e
    BY <1>6, <1>13
  <2>6. Two(i) = 2^i /\ 2^i \in Nat /\ 2^i >= 1 /\ u = 2 * 2^i
    <3>1. Two(i) = 2^i /\ Two(i) \in Nat /\ Two(i) >= 1 /\ Two(i + 1) = 2 * Two(i)
      <4>1. i \in Int /\ i >= 0
        BY <2>5
      <4>2. QED
        BY <4>1, TwoIs
    <3>2. QED
      BY <1>8, <2>5, <3>1
  <2>7. a >= k * 2^i
    <3>1. ~Room(a, 1, i)
      BY <1>5, <1>13, <2>5 DEF FloatAt
    <3>2. Two(-i) = 1
      BY TwoIs
    <3>3. QED
      BY <1>1, <1>3, <2>6, <3>1, <3>2 DEF Room, Last
  <2>8. Precision \in Nat /\ Precision + i \in Nat /\ Width - 1 \in Nat
    BY WordAssumption
  <2>9. 2^(Precision + i) = k * 2^i /\ 2^(Precision + i) \in Nat
    <3>1. 2^(Precision + i) = 2^Precision * 2^i
      BY <2>8, PowerSum
    <3>2. QED
      BY <1>1, <2>8, <3>1, PowerIs DEF Last
  <2>10. ~(Width - 1 <= Precision + i)
    <3>1. SUFFICES ASSUME Width - 1 <= Precision + i PROVE FALSE
      OBVIOUS
    <3>2. 2^(Width - 1) <= 2^(Precision + i)
      BY <2>8, <3>1, PowerGrows
    <3>3. QED
      BY <1>1, <1>3, <2>7, <2>9, <3>2 DEF Half
  <2>11. 2^((Precision + i) + 1) <= h
    <3>1. (Precision + i) + 1 \in Nat /\ (Precision + i) + 1 <= Width - 1
      BY <2>8, <2>10
    <3>2. QED
      BY <1>1, <2>8, <3>1, PowerGrows DEF Half
  <2>12. k * u <= h
    <3>1. 2^((Precision + i) + 1) = 2 * 2^(Precision + i)
      BY <2>8, PowerDoubles
    <3>2. 2 * (k * 2^i) = k * u
      BY <2>6
    <3>3. QED
      BY <1>1, <2>9, <2>11, <3>1, <3>2
  <2>13. x <= h
    <3>1. r * u <= k * u
      BY <1>8, <1>11
    <3>2. QED
      BY <1>1, <2>2, <2>12, <3>1
  <2>14. a >= k
    BY <1>1, <1>3, <2>6, <2>7
  <2>15. QED
    BY <1>1, <1>2, <1>3, <1>10, <2>2, <2>3, <2>4, <2>13, <2>14 DEF WholeClose
<1>14. QED
  BY <1>12, <1>13

\* The ratio of two such floats is never so small that its exponent is cut off.
LEMMA QuotientIs ==
  ASSUME NEW F \in 1..Half, NEW G \in 1..Half
  PROVE  Close(Float(F, G, -Width - Precision + 1), F, G)
<1>1. PICK h \in Nat, k \in Nat : h = Half /\ k = Last /\ h >= 2 /\ k >= 16 /\ 2^Width = 2 * h
  BY WordIs, LastIs
<1>2. F \in Nat /\ F >= 1 /\ F <= h /\ G \in Nat /\ G >= 1 /\ G <= h
  BY <1>1
<1>3. PICK low \in Int : low = -Width - Precision + 1 /\ low <= Width /\ low <= 0
                         /\ -low = Width + Precision - 1
  BY WordAssumption
<1>4. PICK f : f = Float(F, G, low)
  OBVIOUS
<1>5. Room(F, G, Width)
  <2>1. Width \in Int /\ -Width \in Int /\ -Width <= 0 /\ Width >= 0
    BY WordAssumption
  <2>2. Two(-Width) = 1
    BY <2>1, TwoIs
  <2>3. Two(Width) = 2 * h
    <3>1. Two(Width) = 2^Width
      BY <2>1, TwoIs
    <3>2. QED
      BY <1>1, <3>1
  <2>4. F * 1 < G * k * (2 * h)
    <3>1. 2 * h <= (G * k) * (2 * h)
      <4>1. 1 <= G * k
        BY <1>1, <1>2
      <4>2. QED
        BY <1>1, <1>2, <4>1
    <3>2. QED
      BY <1>1, <1>2, <3>1
  <2>5. QED
    BY <1>1, <2>2, <2>3, <2>4 DEF Room, Last
<1>6. PICK e \in low..Width : FloatAt(f, F, G, low, e)
  BY <1>2, <1>3, <1>4, <1>5, FloatIs
<1>7. ~Room(F, G, low)
  <2>1. Two(-low) = k * h
    BY <1>1, <1>3, LastIs
  <2>2. Two(low) = 1
    BY <1>3, TwoIs
  <2>3. ~(F * (k * h) < G * k * 1)
    <3>1. k * G <= k * h
      BY <1>2
    <3>2. 1 * (k * h) <= F * (k * h)
      BY <1>2
    <3>3. QED
      BY <1>2, <3>1, <3>2
  <2>4. QED
    BY <1>1, <2>1, <2>2, <2>3 DEF Room, Last
<1>8. e # low /\ e \in Int
  BY <1>3, <1>6, <1>7, WordAssumption DEF FloatAt
<1>9. QED
  BY <1>2, <1>3, <1>4, <1>6, <1>8, FloatClose

\* The product may be below one, and is then one at most.
BelowOne(f, num, den) ==
  num < den /\ f.num \in Nat /\ f.den \in Nat /\ f.den >= 1 /\ f.num <= f.den

LEMMA ProductIs ==
  ASSUME NEW num \in Nat, NEW den \in Nat, den >= 1, num < den * Last * 2^Width
  PROVE  LET f == Float(num, den, 1 - Precision) IN Close(f, num, den) \/ BelowOne(f, num, den)
<1>1. PICK k \in Nat, t \in Nat : k = Last /\ k >= 16 /\ k = 2 * t /\ t = Two(Precision - 1)
  BY LastIs
<1>2. PICK low \in Int : low = 1 - Precision /\ low <= Width /\ low <= 0 /\ -low = Precision - 1
  BY WordAssumption
<1>3. PICK f : f = Float(num, den, low)
  OBVIOUS
<1>4. Room(num, den, Width)
  <2>1. Width \in Int /\ -Width \in Int /\ -Width <= 0 /\ Width >= 0
    BY WordAssumption
  <2>2. Two(-Width) = 1
    BY <2>1, TwoIs
  <2>3. Two(Width) = 2^Width
    BY <2>1, TwoIs
  <2>4. QED
    BY <2>2, <2>3 DEF Room, Last
<1>5. PICK e \in low..Width : FloatAt(f, num, den, low, e)
  BY <1>2, <1>3, <1>4, FloatIs
<1>6. CASE e # low
  <2>1. e \in Int
    BY <1>2, WordAssumption
  <2>2. Close(f, num, den)
    BY <1>5, <1>6, <2>1, FloatClose
  <2>3. QED
    BY <1>2, <1>3, <2>2
<1>7. CASE e = low
  <2>1. Two(low) = 1 /\ Two(-low) = t
    BY <1>1, <1>2, TwoIs
  <2>2. PICK n \in Nat : n = num * t
    BY <1>1
  <2>3. /\ Nearest(n, den) \in Nat /\ 2 * (Nearest(n, den) * den) <= 2 * n + den
        /\ 2 * n <= 2 * (Nearest(n, den) * den) + den
        /\ \A top \in Nat : n <= top * den => Nearest(n, den) <= top
    <3>1. n \in Nat /\ den \in Nat /\ den > 0
      BY <2>2
    <3>2. QED
      BY <3>1, NearestIs
  <2>4. f.num = Nearest(n, den) /\ f.den = t
    <3>1. f.num = Nearest(num * t, den * 1) * 1 /\ f.den = t
      BY <1>5, <1>7, <2>1 DEF FloatAt
    <3>2. Nearest(num * t, den * 1) = Nearest(n, den)
      BY <2>2
    <3>3. QED
      BY <2>3, <3>1, <3>2
  <2>5. PICK r \in Nat : /\ r = f.num /\ 2 * (r * den) <= 2 * n + den /\ 2 * n <= 2 * (r * den) + den
                         /\ \A top \in Nat : n <= top * den => r <= top
    BY <2>3, <2>4
  <2>6. CASE num < den
    <3>1. n <= t * den
      BY <1>1, <2>2, <2>6
    <3>2. BelowOne(f, num, den)
      BY <1>1, <2>4, <2>5, <2>6, <3>1 DEF BelowOne
    <3>3. QED
      BY <1>2, <1>3, <3>2
  <2>7. CASE num >= den
    <3>1. t * den <= n
      BY <1>1, <2>2, <2>7
    <3>2. PICK y \in Nat : y = r * den /\ 2 * y <= 2 * n + den /\ 2 * n <= 2 * y + den
      BY <2>5
    <3>3. k * y <= (k + 1) * n /\ (k - 1) * n <= k * y
      <4>1. t * (2 * y) <= t * (2 * n + den) /\ t * (2 * n) <= t * (2 * y + den)
        BY <1>1, <3>2
      <4>2. QED
        BY <1>1, <3>1, <4>1
    <3>4. Close(f, num, den)
      BY <1>1, <2>2, <2>4, <2>5, <3>2, <3>3 DEF Close
    <3>5. QED
      BY <1>2, <1>3, <3>4
  <2>8. QED
    BY <2>6, <2>7
<1>8. QED
  BY <1>6, <1>7

\* Five roundings, each by a part in K: the scaled refresh R / E is A * B / C, but for six
\* such parts, where X, F, G and N / D are A, B, C and F / G rounded.
LEMMA FiveUp ==
  ASSUME NEW K \in Nat, K >= 16, NEW A \in Nat, NEW B \in Nat, NEW C \in Nat,
         NEW X \in Nat, NEW F \in Nat, NEW G \in Nat, NEW N \in Nat, NEW D \in Nat, D >= 1,
         NEW R \in Nat, NEW E \in Nat,
         K * X <= (K + 1) * A, K * F <= (K + 1) * B, (K - 1) * C <= K * G,
         K * (N * G) <= (K + 1) * (F * D), K * (R * D) <= (K + 1) * (X * N * E)
  PROVE  K * (R * C) <= (K + 6) * (A * B * E)
<1>1. K * K * R * G <= (K + 1) * (K + 1) * X * E * F
  OBVIOUS
<1>2. (K * X) * (K * F) <= ((K + 1) * A) * ((K + 1) * B)
  OBVIOUS
<1>3. (K * K * R * G) * (K * K) <= ((K + 1) * (K + 1) * E) * ((K * X) * (K * F))
  BY <1>1
<1>4. (K * K * R * G) * (K * K) <= ((K + 1) * (K + 1) * E) * (((K + 1) * A) * ((K + 1) * B))
  BY <1>2, <1>3
<1>5. PICK W \in Nat : W = A * B * E
  OBVIOUS
<1>6. PICK L \in Nat : L = (K + 1) * (K + 1) * (K + 1) * (K + 1)
  OBVIOUS
<1>7. (K * K * R * G) * (K * K) <= L * W
  BY <1>4, <1>5, <1>6
<1>8. (K * K * K * R) * ((K - 1) * C) <= (K * K * K * R) * (K * G)
  OBVIOUS
<1>9. (K * K * K * R) * ((K - 1) * C) <= L * W
  BY <1>7, <1>8
<1>10. L <= K * K * (K - 1) * (K + 6)
  BY <1>6
<1>11. L * W <= (K * K * (K - 1)) * ((K + 6) * W)
  BY <1>10
<1>12. (K * (R * C)) * (K * K * (K - 1)) <= ((K + 6) * W) * (K * K * (K - 1))
  BY <1>9, <1>11
<1>13. QED
  BY <1>5, <1>12

\* And no less than that.
LEMMA FiveDown ==
  ASSUME NEW K \in Nat, K >= 16, NEW A \in Nat, NEW B \in Nat, NEW C \in Nat,
         NEW X \in Nat, NEW F \in Nat, NEW G \in Nat, NEW N \in Nat, NEW D \in Nat, D >= 1,
         NEW R \in Nat, NEW E \in Nat,
         (K - 1) * A <= K * X, (K - 1) * B <= K * F, K * G <= (K + 1) * C,
         (K - 1) * (F * D) <= K * (N * G), (K - 1) * (X * N * E) <= K * (R * D)
  PROVE  (K - 6) * (A * B * E) <= K * (R * C)
<1>1. PICK J \in Nat : J = K - 1 /\ J >= 15
  OBVIOUS
<1>2. J * J * X * E * F <= K * K * R * G
  BY <1>1
<1>3. (J * A) * (J * B) <= (K * X) * (K * F)
  BY <1>1
<1>4. (J * J * E) * ((K * X) * (K * F)) <= (K * K * R * G) * (K * K)
  BY <1>2
<1>5. (J * J * E) * ((J * A) * (J * B)) <= (K * K * R * G) * (K * K)
  BY <1>3, <1>4
<1>6. PICK W \in Nat : W = A * B * E
  OBVIOUS
<1>7. PICK L \in Nat : L = J * J * J * J
  OBVIOUS
<1>8. L * W <= (K * K * R * G) * (K * K)
  BY <1>5, <1>6, <1>7
<1>9. (K * K * K * R) * (K * G) <= (K * K * K * R) * ((K + 1) * C)
  OBVIOUS
<1>10. L * W <= (K * K * K * R) * ((K + 1) * C)
  BY <1>8, <1>9
<1>11. K * K * (K + 1) * (K - 6) <= L
  BY <1>1, <1>7
<1>12. (K * K * (K + 1)) * ((K - 6) * W) <= L * W
  BY <1>11
<1>13. ((K - 6) * W) * (K * K * (K + 1)) <= (K * (R * C)) * (K * K * (K + 1))
  BY <1>10, <1>12
<1>14. QED
  BY <1>6, <1>13

\* A product that is rounded to less than one is not of much more.
LEMMA DownToOne ==
  ASSUME NEW K \in Nat, K >= 16, NEW A \in Nat, NEW B \in Nat, NEW C \in Nat,
         NEW X \in Nat, NEW F \in Nat, NEW G \in Nat, NEW N \in Nat, NEW D \in Nat, D >= 1,
         (K - 1) * A <= K * X, (K - 1) * B <= K * F, K * G <= (K + 1) * C,
         (K - 1) * (F * D) <= K * (N * G), X * N < D
  PROVE  (K - 6) * (A * B) <= K * (2 * C)
<1>1. PICK J \in Nat : J = K - 1 /\ J >= 15
  OBVIOUS
<1>2. J * F * X <= K * G
  <2>1. (J * (F * D)) * X <= (K * (N * G)) * X
    BY <1>1
  <2>2. (K * G) * (X * N) <= (K * G) * D
    OBVIOUS
  <2>3. (J * F * X) * D <= (K * G) * D
    BY <2>1, <2>2
  <2>4. QED
    BY <2>3
<1>3. (J * A) * (J * B) <= (K * X) * (K * F)
  BY <1>1
<1>4. J * ((J * A) * (J * B)) <= (K * K) * (J * F * X)
  BY <1>3
<1>5. J * ((J * A) * (J * B)) <= (K * K) * (K * G)
  BY <1>2, <1>4
<1>6. J * ((J * A) * (J * B)) <= (K * K) * ((K + 1) * C)
  BY <1>5
<1>7. PICK W \in Nat, L \in Nat : W = A * B /\ L = J * J * J
  OBVIOUS
<1>8. L * W <= (K * K * (K + 1)) * C
  BY <1>6, <1>7
<1>9. (K - 6) * (L * W) <= (K - 6) * ((K * K * (K + 1)) * C)
  BY <1>8
<1>10. (K - 6) * (K * (K + 1)) <= 2 * L
  BY <1>1, <1>7
<1>11. ((K - 6) * (K * (K + 1))) * (K * C) <= (2 * L) * (K * C)
  BY <1>10
<1>12. ((K - 6) * W) * L <= (K * (2 * C)) * L
  BY <1>9, <1>11
<1>13. L >= 1
  BY <1>1, <1>7
<1>14. QED
  BY <1>7, <1>12, <1>13

\* Two roundings, where A, B and C are exact: what is scaled stays below B.
LEMMA TwoUp ==
  ASSUME NEW K \in Nat, K >= 16, NEW A \in Nat, NEW B \in Nat, NEW C \in Nat,
         A < C, 2 * C <= K, NEW N \in Nat, NEW D \in Nat, D >= 1,
         NEW R \in Nat, NEW E \in Nat, E >= 1, NEW n \in Nat, n * E <= R,
         K * (N * C) <= (K + 1) * (B * D), K * (R * D) <= (K + 1) * (A * N * E)
  PROVE  n <= B
<1>1. SUFFICES ASSUME n >= B + 1 PROVE FALSE
  OBVIOUS
<1>2. K * K * R * C <= (K + 1) * (K + 1) * A * E * B
  OBVIOUS
<1>3. (B + 1) * E <= R
  BY <1>1
<1>4. (K * K * C) * ((B + 1) * E) <= (K * K * C) * R
  BY <1>3
<1>5. ((K * K * C) * (B + 1)) * E <= ((K + 1) * (K + 1) * A * B) * E
  BY <1>2, <1>4
<1>6. (K * K * C) * (B + 1) <= (K + 1) * (K + 1) * A * B
  BY <1>5
<1>7. (K + 1) * (K + 1) * (C - 1) <= K * K * C
  OBVIOUS
<1>8. (K + 1) * (K + 1) * A <= (K + 1) * (K + 1) * (C - 1)
  OBVIOUS
<1>9. ((K + 1) * (K + 1) * A) * B <= (K * K * C) * B
  BY <1>7, <1>8
<1>10. K * K * C >= 1
  OBVIOUS
<1>11. (K * K * C) * (B + 1) = (K * K * C) * B + K * K * C
  OBVIOUS
<1>12. QED
  BY <1>6, <1>9, <1>10, <1>11

\* What RefreshInProportion asks of a wait n, for a refresh after A of the ttl C, in a life
\* of B.
Scaled(A, B, C, n) ==
  /\ n \in Nat /\ n >= 1
  /\ Last * (n * C) <= (Last + 6) * (A * B) \/ n = 1
  /\ (Last - 6) * (A * B) <= Last * ((n + 1) * C)
  /\ C < 2^(Precision - 1) => n <= B

\* float64(A) * (float64(B) / float64(C)), step by step.
LEMMA ScaleIs ==
  ASSUME NEW A \in 1..Half - 1, NEW B \in 1..Half - 1, NEW C \in 1..Half - 1, A < C, B <= 2 * C
  PROVE  /\ ScaleFloat(A, B, C) \in Nat
         /\ Scaled(A, B, C, IF ScaleFloat(A, B, C) < 1 THEN 1 ELSE ScaleFloat(A, B, C))
<1>1. PICK h \in Nat, K \in Nat : h = Half /\ K = Last /\ h >= 2 /\ K >= 16 /\ 2^Width = 2 * h
  BY WordIs, LastIs
<1>2. A \in Nat /\ B \in Nat /\ C \in Nat /\ A >= 1 /\ B >= 1 /\ C >= 1
  BY <1>1
<1>3. PICK x, fb, fc : x = Float(A, 1, 0) /\ fb = Float(B, 1, 0) /\ fc = Float(C, 1, 0)
  OBVIOUS
<1>4. PICK X, F, G : X = x.num /\ F = fb.num /\ G = fc.num
  OBVIOUS
<1>5. WholeClose(A, X) /\ WholeClose(B, F) /\ WholeClose(C, G)
  BY <1>3, <1>4, WholeIs
<1>6. /\ X \in 1..h /\ F \in 1..h /\ G \in 1..h
      /\ K * X <= (K + 1) * A /\ K * F <= (K + 1) * B /\ K * G <= (K + 1) * C
      /\ (K - 1) * A <= K * X /\ (K - 1) * B <= K * F /\ (K - 1) * C <= K * G
      /\ A < K => X = A
      /\ B < K => F = B
      /\ C < K => G = C
  BY <1>1, <1>5 DEF WholeClose
<1>7. X \in Nat /\ F \in Nat /\ G \in Nat /\ X <= h /\ G >= 1
  BY <1>6
<1>8. PICK q : q = Float(F, G, -Width - Precision + 1)
  OBVIOUS
<1>9. Close(q, F, G)
  BY <1>1, <1>6, <1>8, QuotientIs
<1>10. PICK N \in Nat, D \in Nat : /\ N = q.num /\ D = q.den /\ D >= 1
                                   /\ K * (N * G) <= (K + 1) * (F * D)
                                   /\ (K - 1) * (F * D) <= K * (N * G)
  BY <1>1, <1>9 DEF Close
<1>11. PICK m \in Nat : m = X * N
  BY <1>7
<1>12. m < D * Last * 2^Width
  <2>1. F <= 3 * G
    <3>1. K * F <= (K + 1) * (2 * C)
      BY <1>2, <1>6
    <3>2. (K - 1) * (K * F) <= (K + 1) * (2 * (K * G))
      <4>1. (K - 1) * (K * F) <= (K - 1) * ((K + 1) * (2 * C))
        BY <1>1, <3>1, <1>2, <1>7
      <4>2. ((K + 1) * 2) * ((K - 1) * C) <= ((K + 1) * 2) * (K * G)
        BY <1>1, <1>2, <1>6, <1>7
      <4>3. QED
        BY <1>1, <1>2, <1>7, <4>1, <4>2
    <3>3. ((K - 1) * F) * K <= (2 * (K + 1) * G) * K
      BY <1>7, <3>2
    <3>4. (K - 1) * F <= 2 * (K + 1) * G
      BY <1>1, <1>7, <3>3
    <3>5. 2 * (K + 1) * G <= (K - 1) * (3 * G)
      BY <1>1, <1>7
    <3>6. (K - 1) * F <= (K - 1) * (3 * G)
      BY <1>1, <1>7, <3>4, <3>5
    <3>7. QED
      BY <1>1, <1>7, <3>6
  <2>2. N <= 4 * D
    <3>1. F * D <= (3 * G) * D
      BY <1>7, <1>10, <2>1
    <3>2. K * (N * G) <= (K + 1) * ((3 * G) * D)
      BY <1>1, <1>7, <1>10, <3>1
    <3>3. (K + 1) * ((3 * G) * D) <= K * ((4 * D) * G)
      BY <1>1, <1>7, <1>10
    <3>4. (K * G) * N <= (K * G) * (4 * D)
      BY <1>1, <1>7, <1>10, <3>2, <3>3
    <3>5. K * G >= 1
      BY <1>1, <1>7
    <3>6. QED
      BY <1>1, <1>7, <1>10, <3>4, <3>5
  <2>3. m <= h * (4 * D)
    <3>1. X * N <= h * N
      BY <1>1, <1>7, <1>10
    <3>2. h * N <= h * (4 * D)
      BY <1>1, <1>10, <2>2
    <3>3. QED
      BY <1>1, <1>7, <1>10, <1>11, <3>1, <3>2
  <2>4. h * (4 * D) < D * K * (2 * h)
    <3>1. h * D >= 1
      BY <1>1, <1>10
    <3>2. (h * D) * 4 < (h * D) * (2 * K)
      BY <1>1, <1>10, <3>1
    <3>3. QED
      BY <1>1, <1>10, <3>2
  <2>5. QED
    BY <1>1, <1>10, <1>11, <2>3, <2>4
<1>13. PICK p : p = Float(m, D, 1 - Precision)
  OBVIOUS
<1>14. Close(p, m, D) \/ BelowOne(p, m, D)
  BY <1>10, <1>12, <1>13, ProductIs
<1>15. PICK R \in Nat, E \in Nat : R = p.num /\ E = p.den /\ E >= 1
  BY <1>14 DEF Close, BelowOne
<1>16. ScaleFloat(A, B, C) = R \div E
  BY <1>3, <1>4, <1>8, <1>10, <1>11, <1>13, <1>15 DEF ScaleFloat
<1>17. PICK s \in Nat : s = R \div E /\ s * E <= R /\ R < s * E + E
  <2>1. R \in Nat /\ E \in Nat /\ E > 0
    BY <1>15
  <2>2. R \div E \in Nat /\ (R \div E) * E <= R /\ R < (R \div E) * E + E
    BY <2>1, DivIs
  <2>3. QED
    BY <2>2
<1>18. PICK n \in Nat : n = (IF s < 1 THEN 1 ELSE s) /\ n >= 1 /\ n >= s /\ (n = s \/ n = 1)
  BY <1>17
<1>19. PICK a \in Nat, z \in Nat : a = A * B /\ z = A * B * E /\ z = a * E
  BY <1>2, <1>15
<1>20. PICK g \in Nat : g = 2^(Precision - 1) /\ K = 2 * g
  BY <1>1, LastIs
<1>21. CASE Close(p, m, D)
  <2>1. /\ K * (R * D) <= (K + 1) * (X * N * E)
        /\ (K - 1) * (X * N * E) <= K * (R * D)
    BY <1>1, <1>7, <1>10, <1>11, <1>15, <1>21 DEF Close
  <2>2. K * (R * C) <= (K + 6) * (A * B * E)
    <3>1. K * X <= (K + 1) * A /\ K * F <= (K + 1) * B /\ (K - 1) * C <= K * G
      BY <1>6
    <3>2. K * (N * G) <= (K + 1) * (F * D) /\ K * (R * D) <= (K + 1) * (X * N * E)
      BY <1>10, <2>1
    <3>3. K >= 16 /\ D >= 1
      BY <1>1, <1>10
    <3>4. QED
      BY <1>2, <1>7, <3>1, <3>2, <3>3, FiveUp
  <2>3. (K - 6) * (A * B * E) <= K * (R * C)
    <3>1. (K - 1) * A <= K * X /\ (K - 1) * B <= K * F /\ K * G <= (K + 1) * C
      BY <1>6
    <3>2. /\ (K - 1) * (F * D) <= K * (N * G)
          /\ (K - 1) * (X * N * E) <= K * (R * D)
      BY <1>10, <2>1
    <3>3. K >= 16 /\ D >= 1
      BY <1>1, <1>10
    <3>4. QED
      BY <1>2, <1>7, <3>1, <3>2, <3>3, FiveDown
  <2>4. K * (s * C) <= (K + 6) * a
    <3>1. (K * C) * (s * E) <= (K * C) * R
      BY <1>1, <1>2, <1>15, <1>17
    <3>2. (K * (s * C)) * E <= ((K + 6) * a) * E
      BY <1>1, <1>2, <1>15, <1>17, <1>19, <2>2, <3>1
    <3>3. QED
      BY <1>1, <1>2, <1>15, <1>17, <1>19, <3>2
  <2>5. (K - 6) * a <= K * ((n + 1) * C)
    <3>1. R <= (n + 1) * E
      <4>1. (s + 1) * E <= (n + 1) * E
        BY <1>15, <1>17, <1>18
      <4>2. QED
        BY <1>15, <1>17, <1>18, <4>1
    <3>2. (K * C) * R <= (K * C) * ((n + 1) * E)
      BY <1>1, <1>2, <1>15, <1>18, <3>1
    <3>3. ((K - 6) * a) * E <= (K * ((n + 1) * C)) * E
      BY <1>1, <1>2, <1>15, <1>18, <1>19, <2>3, <3>2
    <3>4. QED
      BY <1>1, <1>2, <1>15, <1>18, <1>19, <3>3
  <2>6. ASSUME C < g PROVE n <= B
    <3>1. X = A /\ F = B /\ G = C
      BY <1>2, <1>6, <1>20, <2>6
    <3>2. K * (N * C) <= (K + 1) * (B * D) /\ K * (R * D) <= (K + 1) * (A * N * E)
      BY <1>10, <2>1, <3>1
    <3>3. 2 * C <= K
      BY <1>20, <2>6
    <3>4. s <= B
      BY <1>1, <1>2, <1>10, <1>15, <1>17, <3>2, <3>3, TwoUp
    <3>5. QED
      BY <1>2, <1>18, <3>4
  <2>7. Scaled(A, B, C, n)
    BY <1>1, <1>2, <1>18, <1>19, <1>20, <2>4, <2>5, <2>6 DEF Scaled
  <2>8. QED
    BY <1>16, <1>17, <1>18, <2>7
<1>22. CASE BelowOne(p, m, D)
  <2>1. m < D /\ R <= E
    BY <1>15, <1>22 DEF BelowOne
  <2>2. n = 1
    <3>1. s <= 1
      <4>1. s * E <= 1 * E
        BY <1>15, <1>17, <2>1
      <4>2. QED
        BY <1>15, <1>17, <4>1
    <3>2. QED
      BY <1>17, <1>18, <3>1
  <2>3. (K - 6) * (A * B) <= K * (2 * C)
    BY <1>1, <1>2, <1>6, <1>7, <1>10, <1>11, <2>1, DownToOne
  <2>4. (n + 1) * C = 2 * C
    BY <1>2, <2>2
  <2>5. Scaled(A, B, C, n)
    BY <1>1, <1>2, <1>18, <2>2, <2>3, <2>4 DEF Scaled
  <2>6. QED
    BY <1>16, <1>17, <1>18, <2>5
<1>23. QED
  BY <1>14, <1>21, <1>22

-----------------------------------------------------------------------------
(* Storing.                                                                *)

\* Jitter is at most what the percentage says, and less where the product wraps.
LEMMA SpanBound ==
  ASSUME NEW ttl \in Int, 0 < ttl, ttl <= MaxInt, core.jitter \in 0..100
  PROVE  /\ Span(ttl) \in Int /\ Spread(ttl) \in Nat
         /\ Spread(ttl) <= ttl /\ Span(ttl) <= Spread(ttl)
         /\ Span(ttl) > 0 => core.jitter > 0
<1>1. PICK j \in 0..100 : j = core.jitter
  OBVIOUS
<1>2. PICK a \in Nat : a = ttl * j /\ a <= 100 * ttl
  <2>1. ttl * j \in Nat /\ ttl * j <= 100 * ttl
    BY <1>1
  <2>2. QED
    BY <2>1
<1>3. PICK w \in Int : w = Wrap(a) /\ (a <= MaxInt => w = a) /\ (a > MaxInt => w < a)
  <2>1. Wrap(a) \in -Half..Half - 1 /\ (a \in -Half..Half - 1 => Wrap(a) = a)
    BY WrapIs
  <2>2. QED
    BY <2>1, WordIs
<1>4. w <= a
  BY <1>3, WordIs
<1>5. PICK s \in Nat : s = a \div 100 /\ s * 100 <= a
  OBVIOUS
<1>6. Spread(ttl) = s /\ Span(ttl) = Quo(w, 100)
  BY <1>1, <1>2, <1>3, <1>5 DEF Spread, Span
<1>7. s <= ttl
  BY <1>2, <1>5
<1>8. Quo(w, 100) \in Int /\ Quo(w, 100) <= s /\ (w <= 0 => Quo(w, 100) <= 0)
  <2>1. CASE w < 0
    <3>1. Quo(w, 100) = -((-w) \div 100) /\ (-w) \in Nat
      BY <2>1 DEF Quo
    <3>2. (-w) \div 100 \in Nat
      BY <3>1
    <3>3. QED
      BY <2>1, <3>1, <3>2
  <2>2. CASE w >= 0
    <3>1. w \in Nat /\ Quo(w, 100) = w \div 100
      BY <2>2 DEF Quo
    <3>2. w \div 100 \in Nat /\ w \div 100 <= a \div 100
      BY <1>4, <3>1, DivMonotone
    <3>3. w <= 0 => w \div 100 = 0
      BY <3>1
    <3>4. QED
      BY <1>5, <3>1, <3>2, <3>3
  <2>3. QED
    BY <2>1, <2>2
<1>9. j = 0 => w = 0
  <2>1. j = 0 => a = 0
    BY <1>2
  <2>2. QED
    BY <1>3, <2>1, WordIs
<1>10. QED
  BY <1>1, <1>6, <1>7, <1>8, <1>9

\* The roll moves the life by the span either way.
LEMMA RollBound ==
  ASSUME NEW ttl, Span(ttl) \in Int, NEW roll \in Rolls(ttl), Span(ttl) > 0
  PROVE  roll \in 0..2 * Span(ttl)
<1>1. PICK s \in Nat : s = Span(ttl) /\ s > 0
  OBVIOUS
<1>2. PICK most \in Nat : most = 2 * s /\ most > 0
  BY <1>1
<1>3. PICK k \in Nat : k = Samples /\ k > 0
  BY SamplesAssumption
<1>4. PICK i \in 0..k : roll = (most * i) \div k
  BY <1>1, <1>2, <1>3 DEF Rolls
<1>5. PICK a \in Nat : a = most * i /\ a <= most * k
  <2>1. most * i \in Nat /\ most * i <= most * k
    BY <1>4
  <2>2. QED
    BY <2>1
<1>6. a \div k \in Nat /\ a \div k <= most
  <2>1. PICK p \in Nat : p = a \div k /\ p * k <= a
    BY <1>3
  <2>2. p * k <= most * k
    BY <1>5, <2>1
  <2>3. p <= most
    BY <1>3, <2>2
  <2>4. QED
    BY <2>1, <2>3
<1>7. QED
  BY <1>1, <1>2, <1>4, <1>5, <1>6

\* What a life may be of a ttl t, spread by at most S.
LivesOf(t, S, life) ==
  /\ life \in 1..MaxInt
  /\ \/ t - S <= life /\ life <= t + S
     \/ life = 1 /\ t <= S
     \/ life = 1 /\ t + S > MaxInt

\* Every roll makes a life of those.
LEMMA LifeBound ==
  ASSUME NEW ttl \in Int, 0 < ttl, ttl <= MaxInt, core.jitter \in 0..100,
         NEW roll \in Rolls(ttl)
  PROVE  LivesOf(ttl, Spread(ttl), Life(ttl, roll))
<1>1. PICK s \in Int, S \in Nat : s = Span(ttl) /\ S = Spread(ttl) /\ S <= ttl /\ s <= S
                                   /\ (s > 0 => core.jitter > 0)
  BY SpanBound
<1>2. PICK h \in Nat : h = Half /\ MaxInt = h - 1
  BY WordIs
<1>3. CASE s > 0
  <2>1. roll \in 0..2 * s
    BY <1>1, <1>3, RollBound
  <2>2. PICK x \in Int : x = ttl + (roll - s) /\ ttl - s <= x /\ x <= ttl + s
    BY <1>1, <2>1
  <2>3. Life(ttl, roll) = IF Wrap(x) <= 0 THEN 1 ELSE Wrap(x)
    BY <1>1, <1>3, <2>2 DEF Life
  <2>4. (x < h => Wrap(x) = x) /\ (x >= h => Wrap(x) < 0)
    <3>1. 0 <= x /\ x <= 2 * h - 2
      BY <1>1, <1>2, <2>2
    <3>2. (x \in -h..h - 1 => Wrap(x) = x) /\ (x \in h..3 * h - 1 => Wrap(x) = x - 2 * h)
      BY <1>2, WrapIs
    <3>3. QED
      BY <3>1, <3>2
  <2>5. PICK life : life = Life(ttl, roll)
    OBVIOUS
  <2>6. CASE x <= 0
    <3>1. x < h /\ Wrap(x) = x
      BY <1>2, <2>4, <2>6
    <3>2. life = 1 /\ ttl <= S
      BY <1>1, <2>2, <2>3, <2>5, <2>6, <3>1
    <3>3. QED
      BY <1>1, <1>2, <2>5, <3>2 DEF LivesOf
  <2>7. CASE x > 0 /\ x < h
    <3>1. life = x
      BY <2>3, <2>4, <2>5, <2>7
    <3>2. QED
      BY <1>1, <1>2, <2>2, <2>5, <2>7, <3>1 DEF LivesOf
  <2>8. CASE x >= h
    <3>1. Wrap(x) \in Int /\ Wrap(x) < 0
      BY <2>4, <2>8, WrapIs, WordIs
    <3>2. life = 1 /\ ttl + S > MaxInt
      BY <1>1, <1>2, <2>2, <2>3, <2>5, <2>8, <3>1
    <3>3. QED
      BY <1>1, <1>2, <2>5, <3>2 DEF LivesOf
  <2>9. QED
    BY <1>2, <2>2, <2>6, <2>7, <2>8
<1>4. CASE s <= 0
  <2>1. Life(ttl, roll) = ttl
    BY <1>1, <1>4 DEF Life
  <2>2. QED
    BY <1>1, <2>1, <1>2 DEF LivesOf
<1>5. QED
  BY <1>1, <1>3, <1>4

\* What ExpiresInTime asks of a deadline.
InTime(ttl, S, now, expiresAt) ==
  IF ttl <= 0 THEN expiresAt = 0
  ELSE /\ expiresAt # 0
       /\ \/ now + ttl - S <= expiresAt /\ now < expiresAt /\ expiresAt <= now + ttl + S
          \/ ~Fits(now + ttl + S) /\ expiresAt <= now + 1

\* expiryAt(), of any ttl, roll and time.
LEMMA DeadlineInTime ==
  ASSUME NEW ttl \in Ints, NEW now \in 1..MaxInt, NEW refreshAfter, core.jitter \in 0..100,
         NEW roll \in Rolls(ttl), NEW d \in Deadlines(ttl, refreshAfter, roll, now)
  PROVE  InTime(ttl, Spread(ttl), now, d.expiresAt)
<1>1. PICK h \in Nat : h = Half /\ MaxInt = h - 1 /\ h >= 2
  BY WordIs
<1>2. PICK life : life = Life(ttl, roll)
  OBVIOUS
<1>3. PICK e : e = d.expiresAt
  OBVIOUS
<1>4. e = IF ttl <= 0 THEN 0 ELSE Wrap(now + life)
  BY <1>2, <1>3 DEF Deadlines
<1>5. ttl \in Int /\ ttl <= MaxInt /\ now \in Int /\ now > 0 /\ now < h
  BY <1>1 DEF Ints
<1>6. CASE ttl <= 0
  BY <1>3, <1>4, <1>6 DEF InTime
<1>7. CASE 0 < ttl
  <2>1. PICK S \in Nat : S = Spread(ttl)
    BY <1>5, <1>7, SpanBound
  <2>2. LivesOf(ttl, S, life)
    BY <1>2, <1>5, <1>7, <2>1, LifeBound
  <2>3. life \in 1..h - 1
    BY <1>1, <2>2 DEF LivesOf
  <2>4. PICK n \in Int : n = now + life
    BY <1>5, <2>3
  <2>5. e = Wrap(n)
    BY <1>4, <1>5, <1>7, <2>4
  <2>6. CASE n < h
    <3>1. e = n
      <4>1. n \in -h..h - 1
        BY <1>5, <2>3, <2>4, <2>6
      <4>2. QED
        BY <1>1, <2>5, <4>1, WrapIs
    <3>2. e # 0 /\ now < e
      BY <1>5, <2>3, <2>4, <3>1
    <3>3. CASE ttl - S <= life /\ life <= ttl + S
      BY <1>3, <1>5, <1>7, <2>1, <2>3, <2>4, <3>1, <3>2, <3>3 DEF InTime
    <3>4. CASE life = 1 /\ ttl <= S
      BY <1>3, <1>5, <1>7, <2>1, <2>4, <3>1, <3>2, <3>4 DEF InTime
    <3>5. CASE life = 1 /\ ttl + S > MaxInt
      <4>1. ~Fits(now + ttl + S) /\ e <= now + 1
        BY <1>1, <1>5, <2>4, <3>1, <3>5 DEF Fits
      <4>2. QED
        BY <1>3, <1>7, <1>5, <2>1, <3>2, <4>1 DEF InTime
    <3>6. QED
      BY <2>2, <3>3, <3>4, <3>5 DEF LivesOf
  <2>7. CASE n >= h
    <3>1. e \in Int /\ e < 0
      <4>1. n \in h..3 * h - 1
        BY <1>5, <2>3, <2>4, <2>7
      <4>2. e = n - 2 * h
        BY <1>1, <2>5, <4>1, WrapIs
      <4>3. QED
        BY <1>5, <2>3, <2>4, <4>2
    <3>2. now + ttl + S >= n \/ now + ttl + S > MaxInt
      BY <1>1, <1>5, <1>7, <2>2, <2>4 DEF LivesOf
    <3>3. ~Fits(now + ttl + S)
      BY <1>1, <1>5, <2>1, <2>4, <2>7, <3>2 DEF Fits
    <3>4. QED
      BY <1>3, <1>5, <1>7, <2>1, <3>1, <3>3 DEF InTime
  <2>8. QED
    BY <2>4, <2>6, <2>7
<1>8. QED
  BY <1>5, <1>6, <1>7

\* What is within six parts of n is within Rounding(n).
LEMMA RoundingIs ==
  ASSUME NEW n \in Nat
  PROVE  /\ Rounding(n) \in Nat
         /\ \A y \in Int : Last * y <= 6 * n => y <= Rounding(n)
         /\ \A m \in Nat : m <= n => Rounding(m) <= Rounding(n)
<1>1. PICK k \in Nat : k = Last /\ k > 0
  BY LastIs
<1>2. PICK a \in Nat : a = 6 * n
  OBVIOUS
<1>3. Rounding(n) = a \div k
  BY <1>1, <1>2 DEF Rounding, Last
<1>4. PICK q \in Nat : q = a \div k /\ a < q * k + k
  BY <1>1, DivIs
<1>5. ASSUME NEW y \in Int, k * y <= a PROVE y <= q
  <2>1. y * k < (q + 1) * k
    BY <1>4, <1>5
  <2>2. y < q + 1
    BY <1>1, <2>1
  <2>3. QED
    BY <2>2
<1>6. ASSUME NEW m \in Nat, m <= n PROVE Rounding(m) <= q
  <2>1. PICK b \in Nat : b = 6 * m /\ b <= a
    BY <1>2, <1>6
  <2>2. Rounding(m) = b \div k
    BY <1>1, <2>1 DEF Rounding, Last
  <2>3. QED
    BY <1>1, <1>4, <2>1, <2>2, DivMonotone
<1>7. QED
  BY <1>1, <1>2, <1>3, <1>4, <1>5, <1>6

\* What RefreshInProportion asks of a deadline, with a refresh.
InProportion(ttl, S, refreshAfter, now, expiresAt, refreshAt) ==
  refreshAt # 0 /\ Fits(now + (ttl + S) + Rounding(ttl + S)) =>
    LET life == expiresAt - now
        at == refreshAt - now
        exact == refreshAfter * life
    IN /\ 0 < at
       /\ at * ttl <= exact + Rounding(exact) \/ at = 1
       /\ (at + 1) * ttl >= exact - Rounding(exact)
       /\ ttl < 2^(Precision - 1) => at <= life

\* No sum wraps, and the wait is what ScaleFloat() makes of it.
LEMMA RefreshIs ==
  ASSUME NEW C \in 1..Half - 1, NEW S \in Nat, S <= C, NEW A \in 1..Half - 1, A < C,
         NEW now \in 1..MaxInt, NEW B, LivesOf(C, S, B),
         Fits(now + (C + S) + Rounding(C + S)),
         NEW at \in RefreshIn(C, A, B)
  PROVE  InProportion(C, S, A, now, Wrap(now + B), Wrap(now + at))
<1>1. PICK h \in Nat, K \in Nat : h = Half /\ MaxInt = h - 1 /\ K = Last /\ K >= 16
  BY WordIs, LastIs
<1>2. C \in Nat /\ A \in Nat /\ now \in Nat /\ C >= 1 /\ A >= 1 /\ now >= 1
  BY <1>1
<1>3. PICK L \in Nat : L = C + S
  BY <1>2
<1>4. PICK o \in Nat : o = Rounding(L) /\ now + L + o <= h - 1
  BY <1>1, <1>2, <1>3, RoundingIs DEF Fits
<1>5. B \in Nat /\ B >= 1 /\ B <= L /\ B <= 2 * C /\ B \in 1..Half - 1
  BY <1>1, <1>2, <1>3, <1>4 DEF LivesOf
<1>6. PICK s \in Nat : s = ScaleFloat(A, B, C)
  BY <1>5, ScaleIs
<1>7. PICK n \in Nat : n = (IF s < 1 THEN 1 ELSE s) /\ n >= 1 /\ s <= n
  <2>1. s < 1 => s <= 1
    OBVIOUS
  <2>2. QED
    BY <2>1
<1>8. Scaled(A, B, C, n)
  BY <1>5, <1>6, <1>7, ScaleIs
<1>9. PICK a \in Nat : a = A * B
  BY <1>2, <1>5
<1>10. /\ K * (n * C) <= (K + 6) * a \/ n = 1
       /\ (K - 6) * a <= K * ((n + 1) * C)
       /\ C < 2^(Precision - 1) => n <= B
  BY <1>1, <1>8, <1>9 DEF Scaled
<1>11. n <= L + o
  <2>1. CASE n = 1
    BY <1>3, <1>2, <2>1
  <2>2. CASE K * (n * C) <= (K + 6) * a
    <3>1. (K + 6) * a <= (K + 6) * (C * B)
      <4>1. A * B <= C * B
        BY <1>2, <1>5
      <4>2. QED
        BY <1>1, <1>2, <1>5, <1>9, <4>1
    <3>2. (K * n) * C <= ((K + 6) * B) * C
      BY <1>1, <1>2, <1>5, <1>9, <2>2, <3>1
    <3>3. K * n <= (K + 6) * B
      BY <1>1, <1>2, <1>5, <3>2
    <3>4. K * (n - B) <= 6 * B
      BY <1>1, <1>5, <3>3
    <3>5. 6 * B <= 6 * L
      BY <1>5
    <3>6. K * (n - B) <= 6 * L /\ n - B \in Int
      BY <1>1, <1>5, <3>4, <3>5
    <3>7. n - B <= o
      BY <1>1, <1>4, <3>6, RoundingIs
    <3>8. QED
      BY <1>5, <3>7
  <2>3. QED
    BY <1>10, <2>1, <2>2
<1>12. at = n
  <2>1. s <= MaxInt
    BY <1>1, <1>2, <1>4, <1>7, <1>11
  <2>2. Words(s) = {s}
    BY <2>1 DEF Words, Fits
  <2>3. QED
    BY <1>6, <1>7, <2>2 DEF RefreshIn
<1>13. Wrap(now + B) = now + B
  <2>1. now + B \in -Half..Half - 1
    BY <1>1, <1>2, <1>4, <1>5
  <2>2. QED
    BY <2>1, WrapIs
<1>14. Wrap(now + at) = now + n
  <2>1. now + n \in -Half..Half - 1
    BY <1>1, <1>2, <1>4, <1>11
  <2>2. QED
    BY <1>12, <2>1, WrapIs
<1>15. (now + B) - now = B /\ (now + n) - now = n
  BY <1>2, <1>5
<1>16. PICK y \in Nat : y = n * C /\ (n + 1) * C = y + C
  BY <1>2
<1>17. PICK r \in Nat : r = Rounding(a) /\ \A z \in Int : K * z <= 6 * a => z <= r
  BY <1>1, RoundingIs
<1>18. y <= a + r \/ n = 1
  <2>1. SUFFICES ASSUME K * y <= (K + 6) * a PROVE y <= a + r
    BY <1>10, <1>16
  <2>2. K * (y - a) <= 6 * a /\ y - a \in Int
    BY <1>1, <2>1
  <2>3. y - a <= r
    BY <1>17, <2>2
  <2>4. QED
    BY <2>3
<1>19. y + C >= a - r
  <2>1. K * (a - (y + C)) <= 6 * a
    BY <1>1, <1>2, <1>10, <1>16
  <2>2. a - (y + C) \in Int
    BY <1>2
  <2>3. a - (y + C) <= r
    BY <1>17, <2>1, <2>2
  <2>4. QED
    BY <1>2, <2>3
<1>20. QED
  BY <1>7, <1>9, <1>10, <1>13, <1>14, <1>15, <1>16, <1>17, <1>18, <1>19 DEF InProportion

\* deadlines(), of any ttl, refresh, roll and time.
LEMMA DeadlineInProportion ==
  ASSUME NEW ttl \in Ints, NEW now \in 1..MaxInt, NEW refreshAfter \in Ints,
         core.jitter \in 0..100,
         NEW roll \in Rolls(ttl), NEW d \in Deadlines(ttl, refreshAfter, roll, now)
  PROVE  InProportion(ttl, Spread(ttl), refreshAfter, now, d.expiresAt, d.refreshAt)
<1>1. CASE ~(0 < refreshAfter /\ refreshAfter < ttl)
  <2>1. d.refreshAt = 0
    BY <1>1 DEF Deadlines
  <2>2. QED
    BY <2>1 DEF InProportion
<1>2. CASE 0 < refreshAfter /\ refreshAfter < ttl
  <2>1. MaxInt = Half - 1 /\ ttl \in 1..Half - 1 /\ refreshAfter \in 1..Half - 1
    BY <1>2, WordIs DEF Ints
  <2>2. ttl \in Int /\ 0 < ttl /\ ttl <= MaxInt
    BY <2>1, WordIs
  <2>3. PICK S \in Nat : S = Spread(ttl) /\ S <= ttl
    BY <2>2, SpanBound
  <2>4. PICK life : life = Life(ttl, roll)
    OBVIOUS
  <2>5. LivesOf(ttl, S, life)
    BY <2>2, <2>3, <2>4, LifeBound
  <2>6. PICK at \in RefreshIn(ttl, refreshAfter, life) :
          d.expiresAt = Wrap(now + life) /\ d.refreshAt = Wrap(now + at)
    BY <1>2, <2>2, <2>4 DEF Deadlines
  <2>7. CASE Fits(now + (ttl + S) + Rounding(ttl + S))
    BY <1>2, <2>1, <2>3, <2>5, <2>6, <2>7, RefreshIs
  <2>8. CASE ~Fits(now + (ttl + S) + Rounding(ttl + S))
    BY <2>3, <2>8 DEF InProportion
  <2>9. QED
    BY <2>7, <2>8
<1>3. QED
  BY <1>1, <1>2

-----------------------------------------------------------------------------
(* New().                                                                  *)

\* The power of two that shardCount() is asked for exists.
LEMMA ShardCountIs ==
  ASSUME NEW n \in Int, n <= 2^(Width - 2)
  PROVE  ShardCount(n) \in 1..2^(Width - 2)
<1>1. PICK w \in Nat : w = Width - 2 /\ w >= 2
  BY WordAssumption
<1>2. PICK top \in Nat : top = 2^w /\ top >= 1
  BY <1>1, PowerIs
<1>3. CASE n <= 1
  BY <1>1, <1>2, <1>3 DEF ShardCount
<1>4. CASE n > 1
  <2>1. PICK T \in SUBSET Nat : T = {i \in Nat : n <= 2^i}
    OBVIOUS
  <2>2. w \in T
    BY <1>1, <1>2, <2>1
  <2>3. PICK i \in T : \A j \in T : i <= j
    BY <2>2, LeastNat
  <2>4. i \in Nat /\ i <= w /\ n <= 2^i
    BY <2>1, <2>2, <2>3
  <2>5. i # 0
    <3>1. 2^0 = 1
      BY PowerOfNone
    <3>2. i = 0 => 2^i = 1
      BY <3>1
    <3>3. QED
      BY <1>4, <2>4, <3>2
  <2>6. PICK k \in Nat : k = i - 1 /\ k + 1 = i
    BY <2>4, <2>5
  <2>7. k \notin T
    BY <2>3, <2>4, <2>6
  <2>8. PICK p \in Nat : p = 2^k /\ 2^i = 2 * p
    BY <2>6, PowerIs, PowerDoubles
  <2>9. p < n
    BY <2>1, <2>7, <2>8
  <2>10. (2 * p) \div 2 = p
    OBVIOUS
  <2>11. PICK Ps : Ps = {2^e : e \in 1..Width - 2}
    OBVIOUS
  <2>12. i \in 1..w
    BY <2>4, <2>5
  <2>13. 2^i \in Ps /\ 2^i \div 2 < n /\ n <= 2^i
    BY <1>1, <2>4, <2>8, <2>9, <2>10, <2>11, <2>12
  <2>14. \A e \in 1..w : 2^e \in Nat /\ 2^e >= 1 /\ 2^e <= top
    <3>1. TAKE e \in 1..w
    <3>2. e \in Nat /\ e <= w
      BY <1>1
    <3>3. 2^e \in Nat /\ 2^e >= 1
      BY <3>2, PowerIs
    <3>4. 2^e <= 2^w
      BY <3>2, PowerGrows
    <3>5. QED
      BY <1>2, <3>3, <3>4
  <2>15. \A q \in Ps : q \in 1..top
    BY <1>1, <1>2, <2>11, <2>14
  <2>16. ShardCount(n) = CHOOSE q \in Ps : q \div 2 < n /\ n <= q
    <3>1. ~(n <= 1)
      BY <1>4
    <3>2. ShardCount(n) = CHOOSE q \in {2^e : e \in 1..Width - 2} : q \div 2 < n /\ n <= q
      BY <3>1, Zenon DEF ShardCount
    <3>3. QED
      BY <2>11, <3>2, Zenon
  <2>17. ShardCount(n) \in Ps
    BY <2>13, <2>16
  <2>18. QED
    BY <1>1, <1>2, <2>15, <2>17
<1>5. QED
  BY <1>3, <1>4

\* What NeverStricter asks of a budget divided.
Divided(budget, n, perShard) ==
  \/ budget = 0 /\ perShard = 0
  \/ perShard > 0 /\ budget <= n * perShard /\ n * perShard < budget + n
  \/ perShard < 0 /\ ~Fits(budget + n - 1)

\* divideBudget() among so many shards.
LEMMA BudgetDivided ==
  ASSUME NEW b \in 0..MaxInt, NEW n \in 1..2^(Width - 2)
  PROVE  Divided(b, n, DivideBudget(b, n))
<1>1. PICK h \in Nat : h = Half /\ MaxInt = h - 1 /\ h >= 2 /\ 2 * n <= h
  BY WordIs
<1>2. CASE b = 0
  BY <1>2 DEF Divided, DivideBudget
<1>3. CASE b > 0
  <2>1. PICK v : v = Wrap(Wrap(b + n) - 1)
    OBVIOUS
  <2>2. DivideBudget(b, n) = Quo(v, n)
    BY <1>3, <2>1 DEF DivideBudget
  <2>3. PICK u : u = Wrap(b + n)
    OBVIOUS
  <2>4. CASE b + n <= h
    <3>1. v = b + n - 1
      <4>1. CASE b + n < h
        <5>1. u = b + n
          <6>1. b + n \in -h..h - 1
            BY <1>3, <4>1
          <6>2. QED
            BY <1>1, <2>3, <6>1, WrapIs
        <5>2. u - 1 \in -h..h - 1
          BY <1>1, <1>3, <4>1, <5>1
        <5>3. QED
          BY <1>1, <2>1, <2>3, <5>1, <5>2, WrapIs
      <4>2. CASE b + n = h
        <5>1. h \in h..3 * h - 1
          BY <1>1
        <5>2. u = h - 2 * h
          BY <1>1, <2>3, <4>2, <5>1, WrapIs
        <5>3. u - 1 = -h - 1 /\ u - 1 \in Int
          BY <5>2
        <5>4. v = h - 1
          BY <1>1, <2>1, <2>3, <5>3, WrapIs
        <5>5. QED
          BY <4>2, <5>4
      <4>3. QED
        BY <1>1, <2>4, <4>1, <4>2
    <3>2. PICK a \in Nat : a = v /\ a = b + n - 1
      BY <1>3, <3>1
    <3>3. PICK q \in Nat : q = a \div n /\ q * n <= a /\ a < q * n + n
      OBVIOUS
    <3>4. Quo(v, n) = q
      BY <3>2, <3>3 DEF Quo
    <3>5. n * q = q * n /\ q * n \in Nat
      OBVIOUS
    <3>6. b <= n * q /\ n * q < b + n
      BY <1>3, <3>2, <3>3, <3>5
    <3>7. q # 0
      BY <1>3, <3>6
    <3>8. QED
      BY <2>2, <3>4, <3>6, <3>7 DEF Divided
  <2>5. CASE b + n > h
    <3>1. b + n \in h..3 * h - 1
      BY <1>1, <2>5
    <3>2. u = b + n - 2 * h
      BY <1>1, <2>3, <3>1, WrapIs
    <3>3. u - 1 \in -h..h - 1
      BY <1>1, <2>5, <3>2
    <3>4. v = b + n - 2 * h - 1
      BY <1>1, <2>1, <2>3, <3>2, <3>3, WrapIs
    <3>5. PICK a \in Nat : a = -v /\ a >= n
      BY <1>1, <3>4
    <3>6. v < 0
      BY <1>1, <3>4
    <3>7. PICK q \in Nat : q = a \div n /\ q >= 1
      BY <3>5
    <3>8. Quo(v, n) = -q
      BY <3>5, <3>6, <3>7 DEF Quo
    <3>9. ~Fits(b + n - 1)
      BY <1>1, <2>5 DEF Fits
    <3>10. QED
      BY <2>2, <3>7, <3>8, <3>9 DEF Divided
  <2>6. QED
    BY <1>1, <2>4, <2>5
<1>4. QED
  BY <1>2, <1>3

-----------------------------------------------------------------------------
(* The theorems.                                                           *)

\* The options were checked once, and stay what they are; what was computed from them and
\* from the ttl, the refresh and the time of a store is right for those.
DeadlinesInv ==
  /\ core # None => /\ core.jitter \in 0..100
                    /\ core.ttl \in Ints /\ core.negativeTTL \in Ints
                    /\ core.refreshAfter \in Ints
                    /\ Divided(core.budget, core.shards, core.perShard)
  /\ entry # None => /\ core # None
                     /\ InTime(entry.ttl, Spread(entry.ttl), entry.now, entry.expiresAt)
                     /\ InProportion(entry.ttl, Spread(entry.ttl), entry.refreshAfter, entry.now,
                                     entry.expiresAt, entry.refreshAt)

\* setValue() and setNegative(), of any ttl.
LEMMA StoredRight ==
  ASSUME DeadlinesInv, core # None, UNCHANGED core,
         NEW ttl \in Ints, NEW refreshAfter \in Ints, NEW negative,
         Stored(ttl, refreshAfter, negative)
  PROVE  DeadlinesInv'
<1>1. PICK roll \in Rolls(ttl), now \in Times :
        \E d \in Deadlines(ttl, refreshAfter, roll, now) :
          entry' = [expiresAt |-> d.expiresAt, refreshAt |-> d.refreshAt, negative |-> negative,
                    ttl |-> ttl, refreshAfter |-> refreshAfter, now |-> now]
  BY DEF Stored
<1>2. PICK d \in Deadlines(ttl, refreshAfter, roll, now) :
          entry' = [expiresAt |-> d.expiresAt, refreshAt |-> d.refreshAt, negative |-> negative,
                    ttl |-> ttl, refreshAfter |-> refreshAfter, now |-> now]
  BY <1>1
<1>3. core.jitter \in 0..100 /\ now \in 1..MaxInt
  BY InputsAssumption DEF DeadlinesInv
<1>4. /\ InTime(ttl, Spread(ttl), now, d.expiresAt)
      /\ InProportion(ttl, Spread(ttl), refreshAfter, now, d.expiresAt, d.refreshAt)
  BY <1>3, DeadlineInTime, DeadlineInProportion
<1>5. /\ entry'.ttl = ttl /\ entry'.now = now /\ entry'.refreshAfter = refreshAfter
      /\ entry'.expiresAt = d.expiresAt /\ entry'.refreshAt = d.refreshAt
  BY <1>2
<1>6. Spread(ttl)' = Spread(ttl)
  BY DEF Spread
<1>7. InTime(entry.ttl, Spread(entry.ttl), entry.now, entry.expiresAt)'
  BY <1>4, <1>5, <1>6 DEF InTime, Spread, Fits
<1>8. InProportion(entry.ttl, Spread(entry.ttl), entry.refreshAfter, entry.now,
                   entry.expiresAt, entry.refreshAt)'
  BY <1>4, <1>5, <1>6 DEF InProportion, Spread, Fits, Rounding
<1>9. QED
  BY <1>7, <1>8 DEF DeadlinesInv

\* New() keeps options it has checked.
LEMMA NewRight ==
  ASSUME DeadlinesInv, NEW o \in Options, New(o)
  PROVE  DeadlinesInv'
<1>1. o \in OptionsRecord /\ Valid(o) /\ core = None
  BY InputsAssumption DEF New
<1>2. o.ttl \in Ints /\ o.negativeTTL \in Ints /\ o.refreshAfter \in Ints /\ o.jitter \in 0..100
      /\ o.shards \in Int /\ o.shards <= 2^(Width - 2) /\ o.budget \in 0..MaxInt
  BY <1>1, WordIs DEF OptionsRecord, Valid, Ints
<1>3. PICK n : n = ShardCount(o.shards)
  OBVIOUS
<1>4. n \in 1..2^(Width - 2)
  BY <1>2, <1>3, ShardCountIs
<1>5. PICK p : p = DivideBudget(o.budget, n)
  OBVIOUS
<1>6. Divided(o.budget, n, p)
  BY <1>2, <1>4, <1>5, BudgetDivided
<1>7. core' = [ttl |-> o.ttl, negativeTTL |-> o.negativeTTL, refreshAfter |-> o.refreshAfter,
               jitter |-> o.jitter, budget |-> o.budget, shards |-> n, perShard |-> p]
  BY <1>3, <1>5 DEF New
<1>8. /\ core'.jitter = o.jitter /\ core'.ttl = o.ttl /\ core'.negativeTTL = o.negativeTTL
      /\ core'.refreshAfter = o.refreshAfter
      /\ core'.budget = o.budget /\ core'.shards = n /\ core'.perShard = p
  BY <1>7
<1>9. entry' = None
  BY <1>1 DEF New, DeadlinesInv
<1>10. Divided(core.budget, core.shards, core.perShard)'
  BY <1>6, <1>8 DEF Divided, Fits
<1>11. QED
  BY <1>2, <1>8, <1>9, <1>10 DEF DeadlinesInv

\* The strengthening the properties follow from.
THEOREM Invariance == Spec => []DeadlinesInv
<1>1. Init => DeadlinesInv
  BY DEF Init, DeadlinesInv
<1>2. DeadlinesInv /\ [Next]_vars => DeadlinesInv'
  <2>1. SUFFICES ASSUME DeadlinesInv, [Next]_vars PROVE DeadlinesInv'
    OBVIOUS
  <2>2. ASSUME NEW o \in Options, New(o) PROVE DeadlinesInv'
    BY <2>1, <2>2, NewRight
  <2>3. ASSUME core # None, NEW ttl \in Durations \cup {core.ttl}, SetValue(ttl)
        PROVE  DeadlinesInv'
    <3>1. ttl \in Ints
      BY <2>1, <2>3, InputsAssumption DEF DeadlinesInv
    <3>2. UNCHANGED core /\ Stored(ttl, core.refreshAfter, FALSE)
      BY <2>3 DEF SetValue
    <3>3. QED
      BY <2>1, <2>3, <3>1, <3>2, StoredRight DEF DeadlinesInv
  <2>4. ASSUME core # None, NEW ttl \in Durations \cup {core.negativeTTL}, SetNegative(ttl)
        PROVE  DeadlinesInv'
    <3>1. ttl \in Ints
      BY <2>1, <2>4, InputsAssumption DEF DeadlinesInv
    <3>2. UNCHANGED core /\ Stored(ttl, 0, TRUE)
      BY <2>4 DEF SetNegative
    <3>3. QED
      <4>1. 0 \in Ints
        BY WordIs DEF Ints
      <4>2. QED
        BY <2>1, <2>4, <3>1, <3>2, <4>1, StoredRight
  <2>5. CASE Remove
    BY <2>1, <2>5 DEF Remove, DeadlinesInv
  <2>6. CASE UNCHANGED vars
    BY <2>1, <2>6 DEF vars, DeadlinesInv, InTime, InProportion, Spread, Fits, Rounding
  <2>7. QED
    BY <2>1, <2>2, <2>3, <2>4, <2>5, <2>6 DEF Next
<1>3. QED
  BY <1>1, <1>2, PTL DEF Spec

\* An entry with a ttl goes within the jitter of it, and never by a sum that wraps or a
\* jitter as long as the ttl is it taken for one without: expiryAt() (cache.go:612-630),
\* whatever the word, the options, the time and the random number.
THEOREM InTimeAlways == Spec => []ExpiresInTime
<1>1. DeadlinesInv => ExpiresInTime
  BY DEF DeadlinesInv, ExpiresInTime, InTime
<1>2. QED
  BY <1>1, Invariance, PTL

\* The refresh sits the same fraction of the way through the life, whatever the jitter made
\* of it, but for what five roundings can do, and inside it while a float holds twice the
\* ttl: deadlines() (cache.go:637-667), of words and floats of any width.
THEOREM ProportionKept == Spec => []RefreshInProportion
<1>1. DeadlinesInv => RefreshInProportion
  BY DEF DeadlinesInv, RefreshInProportion, InProportion
<1>2. QED
  BY <1>1, Invariance, PTL

\* The shards of a cache together hold what the caller asked for, and less than one entry
\* or byte more for each, or nothing bounds them where the sum is past the largest word:
\* shardCount() and divideBudget() (cache.go:760-776), whatever the word and the options.
THEOREM BudgetKept == Spec => []NeverStricter
<1>1. DeadlinesInv => NeverStricter
  BY DEF DeadlinesInv, NeverStricter, Divided
<1>2. QED
  BY <1>1, Invariance, PTL

=============================================================================
