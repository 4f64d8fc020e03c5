------------------------------- MODULE Lemmas -------------------------------
(***************************************************************************)
(* Lemmas about finite sets and about numbers that the proofs of several   *)
(* modules need.                                                           *)
(***************************************************************************)
EXTENDS Integers, Sequences, FiniteSets, FiniteSetTheorems, SequenceTheorems,
        TLAPS

(* A finite set of numbers that is not empty has a highest one: of two     *)
(* sets {k \in Q : k > x}, that of the greater x is strictly smaller.      *)
LEMMA HighestOf ==
  ASSUME NEW Q \in SUBSET Int, IsFiniteSet(Q), Q # {}
  PROVE  \E m \in Q : \A k \in Q : k <= m
<1> DEFINE Above(x) == {k \in Q : k > x}
           T == {Above(x) : x \in Q}
           R == StrictSubsetOrdering(Q)
<1>1. T \subseteq FiniteSubsetsOf(Q) /\ T # {}
  <2>1. \A x \in Q : Above(x) \in SUBSET Q
    OBVIOUS
  <2>2. \A x \in Q : IsFiniteSet(Above(x))
    BY <2>1, FS_Subset
  <2>3. QED
    BY <2>1, <2>2 DEF FiniteSubsetsOf
<1>2. IsWellFoundedOn(R, FiniteSubsetsOf(Q))
  BY FS_StrictSubsetOrderingWellFounded
<1>3. PICK A \in T : \A B \in T : ~ (<<B, A>> \in R)
  <2> HIDE DEF R, T
  <2> QED
    BY <1>1, <1>2, WFMin
<1>4. PICK m \in Q : A = Above(m)
  OBVIOUS
<1>5. ASSUME NEW k \in Q, ~(k <= m)
      PROVE  FALSE
  <2>1. k \in Int /\ m \in Int /\ k > m
    BY <1>5
  <2>2. \A j \in Q : j > k => j > m
    BY <2>1
  <2>3. Above(k) \subseteq Above(m) /\ k \in Above(m)
    BY <2>1, <2>2
  <2>4. k \notin Above(k)
    BY <2>1
  <2>5. <<Above(k), Above(m)>> \in R
    BY <2>3, <2>4 DEF StrictSubsetOrdering
  <2>6. QED
    BY <2>5, <1>3, <1>4
<1>6. QED
  BY <1>5

-----------------------------------------------------------------------------
(***************************************************************************)
(* Multiplication and division, which the provers know little about.       *)
(***************************************************************************)

(* A product grows with its factors. *)
LEMMA Grows ==
  ASSUME NEW a \in Int, NEW b \in Int, a <= b, NEW n \in Nat
  PROVE  /\ n * a \in Int /\ n * b \in Int /\ n * a <= n * b
         /\ n * a = a * n /\ n * b = b * n
<1>1. b - a \in Nat /\ n * b - n * a = n * (b - a)
  OBVIOUS
<1>2. n * (b - a) \in Nat
  BY <1>1
<1>3. n * a \in Int /\ n * b \in Int /\ n * a = a * n /\ n * b = b * n
  OBVIOUS
<1>4. QED
  BY <1>1, <1>2, <1>3

(* Division with a remainder. *)
LEMMA DivMod ==
  ASSUME NEW n \in Int, n > 0, NEW g \in Int
  PROVE  /\ g \div n \in Int /\ g % n \in 0..n - 1
         /\ g = n * (g \div n) + (g % n)
         /\ n * (g \div n) \in Int
<1>1. g = n * (g \div n) + (g % n)
  BY SMT
<1>2. QED
  BY <1>1

(* A natural number has a natural quotient. *)
LEMMA NatQuotient ==
  ASSUME NEW n \in Int, n > 0, NEW g \in Nat
  PROVE  g \div n \in Nat
<1>1. /\ g \div n \in Int /\ g % n \in 0..n - 1
      /\ g = n * (g \div n) + (g % n)
  BY DivMod
<1>2. SUFFICES ASSUME g \div n <= -1 PROVE FALSE
  BY <1>1
<1>3. n * (g \div n) <= n * (-1)
  BY <1>1, <1>2, Grows
<1>4. QED
  BY <1>1, <1>3

(* Two multiples of n that differ are at least n apart. *)
LEMMA MultipleOutside ==
  ASSUME NEW n \in Int, n > 0, NEW a \in Int, NEW b \in Int
  PROVE  n * b - n * a <= 0 \/ n * b - n * a >= n
<1>1. b - a \in Int /\ n * b - n * a = n * (b - a)
  OBVIOUS
<1>2. CASE b - a <= 0
  <2>1. n * (b - a) <= 0
    BY <1>1, <1>2
  <2>2. QED
    BY <2>1, <1>1
<1>3. CASE b - a >= 1
  <2>1. n * (b - a) >= n
    BY <1>1, <1>3
  <2>2. QED
    BY <2>1, <1>1
<1>4. QED
  BY <1>1, <1>2, <1>3

(* One less than a multiple belongs to the last part. *)
LEMMA LastPart ==
  ASSUME NEW n \in Int, n > 0, NEW k \in Int
  PROVE  (n * k - 1) \div n = k - 1
<1> DEFINE q == (n * k - 1) \div n
<1>1. n * k \in Int
  OBVIOUS
<1>2. /\ q \in Int /\ (n * k - 1) % n \in 0..n - 1 /\ n * q \in Int
      /\ n * k - 1 = n * q + ((n * k - 1) % n)
  BY <1>1, DivMod
<1> HIDE DEF q
<1>3. n * k - n * q >= 1 /\ n * k - n * q <= n
  BY <1>1, <1>2
<1>4. n * k - n * q = n * (k - q)
  BY <1>2
<1>5. k - q \in Int
  BY <1>2
<1>6. ~(k - q <= 0)
  BY <1>3, <1>4, <1>5, Grows
<1>7. ~(k - q >= 2)
  BY <1>3, <1>4, <1>5, Grows
<1>8. QED
  BY <1>2, <1>5, <1>6, <1>7 DEF q

(* Quotient and remainder are determined by what they make up. *)
LEMMA Quotient ==
  ASSUME NEW n \in Int, n > 0, NEW q \in Int, NEW r \in 0..n - 1
  PROVE  (n * q + r) \div n = q /\ (n * q + r) % n = r
<1> DEFINE x == n * q + r
           p == x \div n
           s == x % n
<1>1. x \in Int /\ n * q \in Int
  OBVIOUS
<1>2. p \in Int /\ s \in 0..n - 1 /\ n * p \in Int /\ x = n * p + s
  <2> HIDE DEF x
  <2>1. QED
    BY <1>1, DivMod
<1>3. n * p - n * q = r - s
  <2> HIDE DEF p, s
  <2>1. QED
    BY <1>1, <1>2
<1> HIDE DEF p, s, x
<1>4. n * (p - q) = r - s
  <2>1. n * (p - q) = n * p - n * q
    BY <1>2
  <2>2. QED
    BY <1>3, <2>1
<1>5. p = q
  <2>1. ~(p - q >= 1)
    BY <1>2, <1>4, Grows
  <2>2. ~(p - q <= -1)
    BY <1>2, <1>4, Grows
  <2>3. QED
    BY <1>2, <2>1, <2>2
<1>6. s = r
  BY <1>1, <1>2, <1>3, <1>5
<1>7. QED
  BY <1>5, <1>6 DEF p, s, x

(* A number and the one before it: in the same row of n unless the greater *)
(* one is the first of its row.                                            *)
LEMMA NextInRow ==
  ASSUME NEW n \in Int, n > 0, NEW i \in Int
  PROVE  /\ i % n = 0 => i \div n = (i - 1) \div n + 1
         /\ i % n # 0 => i \div n = (i - 1) \div n
<1> DEFINE q == i \div n
           r == i % n
<1>1. q \in Int /\ r \in 0..n - 1 /\ n * q \in Int /\ i = n * q + r
  BY DivMod
<1> HIDE DEF q, r
<1>2. CASE r = 0
  <2>1. i - 1 = n * (q - 1) + (n - 1)
    BY <1>1, <1>2
  <2>2. (i - 1) \div n = q - 1
    <3>1. q - 1 \in Int /\ n - 1 \in 0..n - 1
      BY <1>1
    <3>2. (n * (q - 1) + (n - 1)) \div n = q - 1
      BY <3>1, Quotient
    <3>3. QED
      BY <2>1, <3>2
  <2>3. QED
    BY <1>1, <1>2, <2>2 DEF q, r
<1>3. CASE r # 0
  <2>1. i - 1 = n * q + (r - 1) /\ r - 1 \in 0..n - 1
    BY <1>1, <1>3
  <2>2. (n * q + (r - 1)) \div n = q
    BY <1>1, <2>1, Quotient
  <2>3. QED
    BY <1>3, <2>1, <2>2 DEF q, r
<1>4. QED
  BY <1>2, <1>3

(* The r-th of the n numbers of part g, of k parts, counted from 1.        *)
LEMMA InPart ==
  ASSUME NEW n \in Nat, n > 0, NEW k \in Nat, NEW g \in 0..k - 1, NEW r \in 0..n - 1
  PROVE  LET i == 1 + g * n + r
         IN  i \in 1..n * k /\ (i - 1) \div n = g /\ (i - 1) % n = r
<1>1. g \in Int /\ g + 1 \in Int /\ g + 1 <= k
  OBVIOUS
<1>2. n * (g + 1) <= n * k
  BY <1>1, Grows
<1>3. n * (g + 1) = n * g + n /\ g * n = n * g /\ n * g \in Nat
  BY <1>1
<1>4. /\ 1 + g * n + r \in 1..n * k
      /\ (1 + g * n + r) - 1 = n * g + r
  BY <1>2, <1>3
<1>5. (n * g + r) \div n = g /\ (n * g + r) % n = r
  BY <1>1, Quotient
<1>6. QED
  BY <1>4, <1>5

(* Division that rounds up. *)
LEMMA RoundedUp ==
  ASSUME NEW n \in Int, n > 0, NEW b \in Nat
  PROVE  LET q == (b + n - 1) \div n
         IN  q \in Nat /\ n * q >= b /\ \A m \in Int : b <= n * m => q <= m
<1> DEFINE q == (b + n - 1) \div n
<1>1. q \in Nat
  BY NatQuotient
<1>2. /\ b + n - 1 = n * q + ((b + n - 1) % n) /\ (b + n - 1) % n \in 0..n - 1
      /\ n * q \in Int
  <2>1. b + n - 1 \in Int
    OBVIOUS
  <2>2. QED
    BY <2>1, DivMod
<1> HIDE DEF q
<1>3. n * q >= b /\ n * q <= b + n - 1
  BY <1>2
<1>4. ASSUME NEW m \in Int, b <= n * m, ~(q <= m) PROVE FALSE
  <2>1. n * (m + 1) <= n * q /\ n * (m + 1) = n * m + n
    BY <1>1, <1>4, Grows
  <2>2. n * m \in Int
    BY <1>4
  <2>3. QED
    BY <1>2, <1>3, <1>4, <2>1, <2>2
<1>5. QED
  BY <1>1, <1>3, <1>4 DEF q
=============================================================================
