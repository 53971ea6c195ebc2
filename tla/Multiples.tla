----------------------------- MODULE Multiples -----------------------------
(***************************************************************************)
(* Arithmetic of things counted by multiples, the children of a day or the  *)
(* bytes of a chunk, which several proofs use.                              *)
(***************************************************************************)
EXTENDS Integers, TLAPS

\* What is counted in the d-th multiple has d as its quotient.
LEMMA Quotient ==
  ASSUME NEW n \in Nat \ {0}, NEW d \in Nat, NEW r \in 0 .. n - 1
  PROVE  (n * d + r) \div n = d
<1> DEFINE a == n * d + r
           q == a \div n
           m == n * d
           p == n * q
<1>1. m \in Nat /\ a = m + r /\ a \in Nat
  OBVIOUS
<1>2. q \in Nat /\ p \in Nat /\ p <= a /\ a < p + n
  <2>1. q \in Nat /\ a % n \in 0 .. n - 1 /\ a % n = a - n * q
    BY <1>1
  <2>2. p \in Nat
    BY <2>1
  <2> HIDE DEF q, a
  <2> QED
    BY <2>1, <2>2, <1>1
<1>3. ASSUME q >= d + 1
      PROVE  FALSE
  <2>1. p >= n * (d + 1) /\ n * (d + 1) = m + n
    BY <1>2, <1>3
  <2> HIDE DEF p, q, m, a
  <2> QED
    BY <2>1, <1>1, <1>2
<1>4. ASSUME d >= q + 1
      PROVE  FALSE
  <2>1. m >= n * (q + 1) /\ n * (q + 1) = p + n
    BY <1>2, <1>4
  <2> HIDE DEF p, q, m, a
  <2> QED
    BY <2>1, <1>1, <1>2
<1> HIDE DEF q
<1>5. q = d
  BY <1>2, <1>3, <1>4
<1> QED
  BY <1>5 DEF q

\* One multiple more, and no more of them than e.
LEMMA OneMore ==
  ASSUME NEW n \in Nat \ {0}, NEW d \in Nat
  PROVE  n * d \in Nat /\ n * (d + 1) = n * d + n
OBVIOUS

LEMMA NotBeyond ==
  ASSUME NEW n \in Nat \ {0}, NEW d \in Nat, NEW e \in Nat, d < e
  PROVE  n * d + n <= n * e
<1>1. \E k \in Nat : e = d + 1 + k
  <2>1. e - d - 1 \in Nat /\ e = d + 1 + (e - d - 1)
    OBVIOUS
  <2> QED
    BY <2>1
<1>2. PICK k \in Nat : e = d + 1 + k
  BY <1>1
<1>3. n * (d + 1 + k) = n * d + n + n * k /\ n * k \in Nat /\ n * d \in Nat
  OBVIOUS
<1> QED
  BY <1>2, <1>3

\* The number of chunks of b units that a file of t units has, rounded up.
LEMMA RoundedUp ==
  ASSUME NEW b \in Nat \ {0}, NEW t \in Nat, NEW m \in Nat \ {0},
         b * (m - 1) < t, t <= b * m
  PROVE  (t + b - 1) \div b = m
<1> DEFINE r == t + b - 1 - b * m
<1>1. b * m \in Nat /\ b * (m - 1) = b * m - b
  OBVIOUS
<1>2. r \in 0 .. b - 1
  <2> DEFINE p == b * m
             q == b * (m - 1)
  <2>1. p \in Nat /\ q = p - b /\ q < t /\ t <= p /\ r = t + b - 1 - p
    BY <1>1
  <2> HIDE DEF p, q, r
  <2> QED
    BY <2>1
<1>3. t + b - 1 = b * m + r
  BY <1>1
<1> HIDE DEF r
<1>4. (b * m + r) \div b = m
  BY <1>2, Quotient
<1> QED
  BY <1>3, <1>4

\* A file that is longer than s chunks has more of them.
LEMMA MoreThan ==
  ASSUME NEW b \in Nat \ {0}, NEW t \in Nat, NEW s \in Nat, b * s < t
  PROVE  (t + b - 1) \div b > s
<1> DEFINE a == t + b - 1
           q == a \div b
           p == b * q
           m == b * s
<1>1. a \in Nat /\ m \in Nat /\ m < t /\ a = t + b - 1
  OBVIOUS
<1>2. q \in Nat /\ p \in Nat /\ a < p + b
  <2>1. q \in Nat /\ a % b \in 0 .. b - 1 /\ a % b = a - b * q
    BY <1>1
  <2>2. p \in Nat
    BY <2>1
  <2> HIDE DEF q, a
  <2> QED
    BY <2>1, <2>2, <1>1
<1>3. ASSUME q <= s
      PROVE  FALSE
  <2>1. p <= m
    BY <1>2, <1>3
  <2> HIDE DEF p, m, a, q
  <2> QED
    BY <2>1, <1>1, <1>2
<1> HIDE DEF q
<1>4. q > s
  BY <1>2, <1>3
<1> QED
  BY <1>4 DEF q
=============================================================================
