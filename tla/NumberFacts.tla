---------------------------- MODULE NumberFacts ----------------------------
(***************************************************************************)
(* Facts about numbers that the proofs about the lock arrays, the buckets, *)
(* the path codes and the programs share.                                  *)
(*                                                                         *)
(* Induction is by least counterexample: a set of naturals that is not     *)
(* empty has a least element.  The provers know nothing of ^ but its value *)
(* for given numbers, so the facts about powers of two say of which law of *)
(* exponents they depend.                                                  *)
(***************************************************************************)
EXTENDS Integers, WellFoundedInduction, NaturalsInduction, TLAPS

\* 2 ^ p, for p up to n, doubles with each step.
Doubling(n) == \A p \in 0 .. n - 1 : 2 ^ (p + 1) = 2 * 2 ^ p

\* Every set of naturals that is not empty has a least element.
LEMMA LeastElement ==
  ASSUME NEW T, T \subseteq Nat, T # {}
  PROVE  \E x \in T : \A y \in T : x <= y
<1>1. \E x \in T : \A y \in T : <<y, x>> \notin OpToRel(<, Nat)
  BY WFMin, NatLessThanWellFounded, Zenon
<1>2. \A x, y \in Nat : <<y, x>> \in OpToRel(<, Nat) <=> y < x
  BY Zenon DEF OpToRel
<1>3. \E x \in T : \A y \in T : ~(y < x)
  BY <1>1, <1>2, Zenon
<1> QED
  BY <1>3

\* A set of naturals with an upper bound has a greatest element.
LEMMA GreatestElement ==
  ASSUME NEW T, T \subseteq Nat, T # {}, NEW n \in Nat, \A x \in T : x <= n
  PROVE  \E x \in T : \A y \in T : y <= x
<1> DEFINE bounds == {m \in Nat : \A x \in T : x <= m}
<1>1. PICK m \in bounds : \A k \in bounds : m <= k
  <2> bounds \subseteq Nat /\ bounds # {}
    OBVIOUS
  <2> QED
    BY LeastElement
<1>2. m \in T
  <2> SUFFICES ASSUME m \notin T PROVE FALSE
    OBVIOUS
  <2>1. \A x \in T : x <= m /\ x # m
    BY <1>1
  <2>2. PICK x \in T : TRUE
    OBVIOUS
  <2>3. m # 0
    BY <2>1, <2>2
  <2>4. m - 1 \in bounds
    BY <2>1, <2>3
  <2> QED
    BY <1>1, <2>4
<1> QED
  BY <1>1, <1>2

\* Powers of two are positive.
LEMMA PowersPositive ==
  ASSUME NEW n \in Nat, Doubling(n), NEW p \in 0 .. n
  PROVE  2 ^ p \in Nat \ {0}
<1> DEFINE T == {q \in 0 .. n : 2 ^ q \notin Nat \ {0}}
<1> SUFFICES ASSUME T # {} PROVE FALSE
  OBVIOUS
<1>1. PICK q \in T : \A r \in T : q <= r
  <2> T \subseteq Nat
    OBVIOUS
  <2> HIDE DEF T
  <2> QED
    BY LeastElement
<1>2. 2 ^ 0 \in Nat \ {0}
  OBVIOUS
<1>3. q # 0
  <2> 2 ^ q \notin Nat \ {0}
    OBVIOUS
  <2> HIDE DEF T
  <2> QED
    BY <1>2, Zenon
<1>4. q - 1 \in 0 .. n - 1 /\ q - 1 \notin T
  BY <1>1, <1>3
<1>5. 2 ^ (q - 1) \in Nat \ {0}
  BY <1>4
<1>6. 2 ^ ((q - 1) + 1) = 2 * 2 ^ (q - 1)
  BY <1>4 DEF Doubling
<1>7. 2 ^ q \in Nat \ {0}
  BY <1>5, <1>6
<1> QED
  BY <1>7

\* ... and grow with the exponent.
LEMMA PowersGrow ==
  ASSUME NEW n \in Nat, Doubling(n), NEW p \in 0 .. n, NEW q \in 0 .. n, p < q
  PROVE  2 * 2 ^ p <= 2 ^ q
<1> DEFINE T == {r \in p + 1 .. n : ~(2 * 2 ^ p <= 2 ^ r)}
<1> SUFFICES ASSUME ~(2 * 2 ^ p <= 2 ^ q) PROVE FALSE
  OBVIOUS
<1>0. q \in T
  OBVIOUS
<1>1. PICK r \in T : \A s \in T : r <= s
  <2> T \subseteq Nat /\ T # {}
    BY <1>0
  <2> HIDE DEF T
  <2> QED
    BY LeastElement
<1>2. \A s \in 0 .. n : 2 ^ s \in Nat \ {0}
  BY PowersPositive
<1>3. 2 ^ ((r - 1) + 1) = 2 * 2 ^ (r - 1)
  BY DEF Doubling
<1>4. r # p + 1
  BY <1>3, <1>2
<1>5. r - 1 \in p + 1 .. n /\ r - 1 \notin T
  BY <1>1, <1>4
<1>6. 2 * 2 ^ p <= 2 ^ (r - 1)
  BY <1>5
<1> QED
  BY <1>2, <1>3, <1>5, <1>6

\* A number is its quotient and its remainder, and no others.
LEMMA Quotients ==
  ASSUME NEW m \in Nat \ {0}, NEW n \in Nat
  PROVE  /\ n \div m \in Nat /\ n % m \in 0 .. m - 1
         /\ n = (n \div m) * m + (n % m)
<1> DEFINE q == n \div m
           r == n % m
<1>1. q \in Nat /\ r \in 0 .. m - 1 /\ n = m * q + r
  OBVIOUS
<1> HIDE DEF q, r
<1>2. n = q * m + r
  BY <1>1
<1> QED
  BY <1>1, <1>2 DEF q, r

LEMMA QuotientIs ==
  ASSUME NEW m \in Nat \ {0}, NEW a \in Nat, NEW d \in 0 .. m - 1
  PROVE  (a * m + d) % m = d /\ (a * m + d) \div m = a
<1>1. (m * a + d) % m = d /\ (m * a + d) \div m = a
  OBVIOUS
<1> QED
  BY <1>1

\* Remainders by a number do not change by a remainder by its multiple.
LEMMA RemainderOfRemainder ==
  ASSUME NEW m \in Nat \ {0}, NEW c \in Nat \ {0}, c % m = 0, NEW b \in Nat
  PROVE  (b % c) % m = b % m
<1> DEFINE q == c \div m
           d == b \div c
           r == b % c
<1>1. q \in Nat /\ c = m * q
  OBVIOUS
<1>2. d \in Nat /\ r \in Nat /\ b = c * d + r
  OBVIOUS
<1> HIDE DEF q, d, r
<1>3. b = m * (q * d) + r /\ q * d \in Nat
  BY <1>1, <1>2
<1> DEFINE e == r \div m
           f == r % m
<1>4. e \in Nat /\ f \in 0 .. m - 1 /\ r = m * e + f
  BY <1>2
<1> HIDE DEF e, f
<1>5. b = m * (q * d + e) + f /\ q * d + e \in Nat
  BY <1>3, <1>4
<1>6. \A x \in Nat : (m * x + f) % m = f
  BY <1>4
<1> QED
  BY <1>2, <1>4, <1>5, <1>6 DEF r, f
=============================================================================
