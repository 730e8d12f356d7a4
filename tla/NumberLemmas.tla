---------------------------- MODULE NumberLemmas ----------------------------
(***************************************************************************)
(* Facts about natural numbers that the proofs of several modules cite:    *)
(* the slots of a ring (remainders), and the least number of a set.        *)
(***************************************************************************)
EXTENDS Integers, WellFoundedInduction, TLAPS

(* Quotient and remainder.                                                 *)
LEMMA DivMod ==
    ASSUME NEW n \in Nat \ {0}, NEW a \in Nat
    PROVE  /\ a \div n \in Nat
           /\ a % n \in 0 .. n - 1
           /\ a = n * (a \div n) + (a % n)
BY SMT

(* A larger multiple of n is larger by n at least.                         *)
LEMMA MultipleStep ==
    ASSUME NEW n \in Nat \ {0}, NEW p \in Nat, NEW q \in Nat, p < q
    PROVE  n * p + n <= n * q
<1>1. PICK d \in Nat : q = p + 1 + d
    <2>1. q - p - 1 \in Nat
        BY SMT
    <2> QED
        BY <2>1, SMT
<1>2. n * q = n * p + n + n * d /\ n * d \in Nat
    BY <1>1, SMT
<1> QED
    BY <1>2, SMT

(* Two serials that share a slot of a ring of n are at least n apart.      *)
LEMMA ResiduesApart ==
    ASSUME NEW n \in Nat \ {0}, NEW s \in Nat, NEW t \in Nat,
           s % n = t % n, s < t
    PROVE  t >= s + n
<1> DEFINE p == s \div n
           q == t \div n
           r == s % n
<1>1. /\ p \in Nat /\ q \in Nat /\ r \in 0 .. n - 1
      /\ s = n * p + r
      /\ t = n * q + r
    BY DivMod
<1> HIDE DEF p, q, r
<1>2. n * p \in Nat /\ n * q \in Nat
    BY <1>1, SMT
<1>3. p < q
    <2>1. CASE q < p
        <3>1. n * q + n <= n * p
            BY <1>1, <2>1, MultipleStep
        <3> QED
            BY <1>1, <1>2, <3>1
    <2> QED
        BY <1>1, <2>1
<1>4. n * p + n <= n * q
    BY <1>1, <1>3, MultipleStep
<1> QED
    BY <1>1, <1>2, <1>4

(* A slot comes round again after n serials.                               *)
LEMMA ResiduePeriod ==
    ASSUME NEW n \in Nat \ {0}, NEW s \in Nat
    PROVE  (s + n) % n = s % n
<1> DEFINE p == s \div n
           q == (s + n) \div n
           r == s % n
           u == (s + n) % n
<1>1. /\ p \in Nat /\ q \in Nat /\ r \in 0 .. n - 1 /\ u \in 0 .. n - 1
      /\ s = n * p + r
      /\ s + n = n * q + u
    <2>1. s + n \in Nat
        OBVIOUS
    <2> QED
        BY <2>1, DivMod
<1> HIDE DEF p, q, r, u
<1>2. n * p \in Nat /\ n * q \in Nat /\ n * (p + 1) = n * p + n
    BY <1>1, SMT
<1>3. CASE q = p + 1
    <2>1. u = r
        BY <1>1, <1>2, <1>3
    <2> QED
        BY <2>1 DEF u, r
<1>4. CASE q < p + 1
    <2>1. n * q + n <= n * (p + 1)
        BY <1>1, <1>4, MultipleStep
    <2> QED
        BY <1>1, <1>2, <2>1
<1>5. CASE p + 1 < q
    <2>1. n * (p + 1) + n <= n * q
        BY <1>1, <1>5, MultipleStep
    <2> QED
        BY <1>1, <1>2, <2>1
<1> QED
    BY <1>1, <1>3, <1>4, <1>5

(* A set of numbers that is not empty has a least one.                     *)
LEMMA LeastNumber ==
    ASSUME NEW T \in SUBSET Nat, T # {}
    PROVE  \E x \in T : \A y \in T : x <= y
<1>1. PICK x \in T : \A y \in T : ~ (<<y, x>> \in OpToRel(<, Nat))
    BY WFMin, NatLessThanWellFounded
<1>2. ASSUME NEW y \in T PROVE x <= y
    <2>1. ~ (y < x)
        BY <1>1 DEF OpToRel
    <2> QED
        BY <2>1
<1> QED
    BY <1>2
=============================================================================
