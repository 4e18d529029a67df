--------------------------- MODULE NaturalNumbers ---------------------------
(***************************************************************************)
(* What the proofs need about natural numbers: induction, stated for sets  *)
(* (that every number has a property is that the numbers that have it are  *)
(* all of them), and division.                                             *)
(***************************************************************************)
EXTENDS Integers, WellFoundedInduction, TLAPS

(* Every set of numbers has a least one, if it has any.                     *)
LEMMA LeastNumber ==
    ASSUME NEW T \in SUBSET Nat, T # {}
    PROVE  \E m \in T : \A k \in T : m <= k
<1> DEFINE R == OpToRel(<, Nat)
<1>1. IsWellFoundedOn(R, Nat)
  BY NatLessThanWellFounded
<1>2. \A m, k \in Nat : k < m => <<k, m>> \in R
  BY DEF OpToRel
<1> HIDE DEF R
<1>3. PICK m \in T : \A k \in T : <<k, m>> \notin R
  BY <1>1, WFMin
<1>4. ASSUME NEW k \in T
      PROVE  m <= k
  <2>1. ~ (k < m)
    BY <1>2, <1>3
  <2> QED BY <2>1
<1> QED BY <1>4

(* A set with 0, and with the next of each of its numbers, has all numbers. *)
LEMMA ByInduction ==
    ASSUME NEW S, 0 \in S, \A n \in Nat : n \in S => n + 1 \in S
    PROVE  Nat \subseteq S
<1>1. SUFFICES ASSUME Nat \ S # {} PROVE FALSE
  OBVIOUS
<1>2. PICK m \in Nat \ S : \A k \in Nat \ S : m <= k
  BY <1>1, LeastNumber
<1>3. m - 1 \in Nat /\ m - 1 \in S
  BY <1>2
<1> QED BY <1>2, <1>3

(* Quotient and remainder.                                                  *)
LEMMA DivMod ==
    ASSUME NEW x \in Int, NEW w \in Nat \ {0}
    PROVE  x \div w \in Int /\ x % w \in Int /\ 0 <= x % w /\ x % w < w /\ x = w * (x \div w) + (x % w)
  BY SMT

(* They are the only ones.                                                  *)
LEMMA RemainderIs ==
    ASSUME NEW w \in Nat \ {0}, NEW x \in Int, NEW q \in Int, NEW r \in Int,
           0 <= r, r < w, x = w * q + r
    PROVE  x \div w = q /\ x % w = r
<1>1. x \div w \in Int /\ x % w \in Int /\ 0 <= x % w /\ x % w < w /\ x = w * (x \div w) + (x % w)
  BY DivMod
<1>2. ASSUME NEW p \in Int, NEW s \in Int, 0 <= s, s < w, w * p + s = w * q + r
      PROVE  p = q /\ s = r
  <2>1. w * (p - q) = r - s
    BY <1>2
  <2>2. ~ (p - q >= 1)
    BY <1>2, <2>1
  <2>3. ~ (p - q <= -1)
    BY <1>2, <2>1
  <2> QED BY <1>2, <2>1, <2>2, <2>3
<1> QED BY <1>1, <1>2

(* The quotient of a number that is not negative.                           *)
LEMMA Quotient ==
    ASSUME NEW x \in Nat, NEW w \in Nat \ {0}
    PROVE  x \div w \in Nat /\ x \div w <= x /\ w * (x \div w) <= x
<1> DEFINE q == x \div w  r == x % w
<1>1. q \in Int /\ r \in Int /\ 0 <= r /\ r < w /\ x = w * q + r
  BY DivMod
<1> HIDE DEF q, r
<1>2. q >= 0
  BY <1>1
<1>3. q <= x
  BY <1>1, <1>2
<1> QED BY <1>1, <1>2, <1>3 DEF q

(* The quotient rounded up is enough.                                       *)
LEMMA RoundedUp ==
    ASSUME NEW x \in Nat, NEW w \in Nat \ {0}, NEW k \in Nat, x < k
    PROVE  (k + w - 1) \div w \in Nat /\ x \div w < (k + w - 1) \div w
<1> DEFINE s == k + w - 1  n == s \div w  q == x \div w
<1>1. s \in Nat
  OBVIOUS
<1> HIDE DEF s
<1>2. n \in Nat /\ s % w \in Int /\ s % w < w /\ s = w * n + (s % w)
  BY <1>1, DivMod, Quotient
<1>3. q \in Nat /\ w * q <= x
  BY Quotient
<1> HIDE DEF n, q
<1>4. w * q < w * n
  <2>1. w * n > s - w /\ s - w = k - 1
    BY <1>1, <1>2 DEF s
  <2> QED BY <1>2, <1>3, <2>1
<1>5. q < n
  BY <1>2, <1>3, <1>4
<1> QED BY <1>2, <1>5 DEF n, q, s

(* Numbers in two digits.                                                   *)
LEMMA TwoDigits ==
    ASSUME NEW m \in Nat, NEW k \in Nat, NEW x \in Nat, NEW y \in Nat,
           x < k, y < m
    PROVE  /\ x * m + y < k * m
           /\ \A u \in Nat, v \in Nat : v < m => (x * m + y = u * m + v <=> x = u /\ y = v)
<1>1. x * m + y < k * m
  <2>1. (x + 1) * m <= k * m /\ (x + 1) * m = x * m + m
    OBVIOUS
  <2> DEFINE xm == x * m  km == k * m
  <2>2. xm \in Nat /\ km \in Nat /\ xm + m <= km
    BY <2>1
  <2> HIDE DEF xm, km
  <2>3. xm + y < km
    BY <2>2
  <2> QED BY <2>3 DEF xm, km
<1>2. ASSUME NEW u \in Nat, NEW v \in Nat, v < m, x * m + y = u * m + v
      PROVE  x = u /\ y = v
  <2> DEFINE n == x * m + y
  <2>1. n \in Int /\ n = m * x + y /\ n = m * u + v /\ m \in Nat \ {0}
    BY <1>2
  <2> HIDE DEF n
  <2>2. n \div m = x /\ n % m = y
    BY <2>1, RemainderIs
  <2>3. n \div m = u /\ n % m = v
    BY <1>2, <2>1, RemainderIs
  <2> QED BY <2>2, <2>3
<1> QED BY <1>1, <1>2
=============================================================================
