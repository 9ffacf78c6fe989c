----------------------------- MODULE NatLemmas -----------------------------
(***************************************************************************)
(* Least elements, division with remainder, and counting modulo n.         *)
(***************************************************************************)
EXTENDS Integers, WellFoundedInduction, TLAPS

\* A non-empty set of naturals has a least element.
LEMMA LeastElement ==
    ASSUME NEW S \in SUBSET Nat, S # {}
    PROVE  \E m \in S : \A n \in S : m <= n
<1>1. PICK m \in S : \A n \in S : ~ (<<n, m>> \in OpToRel(<, Nat))
  BY NatLessThanWellFounded, WFMin
<1>2. \A n \in S : n < m => <<n, m>> \in OpToRel(<, Nat)
  BY DEF OpToRel
<1>3. \A n \in S : ~ (n < m)
  BY <1>1, <1>2
<1> QED
  BY <1>3

\* What holds of 0 and goes from each number to the next holds of all up to n.
LEMMA CountUp ==
    ASSUME NEW n \in Nat, NEW S, 0 \in S, \A k \in 1 .. n : k - 1 \in S => k \in S
    PROVE  0 .. n \subseteq S
<1> SUFFICES ASSUME (0 .. n) \ S # {} PROVE FALSE
  OBVIOUS
<1>1. (0 .. n) \ S \in SUBSET Nat
  OBVIOUS
<1>2. PICK m \in (0 .. n) \ S : \A k \in (0 .. n) \ S : m <= k
  BY <1>1, LeastElement
<1>3. m \in 1 .. n /\ m - 1 \in 0 .. n /\ ~(m <= m - 1)
  BY <1>2
<1> QED
  BY <1>2, <1>3

LEMMA DivMod ==
    ASSUME NEW n \in Nat \ {0}, NEW x \in Nat
    PROVE  /\ x = n * (x \div n) + (x % n)
           /\ x % n \in 0 .. n - 1 /\ x \div n \in Int
OBVIOUS

\* Quotient and remainder are the only ones there are.
LEMMA Quotient ==
    ASSUME NEW n \in Nat \ {0}, NEW q \in Int, NEW r \in 0 .. n - 1,
           NEW v, v = n * q + r
    PROVE  v \div n = q /\ v % n = r
OBVIOUS

\* A number below the divisor is its own remainder.
LEMMA Below ==
    ASSUME NEW n \in Nat \ {0}, NEW r \in 0 .. n - 1
    PROVE  r % n = r /\ r \div n = 0
OBVIOUS

LEMMA DivModUnique ==
    ASSUME NEW n \in Nat \ {0}, NEW q \in Int, NEW r \in 0 .. n - 1,
           NEW p \in Int, NEW s \in 0 .. n - 1, n * q + r = n * p + s
    PROVE  r = s
<1>1. n * (q - p) = s - r
  OBVIOUS
<1>2. CASE q - p >= 1
  <2>1. n * (q - p) >= n
    BY <1>2
  <2> QED
    BY <1>1, <2>1
<1>3. CASE q - p <= -1
  <2>1. n * (q - p) <= -n
    BY <1>3
  <2> QED
    BY <1>1, <2>1
<1>4. CASE q = p
  BY <1>4
<1> QED
  BY <1>2, <1>3, <1>4

\* Counting modulo n.
LEMMA ModSucc ==
    ASSUME NEW n \in Nat \ {0}, NEW x \in Nat
    PROVE  (x + 1) % n = IF (x % n) + 1 >= n THEN 0 ELSE (x % n) + 1
<1> DEFINE q == x \div n
           r == x % n
           p == (x + 1) \div n
           s == (x + 1) % n
<1>1. x = n * q + r /\ r \in 0 .. n - 1 /\ q \in Int
  BY DivMod
<1>2. x + 1 = n * p + s /\ s \in 0 .. n - 1 /\ p \in Int
  BY DivMod
<1> HIDE DEF q, r, p, s
<1>3. CASE r + 1 >= n
  <2>1. n * (q + 1) + 0 = n * p + s /\ 0 \in 0 .. n - 1 /\ q + 1 \in Int
    BY <1>1, <1>2, <1>3
  <2>2. s = 0
    BY <1>2, <2>1, DivModUnique
  <2> QED
    BY <1>3, <2>2 DEF r, s
<1>4. CASE r + 1 < n
  <2>1. n * q + (r + 1) = n * p + s /\ r + 1 \in 0 .. n - 1
    BY <1>1, <1>2, <1>4
  <2>2. s = r + 1
    BY <1>1, <1>2, <2>1, DivModUnique
  <2> QED
    BY <1>1, <1>4, <2>2 DEF r, s
<1> QED
  BY <1>1, <1>3, <1>4
=============================================================================
