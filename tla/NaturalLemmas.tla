--------------------------- MODULE NaturalLemmas ---------------------------
(***************************************************************************)
(* Induction over an interval of the naturals, as statements about sets,   *)
(* the existence of functions defined by recursion over one, division and  *)
(* the powers of two.                                                      *)
(***************************************************************************)
EXTENDS Integers, WellFoundedInduction, TLAPS

(* A set of naturals that is not empty has a least element.                *)
LEMMA LeastNatural ==
    ASSUME NEW T \in SUBSET Nat, T # {}
    PROVE  \E n \in T : \A m \in T : n <= m
<1>1. IsWellFoundedOn(OpToRel(<, Nat), Nat)
  BY NatLessThanWellFounded
<1>2. PICK n \in T : \A m \in Nat : <<m, n>> \in OpToRel(<, Nat) => m \notin T
  BY <1>1, WFMin
<1>3. \A m \in Nat : m < n => <<m, n>> \in OpToRel(<, Nat)
  BY DEF OpToRel
<1>4. \A m \in T : m \in Nat /\ n \in Nat /\ ~(m < n)
  BY <1>2, <1>3
<1>5. \A a, b \in Nat : ~(a < b) => b <= a
  OBVIOUS
<1> QED
  BY <1>4, <1>5

(* A set with 0, and with the successor of each of its elements up to m,   *)
(* holds every number up to m.                                             *)
LEMMA UpTo ==
    ASSUME NEW m \in Nat, NEW S, 0 \in S,
           \A n \in 0..m : n \in S /\ n + 1 \in 0..m => n + 1 \in S
    PROVE  0..m \subseteq S
<1> SUFFICES ASSUME NEW x \in 0..m, x \notin S PROVE FALSE
  OBVIOUS
<1> DEFINE T == {n \in 0..m : n \notin S}
<1>1. PICK n \in T : \A k \in T : n <= k
  <2>1. T \in SUBSET Nat /\ x \in T
    OBVIOUS
  <2> HIDE DEF T
  <2> QED
    BY <2>1, LeastNatural
<1>2. n \in Nat /\ n # 0
  BY <1>1
<1>3. n - 1 \in 0..m /\ n - 1 \notin T /\ (n - 1) + 1 = n
  BY <1>1, <1>2
<1> QED
  BY <1>1, <1>3

\* f begins with base, and each value is a step from the one before.
IsIteration(f, top, V, base, step) ==
    /\ f \in [0..top -> V]
    /\ f[0] = base
    /\ \A n \in 1..top : f[n] = step[<<n, f[n - 1]>>]

(* A function can be defined by its value at 0 and by a step from each     *)
(* value to the next one.                                                  *)
LEMMA Iterated ==
    ASSUME NEW top \in Nat, NEW V, NEW base \in V,
           NEW step \in [(1..top) \X V -> V]
    PROVE  \E f : IsIteration(f, top, V, base, step)
<1> DEFINE Chain(f, m) == /\ f \in [0..m -> V]
                          /\ f[0] = base
                          /\ \A n \in 1..m : f[n] = step[<<n, f[n - 1]>>]
           S == {m \in Nat : \E f : Chain(f, m)}
<1>1. 0 \in S
  <2>1. Chain([n \in 0..0 |-> base], 0)
    OBVIOUS
  <2> QED
    BY <2>1
<1>2. ASSUME NEW m \in 0..top, m \in S, m + 1 \in 0..top
      PROVE  m + 1 \in S
  <2>1. m \in Nat /\ m + 1 \in 1..top
    BY <1>2
  <2>2. PICK g : Chain(g, m)
    BY <1>2
  <2>3. step[<<m + 1, g[m]>>] \in V
    BY <2>1, <2>2
  <2> DEFINE f == [n \in 0..(m + 1) |-> IF n = m + 1 THEN step[<<m + 1, g[m]>>] ELSE g[n]]
  <2>4. f \in [0..(m + 1) -> V] /\ f[0] = base
    BY <2>1, <2>2, <2>3
  <2>5. ASSUME NEW n \in 1..(m + 1)
        PROVE  f[n] = step[<<n, f[n - 1]>>]
    <3>1. CASE n = m + 1
      <4>1. f[m] = g[m] /\ n - 1 = m
        BY <2>1, <3>1
      <4>2. f[m + 1] = step[<<m + 1, g[m]>>]
        BY <2>1
      <4> QED
        BY <3>1, <4>1, <4>2
    <3>2. CASE n # m + 1
      <4>1. n \in 1..m /\ n - 1 \in 0..m
        BY <2>1, <3>2
      <4>2. f[n] = g[n] /\ f[n - 1] = g[n - 1]
        BY <2>1, <4>1
      <4> QED
        BY <2>2, <4>1, <4>2
    <3> QED
      BY <3>1, <3>2
  <2>6. Chain(f, m + 1)
    BY <2>4, <2>5
  <2> HIDE DEF f, Chain
  <2> QED
    BY <2>1, <2>6
<1>3. 0..top \subseteq S
  <2> HIDE DEF S
  <2> QED
    BY <1>1, <1>2, UpTo
<1>4. top \in S
  <2>1. top \in 0..top
    OBVIOUS
  <2> HIDE DEF S
  <2> QED
    BY <1>3, <2>1
<1>5. PICK f : Chain(f, top)
  BY <1>4
<1> QED
  BY <1>5 DEF IsIteration

-----------------------------------------------------------------------------
(* Division, as the unique quotient and remainder.                         *)
LEMMA Division ==
    ASSUME NEW w \in Nat \ {0}, NEW n \in Int
    PROVE  /\ n \div w \in Int
           /\ n % w \in 0..(w - 1)
           /\ n = w * (n \div w) + (n % w)
  OBVIOUS

LEMMA WordOrder ==
    ASSUME NEW w \in Nat \ {0}, NEW q1 \in Int, NEW q2 \in Int,
           NEW r1 \in 0..(w - 1), NEW r2 \in 0..(w - 1)
    PROVE  w * q1 + r1 < w * q2 + r2 <=> q1 < q2 \/ (q1 = q2 /\ r1 < r2)
<1>1. ASSUME NEW p \in Int, NEW q \in Int, p < q
      PROVE  w * p + w <= w * q
  <2>1. q - p - 1 \in Nat
    BY <1>1
  <2>2. w * (q - p - 1) \in Nat
    BY <2>1
  <2>3. w * (q - p - 1) = w * q - w * p - w
    OBVIOUS
  <2>4. w * p \in Int /\ w * q \in Int
    OBVIOUS
  <2> QED
    BY <2>2, <2>3, <2>4
<1>2. w * q1 \in Int /\ w * q2 \in Int
  OBVIOUS
<1>3. CASE q1 < q2
  BY <1>1, <1>2, <1>3
<1>4. CASE q2 < q1
  BY <1>1, <1>2, <1>4
<1>5. CASE q1 = q2
  BY <1>2, <1>5
<1> QED
  BY <1>3, <1>4, <1>5

LEMMA DivisionIsUnique ==
    ASSUME NEW w \in Nat \ {0}, NEW q \in Int, NEW r \in 0..(w - 1)
    PROVE  (w * q + r) \div w = q /\ (w * q + r) % w = r
<1> DEFINE n == w * q + r
<1>1. n \in Int
  OBVIOUS
<1>2. n \div w \in Int /\ n % w \in 0..(w - 1) /\ n = w * (n \div w) + (n % w)
  BY <1>1, Division
<1>3. ~(w * q + r < w * (n \div w) + (n % w)) /\ ~(w * (n \div w) + (n % w) < w * q + r)
  BY <1>1, <1>2
<1>4. /\ ~(q < n \div w \/ (q = n \div w /\ r < n % w))
      /\ ~(n \div w < q \/ (n \div w = q /\ n % w < r))
  BY <1>2, <1>3, WordOrder
<1> QED
  BY <1>2, <1>4

-----------------------------------------------------------------------------
(* Powers of two.                                                          *)

LEMMA Powers == \A i \in 0..15 : 2^i \in Nat \ {0} /\ 2^(i + 1) = 2 * 2^i
<1> TAKE i \in 0..15
<1>0. CASE i = 0
  BY <1>0
<1>1. CASE i = 1
  BY <1>1
<1>2. CASE i = 2
  BY <1>2
<1>3. CASE i = 3
  BY <1>3
<1>4. CASE i = 4
  BY <1>4
<1>5. CASE i = 5
  BY <1>5
<1>6. CASE i = 6
  BY <1>6
<1>7. CASE i = 7
  BY <1>7
<1>8. CASE i = 8
  BY <1>8
<1>9. CASE i = 9
  BY <1>9
<1>10. CASE i = 10
  BY <1>10
<1>11. CASE i = 11
  BY <1>11
<1>12. CASE i = 12
  BY <1>12
<1>13. CASE i = 13
  BY <1>13
<1>14. CASE i = 14
  BY <1>14
<1>15. CASE i = 15
  BY <1>15
<1> QED
  BY <1>0, <1>1, <1>2, <1>3, <1>4, <1>5, <1>6, <1>7, <1>8, <1>9, <1>10, <1>11, <1>12,
     <1>13, <1>14, <1>15

(* What one more bit adds to the low bits of a number.                     *)
LEMMA LowBits ==
    ASSUME NEW y \in Nat, NEW n \in 0..15
    PROVE  /\ y % 2^n \in 0..y /\ y % 2^n < 2^n
           /\ y % 2^(n + 1) = IF (y \div 2^n) % 2 = 1 THEN (y % 2^n) + 2^n ELSE y % 2^n
           /\ (y \div 2^n) % 2 = 1 => (y % 2^n) + 2^n <= y
<1> DEFINE q == y \div 2^n
           r == y % 2^n
           s == q \div 2
           b == q % 2
<1>1. PICK p \in Nat \ {0} : p = 2^n /\ 2^(n + 1) = 2 * p
  BY Powers
<1>2. q \in Int /\ r \in 0..(p - 1) /\ y = p * q + r
  <2>1. y \div p \in Int /\ y % p \in 0..(p - 1) /\ y = p * (y \div p) + (y % p)
    BY Division
  <2> QED
    BY <1>1, <2>1
<1>3. s \in Int /\ b \in 0..1 /\ q = 2 * s + b
  <2> HIDE DEF q
  <2> QED
    BY <1>2
<1>4. (y \div 2^n) % 2 = 1 <=> b = 1
  OBVIOUS
<1>5. q \in Nat
  <2>1. ASSUME q < 0 PROVE FALSE
    <3>1. (-1) - q \in Nat /\ p * ((-1) - q) \in Nat
      BY <1>1, <1>2, <2>1
    <3> HIDE DEF q
    <3>2. p * ((-1) - q) = -p - (p * q) /\ p * q \in Int
      BY <1>1, <1>2
    <3> QED
      BY <1>1, <1>2, <3>1, <3>2
  <2> QED
    BY <1>2, <2>1
<1> HIDE DEF q, r, s, b
<1>6. p * q \in Nat /\ (q >= 1 => p <= p * q)
  <2>1. q >= 1 => p * (q - 1) \in Nat /\ p * (q - 1) = p * q - p
    BY <1>1, <1>5
  <2> QED
    BY <1>1, <1>5, <2>1
<1>7. y % (2 * p) = p * b + r
  <2>1. 2 * p \in Nat \ {0} /\ p * b + r \in 0..(2 * p - 1)
    BY <1>1, <1>2, <1>3
  <2>2. y = (2 * p) * s + (p * b + r)
    <3>1. p * q = p * (2 * s) + p * b
      BY <1>1, <1>3
    <3>2. p * (2 * s) = (2 * p) * s /\ p * (2 * s) \in Int
      BY <1>1, <1>3
    <3> QED
      BY <1>1, <1>2, <1>3, <3>1, <3>2
  <2>3. ((2 * p) * s + (p * b + r)) % (2 * p) = p * b + r
    BY <1>3, <2>1, DivisionIsUnique
  <2> QED
    BY <2>2, <2>3
<1>8. p * b = IF b = 1 THEN p ELSE 0
  BY <1>1, <1>3
<1>9. b = 1 => q >= 1
  BY <1>3, <1>5
<1>10. y % 2^n = r
  BY DEF r
<1> QED
  BY <1>1, <1>2, <1>3, <1>4, <1>6, <1>7, <1>8, <1>9, <1>10
=============================================================================
