--------------------------- MODULE OSProgram_proofs ---------------------------
(***************************************************************************)
(* What a call of the operating system promises, whatever the keys and the *)
(* messages, the sizes of the screen, of its words and frames, and of the  *)
(* line are.  Reading a line; the drawing of a row, a box and a character; *)
(* the echo.                                                               *)
(***************************************************************************)
EXTENDS OSProgram, NaturalLemmas, SequenceTheorems, FiniteSetTheorems, TLAPS

-----------------------------------------------------------------------------
(* The arithmetic, for every size of a word.                               *)

LEMMA Sizes ==
    /\ WordSize \in 4..16
    /\ MINIMUM \in Nat \ {0} /\ Size = 2 * MINIMUM /\ Size \in Nat \ {0}
    /\ Size \div 2 = MINIMUM
    /\ Numbers = 0..(2 * MINIMUM - 1)
<1>1. WordSize \in 4..16 /\ Sign \in 0..15 /\ Sign + 1 = WordSize
  BY ONLY WordSizeAssumption DEF Sign
<1>2. MINIMUM \in Nat \ {0} /\ Size = 2 * MINIMUM
  BY ONLY <1>1, Powers DEF MINIMUM, Size
<1>3. Size \div 2 = MINIMUM
  BY ONLY <1>2
<1> QED
  BY ONLY <1>1, <1>2, <1>3 DEF Numbers

\* Two integers that are the same word.
Same(a, b) == \E k \in Int : a = Size * k + b

LEMMA WrapIs ==
    ASSUME NEW n \in Int
    PROVE  Wrap(n) \in Numbers /\ Same(n, Wrap(n))
<1>1. n \div Size \in Int /\ n % Size \in 0..(Size - 1) /\ n = Size * (n \div Size) + (n % Size)
  BY ONLY Sizes, Division
<1> QED
  BY ONLY <1>1 DEF Wrap, Numbers, Same

LEMMA SameIsWrap ==
    ASSUME NEW a \in Int, NEW b \in Numbers, Same(a, b)
    PROVE  Wrap(a) = b
<1>1. PICK k \in Int : a = Size * k + b
  BY DEF Same
<1> QED
  BY ONLY <1>1, Sizes, DivisionIsUnique DEF Wrap, Numbers

LEMMA WrapOfWord ==
    ASSUME NEW n \in Numbers
    PROVE  Wrap(n) = n /\ n \in Int
<1>1. n = Size * 0 + n /\ n \in Int
  BY ONLY Sizes DEF Numbers
<1>2. Same(n, n)
  BY ONLY <1>1 DEF Same
<1> QED
  BY ONLY <1>1, <1>2, SameIsWrap

LEMMA SameSymmetric ==
    ASSUME NEW a \in Int, NEW b \in Int, Same(a, b)
    PROVE  Same(b, a)
<1>1. PICK k \in Int : a = Size * k + b
  BY DEF Same
<1>2. Size * (-k) = -(Size * k) /\ Size * k \in Int
  BY ONLY Sizes
<1>3. b = Size * (-k) + a /\ -k \in Int
  BY ONLY <1>1, <1>2
<1> QED
  BY ONLY <1>3 DEF Same

LEMMA SameTransitive ==
    ASSUME NEW a \in Int, NEW b \in Int, NEW c \in Int, Same(a, b), Same(b, c)
    PROVE  Same(a, c)
<1>1. PICK k \in Int : a = Size * k + b
  BY DEF Same
<1>2. PICK m \in Int : b = Size * m + c
  BY DEF Same
<1>3. Size * (k + m) = Size * k + Size * m /\ Size * k \in Int /\ Size * m \in Int
  BY ONLY Sizes
<1>4. a = Size * (k + m) + c /\ k + m \in Int
  BY ONLY <1>1, <1>2, <1>3
<1> QED
  BY ONLY <1>4 DEF Same

LEMMA SameWrap ==
    ASSUME NEW a \in Int, NEW b \in Int, Same(a, b)
    PROVE  Wrap(a) = Wrap(b)
<1>1. Wrap(b) \in Numbers /\ Same(b, Wrap(b)) /\ Wrap(b) \in Int
  BY ONLY WrapIs, WrapOfWord
<1>2. Same(a, Wrap(b))
  BY <1>1, SameTransitive
<1> QED
  BY ONLY <1>1, <1>2, SameIsWrap

(* Sums, differences and products of words are those of the numbers.       *)
LEMMA SameArithmetic ==
    ASSUME NEW a \in Int, NEW b \in Int, NEW c \in Int, NEW d \in Int, Same(a, b), Same(c, d)
    PROVE  /\ Same(a + c, b + d) /\ Same(a - c, b - d) /\ Same(a * c, b * d) /\ Same(-a, -b)
<1>1. PICK k \in Int : a = Size * k + b
  BY DEF Same
<1>2. PICK m \in Int : c = Size * m + d
  BY DEF Same
<1>3. Size \in Int
  BY ONLY Sizes
<1>4. Same(a + c, b + d)
  <2>1. Size * (k + m) = Size * k + Size * m /\ Size * k \in Int /\ Size * m \in Int
    BY ONLY <1>3
  <2>2. a + c = Size * (k + m) + (b + d) /\ k + m \in Int
    BY ONLY <1>1, <1>2, <2>1
  <2> QED
    BY ONLY <2>2 DEF Same
<1>5. Same(a - c, b - d)
  <2>1. Size * (k - m) = Size * k - Size * m /\ Size * k \in Int /\ Size * m \in Int
    BY ONLY <1>3
  <2>2. a - c = Size * (k - m) + (b - d) /\ k - m \in Int
    BY ONLY <1>1, <1>2, <2>1
  <2> QED
    BY ONLY <2>2 DEF Same
<1>6. Same(a * c, b * d)
  <2>1. a * c = Size * (k * c + b * m) + b * d
    <3>1. a * c = (Size * k) * c + b * c
      BY ONLY <1>1, <1>3
    <3>2. b * c = b * (Size * m) + b * d
      BY ONLY <1>2, <1>3
    <3>3. (Size * k) * c = Size * (k * c) /\ b * (Size * m) = Size * (b * m)
      BY ONLY <1>3
    <3>4. Size * (k * c + b * m) = Size * (k * c) + Size * (b * m)
      BY ONLY <1>3
    <3>5. Size * (k * c) \in Int /\ Size * (b * m) \in Int /\ b * d \in Int
      BY ONLY <1>3
    <3> QED
      BY ONLY <3>1, <3>2, <3>3, <3>4, <3>5
  <2>2. k * c + b * m \in Int
    OBVIOUS
  <2> QED
    BY ONLY <2>1, <2>2 DEF Same
<1>7. Same(-a, -b)
  <2>1. Size * (-k) = -(Size * k) /\ Size * k \in Int
    BY ONLY <1>3
  <2>2. -a = Size * (-k) + (-b) /\ -k \in Int
    BY ONLY <1>1, <2>1
  <2> QED
    BY ONLY <2>2 DEF Same
<1> QED
  BY ONLY <1>4, <1>5, <1>6, <1>7

-----------------------------------------------------------------------------
(* Signs and comparisons.                                                  *)

LEMMA SignedIs ==
    ASSUME NEW x \in Numbers
    PROVE  /\ x \in Int
           /\ Signed(x) = IF x < MINIMUM THEN x ELSE x - 2 * MINIMUM
           /\ Signed(x) \in (-MINIMUM)..(MINIMUM - 1)
           /\ Same(x, Signed(x))
<1>1. MINIMUM \in Nat \ {0} /\ x \in 0..(2 * MINIMUM - 1)
  BY ONLY Sizes
<1>2. Signed(x) = IF x < MINIMUM THEN x ELSE x - 2 * MINIMUM
  BY ONLY <1>1, Sizes DEF Signed, IsNegative
<1>3. Size * 0 = 0 /\ Size * 1 = 2 * MINIMUM
  BY ONLY Sizes
<1>4. CASE x < MINIMUM
  <2>1. x = Size * 0 + Signed(x)
    BY ONLY <1>1, <1>2, <1>3, <1>4
  <2> QED
    BY ONLY <1>1, <1>2, <1>4, <2>1 DEF Same
<1>5. CASE ~(x < MINIMUM)
  <2>1. x = Size * 1 + Signed(x)
    BY ONLY <1>1, <1>2, <1>3, <1>5
  <2> QED
    BY ONLY <1>1, <1>2, <1>5, <2>1 DEF Same
<1> QED
  BY ONLY <1>4, <1>5

\* A difference that fits a word has its sign.
LEMMA SignOfWrap ==
    ASSUME NEW n \in (-MINIMUM)..(MINIMUM - 1)
    PROVE  /\ n \in Int
           /\ IsNegative(Wrap(n)) <=> n < 0
           /\ Wrap(n) = IF n < 0 THEN n + 2 * MINIMUM ELSE n
           /\ Signed(Wrap(n)) = n
<1>1. MINIMUM \in Nat \ {0} /\ n \in Int
  BY ONLY Sizes
<1> DEFINE w == IF n < 0 THEN n + 2 * MINIMUM ELSE n
<1>2. w \in Numbers /\ (w < MINIMUM <=> ~(n < 0))
  BY ONLY <1>1, Sizes
<1>3. Same(n, w)
  <2>1. Size * 0 = 0 /\ Size * (-1) = -(2 * MINIMUM)
    BY ONLY Sizes
  <2>2. n = Size * (IF n < 0 THEN -1 ELSE 0) + w
    BY ONLY <1>1, <2>1
  <2> QED
    BY ONLY <2>2 DEF Same
<1>4. Wrap(n) = w
  <2> HIDE DEF w
  <2> QED
    BY ONLY <1>1, <1>2, <1>3, SameIsWrap
<1>5. IsNegative(w) <=> n < 0
  BY ONLY <1>1, <1>2, Sizes DEF IsNegative
<1>6. Signed(w) = n
  BY ONLY <1>1, <1>2, <1>5, Sizes DEF Signed
<1> QED
  BY ONLY <1>1, <1>4, <1>5, <1>6

LEMMA LessIs ==
    ASSUME NEW x \in Int, NEW y \in Int, x - y \in (-MINIMUM)..(MINIMUM - 1)
    PROVE  Less(x, y) <=> x < y
<1>1. IsNegative(Wrap(x - y)) <=> x - y < 0
  BY SignOfWrap
<1> QED
  BY ONLY <1>1 DEF Less

LEMMA LessSigned ==
    ASSUME NEW x \in Numbers, NEW y \in Numbers,
           Signed(x) - Signed(y) \in (-MINIMUM)..(MINIMUM - 1)
    PROVE  Less(x, y) <=> Signed(x) < Signed(y)
<1>1. /\ x \in Int /\ Signed(x) \in Int /\ Same(x, Signed(x))
      /\ y \in Int /\ Signed(y) \in Int /\ Same(y, Signed(y))
  BY ONLY SignedIs, Sizes
<1>2. Same(x - y, Signed(x) - Signed(y))
  BY ONLY <1>1, SameArithmetic
<1>3. Wrap(x - y) = Wrap(Signed(x) - Signed(y))
  BY ONLY <1>1, <1>2, SameWrap
<1>4. IsNegative(Wrap(Signed(x) - Signed(y))) <=> Signed(x) - Signed(y) < 0
  BY SignOfWrap
<1> QED
  BY ONLY <1>1, <1>3, <1>4 DEF Less

LEMMA Signs ==
    ASSUME NEW x \in Numbers
    PROVE  /\ Less(x, 0) <=> Signed(x) < 0
           /\ Greater(x, 0) <=> Signed(x) > 0
<1>1. 0 \in Numbers /\ Signed(0) = 0 /\ Signed(x) - 0 = Signed(x) /\ Signed(x) \in Int
  BY ONLY SignedIs, Sizes
<1>2. Less(x, 0) <=> Signed(x) < 0
  BY ONLY <1>1, SignedIs, LessSigned
<1>3. x = 0 <=> Signed(x) = 0
  BY ONLY SignedIs, Sizes
<1> QED
  BY ONLY <1>1, <1>2, <1>3 DEF Greater

LEMMA OppositeIs ==
    ASSUME NEW x \in Numbers, NEW y \in Numbers
    PROVE  Opposite(x, y) <=> \/ Signed(x) < 0 /\ Signed(y) > 0
                              \/ Signed(x) > 0 /\ Signed(y) < 0
  BY ONLY Signs DEF Opposite

LEMMA AbsIs ==
    ASSUME NEW x \in Numbers
    PROVE  /\ abs(x) = Magnitude(Signed(x))
           /\ abs(x) \in 0..MINIMUM /\ abs(x) \in Numbers
           /\ abs(x) = MINIMUM <=> x = MINIMUM
<1>1. MINIMUM \in Nat \ {0} /\ x \in 0..(2 * MINIMUM - 1) /\ x \in Int
  BY ONLY Sizes
<1>2. CASE x < MINIMUM
  <2>1. Signed(x) = x /\ ~Less(x, 0)
    BY ONLY <1>1, <1>2, SignedIs, Signs
  <2> QED
    BY ONLY <1>1, <1>2, <2>1, Sizes DEF abs, Magnitude
<1>3. CASE ~(x < MINIMUM)
  <2>1. Signed(x) = x - 2 * MINIMUM /\ Less(x, 0)
    BY ONLY <1>1, <1>3, SignedIs, Signs
  <2>2. Same(-x, 2 * MINIMUM - x)
    <3>1. Size * (-1) = -(2 * MINIMUM)
      BY ONLY Sizes
    <3>2. -x = Size * (-1) + (2 * MINIMUM - x)
      BY ONLY <1>1, <3>1
    <3> QED
      BY ONLY <3>2 DEF Same
  <2>3. 2 * MINIMUM - x \in Numbers /\ -x \in Int
    BY ONLY <1>1, <1>3, Sizes
  <2>4. Wrap(-x) = 2 * MINIMUM - x
    BY ONLY <2>2, <2>3, SameIsWrap
  <2> QED
    BY ONLY <1>1, <1>3, <2>1, <2>3, <2>4 DEF abs, Magnitude
<1> QED
  BY ONLY <1>2, <1>3

-----------------------------------------------------------------------------
(* The product.                                                            *)

\* The n lowest bits of a number, and the one above them.
LEMMA LowBitsOf ==
    ASSUME NEW y \in Nat, NEW n \in 0..15
    PROVE  /\ y % 2^n \in 0..y /\ y % 2^n < 2^n
           /\ y % 2^(n + 1) = IF BitOf(y, n) THEN (y % 2^n) + 2^n ELSE y % 2^n
           /\ BitOf(y, n) => (y % 2^n) + 2^n <= y
  BY ONLY LowBits DEF BitOf

\* A turn of the loop of multiply, and what it has after n turns.
Turn(x, y, n, so) ==
    IF Less(so.partialY, y) /\ BitOf(y, n - 1)
      THEN [prod |-> Wrap(so.prod + x * 2^(n - 1)),
            partialY |-> Wrap(so.partialY + twoToThe(n - 1))]
      ELSE so

Added(x, y, n) == [prod |-> Wrap(x * (y % 2^n)), partialY |-> y % 2^n]

LEMMA TurnAdds ==
    ASSUME NEW x \in Numbers, NEW y \in 0..MINIMUM, NEW n \in 1..WordSize
    PROVE  Turn(x, y, n, Added(x, y, n - 1)) = Added(x, y, n)
<1> DEFINE i == n - 1
           r == y % 2^i
<1>1. i \in 0..15 /\ i + 1 = n /\ y \in Nat /\ x \in Int /\ MINIMUM \in Nat
  BY ONLY Sizes
<1>2. PICK p \in Nat \ {0} : p = 2^i
  BY ONLY <1>1, Powers
<1>3. /\ r \in 0..y /\ r < p
      /\ y % 2^n = IF BitOf(y, i) THEN r + p ELSE r
      /\ BitOf(y, i) => r + p <= y
  BY ONLY <1>1, <1>2, LowBitsOf
<1> HIDE DEF r
<1>4. Less(r, y) <=> r < y
  <2>1. r - y \in (-MINIMUM)..(MINIMUM - 1)
    BY ONLY <1>1, <1>3, Sizes
  <2> QED
    BY ONLY <1>1, <1>3, <2>1, LessIs
<1>5. Added(x, y, i) = [prod |-> Wrap(x * r), partialY |-> r]
  BY DEF Added, r
<1>6. CASE BitOf(y, i)
  <2>1. r < y /\ r + p \in Numbers
    BY ONLY <1>1, <1>2, <1>3, <1>6, Sizes
  <2>2. Wrap(r + p) = r + p
    BY ONLY <2>1, WrapOfWord
  <2>3. Wrap(Wrap(x * r) + x * p) = Wrap(x * (r + p))
    <3>1. x * r \in Int /\ x * p \in Int /\ x * (r + p) = x * r + x * p
      BY ONLY <1>1, <1>2, <1>3
    <3>2. Wrap(x * r) \in Int /\ Same(x * r, Wrap(x * r))
      BY ONLY <3>1, WrapIs, WrapOfWord
    <3>3. Same(x * p, x * p)
      <4>1. x * p = Size * 0 + x * p
        BY ONLY <3>1, Sizes
      <4> QED
        BY ONLY <4>1 DEF Same
    <3>4. Same(x * r + x * p, Wrap(x * r) + x * p)
      BY ONLY <3>1, <3>2, <3>3, SameArithmetic
    <3>5. Wrap(x * r + x * p) = Wrap(Wrap(x * r) + x * p)
      BY ONLY <3>1, <3>2, <3>4, SameWrap
    <3> QED
      BY ONLY <3>1, <3>5
  <2>4. Turn(x, y, n, Added(x, y, i)) =
          [prod |-> Wrap(Wrap(x * r) + x * p), partialY |-> Wrap(r + p)]
    BY ONLY <1>2, <1>4, <1>5, <1>6, <2>1 DEF Turn, twoToThe
  <2> QED
    BY ONLY <1>3, <1>6, <2>2, <2>3, <2>4 DEF Added
<1>7. CASE ~BitOf(y, i)
  <2>1. Turn(x, y, n, Added(x, y, i)) = Added(x, y, i)
    BY ONLY <1>7 DEF Turn
  <2> QED
    BY ONLY <1>3, <1>5, <1>7, <2>1 DEF Added
<1> QED
  BY ONLY <1>6, <1>7

LEMMA AddsProduct ==
    ASSUME NEW x \in Numbers, NEW y \in 0..MINIMUM
    PROVE  AddShifted(x, y) = Wrap(x * y)
<1> DEFINE F(f) == [n \in 0..WordSize |->
                      IF n = 0 THEN [prod |-> 0, partialY |-> 0] ELSE Turn(x, y, n, f[n - 1])]
           added == CHOOSE f : f = F(f)
           g == [n \in 0..WordSize |-> Added(x, y, n)]
<1>1. WordSize \in 4..16 /\ x \in Int /\ y \in Nat
  BY ONLY Sizes
<1>2. Added(x, y, 0) = [prod |-> 0, partialY |-> 0]
  <2>1. 2^0 = 1 /\ y % 1 = 0
    <3>1. y = 1 * y + 0
      BY ONLY <1>1
    <3>2. (1 * y + 0) % 1 = 0
      BY ONLY <1>1, DivisionIsUnique
    <3> QED
      BY ONLY <3>1, <3>2
  <2>2. Wrap(0) = 0
    BY ONLY Sizes, WrapOfWord
  <2> QED
    BY ONLY <1>1, <2>1, <2>2 DEF Added
<1>3. \A n \in 0..WordSize : n # 0 => n \in 1..WordSize /\ n - 1 \in 0..WordSize
  BY ONLY <1>1
<1>4. g = F(g)
  <2>1. \A n \in 0..WordSize : g[n] = F(g)[n]
    BY ONLY <1>2, <1>3, TurnAdds
  <2> QED
    BY ONLY <2>1
<1>5. added = F(added)
  <2> HIDE DEF g
  <2> QED
    BY ONLY <1>4
<1>6. 0..WordSize \subseteq {n \in 0..WordSize : added[n] = Added(x, y, n)}
  <2> DEFINE S == {n \in 0..WordSize : added[n] = Added(x, y, n)}
  <2> HIDE DEF added
  <2>1. 0 \in S
    BY ONLY <1>1, <1>2, <1>5
  <2>2. ASSUME NEW n \in 0..WordSize, n \in S, n + 1 \in 0..WordSize
        PROVE  n + 1 \in S
    <3>1. n + 1 # 0 /\ (n + 1) - 1 = n
      BY ONLY <1>1
    <3>2. added[n + 1] = Turn(x, y, n + 1, added[n])
      BY ONLY <1>5, <2>2, <3>1
    <3> QED
      BY ONLY <1>3, <2>2, <3>1, <3>2, TurnAdds
  <2> HIDE DEF S
  <2>3. 0..WordSize \subseteq S
    BY ONLY <1>1, <2>1, <2>2, UpTo
  <2> QED
    BY ONLY <2>3 DEF S
<1>7. added[WordSize] = Added(x, y, WordSize)
  <2>1. WordSize \in 0..WordSize
    BY ONLY <1>1
  <2> HIDE DEF added
  <2> QED
    BY ONLY <1>6, <2>1
<1>8. y % 2^WordSize = y
  BY ONLY Sizes, WrapOfWord DEF Wrap, Size
<1>9. AddShifted(x, y) = added[WordSize].prod
  BY DEF AddShifted, Turn
<1> HIDE DEF added
<1> QED
  BY ONLY <1>7, <1>8, <1>9 DEF Added

LEMMA WrapNegates ==
    ASSUME NEW n \in Int
    PROVE  Wrap(-Wrap(n)) = Wrap(-n)
<1>1. Wrap(n) \in Int /\ Same(n, Wrap(n)) /\ -n \in Int /\ -Wrap(n) \in Int
  BY ONLY WrapIs, WrapOfWord
<1>2. Same(-n, -Wrap(n))
  BY ONLY <1>1, SameArithmetic
<1> QED
  BY ONLY <1>1, <1>2, SameWrap

LEMMA Multiplies ==
    ASSUME NEW x \in Numbers, NEW y \in Numbers
    PROVE  multiply(x, y) = Wrap(Signed(x) * Signed(y))
<1> DEFINE m == Signed(x)
           n == Signed(y)
           a == abs(x)
           b == abs(y)
           prod == IF Less(a, b) THEN AddShifted(b, a) ELSE AddShifted(a, b)
<1>1. /\ m \in Int /\ n \in Int /\ (x = 0 <=> m = 0) /\ (y = 0 <=> n = 0)
      /\ a \in Nat /\ a \in Numbers /\ a \in 0..MINIMUM
      /\ a = (IF m < 0 THEN -m ELSE m)
      /\ b \in Nat /\ b \in Numbers /\ b \in 0..MINIMUM
      /\ b = (IF n < 0 THEN -n ELSE n)
  <2>1. /\ m \in Int /\ (x = 0 <=> m = 0) /\ n \in Int /\ (y = 0 <=> n = 0)
    BY ONLY SignedIs, Sizes
  <2>2. a = (IF m < 0 THEN -m ELSE m) /\ b = (IF n < 0 THEN -n ELSE n)
    BY ONLY AbsIs DEF Magnitude
  <2>3. a \in Numbers /\ a \in 0..MINIMUM /\ b \in Numbers /\ b \in 0..MINIMUM
    BY ONLY AbsIs
  <2>4. a \in Nat /\ b \in Nat
    BY ONLY <2>3, Sizes
  <2> QED
    BY ONLY <2>1, <2>2, <2>3, <2>4
<1>2. Opposite(x, y) <=> (m < 0 /\ n > 0) \/ (m > 0 /\ n < 0)
  BY ONLY OppositeIs
<1>3. multiply(x, y) = IF x = 0 \/ y = 0 THEN 0
                       ELSE IF Opposite(x, y) THEN Wrap(-prod) ELSE prod
  BY DEF multiply
<1>4. prod = Wrap(a * b)
  <2>1. AddShifted(a, b) = Wrap(a * b) /\ AddShifted(b, a) = Wrap(b * a)
    BY ONLY <1>1, AddsProduct
  <2> HIDE DEF a, b
  <2>2. a * b = b * a
    BY ONLY <1>1
  <2> QED
    BY ONLY <2>1, <2>2
<1> HIDE DEF prod, a, b, m, n
<1>5. CASE x = 0 \/ y = 0
  <2>1. m * n = 0
    BY ONLY <1>1, <1>5
  <2>2. Wrap(0) = 0
    BY ONLY Sizes, WrapOfWord
  <2> QED
    BY ONLY <1>3, <1>5, <2>1, <2>2 DEF m, n
<1>6. CASE ~(x = 0 \/ y = 0) /\ Opposite(x, y)
  <2>1. a * b = -(m * n) /\ m * n \in Int /\ a * b \in Int
    <3>1. CASE m < 0 /\ n > 0
      <4>1. a = -m /\ b = n
        BY ONLY <1>1, <3>1
      <4>2. (-m) * n = -(m * n) /\ m * n \in Int
        BY ONLY <1>1
      <4> QED
        BY ONLY <4>1, <4>2
    <3>2. CASE m > 0 /\ n < 0
      <4>1. a = m /\ b = -n
        BY ONLY <1>1, <3>2
      <4>2. m * (-n) = -(m * n) /\ m * n \in Int
        BY ONLY <1>1
      <4> QED
        BY ONLY <4>1, <4>2
    <3> QED
      BY ONLY <1>2, <1>6, <3>1, <3>2
  <2>2. -(a * b) = m * n
    BY ONLY <2>1
  <2>3. Wrap(-Wrap(a * b)) = Wrap(-(a * b))
    BY ONLY <2>1, WrapNegates
  <2> QED
    BY ONLY <1>3, <1>4, <1>6, <2>2, <2>3 DEF m, n
<1>7. CASE ~(x = 0 \/ y = 0) /\ ~Opposite(x, y)
  <2>1. a * b = m * n
    <3>1. CASE m < 0 /\ n < 0
      <4>1. a = -m /\ b = -n
        BY ONLY <1>1, <3>1
      <4>2. (-m) * (-n) = m * n
        BY ONLY <1>1
      <4> QED
        BY ONLY <4>1, <4>2
    <3>2. CASE m > 0 /\ n > 0
      BY ONLY <1>1, <3>2
    <3> QED
      BY ONLY <1>1, <1>2, <1>7, <3>1, <3>2
  <2> QED
    BY ONLY <1>3, <1>4, <1>7, <2>1 DEF m, n
<1> QED
  BY ONLY <1>5, <1>6, <1>7

-----------------------------------------------------------------------------
(* The quotient.                                                           *)

\* What dividePos makes of the quotient by the doubled divisor.
Nearer(x, d, q) ==
    LET tmp == multiply(d, q)
        reminder == Wrap(x - Wrap(tmp + tmp))
    IN  IF Less(reminder, d) THEN Wrap(q + q) ELSE Wrap(q + q + 1)

Refined(x, d, f) ==
    IF d = 0 THEN Error(3)
    ELSE IF Greater(d, x) \/ IsNegative(d) THEN 0
    ELSE Nearer(x, d, f[Wrap(d + d)])

\* The natural number q is the quotient of x by d.
LEMMA QuotientIs ==
    ASSUME NEW x \in Int, NEW d \in Nat \ {0}, NEW q \in Int,
           d * q <= x, x < d * q + d
    PROVE  x \div d = q
<1>1. d * q \in Int /\ x - d * q \in 0..(d - 1) /\ d * q + (x - d * q) = x
  OBVIOUS
<1>2. (d * q + (x - d * q)) \div d = q
  BY ONLY <1>1, DivisionIsUnique
<1> QED
  BY ONLY <1>1, <1>2

LEMMA SmallQuotient ==
    ASSUME NEW x \in Nat, NEW d \in Nat \ {0}
    PROVE  x \div d \in 0..x
<1> DEFINE q == x \div d
<1>1. q \in Int /\ x % d \in 0..(d - 1) /\ x = d * q + (x % d)
  BY ONLY Division
<1> HIDE DEF q
<1>2. ASSUME q < 0 PROVE FALSE
  <2>1. (-1) - q \in Nat /\ d * ((-1) - q) \in Nat
    BY ONLY <1>1, <1>2
  <2>2. d * ((-1) - q) = -d - (d * q) /\ d * q \in Int
    BY ONLY <1>1
  <2> QED
    BY ONLY <1>1, <2>1, <2>2
<1>3. ASSUME q > x PROVE FALSE
  <2>1. (d - 1) * q \in Nat /\ (d - 1) * q = d * q - q
    BY ONLY <1>1, <1>3
  <2> QED
    BY ONLY <1>1, <1>3, <2>1
<1> QED
  BY ONLY <1>1, <1>2, <1>3 DEF q

LEMMA NearerIs ==
    ASSUME NEW x \in 0..(MINIMUM - 1), NEW d \in 1..x
    PROVE  /\ Wrap(d + d) = d + d /\ d + d \in Numbers
           /\ Nearer(x, d, x \div (d + d)) = x \div d
<1> DEFINE q == x \div (d + d)
<1>1. MINIMUM \in Nat \ {0} /\ x \in Nat /\ d \in Nat \ {0} /\ d <= x /\ x < MINIMUM
  BY ONLY Sizes
<1>2. Wrap(d + d) = d + d /\ d + d \in Numbers
  <2>1. d + d \in Numbers
    BY ONLY <1>1, Sizes
  <2> QED
    BY ONLY <2>1, WrapOfWord
<1>3. PICK r \in 0..(d + d - 1) : x = (d + d) * q + r
  <2>1. PICK w \in Nat \ {0} : w = d + d
    BY ONLY <1>1
  <2>2. x % w \in 0..(w - 1) /\ x = w * (x \div w) + (x % w)
    BY ONLY <1>1, Division
  <2> QED
    BY ONLY <2>1, <2>2
<1>4. q \in 0..x
  BY ONLY <1>1, SmallQuotient
<1> HIDE DEF q
<1>5. (d + d) * q = d * q + d * q /\ d * q \in Nat
  BY ONLY <1>1, <1>4
<1>6. multiply(d, q) = d * q
  <2>1. d \in Numbers /\ q \in Numbers /\ d * q \in Numbers
    BY ONLY <1>1, <1>3, <1>4, <1>5, Sizes
  <2>2. Signed(d) = d /\ Signed(q) = q
    BY ONLY <1>1, <1>4, <2>1, SignedIs
  <2> QED
    BY ONLY <2>1, <2>2, Multiplies, WrapOfWord
<1>7. Wrap(d * q + d * q) = d * q + d * q
  <2>1. d * q + d * q \in Numbers
    BY ONLY <1>1, <1>3, <1>5, Sizes
  <2> QED
    BY ONLY <2>1, WrapOfWord
<1>8. Wrap(x - (d * q + d * q)) = r
  <2>1. x - (d * q + d * q) = r /\ r \in Numbers
    BY ONLY <1>1, <1>3, <1>5, Sizes
  <2> QED
    BY ONLY <2>1, WrapOfWord
<1>9. Nearer(x, d, q) = IF Less(r, d) THEN Wrap(q + q) ELSE Wrap(q + q + 1)
  BY ONLY <1>6, <1>7, <1>8 DEF Nearer
<1>10. Less(r, d) <=> r < d
  <2>1. r \in Int /\ d \in Int /\ r - d \in (-MINIMUM)..(MINIMUM - 1)
    BY ONLY <1>1, <1>3, <1>5
  <2> QED
    BY ONLY <2>1, LessIs
<1>11. q <= d * q
  <2>1. (d - 1) * q \in Nat /\ (d - 1) * q = d * q - q
    BY ONLY <1>1, <1>4
  <2> QED
    BY ONLY <1>4, <1>5, <2>1
<1>12. q + q + 1 \in Numbers /\ q + q \in Numbers
  BY ONLY <1>1, <1>3, <1>4, <1>5, <1>11, Sizes
<1>13. CASE r < d
  <2>1. d * (q + q) = d * q + d * q
    BY ONLY <1>1, <1>4
  <2>2. d * (q + q) <= x /\ x < d * (q + q) + d /\ q + q \in Int
    BY ONLY <1>1, <1>3, <1>4, <1>5, <1>13, <2>1
  <2>3. x \div d = q + q
    BY ONLY <1>1, <2>2, QuotientIs
  <2> QED
    BY ONLY <1>2, <1>9, <1>10, <1>12, <1>13, <2>3, WrapOfWord DEF q
<1>14. CASE ~(r < d)
  <2>1. PICK k \in Nat : k = q + q + 1
    BY ONLY <1>4
  <2>2. d * (q + q + 1) = d * q + d * q + d
    BY ONLY <1>1, <1>4
  <2>3. d * k <= x /\ x < d * k + d
    BY ONLY <1>1, <1>3, <1>4, <1>5, <1>14, <2>1, <2>2
  <2>4. x \div d = k
    BY ONLY <1>1, <2>3, QuotientIs
  <2> QED
    BY ONLY <1>2, <1>9, <1>10, <1>12, <1>14, <2>1, <2>4, WrapOfWord DEF q
<1> QED
  BY ONLY <1>13, <1>14

LEMMA RefinedIs ==
    ASSUME NEW x \in 0..(MINIMUM - 1), NEW d \in Numbers \ {0}, NEW f,
           d <= x => f[d + d] = x \div (d + d)
    PROVE  Refined(x, d, f) = x \div d
<1>1. MINIMUM \in Nat \ {0} /\ x \in Nat /\ d \in Nat \ {0} /\ x < MINIMUM
  BY ONLY Sizes
<1>2. CASE d > x
  <2>1. x \div d = 0
    <3>1. d * 0 = 0
      BY ONLY <1>1
    <3> QED
      BY ONLY <1>1, <1>2, <3>1, QuotientIs
  <2>2. Greater(d, x) \/ IsNegative(d)
    <3>1. CASE d < MINIMUM
      <4>1. d - x \in (-MINIMUM)..(MINIMUM - 1)
        BY ONLY <1>1, <3>1
      <4> QED
        BY ONLY <1>1, <1>2, <4>1, LessIs DEF Greater
    <3>2. CASE ~(d < MINIMUM)
      BY ONLY <1>1, <3>2, Sizes DEF IsNegative
    <3> QED
      BY ONLY <3>1, <3>2
  <2> QED
    BY ONLY <1>1, <2>1, <2>2 DEF Refined
<1>3. CASE ~(d > x)
  <2>1. d \in 1..x
    BY ONLY <1>1, <1>3
  <2>2. ~Greater(d, x)
    <3>1. d - x \in (-MINIMUM)..(MINIMUM - 1)
      BY ONLY <1>1, <2>1
    <3>2. d = x \/ d < x
      BY ONLY <1>1, <2>1
    <3> QED
      BY ONLY <1>1, <3>1, <3>2, LessIs DEF Greater
  <2>3. ~IsNegative(d)
    BY ONLY <1>1, <2>1, Sizes DEF IsNegative
  <2>4. Wrap(d + d) = d + d /\ Nearer(x, d, x \div (d + d)) = x \div d
    BY ONLY <2>1, NearerIs
  <2> QED
    BY <1>1, <2>1, <2>2, <2>3, <2>4 DEF Refined
<1> QED
  BY ONLY <1>2, <1>3

LEMMA Divides ==
    ASSUME NEW x \in 0..(MINIMUM - 1), NEW y \in Numbers \ {0}
    PROVE  dividePos(x, y) = x \div y
<1> DEFINE F(f) == [d \in Numbers |-> Refined(x, d, f)]
           quotient == CHOOSE f : f = F(f)
           g == [d \in Numbers |-> IF d = 0 THEN Error(3) ELSE x \div d]
<1>1. \A d \in Numbers \ {0} : d <= x => d + d \in Numbers \ {0}
  <2> TAKE d \in Numbers \ {0}
  <2> HAVE d <= x
  <2> QED
    BY Sizes
<1>2. g = F(g)
  <2>1. ASSUME NEW d \in Numbers
        PROVE  g[d] = F(g)[d]
    <3>1. CASE d = 0
      BY ONLY <3>1 DEF Refined
    <3>2. CASE d # 0
      <4>1. d <= x => g[d + d] = x \div (d + d)
        BY ONLY <1>1, <3>2
      <4>2. g[d] = x \div d
        BY ONLY <3>2
      <4> HIDE DEF g
      <4>3. Refined(x, d, g) = x \div d
        BY ONLY <3>2, <4>1, RefinedIs
      <4> QED
        BY ONLY <4>2, <4>3
    <3> QED
      BY ONLY <3>1, <3>2
  <2> QED
    BY ONLY <2>1
<1>3. quotient = F(quotient)
  <2> HIDE DEF g
  <2> QED
    BY ONLY <1>2
<1> HIDE DEF quotient
<1> DEFINE T == {n \in Nat : n \in 1..(Size - 1) /\ quotient[Size - n] # x \div (Size - n)}
<1>4. T = {}
  <2> SUFFICES ASSUME T # {} PROVE FALSE
    OBVIOUS
  <2>1. PICK n \in T : \A m \in T : n <= m
    <3>1. T \in SUBSET Nat
      OBVIOUS
    <3> HIDE DEF T
    <3> QED
      BY <3>1, LeastNatural
  <2>2. PICK d \in Numbers \ {0} : d = Size - n
    <3>1. n \in 1..(Size - 1)
      BY ONLY <2>1
    <3>2. Size - n \in Numbers \ {0}
      BY ONLY <3>1, Sizes
    <3> QED
      BY ONLY <3>2
  <2>3. d <= x => quotient[d + d] = x \div (d + d)
    <3> SUFFICES ASSUME d <= x, quotient[d + d] # x \div (d + d) PROVE FALSE
      OBVIOUS
    <3>1. d + d \in Numbers \ {0}
      BY <1>1
    <3>2. Size - (d + d) \in 1..(Size - 1) /\ Size - (Size - (d + d)) = d + d
      BY ONLY <3>1, Sizes
    <3>3. Size - (d + d) \in T
      BY <3>2
    <3>4. ~(n <= Size - (d + d))
      BY ONLY <2>1, <2>2, <3>1, Sizes
    <3> QED
      BY ONLY <2>1, <3>3, <3>4
  <2>4. quotient[d] = x \div d
    BY ONLY <1>3, <2>2, <2>3, RefinedIs
  <2> QED
    BY ONLY <2>1, <2>2, <2>4
<1>5. quotient[y] = x \div y
  <2> SUFFICES ASSUME quotient[y] # x \div y PROVE FALSE
    OBVIOUS
  <2>1. Size - y \in 1..(Size - 1) /\ Size - (Size - y) = y
    BY ONLY Sizes
  <2>2. Size - y \in T
    BY <2>1
  <2> QED
    BY ONLY <1>4, <2>2
<1>6. dividePos(x, y) = quotient[y]
  BY DEF dividePos, Refined, Nearer, quotient
<1> QED
  BY ONLY <1>5, <1>6

LEMMA ProductSign ==
    ASSUME NEW m \in Int, NEW n \in Int
    PROVE  m * n < 0 <=> (m < 0 /\ n > 0) \/ (m > 0 /\ n < 0)
<1>1. \A j, k \in Nat \ {0} : j * k > 0 /\ (-j) * k = -(j * k) /\ j * (-k) = -(j * k)
                              /\ (-j) * (-k) = j * k
  OBVIOUS
<1>2. CASE m = 0 \/ n = 0
  BY ONLY <1>2
<1>3. CASE m < 0 /\ n > 0
  <2>1. -m \in Nat \ {0} /\ n \in Nat \ {0} /\ m = -(-m)
    BY ONLY <1>3
  <2> QED
    BY ONLY <1>1, <1>3, <2>1
<1>4. CASE m > 0 /\ n < 0
  <2>1. m \in Nat \ {0} /\ -n \in Nat \ {0} /\ n = -(-n)
    BY ONLY <1>4
  <2> QED
    BY ONLY <1>1, <1>4, <2>1
<1>5. CASE m < 0 /\ n < 0
  <2>1. -m \in Nat \ {0} /\ -n \in Nat \ {0} /\ m = -(-m) /\ n = -(-n)
    BY ONLY <1>5
  <2>2. m * n > 0
    BY ONLY <1>1, <2>1
  <2> QED
    BY ONLY <1>5, <2>2
<1>6. CASE m > 0 /\ n > 0
  <2>1. m * n > 0
    BY ONLY <1>1, <1>6
  <2> QED
    BY ONLY <1>6, <2>1
<1> QED
  BY ONLY <1>2, <1>3, <1>4, <1>5, <1>6

\* The quotient of two numbers is the one of their magnitudes, with a sign.
LEMMA DividesSigned ==
    ASSUME NEW x \in Numbers, NEW y \in Numbers
    PROVE  divide(x, y) = IF y = 0 THEN Error(3) ELSE Wrap(Quotient(Signed(x), Signed(y)))
<1> DEFINE m == Signed(x)
           n == Signed(y)
           a == Magnitude(m)
           b == Magnitude(n)
           Answer(nearer, q) == IF Opposite(nearer, y) THEN Wrap(-q) ELSE q
<1>1. /\ MINIMUM \in Nat \ {0}
      /\ m \in Int /\ m \in (-MINIMUM)..(MINIMUM - 1) /\ (x = MINIMUM <=> m = -MINIMUM)
      /\ n \in Int /\ n \in (-MINIMUM)..(MINIMUM - 1) /\ (y = MINIMUM <=> n = -MINIMUM)
      /\ (y = 0 <=> n = 0)
  BY ONLY SignedIs, Sizes
<1>2. /\ a \in 0..MINIMUM /\ a \in Nat /\ (x = MINIMUM <=> a = MINIMUM)
      /\ b \in 0..MINIMUM /\ b \in Nat /\ (y = MINIMUM <=> b = MINIMUM)
      /\ (y = 0 <=> b = 0)
  BY ONLY <1>1 DEF Magnitude
<1>3. abs(x) = a /\ abs(y) = b
  BY ONLY AbsIs
<1>4. Opposite(x, y) <=> m * n < 0
  BY ONLY <1>1, OppositeIs, ProductSign
<1>5. Quotient(m, n) = IF m * n < 0 THEN -(a \div b) ELSE a \div b
  BY DEF Quotient
<1> HIDE DEF m, n, a, b
<1>6. CASE y = 0
  BY ONLY <1>6 DEF divide
<1>7. CASE y = MINIMUM
  <2>1. divide(x, y) = IF x = MINIMUM THEN 1 ELSE 0
    BY ONLY <1>1, <1>7 DEF divide
  <2>2. Wrap(0) = 0 /\ Wrap(1) = 1
    <3>1. 0 \in Numbers /\ 1 \in Numbers
      BY ONLY Sizes
    <3> QED
      BY ONLY <3>1, WrapOfWord
  <2>3. b = MINIMUM /\ n < 0
    BY ONLY <1>1, <1>2, <1>7
  <2>4. CASE x = MINIMUM
    <3>1. a \div b = 1
      <4>1. b * 1 = b /\ b \in Nat \ {0} /\ a = b
        BY ONLY <1>1, <1>2, <2>3, <2>4
      <4> QED
        BY ONLY <1>1, <4>1, QuotientIs
    <3>2. ~(m * n < 0)
      BY ONLY <1>1, <2>3, <2>4, ProductSign
    <3> QED
      BY ONLY <1>1, <1>5, <1>7, <2>1, <2>2, <2>4, <3>1, <3>2 DEF m, n
  <2>5. CASE x # MINIMUM
    <3>1. a \div b = 0
      <4>1. b * 0 = 0 /\ b \in Nat \ {0} /\ a < b
        BY ONLY <1>1, <1>2, <2>3, <2>5
      <4> QED
        BY ONLY <1>2, <4>1, QuotientIs
    <3>2. Quotient(m, n) = 0
      BY ONLY <1>5, <3>1
    <3> QED
      BY ONLY <1>1, <1>7, <2>1, <2>2, <2>5, <3>2 DEF m, n
  <2> QED
    BY ONLY <2>4, <2>5
<1>8. CASE y # 0 /\ y # MINIMUM
  <2>1. b \in Nat \ {0} /\ b < MINIMUM /\ b \in Numbers \ {0}
    BY ONLY <1>1, <1>2, <1>8, Sizes
  <2>2. a \div b \in 0..a
    BY ONLY <1>2, <2>1, SmallQuotient
  <2>3. a \div b \in Numbers /\ a \div b \in Int
    BY ONLY <1>1, <1>2, <2>2, Sizes
  <2>4. Wrap(a \div b) = a \div b
    BY ONLY <2>3, WrapOfWord
  <2>5. CASE x # MINIMUM
    <3>1. dividePos(a, b) = a \div b
      <4>1. a \in 0..(MINIMUM - 1)
        BY ONLY <1>1, <1>2, <2>5
      <4> QED
        BY ONLY <2>1, <4>1, Divides
    <3>2. divide(x, y) = Answer(x, Wrap(0 + dividePos(a, b)))
      BY ONLY <1>3, <1>8, <2>5 DEF divide
    <3>3. 0 + (a \div b) = a \div b
      BY ONLY <2>3
    <3>4. divide(x, y) = IF Opposite(x, y) THEN Wrap(-(a \div b)) ELSE a \div b
      BY ONLY <2>4, <3>1, <3>2, <3>3
    <3> QED
      BY ONLY <1>4, <1>5, <1>8, <2>4, <3>4 DEF m, n
  <2>6. CASE x = MINIMUM
    <3>1. PICK z \in Numbers : z = MINIMUM + b /\ Wrap(x + b) = z
      <4>1. MINIMUM + b \in Numbers
        BY ONLY <1>1, <2>1, Sizes
      <4> QED
        BY ONLY <2>6, <4>1, WrapOfWord
    <3>2. Signed(z) = b - MINIMUM /\ Signed(z) < 0
      BY ONLY <1>1, <2>1, <3>1, SignedIs
    <3>3. abs(z) = MINIMUM - b /\ MINIMUM - b \in 0..(MINIMUM - 1)
      <4>1. abs(z) = Magnitude(Signed(z))
        BY ONLY AbsIs
      <4> QED
        BY ONLY <1>1, <2>1, <3>2, <4>1 DEF Magnitude
    <3>4. dividePos(abs(z), b) = (MINIMUM - b) \div b
      BY ONLY <2>1, <3>3, Divides
    <3>5. 1 + ((MINIMUM - b) \div b) = a \div b
      <4> DEFINE q == (MINIMUM - b) \div b
                 r == (MINIMUM - b) % b
      <4>1. q \in Int /\ r \in 0..(b - 1) /\ MINIMUM - b = b * q + r
        <5>1. MINIMUM - b \in Int
          BY ONLY <1>1, <2>1
        <5> QED
          BY ONLY <2>1, <5>1, Division
      <4> HIDE DEF q, r
      <4>2. PICK k \in Int : k = 1 + q
        BY ONLY <4>1
      <4>3. b * k = b + b * q /\ b * q \in Int
        BY ONLY <2>1, <4>1, <4>2
      <4>4. b * k <= a /\ a < b * k + b
        BY ONLY <1>1, <1>2, <2>1, <2>6, <4>1, <4>3
      <4>5. a \div b = k
        BY ONLY <1>2, <2>1, <4>4, QuotientIs
      <4> QED
        BY ONLY <4>2, <4>5 DEF q
    <3>6. divide(x, y) = Answer(z, Wrap(1 + dividePos(abs(z), b)))
      BY ONLY <1>3, <1>8, <2>6, <3>1 DEF divide
    <3>7. divide(x, y) = IF Opposite(z, y) THEN Wrap(-(a \div b)) ELSE a \div b
      BY ONLY <2>4, <3>4, <3>5, <3>6
    <3>8. Opposite(z, y) <=> m * n < 0
      <4>1. Opposite(z, y) <=> (Signed(z) < 0 /\ n > 0) \/ (Signed(z) > 0 /\ n < 0)
        BY ONLY OppositeIs DEF n
      <4>2. m < 0 /\ ~(m > 0) /\ ~(Signed(z) > 0)
        BY ONLY <1>1, <2>1, <2>6, <3>2
      <4> QED
        BY ONLY <1>1, <3>2, <4>1, <4>2, ProductSign
    <3> QED
      BY ONLY <1>5, <1>8, <2>4, <3>7, <3>8 DEF m, n
  <2> QED
    BY ONLY <2>5, <2>6
<1> QED
  BY ONLY <1>6, <1>7, <1>8

LEMMA Remains ==
    ASSUME NEW x \in Numbers, NEW y \in Numbers
    PROVE  mod(x, y) = IF y = 0 THEN Error(3)
                       ELSE Wrap(Signed(x) - Quotient(Signed(x), Signed(y)) * Signed(y))
<1> DEFINE m == Signed(x)
           n == Signed(y)
           q == Quotient(m, n)
           w == Wrap(q)
           p == multiply(w, y)
<1>1. CASE y = 0
  BY ONLY <1>1 DEF mod
<1>2. CASE y # 0
  <2>1. /\ x \in Int /\ m \in Int /\ Same(x, m)
        /\ n \in Int /\ n # 0
    BY ONLY <1>2, SignedIs, Sizes
  <2>2. q \in Int
    <3>1. Magnitude(m) \in Int /\ Magnitude(n) \in Nat \ {0}
      BY ONLY <2>1 DEF Magnitude
    <3>2. Magnitude(m) \div Magnitude(n) \in Int
      BY ONLY <3>1, Division
    <3> QED
      BY ONLY <3>2 DEF Quotient
  <2>3. divide(x, y) = w
    BY ONLY <1>2, DividesSigned
  <2>4. w \in Numbers /\ w \in Int /\ Same(q, w)
    BY ONLY <2>2, WrapIs, WrapOfWord
  <2> HIDE DEF m, n, q, w
  <2>5. Signed(w) \in Int /\ Same(w, Signed(w))
    BY ONLY <2>4, SignedIs, Sizes
  <2>6. Same(q, Signed(w))
    BY ONLY <2>2, <2>4, <2>5, SameTransitive
  <2>7. Same(n, n)
    <3>1. n = Size * 0 + n
      BY ONLY <2>1, Sizes
    <3> QED
      BY ONLY <3>1 DEF Same
  <2>8. p = Wrap(Signed(w) * n)
    BY ONLY <2>4, Multiplies DEF n
  <2>9. Same(q * n, Signed(w) * n)
    BY ONLY <2>1, <2>2, <2>5, <2>6, <2>7, SameArithmetic
  <2>10. q * n \in Int /\ Signed(w) * n \in Int
    BY ONLY <2>1, <2>2, <2>5
  <2>11. p \in Int /\ Same(Signed(w) * n, p)
    <3> DEFINE k == Signed(w) * n
    <3>1. k \in Int /\ p = Wrap(k)
      BY ONLY <2>8, <2>10
    <3> HIDE DEF k, p
    <3>2. Wrap(k) \in Numbers /\ Same(k, Wrap(k)) /\ Wrap(k) \in Int
      BY ONLY <3>1, WrapIs, WrapOfWord
    <3> QED
      BY ONLY <3>1, <3>2 DEF k
  <2> HIDE DEF p
  <2>12. Same(q * n, p)
    BY ONLY <2>9, <2>10, <2>11, SameTransitive
  <2>13. Same(x - p, m - (q * n))
    <3>1. Same(p, q * n)
      BY ONLY <2>10, <2>11, <2>12, SameSymmetric
    <3> QED
      BY ONLY <2>1, <2>10, <2>11, <3>1, SameArithmetic
  <2>14. x - p \in Int /\ m - (q * n) \in Int
    BY ONLY <2>1, <2>10, <2>11
  <2>15. Wrap(x - p) = Wrap(m - (q * n))
    BY ONLY <2>13, <2>14, SameWrap
  <2>16. mod(x, y) = Wrap(x - p)
    BY ONLY <1>2, <2>3 DEF mod, p
  <2> QED
    BY ONLY <1>2, <2>15, <2>16 DEF m, n, q
<1> QED
  BY ONLY <1>1, <1>2

-----------------------------------------------------------------------------
(* The root.                                                               *)

\* A turn of the loop of sqrt: the bit i, above which the root is r.
RootBit(x, i, r) ==
    LET with == r + twoToThe(i)
        yy == multiply(with, with)
    IN  IF ~Greater(yy, x) /\ Greater(yy, 0) THEN with ELSE r

\* The bits of a root.
Half == WordSize \div 2

LEMMA Halves ==
    /\ Half \in 2..8
    /\ 2^Half \in Nat /\ 2^Half <= MINIMUM
    /\ 2^Half * 2^Half <= Size
    /\ MINIMUM <= 2^Half * 2^Half
<1> DEFINE Fits(k) == /\ k \div 2 \in 2..8
                      /\ 2^(k \div 2) \in Nat /\ 2^(k \div 2) <= 2^(k - 1)
                      /\ 2^(k \div 2) * 2^(k \div 2) <= 2^k
                      /\ 2^(k - 1) <= 2^(k \div 2) * 2^(k \div 2)
<1>1. \A k \in 4..16 : Fits(k)
  <2> TAKE k \in 4..16
  <2>4. CASE k = 4
    BY ONLY <2>4
  <2>5. CASE k = 5
    BY ONLY <2>5
  <2>6. CASE k = 6
    BY ONLY <2>6
  <2>7. CASE k = 7
    BY ONLY <2>7
  <2>8. CASE k = 8
    BY ONLY <2>8
  <2>9. CASE k = 9
    BY ONLY <2>9
  <2>10. CASE k = 10
    BY ONLY <2>10
  <2>11. CASE k = 11
    BY ONLY <2>11
  <2>12. CASE k = 12
    BY ONLY <2>12
  <2>13. CASE k = 13
    BY ONLY <2>13
  <2>14. CASE k = 14
    BY ONLY <2>14
  <2>15. CASE k = 15
    BY ONLY <2>15
  <2>16. CASE k = 16
    BY ONLY <2>16
  <2> QED
    BY ONLY <2>4, <2>5, <2>6, <2>7, <2>8, <2>9, <2>10, <2>11, <2>12, <2>13, <2>14, <2>15, <2>16
<1>2. WordSize \in 4..16 /\ Sign = WordSize - 1
  BY ONLY Sizes DEF Sign
<1>3. Fits(WordSize)
  BY ONLY <1>1, <1>2
<1> QED
  BY ONLY <1>2, <1>3 DEF Half, MINIMUM, Size

\* What is known of the root r found above bit i - 1.
RootAbove(x, i, r) ==
    /\ r \in Nat /\ r + 2^i <= 2^Half
    /\ r * r <= x
    /\ x < (r + 2^i) * (r + 2^i)

LEMMA RootNext ==
    ASSUME NEW x \in 0..(MINIMUM - 1), NEW i \in 0..(Half - 1), NEW r, RootAbove(x, i + 1, r)
    PROVE  RootAbove(x, i, RootBit(x, i, r))
<1>1. PICK p \in Nat \ {0} : p = 2^i /\ 2^(i + 1) = 2 * p
  <2>1. i \in 0..15
    BY ONLY Halves
  <2> QED
    BY ONLY <2>1, Powers
<1>2. PICK top \in Nat : top = 2^Half /\ top <= MINIMUM /\ top * top <= Size
  BY ONLY Halves
<1>3. MINIMUM \in Nat \ {0} /\ x \in Nat /\ x < MINIMUM
  BY ONLY Sizes
<1>4. /\ r \in Nat /\ r + 2 * p <= top
      /\ r * r <= x /\ x < (r + 2 * p) * (r + 2 * p)
  BY <1>1, <1>2 DEF RootAbove
<1> DEFINE s == r + p
           square == s * s
<1>5. s \in Nat \ {0} /\ s + p <= top /\ s + p = r + 2 * p /\ s < top
  BY ONLY <1>1, <1>2, <1>4
<1> HIDE DEF s
<1>6. square \in Nat \ {0} /\ square < Size
  <2>1. s * s \in Nat \ {0}
    BY ONLY <1>5
  <2>2. (top - s) * s \in Nat /\ (top - s) * s = top * s - s * s
    BY ONLY <1>2, <1>5
  <2>3. top * (top - s) \in Nat \ {0} /\ top * (top - s) = top * top - top * s
    BY ONLY <1>2, <1>5
  <2> QED
    BY ONLY <1>2, <1>5, <2>1, <2>2, <2>3, Sizes, SMTT(60)
<1> HIDE DEF square
<1>7. square \in Numbers
  BY ONLY <1>6, Sizes
<1>8. multiply(s, s) = square
  <2>1. s \in Numbers /\ Signed(s) = s
    <3>1. s \in Numbers
      BY ONLY <1>2, <1>5, Sizes
    <3> QED
      BY ONLY <1>2, <1>3, <1>5, <3>1, SignedIs
  <2>2. multiply(s, s) = Wrap(square)
    BY ONLY <2>1, Multiplies DEF square
  <2> QED
    BY ONLY <1>7, <2>2, WrapOfWord
<1>9. (~Greater(square, x) /\ Greater(square, 0)) <=> square <= x
  <2>1. Greater(square, 0) <=> square < MINIMUM
    <3>1. Greater(square, 0) <=> Signed(square) > 0
      BY ONLY <1>7, Signs
    <3>2. Signed(square) = IF square < MINIMUM THEN square ELSE square - 2 * MINIMUM
      BY ONLY <1>7, SignedIs
    <3> QED
      BY ONLY <1>3, <1>6, <3>1, <3>2, Sizes
  <2>2. CASE square < MINIMUM
    <3>1. square - x \in (-MINIMUM)..(MINIMUM - 1)
      BY ONLY <1>3, <1>6, <2>2
    <3>2. Less(square, x) <=> square < x
      BY ONLY <1>3, <1>6, <3>1, LessIs
    <3> QED
      BY ONLY <1>3, <1>6, <2>1, <2>2, <3>2 DEF Greater
  <2>3. CASE ~(square < MINIMUM)
    BY ONLY <1>3, <1>6, <2>1, <2>3
  <2> QED
    BY ONLY <2>2, <2>3
<1>10. RootBit(x, i, r) = IF square <= x THEN s ELSE r
  BY ONLY <1>1, <1>8, <1>9 DEF RootBit, twoToThe, s
<1>11. CASE square <= x
  BY ONLY <1>1, <1>2, <1>4, <1>5, <1>10, <1>11 DEF RootAbove, square
<1>12. CASE ~(square <= x)
  <2>1. x < s * s /\ r + p <= top
    BY ONLY <1>1, <1>2, <1>3, <1>4, <1>6, <1>12 DEF square
  <2> QED
    BY ONLY <1>1, <1>2, <1>4, <1>10, <1>12, <2>1 DEF RootAbove, s
<1> QED
  BY ONLY <1>11, <1>12

LEMMA Roots ==
    ASSUME NEW x \in 0..(MINIMUM - 1)
    PROVE  /\ sqrt(x) \in Nat
           /\ sqrt(x) * sqrt(x) <= x
           /\ x < (sqrt(x) + 1) * (sqrt(x) + 1)
<1> DEFINE F(f) == [i \in 0..Half |-> IF i = Half THEN 0 ELSE RootBit(x, i, f[i + 1])]
           y == CHOOSE f : f = F(f)
           step == [p \in (1..Half) \X Nat |-> RootBit(x, Half - p[1], p[2])]
<1>1. Half \in Nat /\ Half <= 15 /\ Half \in 2..8 /\ x \in Nat
  BY ONLY Halves, Sizes
<1>2. \A i \in 0..Half, r \in Nat : RootBit(x, i, r) \in Nat
  <2>1. \A i \in 0..Half : i \in 0..15
    BY ONLY <1>1
  <2>2. \A i \in 0..Half : 2^i \in Nat
    BY ONLY <2>1, Powers
  <2> QED
    BY ONLY <2>2 DEF RootBit, twoToThe
<1>3. step \in [(1..Half) \X Nat -> Nat]
  <2>1. \A p \in (1..Half) \X Nat : Half - p[1] \in 0..Half
    BY ONLY <1>1
  <2> QED
    BY ONLY <1>2, <2>1
<1>4. PICK g : IsIteration(g, Half, Nat, 0, step)
  <2> HIDE DEF step
  <2> QED
    BY ONLY <1>1, <1>3, Iterated
<1>5. /\ g \in [0..Half -> Nat] /\ g[0] = 0
      /\ \A n \in 1..Half : g[n] = RootBit(x, Half - n, g[n - 1])
  <2>1. /\ g \in [0..Half -> Nat] /\ g[0] = 0
        /\ \A n \in 1..Half : g[n] = step[<<n, g[n - 1]>>]
    BY ONLY <1>4 DEF IsIteration
  <2>2. \A n \in 1..Half : n - 1 \in 0..Half
    BY ONLY <1>1
  <2>3. \A n \in 1..Half : g[n - 1] \in Nat
    BY ONLY <2>1, <2>2
  <2>4. \A n \in 1..Half : step[<<n, g[n - 1]>>] = RootBit(x, Half - n, g[n - 1])
    BY ONLY <2>3
  <2> HIDE DEF step
  <2> QED
    BY ONLY <2>1, <2>4
<1> DEFINE h == [i \in 0..Half |-> g[Half - i]]
<1>6. h = F(h)
  <2>1. ASSUME NEW i \in 0..Half
        PROVE  h[i] = F(h)[i]
    <3>1. CASE i = Half
      <4>1. Half - i = 0
        BY ONLY <1>1, <3>1
      <4> QED
        BY ONLY <1>5, <3>1, <4>1
    <3>2. CASE i # Half
      <4>1. /\ Half - i \in 1..Half /\ Half - (Half - i) = i
            /\ i + 1 \in 0..Half /\ Half - (i + 1) = (Half - i) - 1
        BY ONLY <1>1, <3>2
      <4>2. g[Half - i] = RootBit(x, i, g[(Half - i) - 1])
        BY ONLY <1>5, <4>1
      <4>3. h[i + 1] = g[(Half - i) - 1]
        BY ONLY <4>1
      <4> QED
        BY ONLY <3>2, <4>2, <4>3
    <3> QED
      BY ONLY <3>1, <3>2
  <2> QED
    BY ONLY <2>1
<1>7. y = F(y)
  <2> HIDE DEF h
  <2> QED
    BY ONLY <1>6
<1> HIDE DEF y
<1>8. 0..Half \subseteq {n \in 0..Half : RootAbove(x, Half - n, y[Half - n])}
  <2> DEFINE S == {n \in 0..Half : RootAbove(x, Half - n, y[Half - n])}
  <2>1. 0 \in S
    <3>1. Half \in 0..Half /\ 0 \in 0..Half /\ Half - 0 = Half
      BY ONLY <1>1
    <3>2. y[Half] = 0
      BY ONLY <1>7, <3>1
    <3>3. PICK top \in Nat : top = 2^Half /\ MINIMUM <= top * top
      BY ONLY Halves
    <3>4. x < top * top
      <4>1. top * top \in Nat
        BY ONLY <3>3
      <4> QED
        BY ONLY <3>3, <4>1, Sizes
    <3>5. RootAbove(x, Half, 0)
      BY ONLY <1>1, <3>3, <3>4 DEF RootAbove
    <3> QED
      BY ONLY <3>1, <3>2, <3>5
  <2>2. ASSUME NEW n \in 0..Half, n \in S, n + 1 \in 0..Half
        PROVE  n + 1 \in S
    <3>1. PICK i \in 0..(Half - 1) : i = Half - (n + 1) /\ i + 1 = Half - n
      BY ONLY <1>1, <2>2
    <3>2. RootAbove(x, i + 1, y[i + 1])
      BY ONLY <2>2, <3>1
    <3>3. y[i] = RootBit(x, i, y[i + 1])
      <4>1. i \in 0..Half /\ i # Half
        BY ONLY <1>1, <3>1
      <4> QED
        BY ONLY <1>7, <4>1
    <3>4. RootAbove(x, i, y[i])
      BY ONLY <3>2, <3>3, RootNext
    <3> QED
      BY ONLY <2>2, <3>1, <3>4
  <2> HIDE DEF S
  <2>3. 0..Half \subseteq S
    BY ONLY <1>1, <2>1, <2>2, UpTo
  <2> QED
    BY ONLY <2>3 DEF S
<1>9. RootAbove(x, 0, y[0])
  <2>1. Half \in 0..Half /\ Half - Half = 0
    BY ONLY <1>1
  <2> QED
    BY ONLY <1>8, <2>1
<1>10. sqrt(x) = y[0]
  BY DEF sqrt, RootBit, Half, y
<1>11. 2^0 = 1
  OBVIOUS
<1> QED
  BY ONLY <1>9, <1>10, <1>11 DEF RootAbove

-----------------------------------------------------------------------------
(* The greater and the smaller of two numbers.                             *)

LEMMA WrapSigned ==
    ASSUME NEW x \in Numbers
    PROVE  Wrap(Signed(x)) = x
<1>1. Signed(x) \in Int /\ x \in Int /\ Same(Signed(x), x)
  BY ONLY SignedIs, Sizes, SameSymmetric
<1> QED
  BY ONLY <1>1, SameIsWrap

LEMMA Chooses ==
    ASSUME NEW x \in Numbers, NEW y \in Numbers,
           Signed(x) - Signed(y) \in (-MINIMUM)..(MINIMUM - 1)
    PROVE  /\ max(x, y) = Wrap(IF Signed(x) > Signed(y) THEN Signed(x) ELSE Signed(y))
           /\ min(x, y) = Wrap(IF Signed(x) < Signed(y) THEN Signed(x) ELSE Signed(y))
<1>1. Less(x, y) <=> Signed(x) < Signed(y)
  BY LessSigned
<1>2. Wrap(Signed(x)) = x /\ Wrap(Signed(y)) = y
  BY ONLY WrapSigned
<1>3. Signed(x) \in Int /\ Signed(y) \in Int
  BY ONLY SignedIs, Sizes
<1> QED
  BY ONLY <1>1, <1>2, <1>3 DEF max, min

-----------------------------------------------------------------------------
(* Numerals.                                                               *)

(* Ten, as a divisor: what is left of a number without its last digit, and *)
(* that digit.                                                             *)
LEMMA DividesByTen ==
    ASSUME NEW x \in Numbers, 10 < MINIMUM
    PROVE  /\ divide(x, 10) \in Numbers
           /\ abs(divide(x, 10)) = abs(x) \div 10
           /\ abs(LastDigit(x)) = abs(x) % 10
<1> DEFINE m == Signed(x)
           a == Magnitude(m)
           b == a \div 10
           r == a % 10
           n == IF m < 0 THEN -b ELSE b
           w == divide(x, 10)
<1>1. /\ MINIMUM \in Nat \ {0} /\ m \in (-MINIMUM)..(MINIMUM - 1) /\ m \in Int
      /\ x \in Int /\ Same(x, m) /\ a = abs(x)
  BY ONLY SignedIs, Sizes, AbsIs
<1>2. 10 \in Numbers /\ Signed(10) = 10
  <2>1. 10 \in Numbers
    BY Sizes
  <2> QED
    BY <2>1, SignedIs, Sizes
<1>3. a \in 0..MINIMUM
  BY ONLY <1>1 DEF Magnitude
<1>4. b \in Int /\ r \in 0..9 /\ a = 10 * b + r
  BY ONLY <1>3
<1>5. b \in 0..(MINIMUM - 1)
  <2> HIDE DEF a, b, r
  <2> QED
    BY ONLY <1>1, <1>3, <1>4
<1>6. Quotient(m, 10) = n
  <2>1. m * 10 < 0 <=> m < 0
    BY ONLY <1>1
  <2>2. Magnitude(10) = 10
    BY DEF Magnitude
  <2> QED
    BY ONLY <2>1, <2>2 DEF Quotient
<1>7. w = Wrap(n)
  BY ONLY <1>2, <1>6, DividesSigned
<1>8. n \in (-MINIMUM)..(MINIMUM - 1) /\ n \in Int
  BY ONLY <1>1, <1>5
<1>9. w \in Numbers /\ Signed(w) = n
  BY ONLY <1>7, <1>8, SignOfWrap, WrapIs
<1>10. abs(w) = b
  <2>1. Magnitude(n) = b
    BY ONLY <1>5 DEF Magnitude
  <2> QED
    BY ONLY <1>9, <2>1, AbsIs
<1> DEFINE p == multiply(w, 10)
           last == IF m < 0 THEN -r ELSE r
<1>11. LastDigit(x) = Wrap(last)
  <2>1. p = Wrap(n * 10)
    BY ONLY <1>2, <1>9, Multiplies
  <2>2. n * 10 \in Int
    BY ONLY <1>8
  <2>3. p \in Numbers /\ p \in Int /\ Same(n * 10, p)
    BY ONLY <2>1, <2>2, WrapIs, WrapOfWord
  <2>4. Same(p, n * 10)
    BY ONLY <2>2, <2>3, SameSymmetric
  <2>5. Same(x - p, m - n * 10)
    BY ONLY <1>1, <2>2, <2>3, <2>4, SameArithmetic
  <2>6. m - n * 10 = last
    BY ONLY <1>1, <1>4, <1>5 DEF Magnitude
  <2>7. Wrap(x - p) = Wrap(last)
    <3>1. x - p \in Int /\ m - n * 10 \in Int
      BY ONLY <1>1, <2>2, <2>3
    <3> HIDE DEF p, n, m, last
    <3> QED
      BY ONLY <2>5, <2>6, <3>1, SameWrap
  <2> QED
    BY ONLY <2>7 DEF LastDigit
<1>12. last \in (-MINIMUM)..(MINIMUM - 1) /\ Magnitude(last) = r /\ last \in Int
  <2> HIDE DEF r, m
  <2> QED
    BY ONLY <1>1, <1>4 DEF Magnitude
<1>13. Wrap(last) \in Numbers /\ Signed(Wrap(last)) = last
  BY ONLY <1>12, SignOfWrap, WrapIs
<1>14. abs(LastDigit(x)) = r
  <2> HIDE DEF last
  <2> QED
    BY ONLY <1>11, <1>12, <1>13, AbsIs
<1> QED
  BY ONLY <1>1, <1>9, <1>10, <1>14

\* A digit more, and all but the last of them.
DigitStep(f, val) ==
    IF val = 0 THEN <<>>
    ELSE Append(f[divide(val, 10)], getIntegerAscii(abs(LastDigit(val))))

(* The function Digits is defined: its digits are those of a tenth of the  *)
(* number, and a last one.                                                 *)
LEMMA DigitsUnfold ==
    ASSUME 10 < MINIMUM, NEW x \in Numbers
    PROVE  Digits[x] = IF x = 0 THEN <<>>
                       ELSE Append(Digits[divide(x, 10)], ZERO + (abs(x) % 10))
<1> DEFINE V == [Numbers -> Seq(Nat)]
           base == [val \in Numbers |-> <<>>]
           Longer(f) == [val \in Numbers |-> DigitStep(f, val)]
           top == MINIMUM + 1
           step == [p \in (1..top) \X V |-> Longer(p[2])]
<1>1. MINIMUM \in Nat \ {0} /\ top \in Nat
  BY ONLY Sizes
<1>2. \A val \in Numbers : /\ divide(val, 10) \in Numbers
                           /\ abs(val) \in 0..MINIMUM
                           /\ abs(divide(val, 10)) = abs(val) \div 10
                           /\ getIntegerAscii(abs(LastDigit(val))) = ZERO + (abs(val) % 10)
                           /\ ZERO + (abs(val) % 10) \in Nat
  <2> TAKE val \in Numbers
  <2>1. /\ divide(val, 10) \in Numbers
        /\ abs(divide(val, 10)) = abs(val) \div 10
        /\ abs(LastDigit(val)) = abs(val) % 10
    BY DividesByTen
  <2>2. abs(val) \in 0..MINIMUM
    BY ONLY AbsIs
  <2>3. abs(val) % 10 \in 0..9
    BY ONLY <1>1, <2>2
  <2> QED
    BY ONLY <2>1, <2>2, <2>3 DEF getIntegerAscii, ZERO
<1>3. \A f \in V : Longer(f) \in V
  <2> TAKE f \in V
  <2>1. \A val \in Numbers : DigitStep(f, val) \in Seq(Nat)
    BY ONLY <1>2 DEF DigitStep
  <2> QED
    BY ONLY <2>1
<1>4. base \in V
  OBVIOUS
<1>5. step \in [(1..top) \X V -> V]
  <2> HIDE DEF V, Longer
  <2> QED
    BY ONLY <1>3
<1>6. PICK g : IsIteration(g, top, V, base, step)
  <2> HIDE DEF V, step, base, top
  <2> QED
    BY ONLY <1>1, <1>4, <1>5, Iterated
<1>7. /\ g \in [0..top -> V] /\ g[0] = base
      /\ \A n \in 1..top : g[n] = Longer(g[n - 1])
  <2>1. /\ g \in [0..top -> V] /\ g[0] = base
        /\ \A n \in 1..top : g[n] = step[<<n, g[n - 1]>>]
    BY ONLY <1>6 DEF IsIteration
  <2>2. \A n \in 1..top : n - 1 \in 0..top
    BY ONLY <1>1
  <2> HIDE DEF V, Longer, base
  <2>3. \A n \in 1..top : g[n - 1] \in V
    BY ONLY <2>1, <2>2
  <2> QED
    BY ONLY <2>1, <2>3
<1> DEFINE S == {n \in 0..MINIMUM :
                    \A val \in Numbers : abs(val) <= n => g[n + 1][val] = g[n][val]}
<1>8. MINIMUM \in S
  <2>1. 0 \in S
    <3>1. 0 \in 0..MINIMUM /\ 1 \in 1..top /\ 0 + 1 = 1 /\ 1 - 1 = 0
      BY ONLY <1>1
    <3>2. g[1] = Longer(g[0])
      BY ONLY <1>7, <3>1
    <3>3. \A val \in Numbers : abs(val) <= 0 => val = 0
      <4> TAKE val \in Numbers
      <4> HAVE abs(val) <= 0
      <4>1. Magnitude(Signed(val)) <= 0 /\ Signed(val) \in Int
        BY AbsIs, SignedIs, Sizes
      <4>2. Signed(val) = 0
        BY ONLY <4>1 DEF Magnitude
      <4> QED
        BY ONLY <4>2, SignedIs, Sizes
    <3>4. 0 \in Numbers => g[1][0] = <<>> /\ g[0][0] = <<>>
      BY ONLY <1>7, <3>2 DEF DigitStep
    <3> QED
      BY ONLY <3>1, <3>3, <3>4
  <2>2. ASSUME NEW n \in 0..MINIMUM, n \in S, n + 1 \in 0..MINIMUM
        PROVE  n + 1 \in S
    <3>1. /\ n + 1 \in 1..top /\ (n + 1) - 1 = n
          /\ (n + 1) + 1 \in 1..top /\ ((n + 1) + 1) - 1 = n + 1
      BY ONLY <1>1, <2>2
    <3>2. g[n + 1] = Longer(g[n]) /\ g[(n + 1) + 1] = Longer(g[n + 1])
      BY ONLY <1>7, <3>1
    <3>3. ASSUME NEW val \in Numbers, abs(val) <= n + 1
          PROVE  g[(n + 1) + 1][val] = g[n + 1][val]
      <4>1. CASE val = 0
        BY ONLY <3>2, <4>1 DEF DigitStep
      <4>2. CASE val # 0
        <5> DEFINE q == divide(val, 10)
        <5>1. q \in Numbers /\ abs(q) = abs(val) \div 10 /\ abs(val) \in 0..MINIMUM
          BY ONLY <1>2
        <5>2. abs(q) <= n
          BY ONLY <1>1, <3>3, <5>1
        <5>3. g[n + 1][q] = g[n][q]
          BY ONLY <2>2, <5>1, <5>2
        <5>4. DigitStep(g[n + 1], val) = DigitStep(g[n], val)
          BY ONLY <5>3 DEF DigitStep
        <5> QED
          BY ONLY <3>2, <5>4
      <4> QED
        BY ONLY <4>1, <4>2
    <3> QED
      BY ONLY <2>2, <3>3
  <2> HIDE DEF S
  <2>3. 0..MINIMUM \subseteq S
    BY ONLY <1>1, <2>1, <2>2, UpTo
  <2>4. MINIMUM \in 0..MINIMUM
    BY ONLY <1>1
  <2> QED
    BY ONLY <2>3, <2>4
<1> DEFINE h == g[MINIMUM]
<1>9. h = Longer(h)
  <2>1. MINIMUM + 1 \in 1..top /\ MINIMUM \in 0..top /\ (MINIMUM + 1) - 1 = MINIMUM
    BY ONLY <1>1
  <2>2. h \in V /\ g[MINIMUM + 1] = Longer(h)
    BY ONLY <1>7, <2>1
  <2>3. \A val \in Numbers : g[MINIMUM + 1][val] = h[val]
    BY ONLY <1>2, <1>8
  <2>4. \A val \in Numbers : h[val] = Longer(h)[val]
    BY ONLY <2>2, <2>3
  <2>5. h \in [Numbers -> Seq(Nat)]
    BY ONLY <2>2
  <2> HIDE DEF h
  <2> QED
    BY ONLY <2>4, <2>5
<1> DEFINE D == CHOOSE f : f = [val \in Numbers |-> DigitStep(f, val)]
<1>10. D = [val \in Numbers |-> DigitStep(D, val)]
  <2> HIDE DEF h
  <2> QED
    BY ONLY <1>9
<1>11. Digits = D
  BY DEF Digits, DigitStep
<1> HIDE DEF D
<1>12. Digits[x] = DigitStep(Digits, x)
  BY ONLY <1>10, <1>11
<1> QED
  BY ONLY <1>2, <1>12 DEF DigitStep

\* v holds the numbers that the first digits of s make.
Reads(v, s) ==
    /\ v \in [0..Len(s) -> Int]
    /\ v[0] = 0
    /\ \A n \in 1..Len(s) : v[n] = 10 * v[n - 1] + (s[n] - ZERO)

(* Digits that begin alike make the same numbers as far as that goes.      *)
LEMMA ReadsSame ==
    ASSUME NEW s \in Seq(Int), NEW t \in Seq(Int), NEW v, NEW w,
           Reads(v, s), Reads(w, t),
           NEW m \in Nat, m <= Len(s), m <= Len(t),
           \A n \in 1..m : s[n] = t[n]
    PROVE  v[m] = w[m]
<1> DEFINE S == {n \in 0..m : v[n] = w[n]}
<1>1. Len(s) \in Nat /\ Len(t) \in Nat
  OBVIOUS
<1>2. 0 \in S
  BY DEF Reads
<1>3. ASSUME NEW n \in 0..m, n \in S, n + 1 \in 0..m
      PROVE  n + 1 \in S
  <2>1. n + 1 \in 1..Len(s) /\ n + 1 \in 1..Len(t) /\ n + 1 \in 1..m /\ (n + 1) - 1 = n
    BY <1>1, <1>3
  <2>2. /\ v[n + 1] = 10 * v[n] + (s[n + 1] - ZERO)
        /\ w[n + 1] = 10 * w[n] + (t[n + 1] - ZERO)
    BY <2>1 DEF Reads
  <2> QED
    BY <1>3, <2>1, <2>2
<1> HIDE DEF S
<1>4. 0..m \subseteq S
  BY ONLY <1>2, <1>3, UpTo
<1>5. m \in S
  BY ONLY <1>4
<1> QED
  BY ONLY <1>5 DEF S

(* The number some digits make is the last of those their beginnings make. *)
LEMMA ValueReads ==
    ASSUME NEW s \in Seq(Int)
    PROVE  \E v : Reads(v, s) /\ Value(s) = v[Len(s)]
<1> DEFINE top == Len(s)
           After(n, before) == 10 * before + (s[n] - ZERO)
           step == [p \in (1..top) \X Int |-> After(p[1], p[2])]
           F(f) == [n \in 0..top |-> IF n = 0 THEN 0 ELSE After(n, f[n - 1])]
           v == CHOOSE f : f = F(f)
<1>1. top \in Nat /\ \A n \in 1..top, k \in Int : After(n, k) \in Int
  BY DEF ZERO
<1>2. step \in [(1..top) \X Int -> Int]
  <2> HIDE DEF After, top
  <2> QED
    BY ONLY <1>1
<1>3. PICK g : IsIteration(g, top, Int, 0, step)
  <2>1. 0 \in Int
    OBVIOUS
  <2> HIDE DEF After, step, top
  <2> QED
    BY ONLY <1>1, <1>2, <2>1, Iterated
<1>4. /\ g \in [0..top -> Int] /\ g[0] = 0
      /\ \A n \in 1..top : n # 0 /\ n - 1 \in 0..top /\ g[n] = After(n, g[n - 1])
  <2>1. /\ g \in [0..top -> Int] /\ g[0] = 0
        /\ \A n \in 1..top : g[n] = step[<<n, g[n - 1]>>]
    BY ONLY <1>3 DEF IsIteration
  <2> HIDE DEF After, top
  <2>2. \A n \in 1..top : n - 1 \in 0..top /\ n # 0
    BY ONLY <1>1
  <2> QED
    BY ONLY <2>1, <2>2
<1> HIDE DEF After, top
<1>5. g = F(g)
  <2>1. \A n \in 0..top : n # 0 => n \in 1..top
    BY ONLY <1>1
  <2>2. \A n \in 0..top : g[n] = F(g)[n]
    BY ONLY <1>4, <2>1
  <2> QED
    BY ONLY <1>4, <2>2
<1>6. v = F(v)
  BY ONLY <1>5
<1>7. Value(s) = v[top]
  BY DEF Value, After, top
<1> HIDE DEF v
<1> DEFINE S == {n \in 0..top : v[n] \in Int}
<1>8. 0..top \subseteq S
  <2>1. 0 \in S
    BY ONLY <1>1, <1>6
  <2>2. ASSUME NEW n \in 0..top, n \in S, n + 1 \in 0..top
        PROVE  n + 1 \in S
    <3>1. n + 1 # 0 /\ (n + 1) - 1 = n /\ n + 1 \in 1..top
      BY ONLY <1>1, <2>2
    <3>2. v[n + 1] = After(n + 1, v[n])
      BY ONLY <1>6, <2>2, <3>1
    <3> QED
      BY ONLY <1>1, <2>2, <3>1, <3>2
  <2> HIDE DEF S
  <2> QED
    BY ONLY <1>1, <2>1, <2>2, UpTo
<1>9. v \in [0..top -> Int]
  BY ONLY <1>6, <1>8
<1>10. v[0] = 0 /\ \A n \in 1..top : v[n] = After(n, v[n - 1])
  <2>1. 0 \in 0..top /\ \A n \in 1..top : n \in 0..top /\ n # 0
    BY ONLY <1>1
  <2> QED
    BY ONLY <1>6, <2>1
<1>11. Reads(v, s)
  BY ONLY <1>9, <1>10 DEF Reads, After, top
<1> QED
  BY ONLY <1>7, <1>11 DEF top

(* A digit more makes ten times the number, and the digit.                 *)
LEMMA ValueAppend ==
    /\ Value(<<>>) = 0
    /\ \A s \in Seq(Int), c \in Int :
          /\ Value(s) \in Int
          /\ Value(Append(s, c)) = 10 * Value(s) + (c - ZERO)
<1>1. Value(<<>>) = 0
  <2>1. <<>> \in Seq(Int) /\ Len(<<>>) = 0
    OBVIOUS
  <2> QED
    BY ONLY <2>1, ValueReads DEF Reads
<1>2. ASSUME NEW s \in Seq(Int), NEW c \in Int
      PROVE  Value(s) \in Int /\ Value(Append(s, c)) = 10 * Value(s) + (c - ZERO)
  <2> DEFINE t == Append(s, c)
             m == Len(s)
  <2>1. /\ t \in Seq(Int) /\ m \in Nat /\ Len(t) = m + 1 /\ t[m + 1] = c
        /\ \A n \in 1..m : t[n] = s[n]
    OBVIOUS
  <2>2. PICK v : Reads(v, s) /\ Value(s) = v[m]
    BY ONLY ValueReads
  <2> HIDE DEF t
  <2>3. PICK w : Reads(w, t) /\ Value(t) = w[m + 1]
    BY ONLY <2>1, ValueReads
  <2>4. v[m] = w[m]
    <3>1. m <= Len(t) /\ m <= Len(s) /\ \A n \in 1..m : s[n] = t[n]
      BY ONLY <2>1
    <3>2. Reads(v, s) /\ Reads(w, t) /\ m \in Nat /\ t \in Seq(Int)
      BY ONLY <2>1, <2>2, <2>3
    <3> HIDE DEF m
    <3> QED
      BY ONLY <3>1, <3>2, ReadsSame
  <2>5. w[m + 1] = 10 * w[m] + (c - ZERO)
    <3>1. m + 1 \in 1..Len(t) /\ (m + 1) - 1 = m
      BY ONLY <2>1
    <3> QED
      BY ONLY <2>1, <2>3, <3>1 DEF Reads
  <2>6. v[m] \in Int
    <3>1. m \in 0..Len(s)
      BY ONLY <2>1
    <3> QED
      BY ONLY <2>2, <3>1 DEF Reads
  <2> QED
    BY ONLY <2>2, <2>3, <2>4, <2>5, <2>6 DEF t
<1> QED
  BY ONLY <1>1, <1>2

\* A numeral of the number a > 0: digits that make it, the first not zero.
IsNumeral(s, a) ==
    /\ s \in Seq(ZERO..(ZERO + 9)) /\ s # <<>>
    /\ s[1] # ZERO
    /\ Value(s) = a

(* Only zero has the magnitude zero.                                       *)
LEMMA AbsZero ==
    ASSUME NEW x \in Numbers
    PROVE  abs(x) = 0 <=> x = 0
<1>1. abs(x) = Magnitude(Signed(x)) /\ Signed(x) \in Int /\ MINIMUM \in Nat \ {0}
  <2>1. abs(x) = Magnitude(Signed(x))
    BY AbsIs, Zenon
  <2>2. Signed(x) \in Int
    BY SignedIs
  <2> QED
    BY <2>1, <2>2, Sizes
<1>2. abs(x) = 0 <=> Signed(x) = 0
  BY ONLY <1>1 DEF Magnitude
<1>3. Signed(x) = 0 <=> x = 0
  BY ONLY <1>1, SignedIs, Sizes
<1> QED
  BY ONLY <1>2, <1>3

(* The digits of a number are a numeral of it, without leading zeros.      *)
LEMMA DigitsAreNumerals ==
    ASSUME 10 < MINIMUM, NEW x \in Numbers \ {0}
    PROVE  IsNumeral(Digits[x], abs(x))
<1> DEFINE S == {n \in 0..MINIMUM :
                    \A val \in Numbers \ {0} :
                        abs(val) <= n => IsNumeral(Digits[val], abs(val))}
<1>1. MINIMUM \in Nat \ {0} /\ \A val \in Numbers : abs(val) \in 0..MINIMUM
  BY ONLY Sizes, AbsIs
<1>2. 0 \in S
  <2>1. \A val \in Numbers \ {0} : ~(abs(val) <= 0)
    BY ONLY <1>1, AbsZero
  <2> QED
    BY ONLY <1>1, <2>1
<1>3. ASSUME NEW n \in 0..MINIMUM, n \in S, n + 1 \in 0..MINIMUM,
             NEW val \in Numbers \ {0}, abs(val) <= n + 1
      PROVE  IsNumeral(Digits[val], abs(val))
  <2> DEFINE q == divide(val, 10)
             r == abs(val) % 10
             c == ZERO + r
             s == Digits[q]
  <2>1. /\ q \in Numbers /\ abs(q) = abs(val) \div 10 /\ abs(q) \in Nat
        /\ abs(val) \in 0..MINIMUM /\ abs(val) # 0
    BY <1>1, DividesByTen, AbsZero
  <2>2. r \in 0..9 /\ abs(val) = 10 * abs(q) + r
    <3>1. \A a \in Nat : a % 10 \in 0..9 /\ a = 10 * (a \div 10) + (a % 10)
      OBVIOUS
    <3>2. abs(val) \in Nat
      BY ONLY <2>1
    <3> QED
      BY ONLY <2>1, <3>1, <3>2
  <2>3. Digits[val] = Append(s, c)
    BY DigitsUnfold
  <2>4. c \in ZERO..(ZERO + 9) /\ c \in Int /\ c - ZERO = r
    BY ONLY <2>2 DEF ZERO
  <2>5. CASE q = 0
    <3>1. s = <<>>
      BY <2>5, <2>1, DigitsUnfold
    <3>2. abs(q) = 0
      BY ONLY <2>5, <2>1, AbsZero
    <3>3. r = abs(val) /\ c # ZERO
      <4> HIDE DEF r, q
      <4> QED
        BY ONLY <2>1, <2>2, <3>2 DEF ZERO
    <3> HIDE DEF c, r, s, q
    <3>4. Append(s, c) = <<c>>
      BY ONLY <3>1
    <3>5. Value(<<c>>) = r
      <4>1. <<>> \in Seq(Int) /\ Append(<<>>, c) = <<c>>
        OBVIOUS
      <4>2. Value(Append(<<>>, c)) = 10 * Value(<<>>) + (c - ZERO)
        BY ONLY <2>4, <4>1, ValueAppend
      <4> QED
        BY ONLY <2>2, <2>4, <4>1, <4>2, ValueAppend
    <3> QED
      BY ONLY <2>3, <2>4, <3>3, <3>4, <3>5 DEF IsNumeral
  <2>6. CASE q # 0
    <3>1. abs(q) <= n
      BY ONLY <1>1, <1>3, <2>1
    <3>2. IsNumeral(s, abs(q))
      BY ONLY <1>3, <2>1, <2>6, <3>1
    <3> HIDE DEF c, r, s, q
    <3>3. s \in Seq(ZERO..(ZERO + 9)) /\ s # <<>> /\ s[1] # ZERO /\ Value(s) = abs(q)
      BY ONLY <3>2 DEF IsNumeral
    <3>4. s \in Seq(Int)
      BY ONLY <3>3 DEF ZERO
    <3>5. Value(Append(s, c)) = 10 * abs(q) + r
      BY ONLY <2>4, <3>3, <3>4, ValueAppend
    <3>6. Append(s, c) \in Seq(ZERO..(ZERO + 9)) /\ Append(s, c) # <<>>
      BY ONLY <2>4, <3>3
    <3>7. Append(s, c)[1] = s[1]
      BY ONLY <3>3
    <3> QED
      BY ONLY <2>2, <2>3, <3>3, <3>5, <3>6, <3>7 DEF IsNumeral
  <2> QED
    BY ONLY <2>5, <2>6
<1>4. 0..MINIMUM \subseteq S
  <2>1. ASSUME NEW n \in 0..MINIMUM, n \in S, n + 1 \in 0..MINIMUM
        PROVE  n + 1 \in S
    BY ONLY <1>3, <2>1
  <2> HIDE DEF S
  <2> QED
    BY ONLY <1>1, <1>2, <2>1, UpTo
<1>5. MINIMUM \in S
  BY ONLY <1>1, <1>4
<1> QED
  BY ONLY <1>1, <1>5

(* The digits a text begins with end before the first character that is    *)
(* none.                                                                   *)
LEMMA DigitsEnd ==
    ASSUME NEW C, NEW s \in Seq(C)
    PROVE  \E e \in 0..Len(s) :
              /\ DigitsAhead(s) = SubSeq(s, 1, e)
              /\ \A k \in 1..e : isIntegerAscii(s[k])
              /\ e < Len(s) => ~isIntegerAscii(s[e + 1])
<1> DEFINE ends == {n \in 0..Len(s) : \A k \in 1..n : isIntegerAscii(s[k])}
           T == {n \in Nat : n \notin ends}
<1>1. Len(s) \in Nat
  OBVIOUS
<1>2. \E n \in ends : n + 1 \notin ends
  <2>1. Len(s) + 1 \in T
    BY ONLY <1>1
  <2>2. PICK m \in T : \A k \in T : m <= k
    <3>1. T \in SUBSET Nat
      OBVIOUS
    <3> HIDE DEF T
    <3> QED
      BY ONLY <2>1, <3>1, LeastNatural
  <2>3. m # 0
    BY ONLY <1>1, <2>2
  <2>4. m \in Nat /\ m - 1 \in Nat /\ ~(m <= m - 1) /\ (m - 1) + 1 = m
    BY ONLY <2>2, <2>3
  <2>5. m - 1 \in ends /\ (m - 1) + 1 \notin ends
    <3> HIDE DEF ends
    <3> QED
      BY ONLY <2>2, <2>4
  <2> QED
    BY ONLY <2>5
<1> DEFINE e == CHOOSE n \in ends : n + 1 \notin ends
<1>3. e \in ends /\ e + 1 \notin ends
  <2> HIDE DEF ends
  <2> QED
    BY ONLY <1>2
<1>4. DigitsAhead(s) = SubSeq(s, 1, e)
  BY DEF DigitsAhead
<1> HIDE DEF e
<1>5. e \in 0..Len(s) /\ \A k \in 1..e : isIntegerAscii(s[k])
  BY ONLY <1>3
<1>6. e < Len(s) => ~isIntegerAscii(s[e + 1])
  <2> SUFFICES ASSUME e < Len(s), isIntegerAscii(s[e + 1]) PROVE FALSE
    OBVIOUS
  <2>1. e + 1 \in 0..Len(s)
    BY <1>1, <1>5
  <2>2. \A k \in 1..(e + 1) : k \in 1..e \/ k = e + 1
    BY ONLY <1>1, <1>5
  <2> QED
    BY <1>3, <1>5, <2>1, <2>2
<1> QED
  BY ONLY <1>4, <1>5, <1>6

(* Of digits alone, all are ahead.                                         *)
LEMMA AllDigits ==
    ASSUME NEW s \in Seq(ZERO..(ZERO + 9))
    PROVE  DigitsAhead(s) = s
<1>1. PICK e \in 0..Len(s) : /\ DigitsAhead(s) = SubSeq(s, 1, e)
                             /\ e < Len(s) => ~isIntegerAscii(s[e + 1])
  BY ONLY DigitsEnd
<1>2. \A k \in 1..Len(s) : isIntegerAscii(s[k])
  <2>1. \A k \in 1..Len(s) : s[k] \in ZERO..(ZERO + 9)
    BY ONLY ElementOfSeq
  <2> QED
    BY ONLY <2>1 DEF isIntegerAscii
<1>3. e = Len(s)
  <2>1. e < Len(s) => e + 1 \in 1..Len(s)
    OBVIOUS
  <2> QED
    BY ONLY <1>1, <1>2, <2>1
<1>4. SubSeq(s, 1, Len(s)) = s
  OBVIOUS
<1> QED
  BY ONLY <1>1, <1>3, <1>4

\* The digits of the text from the i-th on, after those that made n, given
\* what the rest of the loop makes of the number.
ReadOn(text, i, rest, n) ==
    IF i > Len(text) THEN n
    ELSE IF ~isIntegerAscii(text[i]) THEN n
    ELSE LET next == Wrap(multiply(n, 10) + (text[i] - ZERO))
         IN  IF IsNegative(next) THEN Error(10) ELSE rest[next]

ReadsFrom(f, text) ==
    f = [i \in 1..(Len(text) + 1) |-> [n \in Numbers |-> ReadOn(text, i, f[i + 1], n)]]

(* A digit after those that made n, in a turn of the loop of intValue.     *)
LEMMA NextDigit ==
    ASSUME 10 < MINIMUM, NEW n \in Numbers, NEW c, isIntegerAscii(c)
    PROVE  /\ c - ZERO \in 0..9
           /\ Wrap(multiply(n, 10) + (c - ZERO)) \in Numbers
           /\ n < MINIMUM => Wrap(multiply(n, 10) + (c - ZERO)) = Wrap(10 * n + (c - ZERO))
<1>1. c - ZERO \in 0..9
  BY DEF isIntegerAscii, ZERO
<1>2. PICK d \in 0..9 : d = c - ZERO
  BY ONLY <1>1
<1>3. 10 \in Numbers /\ Signed(10) = 10
  <2>1. 10 \in Numbers
    BY Sizes
  <2> QED
    BY <2>1, SignedIs, Sizes
<1>4. PICK m \in Int : m = Signed(n) * 10
  BY ONLY SignedIs, Sizes
<1>5. PICK p \in Numbers : p = multiply(n, 10) /\ p = Wrap(m)
  BY ONLY <1>3, <1>4, Multiplies, WrapIs
<1>6. p \in Int /\ p + d \in Int
  BY ONLY <1>2, Sizes
<1>7. Wrap(p + d) = Wrap(m + d)
  <2>1. Same(m, p)
    BY ONLY <1>4, <1>5, WrapIs
  <2>2. Same(d, d)
    BY ONLY <1>2, WrapOfWord, WrapIs, <1>3, Sizes
  <2>3. Same(m + d, p + d)
    BY ONLY <1>2, <1>4, <1>6, <2>1, <2>2, SameArithmetic
  <2>4. m + d \in Int
    BY ONLY <1>2, <1>4
  <2> QED
    BY ONLY <1>6, <2>3, <2>4, SameWrap
<1>8. n < MINIMUM => m = 10 * n
  BY ONLY <1>4, SignedIs, Sizes
<1> QED
  BY ONLY <1>1, <1>2, <1>5, <1>6, <1>7, <1>8, WrapIs

(* The loop of intValue is defined.                                        *)
LEMMA ReadsExists ==
    ASSUME 10 < MINIMUM, NEW C, NEW text \in Seq(C)
    PROVE  \E f : ReadsFrom(f, text)
<1> DEFINE top == Len(text)
           V == [Numbers -> Int]
           After(k, rest) == [n \in Numbers |-> ReadOn(text, (top + 1) - k, rest, n)]
           base == [n \in Numbers |-> n]
           step == [p \in (1..top) \X V |-> After(p[1], p[2])]
<1>1. top \in Nat
  OBVIOUS
<1>2. \A n \in Numbers : n \in Int
  BY ONLY Sizes
<1>3. \A k \in 1..top, rest \in V : After(k, rest) \in V
  <2> TAKE k \in 1..top, rest \in V
  <2>1. ASSUME NEW n \in Numbers PROVE ReadOn(text, (top + 1) - k, rest, n) \in Int
    <3> DEFINE c == text[(top + 1) - k]
               next == Wrap(multiply(n, 10) + (c - ZERO))
    <3>1. Error(10) \in Int
      BY DEF Error
    <3>2. isIntegerAscii(c) => rest[next] \in Int
      BY NextDigit
    <3> QED
      BY ONLY <1>2, <3>1, <3>2 DEF ReadOn
  <2> QED
    BY ONLY <2>1
<1>4. base \in V
  BY ONLY <1>2
<1>5. step \in [(1..top) \X V -> V]
  <2> HIDE DEF V, After, top
  <2> QED
    BY ONLY <1>3
<1>6. PICK g : IsIteration(g, top, V, base, step)
  <2> HIDE DEF V, step, base, top
  <2> QED
    BY ONLY <1>1, <1>4, <1>5, Iterated
<1>7. /\ g \in [0..top -> V] /\ g[0] = base
      /\ \A k \in 1..top : g[k] = After(k, g[k - 1])
  <2>1. /\ g \in [0..top -> V] /\ g[0] = base
        /\ \A k \in 1..top : g[k] = step[<<k, g[k - 1]>>]
    BY ONLY <1>6 DEF IsIteration
  <2> HIDE DEF V, After, base, top
  <2>2. \A k \in 1..top : k - 1 \in 0..top
    BY ONLY <1>1
  <2>3. \A k \in 1..top : g[k - 1] \in V
    BY ONLY <2>1, <2>2
  <2> QED
    BY ONLY <2>1, <2>3
<1> HIDE DEF V, top
<1> DEFINE Step(i, rest) == [n \in Numbers |-> ReadOn(text, i, rest, n)]
           f == [i \in 1..(top + 1) |-> g[(top + 1) - i]]
<1>8. ASSUME NEW i \in 1..(top + 1)
      PROVE  f[i] = Step(i, f[i + 1])
  <2>1. f[i] = g[(top + 1) - i]
    OBVIOUS
  <2>2. CASE i = top + 1
    <3>1. (top + 1) - i = 0 /\ i > Len(text)
      BY ONLY <1>1, <2>2 DEF top
    <3>2. \A n \in Numbers : ReadOn(text, i, f[i + 1], n) = n
      BY ONLY <3>1 DEF ReadOn
    <3> QED
      BY ONLY <1>7, <2>1, <3>1, <3>2
  <2>3. CASE i # top + 1
    <3>1. PICK k \in 1..top : /\ k = (top + 1) - i /\ i = (top + 1) - k
                              /\ i + 1 \in 1..(top + 1) /\ k - 1 = (top + 1) - (i + 1)
      BY ONLY <1>1, <2>3
    <3>2. f[i + 1] = g[k - 1]
      BY ONLY <3>1
    <3>3. g[k] = Step(i, g[k - 1])
      BY ONLY <1>7, <3>1
    <3> HIDE DEF f, Step
    <3> QED
      BY ONLY <2>1, <3>1, <3>2, <3>3
  <2> QED
    BY ONLY <2>2, <2>3
<1>9. f = [i \in 1..(top + 1) |-> Step(i, f[i + 1])]
  <2> DEFINE F == [i \in 1..(top + 1) |-> Step(i, f[i + 1])]
  <2>1. \A i \in 1..(top + 1) : f[i] = F[i]
    <3> HIDE DEF f
    <3> QED
      BY ONLY <1>8
  <2> HIDE DEF Step
  <2> QED
    BY ONLY <2>1
<1> HIDE DEF f
<1>10. ReadsFrom(f, text)
  BY ONLY <1>9 DEF ReadsFrom, top
<1> QED
  BY ONLY <1>10

(* Digits are integers.                                                    *)
LEMMA DigitsAreIntegers ==
    ASSUME NEW s \in Seq(ZERO..(ZERO + 9))
    PROVE  s \in Seq(Int)
  BY DEF ZERO

(* The loop of intValue reads digits that are followed by none as the      *)
(* number they make, or finds that the number does not fit a word.         *)
LEMMA LoopReads ==
    ASSUME 10 < MINIMUM, NEW C, NEW text \in Seq(C), NEW f, ReadsFrom(f, text),
           NEW b \in Nat, NEW s \in Seq(ZERO..(ZERO + 9)),
           b + Len(s) <= Len(text),
           \A k \in 1..Len(s) : text[b + k] = s[k],
           b + Len(s) < Len(text) => ~isIntegerAscii(text[b + Len(s) + 1])
    PROVE  /\ Value(s) \in Nat
           /\ Value(s) < MINIMUM => f[b + 1][0] = Value(s)
           /\ Value(s) = MINIMUM => f[b + 1][0] = Error(10)
<1>1. PICK e \in Nat : e = Len(s)
  OBVIOUS
<1>0. PICK top \in Nat : top = Len(text) /\ b + e <= top
  BY <1>1
<1>2. Len(text) \in Nat /\ MINIMUM \in Nat \ {0} /\ Numbers = 0..(2 * MINIMUM - 1)
  BY ONLY Sizes
<1>3. \A k \in 1..e : isIntegerAscii(s[k]) /\ s[k] - ZERO \in 0..9
  <2>1. \A k \in 1..e : s[k] \in ZERO..(ZERO + 9)
    BY ONLY <1>1, ElementOfSeq
  <2> QED
    BY ONLY <2>1 DEF isIntegerAscii, ZERO
<1>4. s \in Seq(Int)
  BY ONLY DigitsAreIntegers
<1>5. PICK v : Reads(v, s) /\ Value(s) = v[e]
  BY ONLY <1>1, <1>4, ValueReads
<1>6. /\ v[0] = 0
      /\ \A k \in 1..e : v[k] = 10 * v[k - 1] + (s[k] - ZERO)
  BY ONLY <1>1, <1>5 DEF Reads
<1> DEFINE S == {k \in 0..e : v[k] \in Nat}
           R == {k \in 0..e : v[k] < MINIMUM => f[b + 1][0] = f[b + 1 + k][v[k]]}
<1>7. 0..e \subseteq S
  <2>1. 0 \in S
    BY ONLY <1>1, <1>6
  <2>2. ASSUME NEW k \in 0..e, k \in S, k + 1 \in 0..e
        PROVE  k + 1 \in S
    <3>1. k + 1 \in 1..e /\ (k + 1) - 1 = k
      BY ONLY e \in Nat, <2>2
    <3>2. v[k + 1] = 10 * v[k] + (s[k + 1] - ZERO) /\ s[k + 1] - ZERO \in 0..9
      BY ONLY <1>3, <1>6, <3>1
    <3>3. PICK m \in Nat, d \in 0..9 : m = v[k] /\ d = s[k + 1] - ZERO
      BY ONLY <2>2, <3>2
    <3>4. 10 * m + d \in Nat
      OBVIOUS
    <3>5. v[k + 1] \in Nat
      BY ONLY <3>2, <3>3, <3>4
    <3> QED
      BY ONLY <2>2, <3>5
  <2> HIDE DEF S
  <2> QED
    BY ONLY <1>1, <2>1, <2>2, UpTo
<1>8. \A k \in 0..e : v[k] \in Nat
  BY ONLY <1>7
<1>9. ASSUME NEW i \in 1..(Len(text) + 1), NEW n \in Numbers
      PROVE  f[i][n] = ReadOn(text, i, f[i + 1], n)
  BY <1>9 DEF ReadsFrom
\* A digit that follows those that made n.
<1>10. ASSUME NEW k \in 0..e, k + 1 \in 0..e, v[k] < MINIMUM
       PROVE  /\ v[k + 1] < MINIMUM => f[b + 1 + k][v[k]] = f[b + 1 + (k + 1)][v[k + 1]]
              /\ v[k + 1] = MINIMUM => f[b + 1 + k][v[k]] = Error(10)
  <2>1. k + 1 \in 1..e /\ (k + 1) - 1 = k
    BY ONLY <1>1, <1>10
  <2>2. PICK i \in 1..(Len(text) + 1) : /\ i = b + 1 + k /\ i = b + (k + 1)
                                        /\ i + 1 = b + 1 + (k + 1) /\ ~(i > Len(text))
    <3> DEFINE j == b + 1 + k
    <3>1. /\ j \in 1..(top + 1) /\ j = b + (k + 1)
          /\ j + 1 = b + 1 + (k + 1) /\ ~(j > top)
      BY ONLY <1>0, <1>1, <2>1
    <3> QED
      BY ONLY <1>0, <3>1
  <2>3. PICK n \in Numbers : n = v[k] /\ n < MINIMUM /\ n \in Nat
    BY ONLY <1>2, <1>8, <1>10
  <2>4. PICK c : c = text[i] /\ c = s[k + 1]
    BY <1>1, <2>1, <2>2
  <2>5. isIntegerAscii(c) /\ v[k + 1] = 10 * n + (c - ZERO) /\ v[k + 1] \in Nat
    BY ONLY <1>3, <1>6, <1>8, <1>10, <2>1, <2>3, <2>4
  <2> DEFINE next == Wrap(multiply(n, 10) + (c - ZERO))
  <2>6. next = Wrap(v[k + 1])
    BY <2>3, <2>5, NextDigit
  <2>7. v[k + 1] <= MINIMUM => v[k + 1] \in Numbers
    BY ONLY <1>2, <2>5
  <2>8. v[k + 1] <= MINIMUM => next = v[k + 1]
    BY ONLY <2>6, <2>7, WrapOfWord
  <2> HIDE DEF next
  <2>9. f[i][n] = IF IsNegative(next) THEN Error(10) ELSE f[i + 1][next]
    BY ONLY <1>9, <2>2, <2>4, <2>5 DEF ReadOn, next
  <2>10. CASE v[k + 1] < MINIMUM
    <3>1. ~IsNegative(next)
      <4>1. v[k + 1] \in (-MINIMUM)..(MINIMUM - 1) /\ ~(v[k + 1] < 0)
        BY ONLY <1>2, <2>5, <2>10
      <4> QED
        BY ONLY <2>6, <4>1, SignOfWrap
    <3> QED
      BY ONLY <1>2, <2>2, <2>3, <2>5, <2>8, <2>9, <2>10, <3>1
  <2>11. CASE v[k + 1] = MINIMUM
    <3>1. PICK m \in (-MINIMUM)..(MINIMUM - 1) : m = -MINIMUM /\ m < 0
      BY ONLY <1>2
    <3>2. IsNegative(Wrap(m)) /\ Wrap(m) = MINIMUM
      BY ONLY <1>2, <3>1, SignOfWrap
    <3> QED
      BY ONLY <1>2, <2>2, <2>3, <2>8, <2>9, <2>11, <3>2
  <2> QED
    BY ONLY <1>2, <2>5, <2>10, <2>11
<1>11. \A k \in 0..e : k + 1 \in 0..e => 10 * v[k] <= v[k + 1] /\ v[k] <= v[k + 1]
  <2> TAKE k \in 0..e
  <2> HAVE k + 1 \in 0..e
  <2>1. k + 1 \in 1..e /\ (k + 1) - 1 = k
    BY <1>1
  <2>2. v[k + 1] = 10 * v[k] + (s[k + 1] - ZERO) /\ s[k + 1] - ZERO \in 0..9
    BY ONLY <1>3, <1>6, <2>1
  <2>3. PICK m \in Nat, d \in 0..9 : m = v[k] /\ d = s[k + 1] - ZERO
    BY ONLY <1>8, <2>2
  <2>4. 10 * m <= 10 * m + d /\ m <= 10 * m + d
    OBVIOUS
  <2> QED
    BY ONLY <2>2, <2>3, <2>4
<1>12. 0..e \subseteq R
  <2>1. 0 \in R
    BY ONLY <1>1, <1>6
  <2>2. ASSUME NEW k \in 0..e, k \in R, k + 1 \in 0..e
        PROVE  k + 1 \in R
    <3>1. v[k + 1] < MINIMUM => v[k] < MINIMUM
      <4>1. v[k] \in Nat /\ v[k + 1] \in Nat /\ v[k] <= v[k + 1]
        BY ONLY <1>8, <1>11, <2>2
      <4> QED
        BY ONLY <1>2, <4>1
    <3>2. v[k] < MINIMUM => f[b + 1][0] = f[b + 1 + k][v[k]]
      BY ONLY <2>2
    <3>3. v[k + 1] < MINIMUM => f[b + 1][0] = f[b + 1 + (k + 1)][v[k + 1]]
      BY ONLY <1>10, <2>2, <3>1, <3>2
    <3> QED
      BY ONLY <2>2, <3>3
  <2> HIDE DEF R
  <2> QED
    BY ONLY <1>1, <2>1, <2>2, UpTo
<1>13. \A k \in 0..e : v[k] < MINIMUM => f[b + 1][0] = f[b + 1 + k][v[k]]
  BY ONLY <1>12
<1> HIDE DEF S, R
<1>14. e \in 0..e /\ v[e] \in Nat
  BY ONLY <1>1, <1>8
<1>15. ASSUME v[e] < MINIMUM PROVE f[b + 1][0] = v[e]
  <2>1. PICK i \in 1..(Len(text) + 1) : i = b + 1 + e /\ i = b + Len(s) + 1
    BY <1>1, <1>2
  <2>2. v[e] \in Numbers
    BY ONLY <1>2, <1>14, <1>15
  <2>3. i > Len(text) \/ ~isIntegerAscii(text[i])
    BY <1>1, <1>2, <2>1
  <2>4. f[i][v[e]] = v[e]
    BY ONLY <1>9, <2>2, <2>3 DEF ReadOn
  <2> QED
    BY ONLY <1>13, <1>14, <1>15, <2>1, <2>4
<1>16. ASSUME v[e] = MINIMUM PROVE f[b + 1][0] = Error(10)
  <2>1. e # 0
    <3>1. v[0] # MINIMUM
      BY ONLY <1>2, <1>6
    <3> QED
      BY ONLY <1>16, <3>1
  <2>2. PICK k \in 0..e : k = e - 1 /\ k + 1 = e
    BY ONLY e \in Nat, <2>1
  <2>3. v[k] < MINIMUM
    <3>1. v[k] \in Nat /\ 10 * v[k] <= MINIMUM
      BY ONLY <1>8, <1>11, <1>14, <1>16, <2>2
    <3> QED
      BY ONLY <1>2, <3>1
  <2> QED
    BY ONLY <1>10, <1>13, <1>14, <1>16, <2>2, <2>3
<1> QED
  BY ONLY <1>5, <1>14, <1>15, <1>16

(* A text is read as the number it denotes, when that fits a word and is   *)
(* not the smallest number.                                                *)
LEMMA IntValueIs ==
    ASSUME 10 < MINIMUM, NEW C, NEW text \in Seq(C), text # <<>>
    PROVE  /\ Denoted(text) \in Int
           /\ Magnitude(Denoted(text)) < MINIMUM => intValue(text) = Wrap(Denoted(text))
           /\ Magnitude(Denoted(text)) = MINIMUM => intValue(text) = Error(10)
<1> DEFINE negative == text[1] = MINUS
           u == Unsigned(text)
           b == IF negative THEN 1 ELSE 0
           n == Value(DigitsAhead(u))
           from == CHOOSE f : ReadsFrom(f, text)
           value == from[IF negative THEN 2 ELSE 1][0]
<1>1. /\ Len(text) \in Nat \ {0} /\ Head(text) = text[1]
      /\ u \in Seq(C) /\ Len(u) = Len(text) - b
      /\ \A k \in 1..Len(u) : u[k] = text[b + k]
  <2>1. Len(text) \in Nat \ {0} /\ Head(text) = text[1]
    OBVIOUS
  <2>2. CASE negative
    <3>1. u = Tail(text)
      BY ONLY <2>1, <2>2 DEF Unsigned
    <3> QED
      BY ONLY <2>1, <2>2, <3>1
  <2>3. CASE ~negative
    <3>1. u = text
      BY ONLY <2>1, <2>3 DEF Unsigned
    <3> QED
      BY ONLY <2>1, <2>3, <3>1
  <2> QED
    BY ONLY <2>2, <2>3
<1> HIDE DEF u
<1>2. PICK e \in 0..Len(u) :
          /\ DigitsAhead(u) = SubSeq(u, 1, e)
          /\ \A k \in 1..e : isIntegerAscii(u[k])
          /\ e < Len(u) => ~isIntegerAscii(u[e + 1])
  BY ONLY <1>1, DigitsEnd
<1>3. PICK s : s = DigitsAhead(u)
  OBVIOUS
<1>4. /\ s \in Seq(ZERO..(ZERO + 9)) /\ Len(s) = e
      /\ \A k \in 1..e : s[k] = u[k]
  <2>1. Len(u) \in Nat
    BY ONLY <1>1
  <2>2. s = SubSeq(u, 1, e) /\ Len(s) = e /\ s \in Seq(C) /\ \A k \in 1..e : s[k] = u[k]
    BY ONLY <1>1, <1>2, <1>3, <2>1
  <2>3. \A k \in 1..e : s[k] \in ZERO..(ZERO + 9)
    BY ONLY <1>2, <2>2 DEF isIntegerAscii
  <2>4. s = [k \in 1..e |-> s[k]] /\ e \in Nat
    BY ONLY <2>1, <2>2
  <2> QED
    BY <2>2, <2>3, <2>4
<1>5. PICK g : g = from /\ ReadsFrom(g, text)
  BY ReadsExists
<1>6. /\ b \in Nat /\ b + Len(s) <= Len(text)
      /\ \A k \in 1..Len(s) : text[b + k] = s[k]
      /\ b + Len(s) < Len(text) => ~isIntegerAscii(text[b + Len(s) + 1])
  <2>1. PICK m \in Nat, c \in 0..1 : m = Len(u) /\ c = b /\ Len(text) = m + c
    BY ONLY <1>1
  <2>2. e \in 0..m
    BY ONLY <2>1
  <2>3. /\ c + e <= m + c
        /\ c + e < m + c => e < m /\ e + 1 \in 1..m /\ c + (e + 1) = c + e + 1
        /\ \A k \in 1..e : k \in 1..m
    BY ONLY <2>2
  <2> HIDE DEF b
  <2>4. \A k \in 1..e : text[c + k] = s[k]
    BY ONLY <1>1, <1>4, <2>1, <2>3
  <2>5. c + e < m + c => ~isIntegerAscii(text[c + e + 1])
    BY ONLY <1>1, <1>2, <2>1, <2>3
  <2> QED
    BY ONLY <1>4, <2>1, <2>3, <2>4, <2>5
<1>7. /\ n \in Nat
      /\ n < MINIMUM => g[b + 1][0] = n
      /\ n = MINIMUM => g[b + 1][0] = Error(10)
  <2> HIDE DEF b
  <2> QED
    BY <1>3, <1>4, <1>5, <1>6, LoopReads
<1>8. value = g[b + 1][0]
  BY ONLY <1>5
<1>9. intValue(text) = IF value < 0 THEN value
                       ELSE IF negative THEN Wrap(-value) ELSE value
  BY DEF intValue, ReadsFrom, ReadOn
<1>10. Denoted(text) = IF negative THEN -n ELSE n
  BY ONLY <1>1 DEF Denoted, u
<1> HIDE DEF n, value, negative
<1>11. Denoted(text) \in Int /\ Magnitude(Denoted(text)) = n
  BY ONLY <1>7, <1>10 DEF Magnitude
<1>12. ASSUME n < MINIMUM PROVE intValue(text) = Wrap(Denoted(text))
  <2>1. value = n
    BY ONLY <1>7, <1>8, <1>12
  <2>2. n \in Numbers
    BY ONLY <1>7, <1>12, Sizes
  <2>3. Wrap(n) = n
    BY ONLY <2>2, WrapOfWord
  <2> QED
    BY ONLY <1>7, <1>9, <1>10, <2>1, <2>3
<1>13. ASSUME n = MINIMUM PROVE intValue(text) = Error(10)
  BY ONLY <1>7, <1>8, <1>9, <1>13 DEF Error
<1> QED
  BY ONLY <1>11, <1>12, <1>13

(* What is written of a number is a numeral of it, read as that number;    *)
(* a string that is too short for it is left alone.                        *)
LEMMA WritesNumerals ==
    ASSUME 10 < MINIMUM, NEW x \in Numbers
    PROVE  LET text == intToString(x)
           IN  /\ Denoted(text) = Signed(x)
               /\ DigitsAhead(Unsigned(text)) = Unsigned(text)
               /\ Unsigned(text)[1] = ZERO => text = <<ZERO>>
               /\ intValue(text) = IF x = MINIMUM THEN Error(10) ELSE x
               /\ \A room : IF Len(text) <= room THEN setInt(x, room) = text
                            ELSE setInt(x, room) \in {<<Error(13)>>, <<Error(15)>>}
<1> DEFINE sign == IF Less(x, 0) THEN <<MINUS>> ELSE <<>>
           written == IF x = 0 THEN <<getIntegerAscii(0)>> ELSE sign \o Digits[x]
<1>1. /\ MINIMUM \in Nat \ {0} /\ x \in Int
      /\ abs(x) = Magnitude(Signed(x)) /\ abs(x) \in 0..MINIMUM
      /\ Signed(x) \in Int /\ (Less(x, 0) <=> Signed(x) < 0)
      /\ abs(x) = MINIMUM <=> x = MINIMUM
  <2>1. /\ abs(x) = Magnitude(Signed(x)) /\ abs(x) \in 0..MINIMUM
        /\ abs(x) = MINIMUM <=> x = MINIMUM
    BY ONLY AbsIs
  <2>2. MINIMUM \in Nat \ {0} /\ x \in Int /\ Signed(x) \in (-MINIMUM)..(MINIMUM - 1)
    BY ONLY Sizes, SignedIs
  <2>3. Less(x, 0) <=> Signed(x) < 0
    BY ONLY Signs
  <2>4. Signed(x) \in Int
    BY ONLY <2>2
  <2> QED
    BY ONLY <2>1, <2>2, <2>3, <2>4
<1>2. \A room : IF Len(written) <= room THEN setInt(x, room) = written
                ELSE setInt(x, room) \in {<<Error(13)>>, <<Error(15)>>}
  BY DEF setInt
<1>3. /\ written \in Seq(Int) /\ written # <<>>
      /\ intToString(x) = written
      /\ Denoted(written) = Signed(x)
      /\ DigitsAhead(Unsigned(written)) = Unsigned(written)
      /\ Unsigned(written)[1] = ZERO => written = <<ZERO>>
  <2>1. CASE x = 0
    <3>1. written = <<ZERO>> /\ written = Append(<<>>, ZERO)
      BY ONLY <2>1 DEF getIntegerAscii, ZERO
    <3>2. written \in Seq(Int) /\ written \in Seq(ZERO..(ZERO + 9)) /\ Len(written) = 1
      <4>1. ZERO \in ZERO..(ZERO + 9) /\ ZERO \in Int
        BY DEF ZERO
      <4> HIDE DEF written
      <4> QED
        BY ONLY <3>1, <4>1
    <3>3. Head(written) # MINUS /\ written # <<>>
      <4>1. ZERO # MINUS
        BY DEF ZERO, MINUS
      <4> HIDE DEF written
      <4> QED
        BY ONLY <3>1, <4>1
    <3>4. intToString(x) = written
      <4>1. intToString(x) = setInt(x, 1)
        BY ONLY <2>1 DEF intToString
      <4> HIDE DEF written
      <4> QED
        BY ONLY <1>2, <3>2, <4>1
    <3>5. Unsigned(written) = written
      BY ONLY <3>3 DEF Unsigned
    <3>6. DigitsAhead(written) = written
      BY ONLY <3>2, AllDigits
    <3>7. Value(written) = 0
      <4>1. <<>> \in Seq(Int) /\ ZERO \in Int /\ ZERO - ZERO = 0
        BY DEF ZERO
      <4>2. Value(Append(<<>>, ZERO)) = 10 * Value(<<>>) + (ZERO - ZERO) /\ Value(<<>>) = 0
        BY ONLY <4>1, ValueAppend
      <4> HIDE DEF written
      <4> QED
        BY ONLY <3>1, <4>1, <4>2
    <3>8. Denoted(written) = 0
      BY ONLY <3>3, <3>5, <3>6, <3>7 DEF Denoted
    <3>9. Signed(x) = 0
      BY ONLY <1>1, <2>1, AbsZero DEF Magnitude
    <3> HIDE DEF written
    <3> QED
      BY ONLY <3>1, <3>2, <3>3, <3>4, <3>5, <3>6, <3>8, <3>9
  <2>2. CASE x # 0
    <3>1. PICK s : s = Digits[x] /\ IsNumeral(s, abs(x))
      BY <2>2, DigitsAreNumerals
    <3>2. s \in Seq(ZERO..(ZERO + 9)) /\ s # <<>> /\ s[1] # ZERO /\ Value(s) = abs(x)
      BY ONLY <3>1 DEF IsNumeral
    <3>3. s \in Seq(Int) /\ Len(s) \in Nat \ {0} /\ Head(s) = s[1]
      BY ONLY <3>2, DigitsAreIntegers
    <3>4. s[1] \in ZERO..(ZERO + 9)
      <4>1. 1 \in 1..Len(s)
        BY ONLY <3>3
      <4> QED
        BY ONLY <3>2, <4>1, ElementOfSeq
    <3>5. s[1] # MINUS /\ MINUS \in Int
      BY ONLY <3>4 DEF MINUS, ZERO
    <3>6. written = sign \o s
      BY ONLY <2>2, <3>1
    <3>7. /\ written \in Seq(Int) /\ written # <<>>
          /\ Unsigned(written) = s
          /\ Len(written) = Len(s) + (IF Less(x, 0) THEN 1 ELSE 0)
          /\ Head(written) = MINUS <=> Less(x, 0)
      <4>1. CASE Less(x, 0)
        <5>1. written = <<MINUS>> \o s
          BY ONLY <3>6, <4>1
        <5> HIDE DEF written
        <5>2. /\ written \in Seq(Int) /\ written # <<>> /\ Head(written) = MINUS
              /\ Len(written) = Len(s) + 1
          BY ONLY <3>3, <3>5, <5>1
        <5>3. Tail(written) = s
          BY ONLY <3>3, <3>5, <5>1
        <5> QED
          BY ONLY <4>1, <5>2, <5>3 DEF Unsigned
      <4>2. CASE ~Less(x, 0)
        <5>1. written = s
          BY ONLY <3>3, <3>6, <4>2
        <5> HIDE DEF written
        <5> QED
          BY ONLY <3>2, <3>3, <3>5, <4>2, <5>1 DEF Unsigned
      <4> QED
        BY ONLY <4>1, <4>2
    <3> HIDE DEF written
    <3>8. intToString(x) = written
      <4>1. intToString(x) = setInt(x, Len(written))
        BY ONLY <2>2, <3>1, <3>7 DEF intToString
      <4>2. Len(written) <= Len(written)
        BY ONLY <3>7
      <4> QED
        BY ONLY <1>2, <4>1, <4>2
    <3>9. DigitsAhead(s) = s
      BY ONLY <3>2, AllDigits
    <3>10. Denoted(written) = IF Less(x, 0) THEN -abs(x) ELSE abs(x)
      BY ONLY <3>2, <3>7, <3>9 DEF Denoted
    <3>11. Denoted(written) = Signed(x)
      BY ONLY <1>1, <3>10 DEF Magnitude
    <3> QED
      BY ONLY <3>2, <3>7, <3>8, <3>9, <3>11
  <2> QED
    BY ONLY <2>1, <2>2
<1> HIDE DEF written
<1>4. intValue(written) = IF x = MINIMUM THEN Error(10) ELSE x
  <2>1. /\ Magnitude(Signed(x)) < MINIMUM => intValue(written) = Wrap(Signed(x))
        /\ Magnitude(Signed(x)) = MINIMUM => intValue(written) = Error(10)
    BY <1>3, IntValueIs
  <2>2. Wrap(Signed(x)) = x
    BY ONLY WrapSigned
  <2> QED
    BY ONLY <1>1, <2>1, <2>2
<1> QED
  BY ONLY <1>2, <1>3, <1>4

-----------------------------------------------------------------------------
(* The calls.                                                              *)

\* The key that is down has been read only while readChar waits for it to go
\* up, and no key that is up has been read.
ReadOnce ==
    /\ answered => pc = "release"
    /\ kbd = NOKEY => ~answered

(* OneCharacterPerStroke: from the press of a key to its release, readChar *)
(* reads one character, whatever the user does.                            *)
THEOREM StrokesReadOnce == Spec => OneCharacterPerStroke
<1>1. Init => ReadOnce
  BY DEF Init, ReadOnce
<1>2. ReadOnce /\ [Next]_vars => ReadOnce'
  <2> SUFFICES ASSUME ReadOnce, [Next]_vars PROVE ReadOnce'
    OBVIOUS
  <2> USE DEF ReadOnce
  <2>1. CASE Evaluate
    BY <2>1 DEF Evaluate
  <2>2. CASE Convert
    BY <2>2 DEF Convert
  <2>3. CASE Draw
    BY <2>3 DEF Draw
  <2>4. CASE CallReadLine
    BY <2>4 DEF CallReadLine, readLine
  <2>5. CASE Prompt
    BY <2>5 DEF Prompt
  <2>6. CASE SeePress
    BY <2>6 DEF SeePress
  <2>7. CASE SeeRelease
    BY <2>7 DEF SeeRelease, Echo
  <2>8. CASE ReturnLine
    BY <2>8 DEF ReturnLine
  <2>9. CASE Press
    BY <2>9, KeyboardAssumption DEF Press
  <2>10. CASE Release
    BY <2>10 DEF Release
  <2>11. CASE UNCHANGED vars
    BY <2>11 DEF vars, consoleVars
  <2> QED
    BY <2>1, <2>2, <2>3, <2>4, <2>5, <2>6, <2>7, <2>8, <2>9, <2>10, <2>11
       DEF Next, Reading, Strike, User
<1>3. ReadOnce /\ [Next]_vars => [SeePress => ~answered]_consoleVars
  BY DEF ReadOnce, SeePress
<1> QED
  BY <1>1, <1>2, <1>3, PTL DEF Spec, OneCharacterPerStroke

-----------------------------------------------------------------------------
\* A key is looked for, and then waited for, only while there is room.
LineInv ==
    /\ LineFits
    /\ kbd \in Keys \cup {NOKEY}
    /\ pc \in {"press", "release"} => HasRoom
    /\ pc = "release" => key \in Keys

Text == Keys \ {NEWLINE, BACKSPACE}

LEMMA FrontFits ==
    ASSUME NEW S, NEW s \in Seq(S), s # << >>
    PROVE  Front(s) \in Seq(S) /\ Len(Front(s)) = Len(s) - 1
<1>1. Len(s) \in Nat \ {0}
  BY EmptySeq
<1>2. s \in [1..Len(s) -> S]
  BY LenProperties
<1>3. \A i \in 1..(Len(s) - 1) : s[i] \in S
  BY <1>1, <1>2
<1>4. /\ SubSeq(s, 1, Len(s) - 1) \in Seq(S)
      /\ Len(SubSeq(s, 1, Len(s) - 1)) = IF 1 <= Len(s) - 1 THEN Len(s) - 1 - 1 + 1 ELSE 0
  BY <1>1, <1>3, SubSeqProperties, SMT
<1>5. \A n \in Nat \ {0} : (IF 1 <= n - 1 THEN n - 1 - 1 + 1 ELSE 0) = n - 1
  OBVIOUS
<1>6. Front(s) = SubSeq(s, 1, Len(s) - 1)
  BY Zenon DEF Front
<1> QED
  BY <1>1, <1>4, <1>5, <1>6, Zenon

LEMMA EchoFits == LineInv /\ pc = "release" /\ Echo => LineInv'
<1> SUFFICES ASSUME LineInv, pc = "release", Echo PROVE LineInv'
  OBVIOUS
<1>1. line \in Seq(Text) /\ Len(line) < MAX_LINE_LENGTH /\ key \in Keys
  BY DEF LineInv, LineFits, HasRoom, Text
<1>2. kbd' \in Keys \cup {NOKEY}
  BY DEF LineInv, Echo
<1>3. pc' \in {"loop", "halted"}
  BY DEF Echo
<1>4. line' \in Seq(Text) /\ Len(line') <= MAX_LINE_LENGTH
  <2>1. CASE line' = line
    BY <2>1, <1>1, KeyboardAssumption
  <2>2. CASE line # << >> /\ line' = Front(line)
    BY <2>2, <1>1, FrontFits, KeyboardAssumption
  <2>3. CASE key \notin {NEWLINE, BACKSPACE} /\ line' = Append(line, key)
    BY <2>3, <1>1, KeyboardAssumption DEF Text
  <2> QED
    BY <2>1, <2>2, <2>3 DEF Echo
<1> QED
  BY <1>2, <1>3, <1>4 DEF LineInv, LineFits, Text

LEMMA LineInvStep == LineInv /\ [Next]_vars => LineInv'
<1> SUFFICES ASSUME LineInv, [Next]_vars PROVE LineInv'
  OBVIOUS
<1> USE DEF LineInv, LineFits, HasRoom
<1>1. CASE Evaluate \/ Convert \/ Draw
  BY <1>1 DEF Evaluate, Convert, Draw
<1>2. CASE CallReadLine
  BY <1>2, KeyboardAssumption DEF CallReadLine, readLine
<1>3. CASE Prompt \/ SeePress \/ ReturnLine
  BY <1>3 DEF Prompt, SeePress, ReturnLine
<1>4. CASE SeeRelease
  BY <1>4, EchoFits DEF SeeRelease
<1>5. CASE Press \/ Release
  BY <1>5 DEF Press, Release
<1>6. CASE UNCHANGED vars
  BY <1>6 DEF vars, consoleVars
<1> QED
  BY <1>1, <1>2, <1>3, <1>4, <1>5, <1>6 DEF Next, Reading, Strike, User

(* LineFits: the buffer of readLine holds the text keys of the line and    *)
(* never more of them than it has room for, for every length of the buffer *)
(* and every behaviour of the user.                                        *)
THEOREM LineAlwaysFits == Spec => []LineFits
<1>1. Init => LineInv
  BY DEF Init, LineInv, LineFits, HasRoom
<1>2. LineInv => LineFits
  BY DEF LineInv
<1> QED
  BY <1>1, <1>2, LineInvStep, PTL DEF Spec

-----------------------------------------------------------------------------
(* A row of pixels.                                                        *)

LEMMA RowWords ==
    wordsPerRow \in Nat /\ word \in Nat \ {0} /\ X = word * wordsPerRow
<1>1. X \div word \in Int /\ X = word * (X \div word) + 0
  BY ScreenAssumption, Division
<1>2. X \div word >= 0
  <2>1. ASSUME NEW q \in Int, q < 0
        PROVE  word * q + 0 < 0
    <3>1. word * q + 0 < word * 0 + 0
      BY <2>1, WordOrder, ScreenAssumption
    <3>2. word * 0 = 0
      BY ScreenAssumption
    <3> QED
      BY <3>1, <3>2
  <2> QED
    BY <1>1, <2>1, ScreenAssumption
<1>3. word * (X \div word) \in Int
  BY <1>1, ScreenAssumption
<1> QED
  BY <1>1, <1>2, <1>3, ScreenAssumption DEF wordsPerRow

\* The pixels of the words of a row from the m1-th of word d1 to the one before
\* the m2-th of word d2.
Stretch(row, d1, m1, d2, m2) ==
    {p \in Int \X FullMask :
        LET q == p[1] - row
        IN  /\ d1 < q \/ (d1 = q /\ m1 <= p[2])
            /\ q < d2 \/ (q = d2 /\ p[2] < m2)}

LEMMA CoverIs ==
    ASSUME NEW addr, NEW mask, NEW p
    PROVE  p \in Cover(addr, mask) <=> \E r \in mask : p = <<addr, r>>
  BY DEF Cover

(* The pixels drawLineHorizontal takes when it leaves the word it begins   *)
(* in: the first word's, the whole words', the last word's.                *)
Across(row, d1, m1, m2, col, whole) ==
    (IF m1 > 0 THEN Cover(row + d1, m1..(word - 1)) ELSE {})
      \cup (UNION {Cover(row + col + k, FullMask) : k \in whole})
      \cup (IF m2 > 0 THEN Cover(row + col + Cardinality(whole), 0..(m2 - 1)) ELSE {})

(* drawLineHorizontal when it leaves the word it begins in: the masks of   *)
(* the first and the last word and the whole words between them.           *)
LEMMA WordsBetween ==
    ASSUME NEW row \in Int, NEW d1 \in Nat, NEW d2 \in 0..wordsPerRow, d1 < d2,
           NEW m1 \in FullMask, NEW m2 \in FullMask,
           NEW i, i = IF m1 > 0 THEN word * d1 + m1 + (word - m1) ELSE word * d1 + m1,
           NEW col, col = d1 + (IF m1 > 0 THEN 1 ELSE 0),
           NEW whole, whole = {k \in 0..wordsPerRow : i + k * word < word * d2}
    PROVE  Across(row, d1, m1, m2, col, whole) = Stretch(row, d1, m1, d2, m2)
<1> USE RowWords DEF FullMask, Across
<1>1. /\ m1 \in 0..(word - 1) /\ m2 \in 0..(word - 1)
      /\ d2 \in Nat /\ col \in Nat /\ col <= d2
  OBVIOUS
<1>2. i = word * col + 0
  <2>1. CASE m1 > 0
    <3>1. col = d1 + 1 /\ word * (d1 + 1) = word * d1 + word
      BY <2>1
    <3>2. word * d1 \in Int
      OBVIOUS
    <3> QED
      BY <2>1, <3>1, <3>2
  <2>2. CASE m1 = 0
    BY <2>2
  <2> QED
    BY <1>1, <2>1, <2>2
<1>3. \A k \in Nat : i + k * word < word * d2 <=> col + k < d2
  <2> TAKE k \in Nat
  <2>1. word * (col + k) = word * col + k * word
    BY <1>1
  <2>2. word * (col + k) + 0 < word * d2 + 0 <=> col + k < d2
    BY <1>1, WordOrder
  <2>3. word * col \in Int /\ word * d2 \in Int /\ k * word \in Int
    BY <1>1
  <2> QED
    BY <1>2, <2>1, <2>2, <2>3
<1>4. whole = 0..(d2 - col - 1)
  BY <1>1, <1>3
<1>5. Cardinality(whole) = d2 - col
  <2>1. d2 - col - 1 \in Int
    BY <1>1
  <2>2. Cardinality(0..(d2 - col - 1)) = IF 0 > d2 - col - 1 THEN 0 ELSE d2 - col - 1 - 0 + 1
    BY <2>1, FS_Interval
  <2>3. (IF 0 > d2 - col - 1 THEN 0 ELSE d2 - col - 1 - 0 + 1) = d2 - col
    BY <1>1
  <2> QED
    BY <1>4, <2>2, <2>3, Zenon
<1>6. row + col + Cardinality(whole) = row + d2
  BY <1>1, <1>5
<1> DEFINE first == IF m1 > 0 THEN Cover(row + d1, m1..(word - 1)) ELSE {}
           middle == UNION {Cover(row + col + k, FullMask) : k \in whole}
           last == IF m2 > 0 THEN Cover(row + d2, 0..(m2 - 1)) ELSE {}
           S == Stretch(row, d1, m1, d2, m2)
<1>7. \A p : p \in S <=> \E q \in Int, r \in FullMask :
                            /\ p = <<row + q, r>>
                            /\ d1 < q \/ (d1 = q /\ m1 <= r)
                            /\ q < d2 \/ (q = d2 /\ r < m2)
  <2>1. ASSUME NEW p, p \in S
        PROVE  \E q \in Int, r \in FullMask :
                            /\ p = <<row + q, r>>
                            /\ d1 < q \/ (d1 = q /\ m1 <= r)
                            /\ q < d2 \/ (q = d2 /\ r < m2)
    <3>1. p = <<row + (p[1] - row), p[2]>> /\ p[1] - row \in Int /\ p[2] \in FullMask
      BY <2>1 DEF Stretch
    <3> QED
      BY <2>1, <3>1 DEF Stretch
  <2>2. ASSUME NEW q \in Int, NEW r \in FullMask,
               d1 < q \/ (d1 = q /\ m1 <= r), q < d2 \/ (q = d2 /\ r < m2)
        PROVE  <<row + q, r>> \in S
    BY <2>2 DEF Stretch
  <2> QED
    BY <2>1, <2>2
<1>8. ASSUME NEW p, p \in S
      PROVE  p \in first \cup middle \cup last
  <2>1. PICK q \in Int, r \in FullMask :
                            /\ p = <<row + q, r>>
                            /\ d1 < q \/ (d1 = q /\ m1 <= r)
                            /\ q < d2 \/ (q = d2 /\ r < m2)
    BY <1>7, <1>8
  <2>2. CASE q < col
    <3>1. q = d1 /\ m1 > 0 /\ r \in m1..(word - 1)
      BY <1>1, <2>1, <2>2
    <3> QED
      BY <2>1, <3>1, CoverIs
  <2>3. CASE col <= q /\ q < d2
    <3>1. q - col \in whole /\ row + col + (q - col) = row + q
      BY <1>1, <1>4, <2>3
    <3>2. p \in Cover(row + col + (q - col), FullMask)
      BY <2>1, <3>1, CoverIs
    <3> QED
      BY <3>1, <3>2
  <2>4. CASE d2 <= q
    <3>1. q = d2 /\ m2 > 0 /\ r \in 0..(m2 - 1)
      BY <1>1, <2>1, <2>4
    <3> QED
      BY <2>1, <3>1, CoverIs
  <2> QED
    BY <1>1, <2>2, <2>3, <2>4, SMTT(60)
<1>9. ASSUME NEW p, p \in first \cup middle \cup last
      PROVE  p \in S
  <2>1. CASE p \in first
    <3>1. PICK r \in m1..(word - 1) : m1 > 0 /\ p = <<row + d1, r>>
      BY <2>1, CoverIs
    <3> QED
      BY <1>1, <1>7, <3>1
  <2>2. CASE p \in middle
    <3>1. PICK k \in whole : p \in Cover(row + col + k, FullMask)
      BY <2>2
    <3>2. PICK r \in FullMask : p = <<row + col + k, r>>
      BY <3>1, CoverIs
    <3>3. k \in Nat /\ col + k \in Int /\ row + (col + k) = row + col + k
          /\ d1 <= col + k /\ col + k < d2 /\ (d1 = col + k => m1 = 0)
      BY <1>1, <1>4, <3>1
    <3>4. p = <<row + (col + k), r>>
      BY <3>2, <3>3
    <3>5. d1 < col + k \/ (d1 = col + k /\ m1 <= r)
      BY <1>1, <3>2, <3>3
    <3> QED
      BY <1>7, <3>2, <3>3, <3>4, <3>5
  <2>3. CASE p \in last
    <3>1. PICK r \in 0..(m2 - 1) : m2 > 0 /\ p = <<row + d2, r>>
      BY <2>3, CoverIs
    <3>2. r \in FullMask
      BY <1>1, <3>1
    <3> QED
      BY <1>1, <1>7, <3>1, <3>2
  <2> QED
    BY <1>9, <2>1, <2>2, <2>3
<1>10. first \cup middle \cup last = S
  BY <1>8, <1>9
<1> QED
  BY <1>6, <1>10

LEMMA WithinAWord ==
    ASSUME NEW row \in Int, NEW d \in Nat, NEW m1 \in FullMask, NEW m2 \in FullMask
    PROVE  Cover(row + d, (m1..(word - 1)) \cap (0..(m2 - 1))) = Stretch(row, d, m1, d, m2)
<1> USE RowWords DEF FullMask
<1>1. ASSUME NEW p, p \in Stretch(row, d, m1, d, m2)
      PROVE  p \in Cover(row + d, (m1..(word - 1)) \cap (0..(m2 - 1)))
  <2>1. p = <<p[1], p[2]>> /\ p[1] \in Int /\ p[2] \in Int /\ p[1] - row = d
        /\ p[2] \in (m1..(word - 1)) \cap (0..(m2 - 1))
    BY <1>1 DEF Stretch
  <2>2. p[1] = row + d
    BY <2>1
  <2> QED
    BY <2>1, <2>2, CoverIs
<1>2. ASSUME NEW p, p \in Cover(row + d, (m1..(word - 1)) \cap (0..(m2 - 1)))
      PROVE  p \in Stretch(row, d, m1, d, m2)
  <2>1. PICK r \in (m1..(word - 1)) \cap (0..(m2 - 1)) : p = <<row + d, r>>
    BY <1>2, CoverIs
  <2>2. row + d \in Int /\ row + d - row = d /\ r \in FullMask /\ m1 <= r /\ r < m2
    BY <2>1
  <2> QED
    BY <2>1, <2>2 DEF Stretch
<1> QED
  BY <1>1, <1>2

LEMMA InStretch ==
    ASSUME NEW row, NEW d1, NEW m1, NEW d2, NEW m2, NEW p1 \in Int, NEW r \in FullMask, NEW q,
           p1 - row = q, d1 < q \/ (d1 = q /\ m1 <= r), q < d2 \/ (q = d2 /\ r < m2)
    PROVE  <<p1, r>> \in Stretch(row, d1, m1, d2, m2)
  BY DEF Stretch

\* The pixels from one column to another, in either order, of a row.
Row(a, b, y) == {Pixel(x, y) : x \in Least(a, b)..Greatest(a, b)}

LEMMA RowIsStretch ==
    ASSUME NEW x1 \in Nat, NEW x2 \in Nat, x1 < x2, NEW y \in Nat
    PROVE  {Pixel(x, y) : x \in x1..(x2 - 1)}
             = Stretch(y * wordsPerRow, x1 \div word, x1 % word, x2 \div word, x2 % word)
<1> DEFINE row == y * wordsPerRow
           S == Stretch(row, x1 \div word, x1 % word, x2 \div word, x2 % word)
           T == {Pixel(x, y) : x \in x1..(x2 - 1)}
<1>1. row \in Int /\ word \in Nat \ {0}
  BY RowWords
<1>2. /\ x1 \div word \in Int /\ x1 % word \in FullMask
      /\ x1 = word * (x1 \div word) + (x1 % word)
      /\ x2 \div word \in Int /\ x2 % word \in FullMask
      /\ x2 = word * (x2 \div word) + (x2 % word)
  BY <1>1, Division DEF FullMask
<1>3. \A q \in Int, r \in FullMask :
        LET n == word * q + r
        IN  /\ n \in Int
            /\ n < x1 <=> q < x1 \div word \/ (q = x1 \div word /\ r < x1 % word)
            /\ n < x2 <=> q < x2 \div word \/ (q = x2 \div word /\ r < x2 % word)
  <2> TAKE q \in Int, r \in FullMask
  <2>1. word * q + r \in Int
    BY <1>1 DEF FullMask
  <2>2. word * q + r < word * (x1 \div word) + (x1 % word)
          <=> q < x1 \div word \/ (q = x1 \div word /\ r < x1 % word)
    BY <1>1, <1>2, WordOrder DEF FullMask
  <2>3. word * q + r < word * (x2 \div word) + (x2 % word)
          <=> q < x2 \div word \/ (q = x2 \div word /\ r < x2 % word)
    BY <1>1, <1>2, WordOrder DEF FullMask
  <2> QED
    BY <1>2, <2>1, <2>2, <2>3
<1>4. \A q \in Int, r \in FullMask :
         word * q + r \in x1..(x2 - 1)
           <=> /\ x1 \div word < q \/ (x1 \div word = q /\ x1 % word <= r)
               /\ q < x2 \div word \/ (q = x2 \div word /\ r < x2 % word)
  <2> TAKE q \in Int, r \in FullMask
  <2> DEFINE n == word * q + r
  <2>1. n \in Int /\ r \in Int /\ x1 % word \in Int
    BY <1>2, <1>3 DEF FullMask
  <2>2. n \in x1..(x2 - 1) <=> ~(n < x1) /\ n < x2
    BY <2>1
  <2>3. ~(n < x1) <=> x1 \div word < q \/ (x1 \div word = q /\ x1 % word <= r)
    <3>1. n < x1 <=> q < x1 \div word \/ (q = x1 \div word /\ r < x1 % word)
      BY <1>3
    <3> HIDE DEF n
    <3> QED
      BY <1>2, <2>1, <3>1
  <2>4. n < x2 <=> q < x2 \div word \/ (q = x2 \div word /\ r < x2 % word)
    BY <1>3
  <2> QED
    BY <2>2, <2>3, <2>4
<1>5. ASSUME NEW p, p \in T
      PROVE  p \in S
  <2>1. PICK x \in x1..(x2 - 1) : p = Pixel(x, y)
    BY <1>5
  <2>2. x \in Int /\ x \div word \in Int /\ x % word \in FullMask
        /\ x = word * (x \div word) + (x % word)
    BY <1>1, <2>1, Division DEF FullMask
  <2>3. p = <<row + x \div word, x % word>>
    BY <2>1 DEF Pixel
  <2>4. row + x \div word \in Int /\ row + x \div word - row = x \div word
    BY <1>1, <2>2
  <2>5. /\ x1 \div word < x \div word \/ (x1 \div word = x \div word /\ x1 % word <= x % word)
        /\ x \div word < x2 \div word \/ (x \div word = x2 \div word /\ x % word < x2 % word)
    BY <1>4, <2>1, <2>2
  <2>6. <<row + x \div word, x % word>> \in S
    <3> DEFINE q == x \div word
               r == x % word
               d1 == x1 \div word
               m1 == x1 % word
               d2 == x2 \div word
               m2 == x2 % word
               p1 == row + q
    <3>0. row \in Int /\ q \in Int /\ r \in FullMask
      BY <1>1, <2>2
    <3>1. p1 \in Int /\ p1 - row = q
      <4> HIDE DEF row, q
      <4> QED
        BY <3>0
    <3>2. d1 < q \/ (d1 = q /\ m1 <= r)
      BY <2>5
    <3>3. q < d2 \/ (q = d2 /\ r < m2)
      BY <2>5
    <3> HIDE DEF row, q, r, d1, m1, d2, m2, p1
    <3>4. <<p1, r>> \in Stretch(row, d1, m1, d2, m2)
      BY <3>0, <3>1, <3>2, <3>3, InStretch
    <3> QED
      BY <3>4 DEF q, r, d1, m1, d2, m2, p1
  <2> QED
    BY <2>3, <2>6
<1>6. ASSUME NEW p, p \in S
      PROVE  p \in T
  <2> DEFINE q == p[1] - row
             r == p[2]
  <2>1. /\ p = <<p[1], r>> /\ p[1] \in Int /\ r \in FullMask
        /\ x1 \div word < q \/ (x1 \div word = q /\ x1 % word <= r)
        /\ q < x2 \div word \/ (q = x2 \div word /\ r < x2 % word)
    BY <1>6 DEF Stretch
  <2>2. q \in Int /\ p[1] = row + q
    BY <1>1, <2>1
  <2>3. word * q + r \in x1..(x2 - 1)
    BY <1>4, <2>1, <2>2
  <2>4. (word * q + r) \div word = q /\ (word * q + r) % word = r
    BY <1>1, <2>1, <2>2, DivisionIsUnique DEF FullMask
  <2>5. Pixel(word * q + r, y) = p
    BY <2>1, <2>2, <2>4 DEF Pixel
  <2> QED
    BY <2>3, <2>5
<1> QED
  BY <1>5, <1>6

(* Whatever the words it lies in, drawLineHorizontal covers the pixels of  *)
(* its columns and no other.                                               *)
THEOREM RowCovered ==
    ASSUME NEW a \in 0..(X - 1), NEW b \in 0..(X - 1), NEW y \in Nat
    PROVE  LineHorizontal(a, b, y) = Row(a, b, y)
<1> DEFINE x1 == Least(a, b)
           x2 == Greatest(a, b) + 1
           d1 == x1 \div word
           m1 == x1 % word
           d2 == x2 \div word
           m2 == x2 % word
           row == y * wordsPerRow
           i == IF m1 > 0 THEN x1 + (word - m1) ELSE x1
           col == d1 + (IF m1 > 0 THEN 1 ELSE 0)
           whole == {k \in 0..wordsPerRow : i + k * word < x2 - m2}
<1>1. x1 \in Nat /\ x2 \in Nat /\ x1 < x2 /\ x2 <= X /\ X \in Nat
  BY ScreenAssumption DEF Least, Greatest
<1>2. row \in Int /\ word \in Nat \ {0} /\ wordsPerRow \in Nat
  BY RowWords
<1>3. /\ d1 \in Int /\ m1 \in FullMask /\ x1 = word * d1 + m1
      /\ d2 \in Int /\ m2 \in FullMask /\ x2 = word * d2 + m2
  <2> HIDE DEF x1, x2
  <2> QED
    BY <1>1, <1>2, Division DEF FullMask
<1>4. d1 \in Nat /\ d1 <= d2 /\ d2 <= wordsPerRow
  <2> HIDE DEF x1, x2, d1, d2, m1, m2
  <2>1. word * d1 + m1 < word * d2 + m2
    BY <1>1, <1>3
  <2>2. d1 < d2 \/ (d1 = d2 /\ m1 < m2)
    BY <1>2, <1>3, <2>1, WordOrder DEF FullMask
  <2>3. ~(word * d1 + m1 < word * 0 + 0)
    BY <1>1, <1>2, <1>3
  <2>4. ~(d1 < 0)
    BY <1>2, <1>3, <2>3, WordOrder DEF FullMask
  <2>5. ~(word * wordsPerRow + 0 < word * d2 + m2)
    BY <1>1, <1>3, RowWords
  <2>6. ~(wordsPerRow < d2)
    BY <1>2, <1>3, <2>5, WordOrder DEF FullMask
  <2> QED
    BY <1>2, <1>3, <2>2, <2>4, <2>6
<1>5. LineHorizontal(a, b, y)
        = IF d1 = d2 THEN Cover(row + d1, (m1..(word - 1)) \cap (0..(m2 - 1)))
          ELSE (IF m1 > 0 THEN Cover(row + d1, m1..(word - 1)) ELSE {})
                 \cup (UNION {Cover(row + col + k, FullMask) : k \in whole})
                 \cup (IF m2 > 0 THEN Cover(row + col + Cardinality(whole), 0..(m2 - 1))
                       ELSE {})
  BY DEF LineHorizontal
<1>6. LineHorizontal(a, b, y) = Stretch(row, d1, m1, d2, m2)
  <2>1. CASE d1 = d2
    <3> HIDE DEF row, d1, d2, m1, m2, col, whole
    <3> QED
      BY <1>2, <1>3, <1>4, <1>5, <2>1, WithinAWord
  <2>2. CASE d1 # d2
    <3>1. i = IF m1 > 0 THEN word * d1 + m1 + (word - m1) ELSE word * d1 + m1
      BY <1>3
    <3>2. x2 - m2 = word * d2
      <4> HIDE DEF x1, x2, d1, d2, m1, m2
      <4>1. word * d2 \in Int /\ m2 \in Int
        BY <1>2, <1>3 DEF FullMask
      <4> QED
        BY <1>3, <4>1
    <3>3. whole = {k \in 0..wordsPerRow : i + k * word < word * d2}
      BY <3>2
    <3>4. d1 < d2 /\ d2 \in 0..wordsPerRow
      BY <1>2, <1>3, <1>4, <2>2
    <3>5. col = d1 + (IF m1 > 0 THEN 1 ELSE 0)
      OBVIOUS
    <3> HIDE DEF row, d1, d2, m1, m2, col, whole, i, x1, x2
    <3>6. Across(row, d1, m1, m2, col, whole) = Stretch(row, d1, m1, d2, m2)
      <4>1. row \in Int
        BY <1>2
      <4>2. d1 \in Nat
        BY <1>4
      <4>3. d2 \in 0..wordsPerRow
        BY <3>4
      <4>4. d1 < d2
        BY <3>4
      <4>5. m1 \in FullMask
        BY <1>3
      <4>6. m2 \in FullMask
        BY <1>3
      <4> QED
        BY ONLY <4>1, <4>2, <4>3, <4>4, <4>5, <4>6, <3>1, <3>3, <3>5,
                WordsBetween, SMTT(60)
    <3> QED
      BY <1>5, <2>2, <3>6, Zenon DEF Across
  <2> QED
    BY <2>1, <2>2
<1>7. Row(a, b, y) = {Pixel(x, y) : x \in x1..(x2 - 1)}
  <2>1. Greatest(a, b) = x2 - 1
    BY <1>1 DEF Greatest
  <2> QED
    BY <2>1 DEF Row
<1> HIDE DEF x1, x2
<1> QED
  BY <1>1, <1>6, <1>7, RowIsStretch

(* drawRectangle covers its box and no other pixel.                        *)
THEOREM RectangleCovered ==
    ASSUME NEW d, NEW x1 \in 0..(X - 1), NEW x2 \in 0..(X - 1),
           NEW y1 \in Nat, NEW y2 \in Nat
    PROVE  drawRectangle(d, x1, y1, x2, y2)
             = Drawn(d, {Pixel(p[1], p[2]) : p \in Box(x1, y1, x2, y2)})
<1> DEFINE rows == Least(y1, y2)..Greatest(y1, y2)
           columns == Least(x1, x2)..Greatest(x1, x2)
<1>1. rows \subseteq Nat
  BY DEF Least, Greatest
<1>2. \A y \in rows : LineHorizontal(x1, x2, y) = {Pixel(x, y) : x \in columns}
  <2> TAKE y \in rows
  <2>1. y \in Nat
    BY <1>1
  <2> QED
    BY <2>1, RowCovered DEF Row
<1>3. UNION {LineHorizontal(x1, x2, y) : y \in rows} = UNION {{Pixel(x, y) : x \in columns} : y \in rows}
  BY <1>2
<1>4. UNION {{Pixel(x, y) : x \in columns} : y \in rows} = {Pixel(p[1], p[2]) : p \in columns \X rows}
  <2> HIDE DEF rows, columns
  <2>1. ASSUME NEW x \in columns, NEW y \in rows
        PROVE  Pixel(x, y) \in {Pixel(p[1], p[2]) : p \in columns \X rows}
    <3>1. <<x, y>> \in columns \X rows /\ <<x, y>>[1] = x /\ <<x, y>>[2] = y
      OBVIOUS
    <3> QED
      BY <3>1
  <2>2. ASSUME NEW p \in columns \X rows
        PROVE  p[1] \in columns /\ p[2] \in rows
    OBVIOUS
  <2> QED
    BY <2>1, <2>2
<1> QED
  BY <1>3, <1>4, Zenon DEF drawRectangle, Box

-----------------------------------------------------------------------------
(* The frames of the grid share no pixel.                                  *)

LEMMA ScreenWords == wordsPerRow \in Nat \ {0}
<1>1. wordsPerRow # 0
  BY RowWords, ScreenAssumption
<1> QED
  BY <1>1, RowWords

LEMMA ColumnWord ==
    ASSUME NEW n \in 0..(X - 1)
    PROVE  /\ n \div word \in 0..(wordsPerRow - 1)
           /\ n % word \in 0..(word - 1)
           /\ n = word * (n \div word) + (n % word)
<1>1. word \in Nat \ {0} /\ n \in Int /\ X = word * wordsPerRow /\ wordsPerRow \in Int
  BY RowWords
<1>2. n \div word \in Int /\ n % word \in 0..(word - 1)
      /\ n = word * (n \div word) + (n % word)
  BY <1>1, Division
<1> DEFINE q == n \div word
           r == n % word
<1> HIDE DEF q, r
<1>3. q \in Int /\ r \in 0..(word - 1) /\ n = word * q + r
  BY <1>2 DEF q, r
<1>4. ~(word * q + r < word * 0 + 0) /\ word * q + r < word * wordsPerRow + 0
  BY <1>1, <1>3
<1>5. ~(q < 0) /\ q < wordsPerRow
  BY <1>1, <1>3, <1>4, WordOrder
<1> QED
  BY <1>1, <1>3, <1>5 DEF q, r

LEMMA PixelApart ==
    ASSUME NEW x \in 0..(X - 1), NEW u \in 0..(X - 1), NEW y \in Nat, NEW v \in Nat,
           Pixel(x, y) = Pixel(u, v)
    PROVE  x = u /\ y = v
<1>1. \A n \in 0..(X - 1) : /\ n \div word \in 0..(wordsPerRow - 1)
                            /\ n % word \in 0..(word - 1)
                            /\ n = word * (n \div word) + (n % word)
  BY ColumnWord
<1>2. /\ y * wordsPerRow + x \div word = v * wordsPerRow + u \div word
      /\ x % word = u % word
  BY DEF Pixel
<1>3. \A m \in Nat, q \in 0..(wordsPerRow - 1) :
         (m * wordsPerRow + q) \div wordsPerRow = m /\ (m * wordsPerRow + q) % wordsPerRow = q
  <2> TAKE m \in Nat, q \in 0..(wordsPerRow - 1)
  <2>1. m * wordsPerRow = wordsPerRow * m
    BY ScreenWords
  <2> QED
    BY <2>1, ScreenWords, DivisionIsUnique
<1>4. y = v /\ x \div word = u \div word
  <2> DEFINE q == x \div word
             r == u \div word
  <2> HIDE DEF q, r
  <2>1. q \in 0..(wordsPerRow - 1) /\ r \in 0..(wordsPerRow - 1)
    BY <1>1 DEF q, r
  <2>2. y * wordsPerRow + q = v * wordsPerRow + r
    BY <1>2 DEF q, r
  <2>3. y = v /\ q = r
    <3>1. /\ (y * wordsPerRow + q) \div wordsPerRow = y
          /\ (y * wordsPerRow + q) % wordsPerRow = q
      BY <1>3, <2>1
    <3>2. /\ (v * wordsPerRow + r) \div wordsPerRow = v
          /\ (v * wordsPerRow + r) % wordsPerRow = r
      BY <1>3, <2>1
    <3> QED
      BY <2>2, <3>1, <3>2, Zenon
  <2> QED
    BY <2>3 DEF q, r
<1> QED
  BY <1>1, <1>2, <1>4, Zenon

\* The cells of a frame, and the pixel of a cell.
Cells == (0..(WIDTH - 1)) \X (0..(HEIGHT - 1))
Spot(row, col, p) == Pixel(col * WIDTH + p[1], row * HEIGHT + p[2])

LEMMA Grid ==
    /\ COLS \in Nat \ {0} /\ ROWS \in Nat \ {0} /\ WIDTH \in Nat \ {0} /\ HEIGHT \in Nat \ {0}
    /\ X = WIDTH * COLS
<1>1. X \in Nat \ {0} /\ Y \in Nat \ {0} /\ WIDTH \in Nat \ {0} /\ HEIGHT \in Nat \ {0}
      /\ Y >= HEIGHT /\ X % WIDTH = 0
  BY ScreenAssumption, OutputAssumption
<1>2. COLS \in Int /\ X = WIDTH * COLS + 0
  BY <1>1, Division DEF COLS
<1>3. ROWS \in Int /\ Y % HEIGHT \in 0..(HEIGHT - 1) /\ Y = HEIGHT * ROWS + (Y % HEIGHT)
  BY <1>1, Division DEF ROWS
<1>4. WIDTH * 0 + 0 < WIDTH * COLS + 0
  BY <1>1, <1>2
<1>5. 0 < COLS
  BY <1>1, <1>2, <1>4, WordOrder
<1>6. ~(HEIGHT * ROWS + (Y % HEIGHT) < HEIGHT * 1 + 0)
  BY <1>1, <1>3
<1>7. ~(ROWS < 1)
  <2> DEFINE r == Y % HEIGHT
  <2>1. r \in 0..(HEIGHT - 1) /\ ~(HEIGHT * ROWS + r < HEIGHT * 1 + 0)
    BY <1>3, <1>6
  <2> HIDE DEF r
  <2>2. 0 \in 0..(HEIGHT - 1)
    BY <1>1
  <2> QED
    BY <1>1, <1>3, <2>1, <2>2, WordOrder
<1>8. WIDTH * COLS \in Int
  BY <1>1, <1>2
<1> QED
  BY <1>1, <1>2, <1>3, <1>5, <1>7, <1>8

LEMMA SpotOnScreen ==
    ASSUME NEW col \in 0..(COLS - 1), NEW i \in 0..(WIDTH - 1)
    PROVE  col * WIDTH + i \in 0..(X - 1)
<1>1. WIDTH \in Nat \ {0} /\ COLS \in Nat /\ X = WIDTH * COLS /\ X \in Nat
  BY Grid, ScreenAssumption
<1>2. WIDTH * col + i < WIDTH * COLS + 0
  BY <1>1, WordOrder
<1>3. col * WIDTH = WIDTH * col /\ WIDTH * col \in Nat
  BY <1>1
<1> QED
  BY <1>1, <1>2, <1>3

LEMMA SpotApart ==
    ASSUME NEW row \in Nat, NEW r \in Nat, NEW col \in 0..(COLS - 1), NEW k \in 0..(COLS - 1),
           NEW p \in Cells, NEW q \in Cells, Spot(row, col, p) = Spot(r, k, q)
    PROVE  row = r /\ col = k /\ p = q
<1>1. WIDTH \in Nat \ {0} /\ HEIGHT \in Nat \ {0}
  BY Grid
<1>2. /\ p[1] \in 0..(WIDTH - 1) /\ p[2] \in 0..(HEIGHT - 1) /\ p = <<p[1], p[2]>>
      /\ q[1] \in 0..(WIDTH - 1) /\ q[2] \in 0..(HEIGHT - 1) /\ q = <<q[1], q[2]>>
  BY DEF Cells
<1>3. /\ col * WIDTH + p[1] \in 0..(X - 1) /\ k * WIDTH + q[1] \in 0..(X - 1)
      /\ row * HEIGHT + p[2] \in Nat /\ r * HEIGHT + q[2] \in Nat
  BY <1>1, <1>2, SpotOnScreen
<1>4. /\ col * WIDTH + p[1] = k * WIDTH + q[1]
      /\ row * HEIGHT + p[2] = r * HEIGHT + q[2]
  BY <1>3, PixelApart DEF Spot
<1>5. \A w \in Nat \ {0}, a, b \in Nat : \A i, j \in 0..(w - 1) :
         a * w + i = b * w + j => a = b /\ i = j
  <2> TAKE w \in Nat \ {0}, a, b \in Nat
  <2> TAKE i, j \in 0..(w - 1)
  <2>1. a * w = w * a /\ b * w = w * b
    OBVIOUS
  <2>2. /\ (w * a + i) \div w = a /\ (w * a + i) % w = i
        /\ (w * b + j) \div w = b /\ (w * b + j) % w = j
    BY DivisionIsUnique
  <2> QED
    BY <2>1, <2>2
<1>6. col \in Nat /\ k \in Nat
  BY Grid
<1>7. col = k /\ p[1] = q[1]
  BY <1>1, <1>2, <1>4, <1>5, <1>6
<1>8. row = r /\ p[2] = q[2]
  BY <1>1, <1>2, <1>4, <1>5
<1> QED
  BY <1>2, <1>7, <1>8

-----------------------------------------------------------------------------
(* What the printing of a character changes.                               *)

\* The displays with the cursor on the grid.
Displays ==
    [lit : SUBSET (Int \X Int), color : BOOLEAN, row : 0..(ROWS - 1), col : 0..(COLS - 1)]

FrameAt(d, row, col) == {p \in Cells : Spot(row, col, p) \in d.lit}

LEMMA SpotType ==
    ASSUME NEW row \in Nat, NEW col \in 0..(COLS - 1), NEW p \in Cells
    PROVE  Spot(row, col, p) \in Int \X Int
<1>1. p[1] \in 0..(WIDTH - 1) /\ p[2] \in Int /\ HEIGHT \in Int
  BY Grid DEF Cells
<1>2. col * WIDTH + p[1] \in 0..(X - 1) /\ row * HEIGHT + p[2] \in Int
  BY <1>1, SpotOnScreen
<1>3. \A x \in Int, y \in Int : Pixel(x, y) \in Int \X Int
  <2> TAKE x \in Int, y \in Int
  <2>1. x \div word \in Int /\ x % word \in Int /\ wordsPerRow \in Int
    BY RowWords, Division
  <2>2. y * wordsPerRow \in Int
    BY <2>1
  <2>3. y * wordsPerRow + x \div word \in Int
    BY <2>1, <2>2
  <2> QED
    BY <2>1, <2>3 DEF Pixel
<1>4. col * WIDTH + p[1] \in Int
  BY <1>2, ScreenAssumption
<1> QED
  BY <1>2, <1>3, <1>4, Zenon DEF Spot

(* The pixels of the box that clearFrame draws are those of the frame.     *)
LEMMA FramePixels ==
    ASSUME NEW row \in Nat, NEW col \in 0..(COLS - 1)
    PROVE  {Pixel(p[1], p[2]) : p \in Box(col * WIDTH, row * HEIGHT,
                                          col * WIDTH + (WIDTH - 1),
                                          row * HEIGHT + (HEIGHT - 1))}
             = {Spot(row, col, p) : p \in Cells}
<1> DEFINE x == col * WIDTH
           y == row * HEIGHT
           B == Box(x, y, x + (WIDTH - 1), y + (HEIGHT - 1))
<1>1. WIDTH \in Nat \ {0} /\ HEIGHT \in Nat \ {0} /\ x \in Nat /\ y \in Nat
  BY Grid
<1>2. B = (x..(x + (WIDTH - 1))) \X (y..(y + (HEIGHT - 1)))
  <2> HIDE DEF x, y
  <2> QED
    BY <1>1 DEF Box, Least, Greatest
<1>3. ASSUME NEW p \in B
      PROVE  Pixel(p[1], p[2]) \in {Spot(row, col, q) : q \in Cells}
  <2> DEFINE q == <<p[1] - x, p[2] - y>>
  <2>1. p[1] \in x..(x + (WIDTH - 1)) /\ p[2] \in y..(y + (HEIGHT - 1))
    BY <1>2, <1>3
  <2>2. q \in Cells /\ x + q[1] = p[1] /\ y + q[2] = p[2]
    <3> HIDE DEF x, y
    <3> QED
      BY <1>1, <2>1 DEF Cells
  <2>3. Spot(row, col, q) = Pixel(p[1], p[2])
    BY <2>2 DEF Spot
  <2> QED
    BY <2>2, <2>3
<1>4. ASSUME NEW q \in Cells
      PROVE  Spot(row, col, q) \in {Pixel(p[1], p[2]) : p \in B}
  <2> DEFINE p == <<x + q[1], y + q[2]>>
  <2>1. p \in B
    <3> HIDE DEF x, y
    <3> QED
      BY <1>1, <1>2 DEF Cells
  <2>2. Spot(row, col, q) = Pixel(p[1], p[2])
    BY DEF Spot
  <2> QED
    BY <2>1, <2>2
<1>5. {Pixel(p[1], p[2]) : p \in B} = {Spot(row, col, p) : p \in Cells}
  BY <1>3, <1>4
<1> QED
  BY <1>5

LEMMA ClearFrameIs ==
    ASSUME NEW d \in Displays
    PROVE  LET e == clearFrame(d)
           IN  /\ e \in Displays
               /\ e.lit = d.lit \ {Spot(d.row, d.col, p) : p \in Cells}
               /\ e.color = TRUE /\ e.row = d.row /\ e.col = d.col
<1> DEFINE x == d.col * WIDTH
           y == d.row * HEIGHT
           pixels == {Spot(d.row, d.col, p) : p \in Cells}
           white == setColor(d, FALSE)
<1>1. d.row \in Nat /\ d.col \in 0..(COLS - 1) /\ WIDTH \in Nat \ {0} /\ HEIGHT \in Nat \ {0}
  BY Grid DEF Displays
<1>2. x \in 0..(X - 1) /\ x + (WIDTH - 1) \in 0..(X - 1)
  <2>1. x + 0 \in 0..(X - 1) /\ x + (WIDTH - 1) \in 0..(X - 1)
    <3>1. 0 \in 0..(WIDTH - 1) /\ WIDTH - 1 \in 0..(WIDTH - 1)
      BY <1>1
    <3> QED
      BY <1>1, <3>1, SpotOnScreen
  <2>2. x \in Int
    BY <1>1, Grid
  <2> HIDE DEF x
  <2> QED
    BY <2>1, <2>2
<1>3. y \in Nat /\ y + (HEIGHT - 1) \in Nat
  BY <1>1
<1>4. drawRectangle(white, x, y, x + (WIDTH - 1), y + (HEIGHT - 1)) = Drawn(white, pixels)
  <2>1. {Pixel(p[1], p[2]) : p \in Box(x, y, x + (WIDTH - 1), y + (HEIGHT - 1))} = pixels
    BY <1>1, FramePixels
  <2>2. drawRectangle(white, x, y, x + (WIDTH - 1), y + (HEIGHT - 1))
          = Drawn(white, {Pixel(p[1], p[2]) : p \in Box(x, y, x + (WIDTH - 1), y + (HEIGHT - 1))})
    <3> HIDE DEF x, y, white
    <3> QED
      BY <1>2, <1>3, RectangleCovered
  <2> QED
    BY <2>1, <2>2
<1>5. clearFrame(d) = setColor(Update(white, pixels), TRUE)
  <2>1. clearFrame(d)
          = setColor(drawRectangle(white, x, y, x + (WIDTH - 1), y + (HEIGHT - 1)).display, TRUE)
    BY DEF clearFrame
  <2>2. Drawn(white, pixels).display = Update(white, pixels)
    BY DEF Drawn
  <2> QED
    BY <1>4, <2>1, <2>2
<1>6. /\ white \in Displays /\ white.color = FALSE
      /\ white.lit = d.lit /\ white.row = d.row /\ white.col = d.col
  BY DEF setColor, Displays
<1>7. /\ Update(white, pixels) \in Displays /\ Update(white, pixels).lit = d.lit \ pixels
      /\ Update(white, pixels).row = d.row /\ Update(white, pixels).col = d.col
  <2> HIDE DEF white, pixels
  <2> QED
    BY <1>6 DEF Update, Displays
<1> HIDE DEF white, pixels
<1>8. /\ setColor(Update(white, pixels), TRUE) \in Displays
      /\ setColor(Update(white, pixels), TRUE).lit = d.lit \ pixels
      /\ setColor(Update(white, pixels), TRUE).color = TRUE
      /\ setColor(Update(white, pixels), TRUE).row = d.row
      /\ setColor(Update(white, pixels), TRUE).col = d.col
  BY <1>7 DEF setColor, Displays
<1> QED
  BY <1>5, <1>8 DEF pixels

(* A bitmap is a set of cells.                                             *)
LEMMA MapCells == \A c : getMap(c) \subseteq Cells
  BY OutputAssumption DEF getMap, Cells

LEMMA DrawMapIs ==
    ASSUME NEW d \in Displays, d.color = TRUE, NEW c
    PROVE  LET e == drawMap(d, c)
           IN  /\ e \in Displays
               /\ e.lit = d.lit \cup {Spot(d.row, d.col, p) : p \in getMap(c)}
               /\ e.color = TRUE /\ e.row = d.row /\ e.col = d.col
<1> DEFINE pixels == {Spot(d.row, d.col, p) : p \in getMap(c)}
<1>1. drawMap(d, c) = Update(d, pixels)
  BY DEF drawMap, Spot
<1>2. pixels \subseteq Int \X Int
  <2>1. d.row \in Nat /\ d.col \in 0..(COLS - 1)
    BY Grid DEF Displays
  <2> QED
    BY <2>1, MapCells, SpotType
<1> HIDE DEF pixels
<1>3. /\ Update(d, pixels) \in Displays /\ Update(d, pixels).lit = d.lit \cup pixels
      /\ Update(d, pixels).color = TRUE
      /\ Update(d, pixels).row = d.row /\ Update(d, pixels).col = d.col
  BY <1>2 DEF Update, Displays
<1> QED
  BY <1>1, <1>3 DEF pixels

\* Where the cursor is after a character: printed, newline or backspace.
NextRow(row) == IF row = ROWS - 1 THEN 0 ELSE row + 1

MovedTo(e, d, i, j) ==
    e \in Displays /\ e.lit = d.lit /\ e.color = d.color /\ e.row = i /\ e.col = j

LEMMA CursorMoves ==
    ASSUME NEW d \in Displays
    PROVE  /\ MovedTo(println(d), d, NextRow(d.row), 0)
           /\ MovedTo(backSpace(d), d, d.row, IF d.col > 0 THEN d.col - 1 ELSE 0)
           /\ \E i, j : MovedTo(advance(d), d, i, j)
           /\ d.col < COLS - 1 => MovedTo(advance(d), d, d.row, d.col + 1)
<1>1. \A i \in 0..(ROWS - 1), j \in 0..(COLS - 1) : MovedTo(moveCursor(d, i, j), d, i, j)
  BY DEF MovedTo, moveCursor, Displays
<1>2. d.row \in 0..(ROWS - 1) /\ d.col \in 0..(COLS - 1) /\ ROWS \in Nat \ {0} /\ COLS \in Nat \ {0}
  BY Grid DEF Displays
<1>3. println(d) = moveCursor(d, NextRow(d.row), 0)
  BY <1>2 DEF println, NextRow
<1>4. NextRow(d.row) \in 0..(ROWS - 1) /\ 0 \in 0..(COLS - 1)
  BY <1>2 DEF NextRow
<1>5. backSpace(d) = moveCursor(d, d.row, IF d.col > 0 THEN d.col - 1 ELSE 0)
  BY DEF backSpace
<1>6. (IF d.col > 0 THEN d.col - 1 ELSE 0) \in 0..(COLS - 1)
  BY <1>2
<1>7. d.col = COLS - 1 => advance(d) = println(d)
  BY DEF advance
<1>8. d.col # COLS - 1 => /\ advance(d) = moveCursor(d, d.row, d.col + 1)
                          /\ d.col + 1 \in 0..(COLS - 1)
  BY <1>2 DEF advance
<1>9. MovedTo(println(d), d, NextRow(d.row), 0)
  BY <1>1, <1>3, <1>4, Zenon
<1>10. MovedTo(backSpace(d), d, d.row, IF d.col > 0 THEN d.col - 1 ELSE 0)
  BY <1>1, <1>2, <1>5, <1>6, Zenon
<1>11. d.col # COLS - 1 => MovedTo(advance(d), d, d.row, d.col + 1)
  BY <1>1, <1>2, <1>8, Zenon
<1>12. \E i, j : MovedTo(advance(d), d, i, j)
  BY <1>7, <1>9, <1>11, Zenon
<1>13. d.col < COLS - 1 => d.col # COLS - 1
  BY <1>2
<1> QED
  BY <1>9, <1>10, <1>11, <1>12, <1>13, Zenon

(* A character clears the frame at the cursor, draws its bitmap there, and *)
(* touches no other frame.                                                 *)
THEOREM CharacterPrinted ==
    ASSUME NEW d \in Displays, NEW c
    PROVE  LET e == printChar(d, c)
           IN  /\ e \in Displays
               /\ FrameAt(e, d.row, d.col)
                    = IF c \in {BACKSPACE, NEWLINE} THEN {} ELSE getMap(c)
               /\ \A r \in 0..(ROWS - 1), k \in 0..(COLS - 1) :
                     <<r, k>> # <<d.row, d.col>> => FrameAt(e, r, k) = FrameAt(d, r, k)
               /\ c = NEWLINE => e.row = NextRow(d.row) /\ e.col = 0
               /\ c = BACKSPACE /\ d.col > 0 => e.row = d.row /\ e.col = d.col - 1
               /\ c \notin {BACKSPACE, NEWLINE} /\ d.col < COLS - 1
                    => e.row = d.row /\ e.col = d.col + 1
<1> DEFINE e == printChar(d, c)
           f == clearFrame(d)
           bits == IF c \in {BACKSPACE, NEWLINE} THEN {} ELSE getMap(c)
           old == {Spot(d.row, d.col, p) : p \in Cells}
           new == {Spot(d.row, d.col, p) : p \in bits}
<1>1. /\ f \in Displays /\ f.lit = d.lit \ old /\ f.color = TRUE
      /\ f.row = d.row /\ f.col = d.col
  BY ClearFrameIs
<1>2. BACKSPACE # NEWLINE
  BY OutputAssumption
<1>3. d.row \in 0..(ROWS - 1) /\ d.col \in 0..(COLS - 1) /\ d.row \in Nat
  BY Grid DEF Displays
<1>4. /\ e \in Displays /\ e.lit = (d.lit \ old) \cup new
      /\ c = NEWLINE => e.row = NextRow(d.row) /\ e.col = 0
      /\ c = BACKSPACE /\ d.col > 0 => e.row = d.row /\ e.col = d.col - 1
      /\ c \notin {BACKSPACE, NEWLINE} /\ d.col < COLS - 1 => e.row = d.row /\ e.col = d.col + 1
  <2> HIDE DEF f
  <2>1. CASE c = NEWLINE
    <3>1. e = println(f)
      BY <1>2, <2>1 DEF printChar, f
    <3>2. e \in Displays /\ e.lit = f.lit /\ e.row = NextRow(f.row) /\ e.col = 0
      BY <1>1, <3>1, CursorMoves, Zenon DEF MovedTo
    <3>3. new = {}
      BY <2>1
    <3> QED
      BY <1>1, <1>2, <2>1, <3>2, <3>3
  <2>2. CASE c = BACKSPACE
    <3>1. e = backSpace(f)
      BY <1>2, <2>2 DEF printChar, f
    <3>2. /\ e \in Displays /\ e.lit = f.lit /\ e.row = f.row
          /\ e.col = IF f.col > 0 THEN f.col - 1 ELSE 0
      <4>1. MovedTo(e, f, f.row, IF f.col > 0 THEN f.col - 1 ELSE 0)
        BY <1>1, <3>1, CursorMoves
      <4> QED
        BY <4>1 DEF MovedTo
    <3>3. new = {}
      BY <2>2
    <3> QED
      BY <1>1, <1>2, <2>2, <3>2, <3>3
  <2>3. CASE c \notin {BACKSPACE, NEWLINE}
    <3> DEFINE g == drawMap(f, c)
    <3>1. e = advance(g)
      BY <2>3 DEF printChar, f
    <3>2. /\ g \in Displays /\ g.lit = f.lit \cup new
          /\ g.row = f.row /\ g.col = f.col
      <4>1. /\ g \in Displays /\ g.row = f.row /\ g.col = f.col
            /\ g.lit = f.lit \cup {Spot(f.row, f.col, p) : p \in getMap(c)}
        BY <1>1, DrawMapIs
      <4>2. bits = getMap(c)
        BY <2>3
      <4>3. {Spot(f.row, f.col, p) : p \in getMap(c)} = new
        BY <1>1, <4>2
      <4> QED
        BY <4>1, <4>3
    <3> HIDE DEF g, new, old
    <3>3. /\ e \in Displays /\ e.lit = g.lit
          /\ g.col < COLS - 1 => e.row = g.row /\ e.col = g.col + 1
      BY <3>1, <3>2, CursorMoves, Zenon DEF MovedTo
    <3> QED
      BY <1>1, <2>3, <3>2, <3>3, Zenon
  <2> QED
    BY <2>1, <2>2, <2>3
<1>5. bits \subseteq Cells
  BY MapCells
<1> HIDE DEF e, f, bits
<1>6. FrameAt(e, d.row, d.col) = bits
  <2>1. ASSUME NEW p \in Cells
        PROVE  Spot(d.row, d.col, p) \in e.lit <=> p \in bits
    <3>1. Spot(d.row, d.col, p) \in old
      OBVIOUS
    <3>2. Spot(d.row, d.col, p) \in new <=> p \in bits
      <4>1. ASSUME NEW q \in bits, Spot(d.row, d.col, p) = Spot(d.row, d.col, q)
            PROVE  p = q
        <5>1. q \in Cells
          BY <1>5
        <5> QED
          BY <1>3, <4>1, <5>1, SpotApart
      <4> QED
        BY <4>1
    <3> HIDE DEF old, new
    <3> QED
      BY <1>4, <3>1, <3>2
  <2> QED
    BY <1>5, <2>1 DEF FrameAt
<1>7. ASSUME NEW r \in 0..(ROWS - 1), NEW k \in 0..(COLS - 1), <<r, k>> # <<d.row, d.col>>
      PROVE  FrameAt(e, r, k) = FrameAt(d, r, k)
  <2>1. r \in Nat
    BY Grid
  <2>2. \A p, q \in Cells : Spot(r, k, p) # Spot(d.row, d.col, q)
    BY <1>3, <1>7, <2>1, SpotApart
  <2>3. ASSUME NEW p \in Cells
        PROVE  Spot(r, k, p) \in e.lit <=> Spot(r, k, p) \in d.lit
    <3>1. Spot(r, k, p) \notin old
      BY <2>2
    <3>2. Spot(r, k, p) \notin new
      BY <1>5, <2>2
    <3> HIDE DEF old, new
    <3> QED
      BY <1>4, <3>1, <3>2
  <2> QED
    BY <2>3 DEF FrameAt
<1> QED
  BY <1>4, <1>6, <1>7 DEF e, bits

-----------------------------------------------------------------------------
(* The invariant of the echo.                                              *)

\* The square has not been in the last column.
WithinRow == home.col + longest < COLS - 1

\* The frames of the line, and those behind it from the n-th on.
Shown == \A k \in DOMAIN line : Frame(home.col + k - 1) = getMap(line[k])
Blanked(n) == \A k \in n..longest : Frame(home.col + k) = {}

CursorAt(row, col) == display.row = row /\ display.col = col

\* The call is readLine once its loop has begun, with the cursor on the grid.
CallInv ==
    /\ pc \in {"called", "loop", "press", "release", "returned", "halted", "done"}
    /\ pc \in {"loop", "press", "release", "returned", "halted"} => call.op = "readLine"
    /\ call.op = "readLine" =>
          /\ call.args \in Messages
          /\ display \in Displays
          /\ home \in [row : 0..(ROWS - 1), col : 0..(COLS - 1)]
          /\ longest \in Nat
    /\ pc \in {"loop", "press", "release", "returned"} => Len(line) <= longest

\* The newline has been printed.
Ended == (pc = "loop" /\ key = NEWLINE) \/ pc = "returned"

\* The screen at each step of the loop: the square is behind the line while a
\* key is waited for; otherwise the cursor is, or the line has ended.
EchoInv ==
    /\ pc \in {"loop", "press", "release", "returned"} /\ WithinRow => Shown
    /\ pc \in {"press", "release"} /\ WithinRow =>
          /\ CursorAt(home.row, home.col + Len(line) + 1)
          /\ Frame(home.col + Len(line)) = getMap(SQUARE)
          /\ Blanked(Len(line) + 1)
    /\ pc = "loop" /\ key # NEWLINE /\ WithinRow =>
          /\ CursorAt(home.row, home.col + Len(line))
          /\ Blanked(Len(line) + 1)
    /\ Ended /\ WithinRow =>
          /\ CursorAt(NextRow(home.row), 0)
          /\ Frame(home.col + Len(line)) = {}

(* A message leaves the cursor on the grid.                                *)
LEMMA StringPrinted ==
    ASSUME NEW T, NEW s \in Seq(T), NEW d \in Displays
    PROVE  printString(d, s) \in Displays
<1> DEFINE F(f) == [n \in 0..Len(s) |-> IF n = 0 THEN d ELSE printChar(f[n - 1], s[n])]
           after == CHOOSE f : f = F(f)
           step == [p \in (1..Len(s)) \X Displays |-> printChar(p[2], s[p[1]])]
<1>1. Len(s) \in Nat
  OBVIOUS
<1>2. step \in [(1..Len(s)) \X Displays -> Displays]
  <2>1. \A p \in (1..Len(s)) \X Displays : printChar(p[2], s[p[1]]) \in Displays
    BY CharacterPrinted
  <2> QED
    BY <2>1
<1>3. PICK f : IsIteration(f, Len(s), Displays, d, step)
  <2> HIDE DEF step
  <2> QED
    BY <1>1, <1>2, Iterated
<1>4. f \in [0..Len(s) -> Displays] /\ f[0] = d /\ \A n \in 1..Len(s) : f[n] = step[<<n, f[n - 1]>>]
  BY <1>3 DEF IsIteration
<1>5. \A n \in 1..Len(s) : step[<<n, f[n - 1]>>] = printChar(f[n - 1], s[n])
  <2>1. \A n \in 1..Len(s) : n - 1 \in 0..Len(s)
    BY <1>1
  <2>2. \A n \in 1..Len(s) : f[n - 1] \in Displays
    BY <1>4, <2>1
  <2> QED
    BY <2>2
<1>6. f = F(f)
  <2> HIDE DEF step
  <2>1. \A n \in 0..Len(s) : n # 0 => n \in 1..Len(s)
    BY <1>1
  <2>2. \A n \in 0..Len(s) : f[n] = F(f)[n]
    BY <1>4, <1>5, <2>1
  <2> QED
    BY <1>4, <2>2
<1>7. after = F(after)
  BY <1>6
<1>8. 0..Len(s) \subseteq {n \in 0..Len(s) : after[n] \in Displays}
  <2> DEFINE S == {n \in 0..Len(s) : after[n] \in Displays}
  <2>1. 0 \in S
    <3>1. 0 \in 0..Len(s)
      BY <1>1
    <3>2. after[0] = d
      <4> HIDE DEF after
      <4> QED
        BY <1>7, <3>1
    <3> QED
      BY <3>1, <3>2
  <2>2. ASSUME NEW n \in 0..Len(s), n \in S, n + 1 \in 0..Len(s)
        PROVE  n + 1 \in S
    <3>1. n + 1 # 0 /\ (n + 1) - 1 = n
      BY <1>1, <2>2
    <3> HIDE DEF after
    <3>2. after[n + 1] = printChar(after[n], s[n + 1])
      BY <1>7, <2>2, <3>1
    <3>3. after[n] \in Displays
      BY <2>2
    <3> QED
      BY <2>2, <3>2, <3>3, CharacterPrinted
  <2> HIDE DEF S
  <2>3. 0..Len(s) \subseteq S
    BY <1>1, <2>1, <2>2, UpTo
  <2> QED
    BY <2>3 DEF S
<1>9. after[Len(s)] \in Displays
  <2>1. Len(s) \in 0..Len(s)
    BY <1>1
  <2> HIDE DEF after
  <2> QED
    BY <1>8, <2>1
<1> QED
  BY <1>9 DEF printString

-----------------------------------------------------------------------------
(* The steps.                                                              *)

LEMMA LineType ==
    ASSUME LineInv, CallInv, pc \in {"loop", "press", "release", "returned"}
    PROVE  /\ line \in Seq(Text) /\ Len(line) \in Nat /\ DOMAIN line = 1..Len(line)
           /\ Len(line) <= longest /\ longest \in Nat
           /\ home.row \in 0..(ROWS - 1) /\ home.col \in 0..(COLS - 1)
           /\ display \in Displays
<1>1. line \in Seq(Text)
  BY DEF LineInv, LineFits, Text
<1>2. /\ Len(line) <= longest /\ longest \in Nat
      /\ home \in [row : 0..(ROWS - 1), col : 0..(COLS - 1)] /\ display \in Displays
  BY DEF CallInv
<1> QED
  BY <1>1, <1>2

LEMMA FramesAre == \A c : Frame(c) = FrameAt(display, home.row, c)
  BY DEF Frame, FrameAt, Spot, Cells

LEMMA FramesWillBe ==
    ASSUME UNCHANGED home
    PROVE  \A c : Frame(c)' = FrameAt(display', home.row, c)
  BY DEF Frame, FrameAt, Spot, Cells

(* A line whose frames are within the row is a line of such frames still   *)
(* when none of them is drawn to.                                          *)
LEMMA ShownStays ==
    ASSUME LineInv, CallInv, pc \in {"loop", "press", "release", "returned"}, WithinRow, Shown,
           UNCHANGED <<home, line>>,
           \A k \in 0..(COLS - 1) : k < home.col + Len(line) =>
               FrameAt(display', home.row, k) = FrameAt(display, home.row, k)
    PROVE  Shown'
<1> SUFFICES ASSUME NEW k \in DOMAIN line
             PROVE  Frame(home.col + k - 1)' = getMap(line[k])
  BY DEF Shown
<1>1. home.col + k - 1 \in 0..(COLS - 1) /\ home.col + k - 1 < home.col + Len(line)
  BY LineType, Grid DEF WithinRow
<1>2. Frame(home.col + k - 1) = getMap(line[k])
  BY DEF Shown
<1> QED
  BY <1>1, <1>2, FramesAre, FramesWillBe

(* The square is drawn behind the line.                                    *)
LEMMA PromptKeeps ==
    ASSUME LineInv, CallInv, EchoInv, Prompt, UNCHANGED call
    PROVE  CallInv' /\ EchoInv'
<1>1. /\ pc = "loop" /\ key # NEWLINE /\ pc' = "press"
      /\ display' = printChar(display, SQUARE)
      /\ UNCHANGED <<line, home, longest>>
  BY DEF Prompt
<1>2. SQUARE \notin {BACKSPACE, NEWLINE}
  BY OutputAssumption
<1> DEFINE col == home.col + Len(line)
<1>3. /\ Len(line) \in Nat /\ Len(line) <= longest /\ longest \in Nat
      /\ home.row \in 0..(ROWS - 1) /\ home.col \in Nat /\ COLS \in Nat
      /\ display \in Displays
  BY <1>1, LineType, Grid
<1>4. display' \in Displays
  BY <1>1, <1>3, CharacterPrinted
<1>5. ASSUME WithinRow
      PROVE  /\ Shown' /\ CursorAt(home.row, col + 1)'
             /\ Frame(col)' = getMap(SQUARE) /\ Blanked(Len(line) + 1)'
  <2>1. Shown /\ CursorAt(home.row, col) /\ Blanked(Len(line) + 1)
    BY <1>1, <1>5 DEF EchoInv
  <2>2. col \in 0..(COLS - 1) /\ col < COLS - 1
    BY <1>3, <1>5 DEF WithinRow
  <2>3. display.row = home.row /\ display.col = col
    BY <2>1 DEF CursorAt
  <2> HIDE DEF col
  <2>4. /\ FrameAt(display', home.row, col) = getMap(SQUARE)
        /\ \A k \in 0..(COLS - 1) : k # col =>
              FrameAt(display', home.row, k) = FrameAt(display, home.row, k)
        /\ display'.row = home.row /\ display'.col = col + 1
    <3>1. \A k \in 0..(COLS - 1) : k # col => <<home.row, k>> # <<display.row, display.col>>
      BY <2>3
    <3> QED
      BY <1>1, <1>2, <1>3, <2>2, <2>3, <3>1, CharacterPrinted
  <2>5. Shown'
    <3>1. \A k \in 0..(COLS - 1) : k < col => FrameAt(display', home.row, k) = FrameAt(display, home.row, k)
      BY <2>4
    <3> QED
      BY <1>1, <1>5, <2>1, <3>1, ShownStays DEF col
  <2>6. ASSUME NEW k \in (Len(line) + 1)..longest
        PROVE  Frame(home.col + k)' = {}
    <3>1. home.col + k \in 0..(COLS - 1) /\ home.col + k # col
      BY <1>3, <1>5 DEF WithinRow, col
    <3>2. Frame(home.col + k) = {}
      BY <2>1 DEF Blanked
    <3> QED
      BY <1>1, <2>4, <3>1, <3>2, FramesAre, FramesWillBe
  <2>7. Frame(col)' = getMap(SQUARE)
    BY <1>1, <2>4, FramesWillBe DEF col
  <2>8. CursorAt(home.row, col + 1)'
    BY <1>1, <2>4 DEF CursorAt, col
  <2> QED
    BY <1>1, <2>5, <2>6, <2>7, <2>8 DEF Blanked
<1>6. CallInv'
  BY <1>1, <1>4 DEF CallInv, Prompt
<1> QED
  BY <1>1, <1>5, <1>6 DEF EchoInv, WithinRow, Ended

(* The two characters of the echo of a key: the square behind the line is  *)
(* erased, and the key is printed in its place.                            *)
LEMMA EchoFrames ==
    ASSUME NEW d \in Displays, NEW col \in Nat, col + 1 < COLS, d.col = col + 1, NEW c
    PROVE  LET e == printChar(printChar(d, BACKSPACE), c)
           IN  /\ FrameAt(e, d.row, col) = IF c \in {BACKSPACE, NEWLINE} THEN {} ELSE getMap(c)
               /\ FrameAt(e, d.row, col + 1) = {}
               /\ \A k \in 0..(COLS - 1) : k # col /\ k # col + 1
                     => FrameAt(e, d.row, k) = FrameAt(d, d.row, k)
               /\ c = NEWLINE => e.row = NextRow(d.row) /\ e.col = 0
               /\ c = BACKSPACE /\ col > 0 => e.row = d.row /\ e.col = col - 1
               /\ c \notin {BACKSPACE, NEWLINE} => e.row = d.row /\ e.col = col + 1
<1> DEFINE f == printChar(d, BACKSPACE)
           e == printChar(f, c)
<1>1. /\ d.row \in 0..(ROWS - 1) /\ COLS \in Nat /\ col \in 0..(COLS - 1) /\ col + 1 \in 0..(COLS - 1)
      /\ col < COLS - 1 /\ col + 1 # col /\ col + 1 > 0 /\ (col + 1) - 1 = col
  BY Grid DEF Displays
<1>2. /\ f \in Displays /\ f.row = d.row /\ f.col = col
      /\ FrameAt(f, d.row, col + 1) = {}
  BY <1>1, CharacterPrinted
<1>3. \A k \in 0..(COLS - 1) : k # col + 1 => FrameAt(f, d.row, k) = FrameAt(d, d.row, k)
  <2>1. \A k \in 0..(COLS - 1) : k # col + 1 => <<d.row, k>> # <<d.row, d.col>>
    OBVIOUS
  <2> QED
    BY <1>1, <2>1, CharacterPrinted
<1> HIDE DEF f
<1>4. /\ FrameAt(e, d.row, col) = IF c \in {BACKSPACE, NEWLINE} THEN {} ELSE getMap(c)
      /\ c = NEWLINE => e.row = NextRow(d.row) /\ e.col = 0
      /\ c = BACKSPACE /\ col > 0 => e.row = d.row /\ e.col = col - 1
      /\ c \notin {BACKSPACE, NEWLINE} => e.row = d.row /\ e.col = col + 1
  BY <1>1, <1>2, CharacterPrinted
<1>5. \A k \in 0..(COLS - 1) : k # col => FrameAt(e, d.row, k) = FrameAt(f, d.row, k)
  <2>1. \A k \in 0..(COLS - 1) : k # col => <<d.row, k>> # <<f.row, f.col>>
    BY <1>2
  <2> QED
    BY <1>1, <1>2, <2>1, CharacterPrinted
<1> HIDE DEF e
<1>6. FrameAt(e, d.row, col + 1) = {}
  BY <1>1, <1>2, <1>5
<1>7. \A k \in 0..(COLS - 1) : k # col /\ k # col + 1 => FrameAt(e, d.row, k) = FrameAt(d, d.row, k)
  BY <1>3, <1>5
<1> QED
  BY <1>4, <1>6, <1>7 DEF e, f

LEMMA FrontElements ==
    ASSUME NEW S, NEW s \in Seq(S), s # << >>
    PROVE  \A k \in 1..Len(Front(s)) : k \in DOMAIN s /\ Front(s)[k] = s[k]
<1>1. Len(s) \in Nat \ {0}
  BY EmptySeq
<1>2. Front(s) = SubSeq(s, 1, Len(s) - 1)
  BY Zenon DEF Front
<1>3. Len(Front(s)) = Len(s) - 1
  BY FrontFits
<1>4. \A i \in 1..(Len(s) - 1) : s[i] \in S
  BY <1>1
<1>5. \A k \in 1..(Len(s) - 1) : SubSeq(s, 1, Len(s) - 1)[k] = s[1 + k - 1]
  BY <1>1, <1>4, SubSeqProperties, SMT
<1>6. \A k \in 1..(Len(s) - 1) : 1 + k - 1 = k /\ k \in DOMAIN s
  BY <1>1
<1> QED
  BY <1>2, <1>3, <1>5, <1>6, Zenon

(* What the echo of a key leaves in the row of the line.                   *)
LEMMA EchoRow ==
    ASSUME LineInv, CallInv, EchoInv, SeeRelease, WithinRow
    PROVE  LET col == home.col + Len(line)
           IN  /\ Shown /\ Blanked(Len(line) + 1) /\ col \in Nat /\ col < COLS - 1
               /\ FrameAt(display', home.row, col)
                    = IF key \in {BACKSPACE, NEWLINE} THEN {} ELSE getMap(key)
               /\ FrameAt(display', home.row, col + 1) = {}
               /\ \A k \in 0..(COLS - 1) : k # col /\ k # col + 1 =>
                     FrameAt(display', home.row, k) = FrameAt(display, home.row, k)
               /\ key = NEWLINE => display'.row = NextRow(home.row) /\ display'.col = 0
               /\ key = BACKSPACE /\ col > 0 => display'.row = home.row /\ display'.col = col - 1
               /\ key \notin {BACKSPACE, NEWLINE} => display'.row = home.row /\ display'.col = col + 1
<1> DEFINE col == home.col + Len(line)
<1>1. /\ pc = "release" /\ display' = printChar(printChar(display, BACKSPACE), key)
      /\ UNCHANGED <<home, key>>
  BY DEF SeeRelease, Echo
<1>2. /\ Len(line) \in Nat /\ Len(line) <= longest /\ longest \in Nat
      /\ home.row \in 0..(ROWS - 1) /\ home.col \in Nat /\ COLS \in Nat
      /\ display \in Displays
  BY <1>1, LineType, Grid
<1>3. Shown /\ CursorAt(home.row, col + 1) /\ Blanked(Len(line) + 1)
  BY <1>1 DEF EchoInv
<1>4. col \in Nat /\ col < COLS - 1 /\ col + 1 < COLS
  BY <1>2 DEF WithinRow
<1>5. display.row = home.row /\ display.col = col + 1
  BY <1>3 DEF CursorAt
<1> HIDE DEF col
<1>6. /\ FrameAt(display', home.row, col)
                = IF key \in {BACKSPACE, NEWLINE} THEN {} ELSE getMap(key)
      /\ FrameAt(display', home.row, col + 1) = {}
      /\ \A k \in 0..(COLS - 1) : k # col /\ k # col + 1 =>
                 FrameAt(display', home.row, k) = FrameAt(display, home.row, k)
      /\ key = NEWLINE => display'.row = NextRow(home.row) /\ display'.col = 0
      /\ key = BACKSPACE /\ col > 0 => display'.row = home.row /\ display'.col = col - 1
      /\ key \notin {BACKSPACE, NEWLINE} => display'.row = home.row /\ display'.col = col + 1
  <2>1. PICK e : e = printChar(printChar(display, BACKSPACE), key)
    OBVIOUS
  <2>2. display \in Displays /\ col \in Nat /\ col + 1 < COLS /\ display.col = col + 1
    BY <1>2, <1>4, <1>5
  <2>3. /\ FrameAt(e, display.row, col)
                = IF key \in {BACKSPACE, NEWLINE} THEN {} ELSE getMap(key)
        /\ FrameAt(e, display.row, col + 1) = {}
        /\ \A k \in 0..(COLS - 1) : k # col /\ k # col + 1 =>
                 FrameAt(e, display.row, k) = FrameAt(display, display.row, k)
        /\ key = NEWLINE => e.row = NextRow(display.row) /\ e.col = 0
        /\ key = BACKSPACE /\ col > 0 => e.row = display.row /\ e.col = col - 1
        /\ key \notin {BACKSPACE, NEWLINE} => e.row = display.row /\ e.col = col + 1
    BY <2>1, <2>2, EchoFrames
  <2>4. display' = e /\ display.row = home.row
    BY <1>1, <1>5, <2>1
  <2> QED
    BY <2>3, <2>4, Zenon
<1> QED
  BY <1>3, <1>4, <1>6 DEF col

LEMMA EchoCall ==
    ASSUME LineInv, CallInv, SeeRelease, UNCHANGED call
    PROVE  CallInv'
<1>1. pc = "release" /\ pc' \in {"loop", "halted"} /\ UNCHANGED home
  BY DEF SeeRelease, Echo
<1>2. display \in Displays /\ display' = printChar(printChar(display, BACKSPACE), key)
  BY <1>1, LineType DEF SeeRelease, Echo
<1>3. display' \in Displays
  BY <1>2, CharacterPrinted
<1>4. line' \in Seq(Text)
  <2>1. LineInv'
    BY <1>1, EchoFits DEF SeeRelease
  <2> QED
    BY <1>1, <2>1 DEF LineInv, LineFits, Text
<1>5. longest' \in Nat /\ Len(line') <= longest'
  <2>1. Len(line') \in Nat /\ longest \in Nat
    BY <1>1, <1>4, LineType
  <2>2. longest' = IF Len(line') > longest THEN Len(line') ELSE longest
    BY DEF SeeRelease, Echo
  <2> QED
    BY <2>1, <2>2
<1> QED
  BY <1>1, <1>3, <1>5 DEF CallInv

(* The echo of the enter key: the square is erased and the line has ended. *)
LEMMA EnterKeeps ==
    ASSUME LineInv, CallInv, EchoInv, SeeRelease, key = NEWLINE
    PROVE  EchoInv'
<1>1. /\ pc = "release" /\ pc' = "loop" /\ UNCHANGED <<line, home, key>>
      /\ longest' = IF Len(line) > longest THEN Len(line) ELSE longest
  BY OutputAssumption DEF SeeRelease, Echo
<1>2. /\ Len(line) \in Nat /\ Len(line) <= longest /\ longest \in Nat /\ home.col \in Nat
      /\ COLS \in Nat
  BY <1>1, LineType, Grid
<1>3. longest' = longest
  BY <1>1, <1>2
<1>4. ASSUME WithinRow
      PROVE  Shown' /\ CursorAt(NextRow(home.row), 0)' /\ Frame(home.col + Len(line))' = {}
  <2> DEFINE col == home.col + Len(line)
  <2>1. /\ Shown /\ col \in Nat
        /\ FrameAt(display', home.row, col) = {}
        /\ \A k \in 0..(COLS - 1) : k # col /\ k # col + 1 =>
              FrameAt(display', home.row, k) = FrameAt(display, home.row, k)
        /\ display'.row = NextRow(home.row) /\ display'.col = 0
    BY <1>4, EchoRow
  <2>2. \A k \in 0..(COLS - 1) : k < col => FrameAt(display', home.row, k) = FrameAt(display, home.row, k)
    <3> HIDE DEF col
    <3> QED
      BY <1>2, <2>1
  <2>3. Shown'
    BY <1>1, <1>4, <2>1, <2>2, ShownStays
  <2>4. Frame(home.col + Len(line))' = {}
    BY <1>1, <2>1, FramesWillBe
  <2>5. CursorAt(NextRow(home.row), 0)'
    BY <1>1, <2>1 DEF CursorAt
  <2> QED
    BY <2>3, <2>4, <2>5
<1> QED
  BY <1>1, <1>3, <1>4 DEF EchoInv, WithinRow, Ended

(* The echo of backspace: the square and the last character are erased.    *)
LEMMA BackspaceKeeps ==
    ASSUME LineInv, CallInv, EchoInv, SeeRelease, key = BACKSPACE
    PROVE  EchoInv'
<1>1. /\ pc = "release" /\ UNCHANGED <<home, key>> /\ key # NEWLINE
      /\ pc' = "halted" \/ (pc' = "loop" /\ line # << >> /\ line' = Front(line))
      /\ longest' = IF Len(line') > longest THEN Len(line') ELSE longest
  BY OutputAssumption DEF SeeRelease, Echo
<1>2. CASE pc' = "halted"
  BY <1>2 DEF EchoInv, Ended
<1>3. CASE pc' = "loop" /\ line # << >> /\ line' = Front(line)
  <2>1. /\ line \in Seq(Text) /\ Len(line) \in Nat /\ Len(line) <= longest /\ longest \in Nat
        /\ home.col \in Nat /\ COLS \in Nat /\ DOMAIN line = 1..Len(line)
    BY <1>1, LineType, Grid
  <2>2. /\ Len(line') = Len(line) - 1 /\ line' \in Seq(Text)
        /\ \A k \in 1..Len(line') : line'[k] = line[k]
    BY <1>3, <2>1, FrontFits, FrontElements
  <2> PICK n, m : n = Len(line) /\ m = Len(line')
    OBVIOUS
  <2>3. n \in Nat /\ m \in Nat /\ m = n - 1 /\ n > 0 /\ n <= longest
    BY <2>1, <2>2
  <2>4. longest' = longest
    <3>1. longest' = IF m > longest THEN m ELSE longest
      BY <1>1
    <3> QED
      BY <2>1, <2>3, <3>1
  <2>5. ASSUME WithinRow
        PROVE  Shown' /\ CursorAt(home.row, home.col + Len(line))' /\ Blanked(Len(line) + 1)'
    <3> DEFINE col == home.col + Len(line)
    <3>1. /\ Shown /\ Blanked(Len(line) + 1) /\ col \in Nat /\ col < COLS - 1
          /\ FrameAt(display', home.row, col) = {}
          /\ FrameAt(display', home.row, col + 1) = {}
          /\ \A k \in 0..(COLS - 1) : k # col /\ k # col + 1 =>
                FrameAt(display', home.row, k) = FrameAt(display, home.row, k)
          /\ col > 0 => display'.row = home.row /\ display'.col = col - 1
      BY <1>1, <2>5, EchoRow
    <3>2. ASSUME NEW k \in 1..Len(line')
          PROVE  Frame(home.col + k - 1)' = getMap(line'[k])
      <4>1. k \in 1..Len(line) /\ home.col + k - 1 \in 0..(COLS - 1)
            /\ home.col + k - 1 # col /\ home.col + k - 1 # col + 1
        BY <2>1, <2>2, <2>5, <3>2 DEF WithinRow
      <4>2. Frame(home.col + k - 1) = getMap(line[k])
        BY <2>1, <3>1, <4>1 DEF Shown
      <4>3. FrameAt(display', home.row, home.col + k - 1) = FrameAt(display, home.row, home.col + k - 1)
        <5> HIDE DEF col
        <5> QED
          BY <3>1, <4>1
      <4> QED
        BY <1>1, <2>2, <3>2, <4>2, <4>3, FramesAre, FramesWillBe
    <3>3. Shown'
      <4>1. DOMAIN line' = 1..Len(line')
        BY <2>2
      <4>2. \A k \in 1..Len(line') : Frame(home.col + k - 1)' = getMap(line'[k])
        BY <3>2
      <4> QED
        BY <1>1, <4>1, <4>2 DEF Shown
    <3>4. ASSUME NEW k \in (Len(line') + 1)..longest
          PROVE  Frame(home.col + k)' = {}
      <4>1. /\ k \in Nat /\ k >= n /\ home.col + k \in 0..(COLS - 1)
            /\ k = n => home.col + k = home.col + n
            /\ k = n + 1 => home.col + k = home.col + n + 1
            /\ k > n + 1 => home.col + k # home.col + n /\ home.col + k # home.col + n + 1
            /\ k > n + 1 => k \in (n + 1)..longest
        <5>1. k \in (m + 1)..longest
          BY <3>4
        <5> QED
          BY <2>1, <2>3, <2>5, <5>1 DEF WithinRow
      <4>2. k > n + 1 => Frame(home.col + k) = {}
        BY <3>1, <4>1 DEF Blanked
      <4>3. FrameAt(display', home.row, home.col + k) = {}
        <5>1. CASE k = n
          BY <3>1, <5>1
        <5>2. CASE k = n + 1
          <6>1. home.col + k = col + 1
            BY <4>1, <5>2
          <6> QED
            BY <3>1, <6>1
        <5>3. CASE k > n + 1
          <6>1. FrameAt(display, home.row, home.col + k) = {}
            BY <4>2, <5>3, FramesAre
          <6>2. home.col + k # col /\ home.col + k # col + 1 /\ home.col + k \in 0..(COLS - 1)
            BY <4>1, <5>3
          <6> HIDE DEF col
          <6> QED
            BY <3>1, <6>1, <6>2
        <5> QED
          BY <2>3, <4>1, <5>1, <5>2, <5>3
      <4> QED
        BY <1>1, <4>3, FramesWillBe
    <3>5. Blanked(Len(line) + 1)'
      BY <2>4, <1>1, <3>4 DEF Blanked
    <3>6. CursorAt(home.row, home.col + Len(line))'
      <4>1. col > 0 /\ col - 1 = home.col + Len(line')
        <5>1. home.col + n > 0 /\ home.col + n - 1 = home.col + m
          BY <2>1, <2>3
        <5>2. col = home.col + n
          OBVIOUS
        <5> HIDE DEF col
        <5> QED
          BY <2>1, <2>3, <5>1, <5>2
      <4> QED
        BY <1>1, <3>1, <4>1 DEF CursorAt
    <3> QED
      BY <3>3, <3>5, <3>6
  <2> QED
    BY <1>1, <1>3, <2>4, <2>5 DEF EchoInv, WithinRow, Ended
<1> QED
  BY <1>1, <1>2, <1>3

(* The echo of a character: it takes the place of the square.              *)
LEMMA CharacterKeeps ==
    ASSUME LineInv, CallInv, EchoInv, SeeRelease, key \notin {BACKSPACE, NEWLINE}
    PROVE  EchoInv'
<1>1. /\ pc = "release" /\ pc' = "loop" /\ UNCHANGED <<home, key>> /\ key \in Text
      /\ line' = Append(line, key)
      /\ longest' = IF Len(line') > longest THEN Len(line') ELSE longest
  BY DEF SeeRelease, Echo, LineInv, Text
<1>2. /\ line \in Seq(Text) /\ Len(line) \in Nat /\ Len(line) <= longest /\ longest \in Nat
      /\ home.col \in Nat /\ COLS \in Nat /\ DOMAIN line = 1..Len(line)
  BY <1>1, LineType, Grid
<1>3. /\ Len(line') = Len(line) + 1 /\ DOMAIN line' = 1..(Len(line) + 1)
      /\ line'[Len(line) + 1] = key
      /\ \A k \in 1..Len(line) : line'[k] = line[k]
  BY <1>1, <1>2
<1>4. longest' \in Nat /\ longest <= longest'
      /\ (longest' = longest \/ longest' = Len(line) + 1)
  BY <1>1, <1>2, <1>3
<1>5. ASSUME WithinRow'
      PROVE  Shown' /\ CursorAt(home.row, home.col + Len(line))' /\ Blanked(Len(line) + 1)'
  <2>1. WithinRow
    BY <1>1, <1>2, <1>4, <1>5 DEF WithinRow
  <2> DEFINE col == home.col + Len(line)
  <2>2. /\ Shown /\ Blanked(Len(line) + 1) /\ col \in Nat /\ col < COLS - 1
        /\ FrameAt(display', home.row, col) = getMap(key)
        /\ \A k \in 0..(COLS - 1) : k # col /\ k # col + 1 =>
              FrameAt(display', home.row, k) = FrameAt(display, home.row, k)
        /\ display'.row = home.row /\ display'.col = col + 1
    BY <2>1, EchoRow
  <2>3. ASSUME NEW k \in 1..(Len(line) + 1)
        PROVE  Frame(home.col + k - 1)' = getMap(line'[k])
    <3>1. CASE k = Len(line) + 1
      <4>1. home.col + k - 1 = col
        BY <1>2, <3>1
      <4> QED
        BY <1>1, <1>3, <2>2, <3>1, <4>1, FramesWillBe
    <3>2. CASE k # Len(line) + 1
      <4>1. k \in 1..Len(line) /\ home.col + k - 1 \in 0..(COLS - 1)
            /\ home.col + k - 1 # col /\ home.col + k - 1 # col + 1
        BY <1>2, <2>1, <2>3, <3>2 DEF WithinRow
      <4>2. Frame(home.col + k - 1) = getMap(line[k])
        BY <1>2, <2>2, <4>1 DEF Shown
      <4>3. FrameAt(display', home.row, home.col + k - 1) = FrameAt(display, home.row, home.col + k - 1)
        <5> HIDE DEF col
        <5> QED
          BY <2>2, <4>1
      <4> QED
        BY <1>1, <1>3, <4>1, <4>2, <4>3, FramesAre, FramesWillBe
    <3> QED
      BY <3>1, <3>2
  <2>4. Shown'
    BY <1>1, <1>3, <2>3 DEF Shown
  <2>5. ASSUME NEW k \in (Len(line') + 1)..longest'
        PROVE  Frame(home.col + k)' = {}
    <3>1. /\ k \in (Len(line) + 1)..longest /\ home.col + k \in 0..(COLS - 1)
          /\ home.col + k # col /\ home.col + k # col + 1
      BY <1>2, <1>3, <1>4, <2>1, <2>5 DEF WithinRow
    <3>2. Frame(home.col + k) = {}
      BY <2>2, <3>1 DEF Blanked
    <3>3. FrameAt(display', home.row, home.col + k) = FrameAt(display, home.row, home.col + k)
      <4> HIDE DEF col
      <4> QED
        BY <2>2, <3>1
    <3> QED
      BY <1>1, <3>2, <3>3, FramesAre, FramesWillBe
  <2>6. Blanked(Len(line) + 1)'
    BY <1>1, <2>5 DEF Blanked
  <2>7. CursorAt(home.row, home.col + Len(line))'
    <3>1. col + 1 = home.col + Len(line')
      BY <1>2, <1>3
    <3> QED
      BY <1>1, <2>2, <3>1 DEF CursorAt
  <2> QED
    BY <2>4, <2>6, <2>7
<1> QED
  BY <1>1, <1>5 DEF EchoInv, Ended

(* The line is returned: a full one has its newline printed now.           *)
LEMMA ReturnKeeps ==
    ASSUME LineInv, CallInv, EchoInv, ReturnLine, UNCHANGED call
    PROVE  CallInv' /\ EchoInv'
<1>1. /\ pc = "loop" /\ pc' = "returned" /\ UNCHANGED <<line, home, longest, key>>
      /\ ~HasRoom \/ key = NEWLINE
      /\ display' = IF Len(line) = MAX_LINE_LENGTH /\ key # NEWLINE
                    THEN printChar(display, NEWLINE) ELSE display
  BY DEF ReturnLine
<1>2. /\ Len(line) \in Nat /\ Len(line) <= longest /\ longest \in Nat /\ home.col \in Nat
      /\ COLS \in Nat /\ display \in Displays /\ home.row \in 0..(ROWS - 1)
  BY <1>1, LineType, Grid
<1>3. display' \in Displays
  BY <1>1, <1>2, CharacterPrinted
<1>4. CallInv'
  BY <1>1, <1>3 DEF CallInv
<1>5. CASE key = NEWLINE
  <2>1. UNCHANGED display
    BY <1>1, <1>5
  <2>2. WithinRow => Shown /\ CursorAt(NextRow(home.row), 0) /\ Frame(home.col + Len(line)) = {}
    BY <1>1, <1>5 DEF EchoInv, Ended
  <2> QED
    BY <1>1, <1>4, <2>1, <2>2 DEF EchoInv, WithinRow, Shown, CursorAt, Frame, Ended
<1>6. CASE key # NEWLINE
  <2>1. display' = printChar(display, NEWLINE)
    <3>1. Len(line) <= MAX_LINE_LENGTH
      BY <1>1 DEF LineInv, LineFits
    <3> QED
      BY <1>1, <1>2, <1>6, <3>1, KeyboardAssumption DEF HasRoom
  <2>2. ASSUME WithinRow
        PROVE  Shown' /\ CursorAt(NextRow(home.row), 0)' /\ Frame(home.col + Len(line))' = {}
    <3> DEFINE col == home.col + Len(line)
    <3>1. Shown /\ CursorAt(home.row, col)
      BY <1>1, <1>6, <2>2 DEF EchoInv
    <3>2. display.row = home.row /\ display.col = col /\ col \in Nat
      BY <1>2, <3>1 DEF CursorAt
    <3>3. /\ FrameAt(display', home.row, col) = {}
          /\ display'.row = NextRow(home.row) /\ display'.col = 0
          /\ \A k \in 0..(COLS - 1) : k # col =>
                FrameAt(display', home.row, k) = FrameAt(display, home.row, k)
      <4> HIDE DEF col
      <4>1. \A k \in 0..(COLS - 1) : k # col => <<home.row, k>> # <<display.row, display.col>>
        BY <3>2
      <4> QED
        BY <1>2, <2>1, <3>2, <4>1, CharacterPrinted
    <3>4. \A k \in 0..(COLS - 1) : k < col => FrameAt(display', home.row, k) = FrameAt(display, home.row, k)
      <4> HIDE DEF col
      <4> QED
        BY <1>2, <3>2, <3>3
    <3>5. Shown'
      BY <1>1, <2>2, <3>1, <3>4, ShownStays
    <3>6. Frame(home.col + Len(line))' = {}
      BY <1>1, <3>3, FramesWillBe
    <3>7. CursorAt(NextRow(home.row), 0)'
      BY <1>1, <3>3 DEF CursorAt
    <3> QED
      BY <3>5, <3>6, <3>7
  <2> QED
    BY <1>1, <1>4, <2>2 DEF EchoInv, WithinRow, Ended
<1> QED
  BY <1>5, <1>6

-----------------------------------------------------------------------------
(* The theorems.                                                           *)

LEMMA CallType ==
    ASSUME Init
    PROVE  CallInv
<1>1. pc = "called" /\ longest = 0
  BY DEF Init
<1>2. home \in [row : 0..(ROWS - 1), col : 0..(COLS - 1)]
  BY Grid DEF Init
<1>3. call.op = "readLine" => call.args \in Messages /\ display \in Displays
  <2>1. Arithmetic => call.op # "readLine"
    BY DEF Arithmetic, Call, BinaryOps, UnaryOps
  <2>2. Drawing => call.op # "readLine"
    BY DEF Drawing, Call
  <2>3. \A i \in 0..(ROWS - 1), j \in 0..(COLS - 1) : moveCursor(Fresh, i, j) \in Displays
    BY DEF moveCursor, Fresh, Displays
  <2>4. \A message : Call("readLine", message).args = message
    BY DEF Call
  <2> QED
    BY <2>1, <2>2, <2>3, <2>4 DEF Init
<1> QED
  BY <1>1, <1>2, <1>3 DEF CallInv

LEMMA EchoKeeps ==
    ASSUME LineInv, CallInv, EchoInv, SeeRelease
    PROVE  EchoInv'
  BY EnterKeeps, BackspaceKeeps, CharacterKeeps

\* The message has been printed: the echo begins where its cursor is.
LEMMA BeginKeeps ==
    ASSUME CallInv, CallReadLine
    PROVE  CallInv' /\ EchoInv'
<1>1. /\ call.op = "readLine" /\ display' = printString(display, call.args)
      /\ pc' = "loop" /\ line' = << >> /\ key' = NOKEY /\ longest' = 0 /\ UNCHANGED call
      /\ home' = [row |-> display'.row, col |-> display'.col]
  BY DEF CallReadLine, readLine, Args
<1>2. display \in Displays /\ call.args \in Messages
  BY <1>1 DEF CallInv
<1>3. display' \in Displays
  BY <1>1, <1>2, MessagesAssumption, StringPrinted
<1>4. display'.row \in 0..(ROWS - 1) /\ display'.col \in 0..(COLS - 1)
  BY <1>3 DEF Displays
<1>5. Len(line') = 0 /\ DOMAIN line' = {}
  BY <1>1
<1>6. CallInv'
  BY <1>1, <1>2, <1>3, <1>4, <1>5 DEF CallInv
<1>7. CursorAt(home.row, home.col + Len(line))'
  BY <1>1, <1>4, <1>5, Grid DEF CursorAt
<1>8. Shown'
  BY <1>5 DEF Shown
<1>9. Blanked(Len(line) + 1)'
  BY <1>1, <1>5 DEF Blanked
<1>10. pc' = "loop" /\ key' # NEWLINE
  BY <1>1, KeyboardAssumption
<1> QED
  BY <1>6, <1>7, <1>8, <1>9, <1>10 DEF EchoInv, Ended

LEMMA EchoStep ==
    ASSUME LineInv, CallInv, EchoInv, [Next]_vars
    PROVE  CallInv' /\ EchoInv'
<1>1. CASE Evaluate \/ Convert
  <2>1. pc = "called" /\ pc' = "done" /\ UNCHANGED <<display, home, longest, call>>
    BY <1>1 DEF Evaluate, Convert
  <2> QED
    BY <2>1 DEF CallInv, EchoInv, Ended
<1>2. CASE Draw
  <2>1. pc = "called" /\ pc' = "done" /\ call.op # "readLine" /\ UNCHANGED call
    BY <1>2 DEF Draw
  <2> QED
    BY <2>1 DEF CallInv, EchoInv, Ended
<1>3. CASE CallReadLine
  BY <1>3, BeginKeeps
<1>4. CASE Prompt /\ UNCHANGED call
  BY <1>4, PromptKeeps
<1>5. CASE SeePress /\ UNCHANGED call
  <2>1. pc = "press" /\ pc' = "release" /\ UNCHANGED <<display, line, home, longest, call>>
    BY <1>5 DEF SeePress
  <2> QED
    BY <2>1 DEF CallInv, EchoInv, Ended, WithinRow, Shown, Blanked, Frame, CursorAt
<1>6. CASE SeeRelease /\ UNCHANGED call
  BY <1>6, EchoCall, EchoKeeps
<1>7. CASE ReturnLine /\ UNCHANGED call
  BY <1>7, ReturnKeeps
<1>8. CASE (User /\ UNCHANGED call) \/ UNCHANGED vars
  <2>1. UNCHANGED <<display, pc, line, key, home, longest, call>>
    BY <1>8 DEF User, Press, Release, vars, consoleVars
  <2> QED
    BY <2>1 DEF CallInv, EchoInv, Ended, WithinRow, Shown, Blanked, Frame, CursorAt
<1> QED
  BY <1>1, <1>2, <1>3, <1>4, <1>5, <1>6, <1>7, <1>8 DEF Next, Reading, Strike

(* The invariant: the screen at every step of the loop of readLine.        *)
THEOREM EchoFollows == Spec => [](LineInv /\ CallInv /\ EchoInv)
<1>1. Init => LineInv /\ CallInv /\ EchoInv
  <2> SUFFICES ASSUME Init PROVE LineInv /\ CallInv /\ EchoInv
    OBVIOUS
  <2>1. LineInv
    BY DEF Init, LineInv, LineFits, HasRoom
  <2>2. EchoInv
    BY DEF Init, EchoInv, Ended
  <2> QED
    BY <2>1, <2>2, CallType
<1>2. LineInv /\ CallInv /\ EchoInv /\ [Next]_vars => (LineInv /\ CallInv /\ EchoInv)'
  BY LineInvStep, EchoStep
<1> QED
  BY <1>1, <1>2, PTL DEF Spec

(* EchoInStep: while readLine waits for a key, the frames of the row show  *)
(* the line, the square behind it, and nothing of longer lines before.     *)
THEOREM EchoShowsTheLine == Spec => []EchoInStep
<1>1. EchoInv => EchoInStep
  BY DEF EchoInv, EchoInStep, WithinRow, Shown, Blanked
<1> QED
  BY <1>1, EchoFollows, PTL

(* ReturnsTheEcho: a line that is returned is the one the screen shows,    *)
(* with the cursor at the start of the next row.                           *)
THEOREM ReturnsWhatIsShown == Spec => []ReturnsTheEcho
<1>1. CallInv /\ EchoInv => ReturnsTheEcho
  <2> SUFFICES ASSUME CallInv, EchoInv, pc = "returned", WithinRow
               PROVE  /\ display.col = 0 /\ display.row = (home.row + 1) % ROWS
                      /\ \A k \in DOMAIN line : Frame(home.col + k - 1) = getMap(line[k])
                      /\ Frame(home.col + Len(line)) = {}
    BY DEF ReturnsTheEcho, WithinRow
  <2>1. Shown /\ CursorAt(NextRow(home.row), 0) /\ Frame(home.col + Len(line)) = {}
    BY DEF EchoInv, Ended
  <2>2. home.row \in 0..(ROWS - 1) /\ ROWS \in Nat \ {0}
    BY Grid DEF CallInv
  <2>3. NextRow(home.row) = (home.row + 1) % ROWS
    <3>1. CASE home.row = ROWS - 1
      <4>1. ROWS * 1 + 0 = home.row + 1 /\ 0 \in 0..(ROWS - 1)
        BY <2>2, <3>1
      <4>2. (ROWS * 1 + 0) % ROWS = 0
        BY <2>2, <4>1, DivisionIsUnique
      <4> QED
        BY <3>1, <4>1, <4>2 DEF NextRow
    <3>2. CASE home.row # ROWS - 1
      <4>1. ROWS * 0 + (home.row + 1) = home.row + 1 /\ home.row + 1 \in 0..(ROWS - 1)
        BY <2>2, <3>2
      <4>2. (ROWS * 0 + (home.row + 1)) % ROWS = home.row + 1
        BY <2>2, <4>1, DivisionIsUnique
      <4> QED
        BY <3>2, <4>1, <4>2 DEF NextRow
    <3> QED
      BY <3>1, <3>2
  <2> QED
    BY <2>1, <2>3 DEF CursorAt, Shown
<1> QED
  BY <1>1, EchoFollows, PTL

-----------------------------------------------------------------------------
(* Arithmetic.                                                             *)

\* The calls whose result CalculatesRight speaks of, and their arguments.
Calculates == call.op \in BinaryOps \cup {"abs", "sqrt"}

OnNumbers ==
    IF call.op \in BinaryOps THEN \E x, y \in Numbers : Args = <<x, y>>
    ELSE \E x \in Numbers : Args = <<x>>

CalcInv ==
    /\ Calculates => OnNumbers /\ pc \in {"called", "done"}
    /\ CalculatesRight

LEMMA CalcInit == Init => CalcInv
<1> SUFFICES ASSUME Init PROVE CalcInv
  OBVIOUS
<1>1. pc = "called"
  BY DEF Init
<1>2. Arithmetic \/ Drawing \/ \E message \in Messages : call = Call("readLine", message)
  BY DEF Init
<1>3. ASSUME Calculates PROVE OnNumbers
  <2>1. CASE \E op \in BinaryOps, x, y \in Numbers : call = Call(op, <<x, y>>)
    BY <2>1 DEF Call, OnNumbers, Args
  <2>2. CASE \E op \in UnaryOps, x \in Numbers : call = Call(op, <<x>>)
    BY <2>2 DEF Call, OnNumbers, Args, UnaryOps, BinaryOps
  <2>3. ~\E x \in Numbers, room \in 0..MaxText : call = Call("setInt", <<x, room>>)
    BY <1>3 DEF Calculates, BinaryOps, Call
  <2>4. ~\E text \in SeqOf(Codes, MaxText) : call = Call("intValue", text)
    BY <1>3 DEF Calculates, BinaryOps, Call
  <2>5. ~Drawing
    BY <1>3 DEF Calculates, BinaryOps, Call, Drawing
  <2>6. ~\E message \in Messages : call = Call("readLine", message)
    BY <1>3 DEF Calculates, BinaryOps, Call
  <2> QED
    BY <1>2, <2>1, <2>2, <2>3, <2>4, <2>5, <2>6 DEF Arithmetic
<1> QED
  BY <1>1, <1>3 DEF CalcInv, CalculatesRight

LEMMA EvaluatesRight ==
    ASSUME Evaluate, CalcInv
    PROVE  CalculatesRight'
<1> SUFFICES ASSUME Calculates PROVE CalculatesRight'
  BY DEF Evaluate, CalculatesRight, Calculates
<1>1. call' = call /\ result' = Evaluated /\ OnNumbers
  BY DEF Evaluate, CalcInv
<1>2. ASSUME NEW x \in Numbers, NEW y \in Numbers, Args = <<x, y>>
      PROVE  /\ Args[1] = x /\ Args[2] = y /\ Args[Len(Args)] = y
             /\ Signed(x) \in Int /\ Signed(y) \in Int /\ (y = 0 <=> Signed(y) = 0)
  BY <1>2, SignedIs, Sizes
<1>3. ASSUME NEW x \in Numbers, Args = <<x>>
      PROVE  /\ Args[1] = x /\ Args[Len(Args)] = x
             /\ Signed(x) \in Int
  BY <1>3, SignedIs, Sizes
<1>4. CASE call.op = "multiply"
  <2>1. PICK x \in Numbers, y \in Numbers : Args = <<x, y>>
    BY <1>1, <1>4 DEF OnNumbers, BinaryOps
  <2>2. Evaluated = multiply(x, y)
    BY <1>2, <1>4, <2>1 DEF Evaluated
  <2> QED
    BY <1>1, <1>2, <1>4, <2>1, <2>2, Multiplies DEF CalculatesRight, Args
<1>5. CASE call.op = "divide"
  <2>1. PICK x \in Numbers, y \in Numbers : Args = <<x, y>>
    BY <1>1, <1>5 DEF OnNumbers, BinaryOps
  <2>2. Evaluated = divide(x, y)
    BY <1>2, <1>5, <2>1 DEF Evaluated
  <2> QED
    BY <1>1, <1>2, <1>5, <2>1, <2>2, DividesSigned DEF CalculatesRight, Args
<1>6. CASE call.op = "mod"
  <2>1. PICK x \in Numbers, y \in Numbers : Args = <<x, y>>
    BY <1>1, <1>6 DEF OnNumbers, BinaryOps
  <2>2. Evaluated = mod(x, y)
    BY <1>2, <1>6, <2>1 DEF Evaluated
  <2> QED
    BY <1>1, <1>2, <1>6, <2>1, <2>2, Remains DEF CalculatesRight, Args
<1>7. CASE call.op = "max"
  <2>1. PICK x \in Numbers, y \in Numbers : Args = <<x, y>>
    BY <1>1, <1>7 DEF OnNumbers, BinaryOps
  <2>2. Evaluated = max(x, y)
    BY <1>2, <1>7, <2>1 DEF Evaluated
  <2> QED
    BY <1>1, <1>2, <1>7, <2>1, <2>2, Chooses DEF CalculatesRight, Args, Comparable
<1>8. CASE call.op = "min"
  <2>1. PICK x \in Numbers, y \in Numbers : Args = <<x, y>>
    BY <1>1, <1>8 DEF OnNumbers, BinaryOps
  <2>2. Evaluated = min(x, y)
    BY <1>2, <1>8, <2>1 DEF Evaluated
  <2> QED
    BY <1>1, <1>2, <1>8, <2>1, <2>2, Chooses DEF CalculatesRight, Args, Comparable
<1>9. CASE call.op = "abs"
  <2>1. PICK x \in Numbers : Args = <<x>>
    BY <1>1, <1>9 DEF OnNumbers, BinaryOps
  <2>2. Evaluated = abs(x)
    BY <1>3, <1>9, <2>1 DEF Evaluated
  <2>3. abs(x) = Wrap(Magnitude(Signed(x)))
    BY AbsIs, WrapOfWord
  <2> QED
    BY <1>1, <1>3, <1>9, <2>1, <2>2, <2>3 DEF CalculatesRight, Args
<1>10. CASE call.op = "sqrt"
  <2>1. PICK x \in Numbers : Args = <<x>>
    BY <1>1, <1>10 DEF OnNumbers, BinaryOps
  <2>2. Evaluated = sqrt(x)
    BY <1>3, <1>10, <2>1 DEF Evaluated
  <2>3. Signed(x) >= 0 => x \in 0..(MINIMUM - 1) /\ Signed(x) = x
    BY SignedIs, Sizes
  <2>4. Signed(x) >= 0 => sqrt(x) * sqrt(x) <= Signed(x)
                          /\ Signed(x) < (sqrt(x) + 1) * (sqrt(x) + 1)
    BY <2>3, Roots
  <2> QED
    BY <1>1, <1>3, <1>10, <2>1, <2>2, <2>4 DEF CalculatesRight, Args
<1> QED
  BY <1>4, <1>5, <1>6, <1>7, <1>8, <1>9, <1>10 DEF Calculates, BinaryOps

LEMMA CalcStep == CalcInv /\ [Next]_vars => CalcInv'
<1> SUFFICES ASSUME CalcInv, [Next]_vars PROVE CalcInv'
  OBVIOUS
<1>1. CASE Evaluate
  <2>1. (Calculates => OnNumbers /\ pc \in {"called", "done"})'
    BY <1>1 DEF Evaluate, CalcInv, Calculates, OnNumbers, Args
  <2> QED
    BY <1>1, <2>1, EvaluatesRight DEF CalcInv
<1>2. CASE Convert \/ Draw \/ CallReadLine
  <2>1. call' = call /\ ~Calculates
    BY <1>2 DEF Convert, Draw, CallReadLine, Calculates, BinaryOps
  <2> QED
    BY <2>1 DEF CalcInv, CalculatesRight, Calculates
<1>3. CASE Reading /\ UNCHANGED call
  <2>1. pc \in {"loop", "press", "release"}
    BY <1>3 DEF Reading, Prompt, SeePress, SeeRelease, ReturnLine
  <2>2. ~Calculates
    BY <2>1 DEF CalcInv
  <2> QED
    BY <1>3, <2>2 DEF CalcInv, CalculatesRight, Calculates
<1>4. CASE Strike /\ UNCHANGED call
  <2>1. ~Calculates
    BY <1>4 DEF Strike, Calculates, BinaryOps
  <2> QED
    BY <1>4, <2>1 DEF CalcInv, CalculatesRight, Calculates
<1>5. CASE UNCHANGED vars
  BY <1>5 DEF vars, consoleVars, CalcInv, CalculatesRight, Calculates, OnNumbers, Args
<1> QED
  BY <1>1, <1>2, <1>3, <1>4, <1>5 DEF Next

(* CalculatesRight: for every size of a word, the products, quotients,     *)
(* remainders, magnitudes, roots and comparisons of OS/Math.jack are those *)
(* of the numbers the words stand for.                                     *)
THEOREM ArithmeticIsRight == Spec => []CalculatesRight
<1>1. CalcInv => CalculatesRight
  BY DEF CalcInv
<1> QED
  BY <1>1, CalcInit, CalcStep, PTL DEF Spec

-----------------------------------------------------------------------------
(* Shapes.                                                                 *)

ScreenPoints == (0..(X - 1)) \X (0..(Y - 1))
Covered(points) == {Pixel(p[1], p[2]) : p \in points}

LEMMA PixelPlace ==
    ASSUME NEW x \in 0..(X - 1), NEW y \in 0..(Y - 1)
    PROVE  /\ Pixel(x, y) \in ScreenPixels
           /\ (Pixel(x, y)[1] * word + Pixel(x, y)[2]) % X = x
           /\ (Pixel(x, y)[1] * word + Pixel(x, y)[2]) \div X = y
<1> DEFINE q == x \div word
           r == x % word
<1>1. q \in 0..(wordsPerRow - 1) /\ r \in 0..(word - 1) /\ x = word * q + r
  BY ColumnWord
<1>2. Pixel(x, y) = <<y * wordsPerRow + q, r>>
  BY DEF Pixel
<1> HIDE DEF q, r
<1>3. /\ wordsPerRow \in Nat \ {0} /\ word \in Nat \ {0} /\ X = word * wordsPerRow
      /\ X \in Nat \ {0} /\ Y \in Nat \ {0} /\ x \in Nat /\ y \in Nat
  BY RowWords, ScreenWords, ScreenAssumption
<1>4. y * wordsPerRow + q \in 0..(wordsPerRow * Y - 1)
  <2>1. wordsPerRow * Y - wordsPerRow * y = wordsPerRow * (Y - y)
    BY <1>3
  <2>2. wordsPerRow * ((Y - y) - 1) \in Nat
    <3>1. (Y - y) - 1 \in Nat
      BY <1>3
    <3> QED
      BY <1>3, <3>1
  <2>3. wordsPerRow * ((Y - y) - 1) = wordsPerRow * Y - wordsPerRow * y - wordsPerRow
    BY <1>3
  <2>4. /\ y * wordsPerRow = wordsPerRow * y /\ wordsPerRow * y \in Nat
        /\ wordsPerRow * Y \in Nat
    BY <1>3
  <2> QED
    BY <1>1, <1>3, <2>2, <2>3, <2>4
<1>5. (y * wordsPerRow + q) * word + r = X * y + x
  <2>1. (y * wordsPerRow + q) * word = (y * wordsPerRow) * word + q * word
    BY <1>1, <1>3
  <2>2. (y * wordsPerRow) * word = (word * wordsPerRow) * y /\ q * word = word * q
    BY <1>1, <1>3
  <2>3. (word * wordsPerRow) * y \in Int /\ word * q \in Int
    BY <1>1, <1>3
  <2> QED
    BY <1>1, <1>3, <2>1, <2>2, <2>3
<1>6. (X * y + x) % X = x /\ (X * y + x) \div X = y
  BY <1>3, DivisionIsUnique
<1> QED
  BY <1>1, <1>2, <1>4, <1>5, <1>6 DEF ScreenPixels, FullMask

(* The pixels of points of the screen are the pixels of those points only. *)
LEMMA PointsCovered ==
    ASSUME NEW points \in SUBSET ScreenPoints
    PROVE  Covered(points) \subseteq ScreenPixels /\ PointsOf(Covered(points)) = points
<1> DEFINE place(p) == p[1] * word + p[2]
           point(p) == <<place(p) % X, place(p) \div X>>
<1>1. \A p \in points : Pixel(p[1], p[2]) \in ScreenPixels /\ point(Pixel(p[1], p[2])) = p
  <2> TAKE p \in points
  <2>1. p[1] \in 0..(X - 1) /\ p[2] \in 0..(Y - 1) /\ p = <<p[1], p[2]>>
    BY DEF ScreenPoints
  <2> QED
    BY <2>1, PixelPlace
<1>2. PointsOf(Covered(points)) = {point(q) : q \in Covered(points)}
  BY DEF PointsOf
<1> HIDE DEF point
<1>3. {point(q) : q \in Covered(points)} = {point(Pixel(p[1], p[2])) : p \in points}
  BY DEF Covered
<1>4. {point(Pixel(p[1], p[2])) : p \in points} = points
  BY <1>1
<1>5. Covered(points) \subseteq ScreenPixels
  BY <1>1 DEF Covered
<1> QED
  BY <1>2, <1>3, <1>4, <1>5

LEMMA Paints ==
    ASSUME NEW d \in {Fresh, Reversed}, NEW pixels \in SUBSET ScreenPixels
    PROVE  /\ Painted(d, Update(d, pixels)) = pixels
           /\ Painted(d, d) = {} /\ Update(d, {}) = d
<1>1. Painted(d, d) = {}
  BY DEF Painted
<1>2. CASE d = Fresh
  <2>1. d = [lit |-> {}, color |-> TRUE, row |-> 0, col |-> 0]
    BY <1>2 DEF Fresh
  <2>2. Update(d, pixels).lit = pixels
    BY <2>1 DEF Update
  <2>3. Update(d, {}) = d
    BY <2>1 DEF Update
  <2> QED
    BY <1>1, <2>1, <2>2, <2>3 DEF Painted
<1>3. CASE d = Reversed
  <2> DEFINE all == (-Margin..(wordsPerRow * Y + Margin - 1)) \X FullMask
  <2>1. d = [lit |-> all, color |-> FALSE, row |-> 0, col |-> 0]
    BY <1>3 DEF Reversed, Fresh
  <2>2. pixels \subseteq all
    <3>1. wordsPerRow \in Nat /\ Y \in Nat /\ Margin \in Nat
      BY RowWords, ScreenAssumption, BoundsAssumption
    <3>2. wordsPerRow * Y \in Nat
      BY <3>1
    <3>3. 0..(wordsPerRow * Y - 1) \subseteq -Margin..(wordsPerRow * Y + Margin - 1)
      BY <3>1, <3>2
    <3> QED
      BY <3>3 DEF ScreenPixels
  <2> HIDE DEF all
  <2>3. Update(d, pixels).lit = all \ pixels
    BY <2>1 DEF Update
  <2>4. Update(d, {}) = d
    BY <2>1 DEF Update
  <2> QED
    BY <1>1, <2>1, <2>2, <2>3, <2>4 DEF Painted
<1> QED
  BY <1>2, <1>3

LEMMA SquareOrder ==
    ASSUME NEW a \in Nat, NEW b \in Nat, a <= b
    PROVE  a * a \in Nat /\ b * b \in Nat /\ a * a <= b * b
<1>1. (b - a) * (b + a) \in Nat
  <2>1. b - a \in Nat /\ b + a \in Nat
    OBVIOUS
  <2> QED
    BY <2>1
<1>2. (b - a) * (b + a) = b * b - a * a
  OBVIOUS
<1>3. a * a \in Nat /\ b * b \in Nat
  OBVIOUS
<1> QED
  BY <1>1, <1>2, <1>3

\* The numbers whose square is at most k are those up to its root.
LEMMA WithinRoot ==
    ASSUME NEW e \in Int, NEW n \in Nat, NEW k \in Int, n * n <= k, k < (n + 1) * (n + 1)
    PROVE  e \in (-n)..n <=> e * e <= k
<1>1. PICK m \in Nat : e * e = m * m /\ (m = e \/ m = -e)
  <2>1. CASE e >= 0
    <3>1. e \in Nat
      BY <2>1
    <3> QED
      BY <3>1
  <2>2. CASE ~(e >= 0)
    <3>1. -e \in Nat /\ (-e) * (-e) = e * e
      BY <2>2
    <3> QED
      BY <3>1
  <2> QED
    BY <2>1, <2>2
<1>2. e \in (-n)..n <=> m <= n
  BY <1>1
<1>3. n * n \in Nat /\ m * m \in Nat /\ (n + 1) * (n + 1) \in Nat
  BY SquareOrder
<1>4. m <= n => m * m <= n * n
  BY SquareOrder
<1>5. ~(m <= n) => (n + 1) * (n + 1) <= m * m
  <2>1. ~(m <= n) => n + 1 <= m /\ n + 1 \in Nat
    OBVIOUS
  <2> QED
    BY <2>1, SquareOrder
<1> QED
  BY <1>1, <1>2, <1>3, <1>4, <1>5

\* Half the width of a circle at the distance h from its middle.
Reach(r, h) == sqrt(Wrap(multiply(r, r) - multiply(h, h)))

LEMMA ReachIs ==
    ASSUME NEW r \in Nat, r * r < MINIMUM, NEW h \in 0..r
    PROVE  /\ Reach(r, h) \in 0..r
           /\ \A e \in Int : e \in (-Reach(r, h))..Reach(r, h) <=> e * e + h * h <= r * r
<1>1. MINIMUM \in Nat \ {0} /\ h \in Nat /\ h <= r
  BY Sizes
<1>2. h * h \in Nat /\ r * r \in Nat /\ h * h <= r * r
  BY <1>1, SquareOrder
<1>3. \A n \in 0..r : multiply(n, n) = n * n
  <2> TAKE n \in 0..r
  <2>1. n * n \in Nat /\ n * n <= r * r /\ n <= n * n
    <3>1. n * n \in Nat /\ n * n <= r * r
      BY SquareOrder
    <3>2. n = 0 \/ n * (n - 1) \in Nat
      <4>1. n = 0 \/ (n \in Nat /\ n - 1 \in Nat)
        OBVIOUS
      <4> QED
        BY <4>1
    <3>3. n * (n - 1) = n * n - n
      OBVIOUS
    <3> QED
      BY <3>1, <3>2, <3>3
  <2>2. n < MINIMUM /\ n * n < MINIMUM
    BY <1>1, <1>2, <2>1
  <2>3. n \in Numbers /\ n * n \in Numbers
    BY <1>1, <2>1, <2>2, Sizes
  <2>4. Signed(n) = n
    BY <2>2, <2>3, SignedIs
  <2> QED
    BY <2>3, <2>4, Multiplies, WrapOfWord
<1>4. PICK k \in 0..(MINIMUM - 1) : k = r * r - h * h
  BY <1>1, <1>2
<1>5. Wrap(multiply(r, r) - multiply(h, h)) = k
  <2>1. multiply(r, r) = r * r /\ multiply(h, h) = h * h
    BY <1>1, <1>3
  <2>2. k \in Numbers
    BY <1>1, <1>4, Sizes
  <2> QED
    BY <1>4, <2>1, <2>2, WrapOfWord
<1>6. PICK n \in Nat : n = Reach(r, h) /\ n * n <= k /\ k < (n + 1) * (n + 1)
  BY <1>5, Roots DEF Reach
<1>7. \A e \in Int : e \in (-n)..n <=> e * e <= k
  BY <1>1, <1>6, WithinRoot
<1>8. n <= r
  <2> SUFFICES ASSUME ~(n <= r) PROVE FALSE
    OBVIOUS
  <2>1. r + 1 \in Nat /\ r + 1 <= n
    BY <1>6
  <2>2. (r + 1) * (r + 1) <= n * n /\ n * n \in Nat
    BY <1>6, <2>1, SquareOrder
  <2>3. (r + 1) * (r + 1) = r * r + r + r + 1
    OBVIOUS
  <2> QED
    BY <1>2, <1>4, <1>6, <2>2, <2>3
<1>9. \A e \in Int : e * e <= k <=> e * e + h * h <= r * r
  <2> TAKE e \in Int
  <2>1. e * e \in Int
    OBVIOUS
  <2> QED
    BY <1>2, <1>4, <2>1
<1> QED
  BY <1>6, <1>7, <1>8, <1>9

(* drawCircle covers the points no further from its middle than its radius *)
(* and no other pixel.                                                     *)
THEOREM CircleCovered ==
    ASSUME NEW d, NEW r \in Nat, r * r < MINIMUM,
           NEW x \in r..(X - 1 - r), NEW y \in r..(Y - 1 - r)
    PROVE  drawCircle(d, x, y, r) = Drawn(d, Covered(Disc(x, y, r)))
<1> DEFINE R(h) == Reach(r, h)
           Rows2(h) == LineHorizontal(x - R(h), x + R(h), y + h)
                         \cup LineHorizontal(x - R(h), x + R(h), y - h)
           pixels == UNION {Rows2(h) : h \in 0..r}
<1>1. X \in Nat /\ Y \in Nat /\ x \in Nat /\ y \in Nat /\ r <= x /\ r <= y
      /\ x + r < X /\ y + r < Y
  BY ScreenAssumption
<1>2. \A h \in 0..r :
          /\ R(h) \in 0..r
          /\ Rows2(h) = Row(x - R(h), x + R(h), y + h) \cup Row(x - R(h), x + R(h), y - h)
  <2> TAKE h \in 0..r
  <2>1. R(h) \in 0..r
    BY ReachIs
  <2>2. /\ x - R(h) \in 0..(X - 1) /\ x + R(h) \in 0..(X - 1)
        /\ y + h \in Nat /\ y - h \in Nat
    BY <1>1, <2>1
  <2> QED
    BY <2>1, <2>2, RowCovered
<1>3. \A h \in 0..r : \A v : Row(x - R(h), x + R(h), v) = {Pixel(u, v) : u \in (x - R(h))..(x + R(h))}
  <2> TAKE h \in 0..r
  <2> TAKE v
  <2>1. R(h) \in Nat
    BY ReachIs
  <2>2. Least(x - R(h), x + R(h)) = x - R(h) /\ Greatest(x - R(h), x + R(h)) = x + R(h)
    BY <1>1, <2>1 DEF Least, Greatest
  <2> QED
    BY <2>2 DEF Row
<1>4. Disc(x, y, r) = {p \in ((x - r)..(x + r)) \X ((y - r)..(y + r)) :
                         (p[1] - x) * (p[1] - x) + (p[2] - y) * (p[2] - y) <= r * r}
  <2>1. /\ Least(x - r, x + r) = x - r /\ Greatest(x - r, x + r) = x + r
        /\ Least(y - r, y + r) = y - r /\ Greatest(y - r, y + r) = y + r
    BY <1>1 DEF Least, Greatest
  <2> QED
    BY <2>1 DEF Disc, Box
<1> HIDE DEF R, Rows2
<1>5. ASSUME NEW h \in 0..r, NEW u \in (x - R(h))..(x + R(h)), NEW v \in {y + h, y - h}
      PROVE  <<u, v>> \in Disc(x, y, r)
  <2>1. R(h) \in 0..r /\ u \in Int /\ v \in Int
    BY <1>1, <1>2
  <2>2. u - x \in (-R(h))..R(h) /\ u - x \in Int
    BY <1>1, <2>1
  <2>3. (u - x) * (u - x) + h * h <= r * r
    BY <2>2, ReachIs DEF R
  <2>4. (v - y) * (v - y) = h * h
    <3>1. (y + h) - y = h /\ (y - h) - y = -h /\ (-h) * (-h) = h * h
      BY <1>1
    <3> QED
      BY <3>1
  <2>5. u \in (x - r)..(x + r) /\ v \in (y - r)..(y + r)
    BY <1>1, <2>1
  <2> QED
    BY <1>4, <2>3, <2>4, <2>5
<1>6. ASSUME NEW p \in Disc(x, y, r)
      PROVE  \E h \in 0..r : p[1] \in (x - R(h))..(x + R(h)) /\ p[2] \in {y + h, y - h}
  <2>1. p[1] \in Int /\ p[2] \in (y - r)..(y + r)
        /\ (p[1] - x) * (p[1] - x) + (p[2] - y) * (p[2] - y) <= r * r
    BY <1>1, <1>4
  <2>2. PICK h \in 0..r : p[2] \in {y + h, y - h}
    <3>1. CASE p[2] >= y
      <4>1. p[2] - y \in 0..r /\ y + (p[2] - y) = p[2]
        BY <1>1, <2>1, <3>1
      <4> QED
        BY <4>1
    <3>2. CASE ~(p[2] >= y)
      <4>1. y - p[2] \in 0..r /\ y - (y - p[2]) = p[2]
        BY <1>1, <2>1, <3>2
      <4> QED
        BY <4>1
    <3> QED
      BY <3>1, <3>2
  <2>3. (p[2] - y) * (p[2] - y) = h * h
    <3>1. (y + h) - y = h /\ (y - h) - y = -h /\ (-h) * (-h) = h * h
      BY <1>1
    <3> QED
      BY <2>2, <3>1
  <2>4. PICK e \in Int : e = p[1] - x
    BY <1>1, <2>1
  <2>5. e * e + h * h <= r * r
    BY <2>1, <2>3, <2>4
  <2>6. e \in (-R(h))..R(h)
    BY <2>5, ReachIs DEF R
  <2>7. R(h) \in Nat
    BY <1>2
  <2>8. p[1] \in (x - R(h))..(x + R(h))
    BY <1>1, <2>1, <2>4, <2>6, <2>7
  <2> QED
    BY <2>2, <2>8
<1>7. \A h \in 0..r : Rows2(h) = {Pixel(u, y + h) : u \in (x - R(h))..(x + R(h))}
                                   \cup {Pixel(u, y - h) : u \in (x - R(h))..(x + R(h))}
  BY <1>1, <1>2, <1>3
<1>8. pixels \subseteq Covered(Disc(x, y, r))
  <2> SUFFICES ASSUME NEW h \in 0..r, NEW s \in Rows2(h)
               PROVE  s \in Covered(Disc(x, y, r))
    OBVIOUS
  <2>1. PICK u \in (x - R(h))..(x + R(h)), v \in {y + h, y - h} : s = Pixel(u, v)
    BY <1>7
  <2>2. <<u, v>> \in Disc(x, y, r) /\ <<u, v>>[1] = u /\ <<u, v>>[2] = v
    BY <1>5
  <2> QED
    BY <2>1, <2>2 DEF Covered
<1>9. Covered(Disc(x, y, r)) \subseteq pixels
  <2> SUFFICES ASSUME NEW p \in Disc(x, y, r)
               PROVE  Pixel(p[1], p[2]) \in pixels
    BY DEF Covered
  <2>1. PICK h \in 0..r : p[1] \in (x - R(h))..(x + R(h)) /\ p[2] \in {y + h, y - h}
    BY <1>6
  <2>2. Pixel(p[1], p[2]) \in Rows2(h)
    BY <1>7, <2>1
  <2> QED
    BY <2>2
<1>10. drawCircle(d, x, y, r) = Drawn(d, pixels)
  BY DEF drawCircle, Reach, R, Rows2
<1> QED
  BY <1>8, <1>9, <1>10

-----------------------------------------------------------------------------
(* The walk of a line.                                                     *)

Toward(a, b) == IF a < b THEN 1 ELSE -1
Steps(a, b) == Greatest(a, b) - Least(a, b)

Places == [x : Int, y : Int, diff : Int]

\* A turn of the loop of drawLine.
Turned(s, x1, y1, x2, y2) ==
    IF (s.x = x2 /\ s.y = y2) \/ ~OnScreen(s.x, s.y) THEN s
    ELSE IF s.diff < 0
         THEN [x |-> s.x + Toward(x1, x2), y |-> s.y, diff |-> s.diff + Steps(y1, y2)]
         ELSE [x |-> s.x, y |-> s.y + Toward(y1, y2), diff |-> s.diff - Steps(x1, x2)]

\* After i steps along the columns and j along the rows.
StepsMade(s, i, j, x1, y1, x2, y2) ==
    /\ s = [x |-> x1 + Toward(x1, x2) * i, y |-> y1 + Toward(y1, y2) * j,
            diff |-> Steps(y1, y2) * i - Steps(x1, x2) * j]
    /\ -Steps(x1, x2) <= s.diff /\ s.diff < Steps(y1, y2)

LEMMA TowardIs ==
    ASSUME NEW a \in Nat, NEW b \in Nat
    PROVE  /\ Steps(a, b) \in Nat /\ Toward(a, b) \in {1, -1}
           /\ Steps(a, b) = Magnitude(b - a)
           /\ a = b <=> Steps(a, b) = 0
           /\ \A i \in 0..Steps(a, b) :
                 /\ a + Toward(a, b) * i \in Least(a, b)..Greatest(a, b)
                 /\ a + Toward(a, b) * i = b <=> i = Steps(a, b)
                 /\ Magnitude((a + Toward(a, b) * i) - a) = i
           /\ Least(a, b) \in Nat /\ Greatest(a, b) \in Nat
           /\ Least(a, b) \in {a, b} /\ Greatest(a, b) \in {a, b}
<1>1. CASE a < b
  <2>1. Toward(a, b) = 1 /\ Steps(a, b) = b - a /\ Least(a, b) = a /\ Greatest(a, b) = b
    BY <1>1 DEF Toward, Steps, Least, Greatest
  <2>2. \A i \in 0..(b - a) : a + Toward(a, b) * i = a + i
    BY <2>1
  <2> QED
    BY <1>1, <2>1, <2>2 DEF Magnitude
<1>2. CASE a = b
  <2>1. Toward(a, b) = -1 /\ Steps(a, b) = 0 /\ Least(a, b) = a /\ Greatest(a, b) = a
    BY <1>2 DEF Toward, Steps, Least, Greatest
  <2>2. \A i \in 0..0 : a + Toward(a, b) * i = a /\ i = 0
    BY <2>1
  <2> QED
    BY <1>2, <2>1, <2>2 DEF Magnitude
<1>3. CASE a > b
  <2>1. Toward(a, b) = -1 /\ Steps(a, b) = a - b /\ Least(a, b) = b /\ Greatest(a, b) = a
    BY <1>3 DEF Toward, Steps, Least, Greatest
  <2>2. \A i \in 0..(a - b) : a + Toward(a, b) * i = a - i
    BY <2>1
  <2> QED
    BY <1>3, <2>1, <2>2 DEF Magnitude
<1> QED
  BY <1>1, <1>2, <1>3

LEMMA TurnSteps ==
    ASSUME NEW x1 \in 0..(X - 1), NEW y1 \in 0..(Y - 1),
           NEW x2 \in 0..(X - 1), NEW y2 \in 0..(Y - 1), y1 # y2,
           NEW i \in 0..Steps(x1, x2), NEW j \in 0..Steps(y1, y2), NEW s,
           StepsMade(s, i, j, x1, y1, x2, y2)
    PROVE  /\ s \in Places /\ OnScreen(s.x, s.y)
           /\ s.x = x2 /\ s.y = y2 <=> i = Steps(x1, x2) /\ j = Steps(y1, y2)
           /\ i = Steps(x1, x2) /\ j = Steps(y1, y2) => Turned(s, x1, y1, x2, y2) = s
           /\ ~(i = Steps(x1, x2) /\ j = Steps(y1, y2)) =>
                \/ /\ i + 1 \in 0..Steps(x1, x2)
                   /\ StepsMade(Turned(s, x1, y1, x2, y2), i + 1, j, x1, y1, x2, y2)
                \/ /\ j + 1 \in 0..Steps(y1, y2)
                   /\ StepsMade(Turned(s, x1, y1, x2, y2), i, j + 1, x1, y1, x2, y2)
<1> DEFINE dx == Steps(x1, x2)
           dy == Steps(y1, y2)
           tx == Toward(x1, x2)
           ty == Toward(y1, y2)
<1>1. X \in Nat /\ Y \in Nat /\ x1 \in Nat /\ x2 \in Nat /\ y1 \in Nat /\ y2 \in Nat
  BY ScreenAssumption
<1>2. /\ dx \in Nat /\ dy \in Nat \ {0} /\ tx \in {1, -1} /\ ty \in {1, -1}
      /\ x1 + tx * i \in Least(x1, x2)..Greatest(x1, x2) /\ (x1 + tx * i = x2 <=> i = dx)
      /\ y1 + ty * j \in Least(y1, y2)..Greatest(y1, y2) /\ (y1 + ty * j = y2 <=> j = dy)
      /\ Least(x1, x2) \in 0..(X - 1) /\ Greatest(x1, x2) \in 0..(X - 1)
      /\ Least(y1, y2) \in 0..(Y - 1) /\ Greatest(y1, y2) \in 0..(Y - 1)
  <2>1. /\ dx \in Nat /\ tx \in {1, -1}
        /\ x1 + tx * i \in Least(x1, x2)..Greatest(x1, x2) /\ (x1 + tx * i = x2 <=> i = dx)
        /\ Least(x1, x2) \in {x1, x2} /\ Greatest(x1, x2) \in {x1, x2}
    BY <1>1, TowardIs
  <2>2. /\ dy \in Nat /\ dy # 0 /\ ty \in {1, -1}
        /\ y1 + ty * j \in Least(y1, y2)..Greatest(y1, y2) /\ (y1 + ty * j = y2 <=> j = dy)
        /\ Least(y1, y2) \in {y1, y2} /\ Greatest(y1, y2) \in {y1, y2}
    BY <1>1, TowardIs
  <2> HIDE DEF dx, dy, tx, ty
  <2> QED
    BY <2>1, <2>2
<1> HIDE DEF dx, dy, tx, ty
<1>3. /\ s = [x |-> x1 + tx * i, y |-> y1 + ty * j, diff |-> dy * i - dx * j]
      /\ -dx <= dy * i - dx * j /\ dy * i - dx * j < dy
  BY DEF StepsMade, dx, dy, tx, ty
<1>4. i \in 0..dx /\ j \in 0..dy /\ i \in Nat /\ j \in Nat
  BY <1>2 DEF dx, dy
<1>5. dy * i \in Nat /\ dx * j \in Nat /\ tx * i \in Int /\ ty * j \in Int
  BY <1>2, <1>4
<1>6. s \in Places
  BY <1>1, <1>3, <1>5 DEF Places
<1>7. OnScreen(s.x, s.y)
  <2>1. x1 + tx * i \in 0..(X - 1) /\ y1 + ty * j \in 0..(Y - 1)
    BY <1>1, <1>2
  <2> QED
    BY <1>3, <2>1 DEF OnScreen
<1>8. (s.x = x2 /\ s.y = y2) <=> (i = dx /\ j = dy)
  BY <1>2, <1>3
<1>9. Turned(s, x1, y1, x2, y2) =
         IF i = dx /\ j = dy THEN s
         ELSE IF s.diff < 0 THEN [x |-> s.x + tx, y |-> s.y, diff |-> s.diff + dy]
              ELSE [x |-> s.x, y |-> s.y + ty, diff |-> s.diff - dx]
  BY <1>7, <1>8 DEF Turned, dx, dy, tx, ty
<1>10. CASE ~(i = dx /\ j = dy) /\ s.diff < 0
  <2>1. i # dx
    <3> SUFFICES ASSUME i = dx PROVE FALSE
      OBVIOUS
    <3>1. dx * (dy - j) \in Nat
      <4>1. dy - j \in Nat
        BY <1>2, <1>4
      <4> QED
        BY <1>2, <4>1
    <3>2. dx * (dy - j) = dx * dy - dx * j /\ dy * dx = dx * dy /\ dx * dy \in Int
      BY <1>2, <1>4
    <3> QED
      BY <1>3, <1>5, <1>10, <3>1, <3>2
  <2>2. i + 1 \in 0..dx
    BY <1>2, <1>4, <2>1
  <2>3. dy * (i + 1) = dy * i + dy /\ tx * (i + 1) = tx * i + tx
    BY <1>2, <1>4
  <2>4. Turned(s, x1, y1, x2, y2) =
          [x |-> x1 + tx * (i + 1), y |-> y1 + ty * j, diff |-> dy * (i + 1) - dx * j]
    <3>1. /\ (x1 + tx * i) + tx = x1 + tx * (i + 1)
          /\ (dy * i - dx * j) + dy = dy * (i + 1) - dx * j
      BY <1>1, <1>2, <1>5, <2>3
    <3> QED
      BY <1>3, <1>9, <1>10, <3>1
  <2>5. -dx <= dy * (i + 1) - dx * j /\ dy * (i + 1) - dx * j < dy
    BY <1>2, <1>3, <1>5, <1>10, <2>3
  <2>6. StepsMade(Turned(s, x1, y1, x2, y2), i + 1, j, x1, y1, x2, y2)
    BY <2>4, <2>5 DEF StepsMade, dx, dy, tx, ty
  <2> QED
    BY <1>6, <1>7, <1>8, <1>10, <2>2, <2>6 DEF dx, dy
<1>11. CASE ~(i = dx /\ j = dy) /\ ~(s.diff < 0)
  <2>1. j # dy
    <3> SUFFICES ASSUME j = dy PROVE FALSE
      OBVIOUS
    <3>1. dy * ((dx - i) - 1) \in Nat
      <4>1. (dx - i) - 1 \in Nat
        BY <1>2, <1>4, <1>11
      <4> QED
        BY <1>2, <4>1
    <3>2. dy * ((dx - i) - 1) = dx * dy - (dy * i) - dy /\ dx * dy \in Int
      BY <1>2, <1>4
    <3> QED
      BY <1>2, <1>3, <1>5, <1>11, <3>1, <3>2
  <2>2. j + 1 \in 0..dy
    BY <1>2, <1>4, <2>1
  <2>3. dx * (j + 1) = dx * j + dx /\ ty * (j + 1) = ty * j + ty
    BY <1>2, <1>4
  <2>4. Turned(s, x1, y1, x2, y2) =
          [x |-> x1 + tx * i, y |-> y1 + ty * (j + 1), diff |-> dy * i - dx * (j + 1)]
    <3>1. /\ (y1 + ty * j) + ty = y1 + ty * (j + 1)
          /\ (dy * i - dx * j) - dx = dy * i - dx * (j + 1)
      BY <1>1, <1>2, <1>5, <2>3
    <3> QED
      BY <1>3, <1>9, <1>11, <3>1
  <2>5. -dx <= dy * i - dx * (j + 1) /\ dy * i - dx * (j + 1) < dy
    BY <1>2, <1>3, <1>5, <1>11, <2>3
  <2>6. StepsMade(Turned(s, x1, y1, x2, y2), i, j + 1, x1, y1, x2, y2)
    BY <2>4, <2>5 DEF StepsMade, dx, dy, tx, ty
  <2> QED
    BY <1>6, <1>7, <1>8, <1>11, <2>2, <2>6 DEF dx, dy
<1>12. CASE i = dx /\ j = dy
  <2>1. Turned(s, x1, y1, x2, y2) = s
    BY <1>9, <1>12
  <2> QED
    BY <1>6, <1>7, <1>8, <1>12, <2>1 DEF dx, dy
<1> QED
  BY <1>10, <1>11, <1>12

LEMMA WalkTurns ==
    ASSUME NEW x1 \in 0..(X - 1), NEW y1 \in 0..(Y - 1),
           NEW x2 \in 0..(X - 1), NEW y2 \in 0..(Y - 1)
    PROVE  LET walk == Walk(x1, y1, x2, y2)
           IN  /\ DOMAIN walk = 0..(X + Y)
               /\ walk[0] = [x |-> x1, y |-> y1, diff |-> 0]
               /\ \A n \in 1..(X + Y) : walk[n] = Turned(walk[n - 1], x1, y1, x2, y2)
<1> DEFINE base == [x |-> x1, y |-> y1, diff |-> 0]
           T(s) == Turned(s, x1, y1, x2, y2)
           F(f) == [n \in 0..(X + Y) |-> IF n = 0 THEN base ELSE T(f[n - 1])]
           at == CHOOSE f : f = F(f)
           step == [p \in (1..(X + Y)) \X Places |-> T(p[2])]
<1>1. X \in Nat /\ Y \in Nat /\ X + Y \in Nat
  BY ScreenAssumption
<1>2. base \in Places
  BY <1>1 DEF Places
<1>3. \A s \in Places : T(s) \in Places
  <2> TAKE s \in Places
  <2>1. s.x \in Int /\ s.y \in Int /\ s.diff \in Int
    BY DEF Places
  <2>2. /\ Toward(x1, x2) \in Int /\ Toward(y1, y2) \in Int
        /\ Steps(x1, x2) \in Int /\ Steps(y1, y2) \in Int
    BY <1>1 DEF Toward, Steps, Greatest, Least
  <2>3. /\ [x |-> s.x + Toward(x1, x2), y |-> s.y, diff |-> s.diff + Steps(y1, y2)] \in Places
        /\ [x |-> s.x, y |-> s.y + Toward(y1, y2), diff |-> s.diff - Steps(x1, x2)] \in Places
    BY <2>1, <2>2 DEF Places
  <2> QED
    BY <2>3 DEF Turned
<1>4. step \in [(1..(X + Y)) \X Places -> Places]
  <2>1. \A p \in (1..(X + Y)) \X Places : p[2] \in Places
    OBVIOUS
  <2> HIDE DEF T
  <2> QED
    BY <1>3, <2>1
<1>5. PICK g : IsIteration(g, X + Y, Places, base, step)
  <2> HIDE DEF step, base
  <2> QED
    BY <1>1, <1>2, <1>4, Iterated
<1>6. g = F(g)
  <2> HIDE DEF T, base
  <2>1. /\ g \in [0..(X + Y) -> Places] /\ g[0] = base
        /\ \A n \in 1..(X + Y) : g[n] = step[<<n, g[n - 1]>>]
    BY <1>5 DEF IsIteration
  <2>2. \A n \in 1..(X + Y) : n - 1 \in 0..(X + Y)
    BY <1>1
  <2>3. \A n \in 1..(X + Y) : step[<<n, g[n - 1]>>] = T(g[n - 1])
    BY <2>1, <2>2
  <2>4. \A n \in 0..(X + Y) : n # 0 => n \in 1..(X + Y)
    BY <1>1
  <2> HIDE DEF step
  <2>5. \A n \in 0..(X + Y) : g[n] = F(g)[n]
    BY <2>1, <2>3, <2>4
  <2> QED
    BY <2>1, <2>5
<1>7. at = F(at)
  BY <1>6
<1>8. Walk(x1, y1, x2, y2) = at
  BY DEF Walk, Turned, Toward, Steps
<1> HIDE DEF at, T, base
<1>9. DOMAIN at = 0..(X + Y) /\ at[0] = base
  BY <1>1, <1>7
<1>10. \A n \in 1..(X + Y) : at[n] = T(at[n - 1])
  <2>1. \A n \in 1..(X + Y) : n \in 0..(X + Y) /\ n # 0
    BY <1>1
  <2> QED
    BY <1>7, <2>1
<1> QED
  BY <1>8, <1>9, <1>10 DEF T, base

\* What the loop has reached after n turns.
Reached(s, n, x1, y1, x2, y2) ==
    \E i \in 0..Steps(x1, x2), j \in 0..Steps(y1, y2) :
        /\ StepsMade(s, i, j, x1, y1, x2, y2)
        /\ IF n <= Steps(x1, x2) + Steps(y1, y2) THEN i + j = n
           ELSE i = Steps(x1, x2) /\ j = Steps(y1, y2)

LEMMA WalkReaches ==
    ASSUME NEW x1 \in 0..(X - 1), NEW y1 \in 0..(Y - 1),
           NEW x2 \in 0..(X - 1), NEW y2 \in 0..(Y - 1), y1 # y2
    PROVE  \A n \in 0..(X + Y) : Reached(Walk(x1, y1, x2, y2)[n], n, x1, y1, x2, y2)
<1> DEFINE walk == Walk(x1, y1, x2, y2)
           dx == Steps(x1, x2)
           dy == Steps(y1, y2)
           R(s, n) == Reached(s, n, x1, y1, x2, y2)
           S == {n \in 0..(X + Y) : R(walk[n], n)}
<1>1. /\ X \in Nat /\ Y \in Nat /\ X + Y \in Nat
      /\ x1 \in Nat /\ y1 \in Nat /\ x2 \in Nat /\ y2 \in Nat
  BY ScreenAssumption
<1>2. dx \in Nat /\ dy \in Nat \ {0}
  <2>1. dx \in Nat /\ dy \in Nat /\ dy # 0
    BY <1>1, TowardIs
  <2> QED
    BY <2>1
<1>3. /\ walk[0] = [x |-> x1, y |-> y1, diff |-> 0]
      /\ \A n \in 1..(X + Y) : walk[n] = Turned(walk[n - 1], x1, y1, x2, y2)
  BY WalkTurns
<1> HIDE DEF walk
<1>4. 0 \in S
  <2>1. StepsMade(walk[0], 0, 0, x1, y1, x2, y2)
    <3>1. Toward(x1, x2) \in Int /\ Toward(y1, y2) \in Int
      BY DEF Toward
    <3>2. /\ x1 + Toward(x1, x2) * 0 = x1 /\ y1 + Toward(y1, y2) * 0 = y1
          /\ dy * 0 - dx * 0 = 0 /\ -dx <= 0 /\ 0 < dy
      BY <1>1, <1>2, <3>1
    <3> QED
      BY <1>3, <3>2 DEF StepsMade
  <2>2. R(walk[0], 0)
    BY <1>2, <2>1 DEF Reached
  <2> HIDE DEF R
  <2> QED
    BY <1>1, <2>2
<1>5. ASSUME NEW n \in 0..(X + Y), n \in S, n + 1 \in 0..(X + Y)
      PROVE  n + 1 \in S
  <2> DEFINE s == walk[n]
             t == walk[n + 1]
  <2>1. t = Turned(s, x1, y1, x2, y2)
    <3>1. n + 1 \in 1..(X + Y) /\ (n + 1) - 1 = n
      BY <1>1, <1>5
    <3> QED
      BY <1>3, <3>1
  <2>2. R(s, n)
    BY <1>5
  <2> HIDE DEF s, t
  <2>3. PICK i \in 0..dx, j \in 0..dy :
            /\ StepsMade(s, i, j, x1, y1, x2, y2)
            /\ IF n <= dx + dy THEN i + j = n ELSE i = dx /\ j = dy
    BY <2>2 DEF Reached
  <2>4. CASE i = dx /\ j = dy
    <3>1. t = s
      BY <1>1, <2>1, <2>3, <2>4, TurnSteps
    <3>2. ~(n + 1 <= dx + dy)
      BY <1>2, <2>3, <2>4
    <3>3. R(t, n + 1)
      BY <2>3, <2>4, <3>1, <3>2 DEF Reached
    <3> HIDE DEF R
    <3> QED
      BY <1>5, <3>3 DEF t
  <2>5. CASE ~(i = dx /\ j = dy)
    <3>1. \/ i + 1 \in 0..dx /\ StepsMade(t, i + 1, j, x1, y1, x2, y2)
          \/ j + 1 \in 0..dy /\ StepsMade(t, i, j + 1, x1, y1, x2, y2)
      BY <1>1, <2>1, <2>3, <2>5, TurnSteps
    <3>2. n + 1 <= dx + dy /\ (i + 1) + j = n + 1 /\ i + (j + 1) = n + 1
      <4> HIDE DEF dx, dy
      <4> QED
        BY <1>2, <2>3, <2>5
    <3>3. R(t, n + 1)
      BY <2>3, <3>1, <3>2 DEF Reached
    <3> HIDE DEF R
    <3> QED
      BY <1>5, <3>3 DEF t
  <2> QED
    BY <2>4, <2>5
<1> HIDE DEF S
<1>6. 0..(X + Y) \subseteq S
  BY <1>1, <1>4, <1>5, UpTo
<1> QED
  BY <1>6 DEF S, walk

\* The point the loop is at after n turns.
PointOf(walk, n) == <<walk[n].x, walk[n].y>>

Apart(p, q) == Magnitude(p[1] - q[1]) + Magnitude(p[2] - q[2])

LEMMA PlaceReached ==
    ASSUME NEW x1 \in 0..(X - 1), NEW y1 \in 0..(Y - 1),
           NEW x2 \in 0..(X - 1), NEW y2 \in 0..(Y - 1), y1 # y2,
           NEW n \in 0..(X + Y)
    PROVE  LET p == PointOf(Walk(x1, y1, x2, y2), n)
               dx == Steps(x1, x2)
               dy == Steps(y1, y2)
           IN  /\ p \in Box(x1, y1, x2, y2) /\ p \in ScreenPoints /\ OnScreen(p[1], p[2])
               /\ p = <<x2, y2>> <=> n >= dx + dy
               /\ n <= dx + dy => Apart(p, <<x1, y1>>) = n
               /\ -dx <= dy * Magnitude(p[1] - x1) - dx * Magnitude(p[2] - y1)
               /\ dy * Magnitude(p[1] - x1) - dx * Magnitude(p[2] - y1) < dy
<1> DEFINE s == Walk(x1, y1, x2, y2)[n]
           p == PointOf(Walk(x1, y1, x2, y2), n)
           dx == Steps(x1, x2)
           dy == Steps(y1, y2)
<1>1. PICK i \in 0..dx, j \in 0..dy :
          /\ StepsMade(s, i, j, x1, y1, x2, y2)
          /\ IF n <= dx + dy THEN i + j = n ELSE i = dx /\ j = dy
  BY WalkReaches DEF Reached
<1>2. p = <<s.x, s.y>>
  BY DEF PointOf
<1> HIDE DEF s, p
<1>3. OnScreen(s.x, s.y) /\ ((s.x = x2 /\ s.y = y2) <=> (i = dx /\ j = dy))
  BY <1>1, TurnSteps
<1>4. X \in Nat /\ Y \in Nat /\ x1 \in Nat /\ x2 \in Nat /\ y1 \in Nat /\ y2 \in Nat
  BY ScreenAssumption
<1>5. /\ dx \in Nat /\ dy \in Nat
      /\ x1 + Toward(x1, x2) * i \in Least(x1, x2)..Greatest(x1, x2)
      /\ y1 + Toward(y1, y2) * j \in Least(y1, y2)..Greatest(y1, y2)
      /\ Magnitude((x1 + Toward(x1, x2) * i) - x1) = i
      /\ Magnitude((y1 + Toward(y1, y2) * j) - y1) = j
  BY <1>4, TowardIs
<1>6. /\ s.x = x1 + Toward(x1, x2) * i /\ s.y = y1 + Toward(y1, y2) * j
      /\ s.diff = dy * i - dx * j /\ -dx <= s.diff /\ s.diff < dy
  BY <1>1 DEF StepsMade
<1> HIDE DEF dx, dy
<1>7. p[1] = s.x /\ p[2] = s.y
  BY <1>2
<1>8. Magnitude(p[1] - x1) = i /\ Magnitude(p[2] - y1) = j
  BY <1>5, <1>6, <1>7
<1>9. p \in Box(x1, y1, x2, y2)
  BY <1>2, <1>5, <1>6 DEF Box
<1>10. OnScreen(p[1], p[2]) /\ p \in ScreenPoints
  BY <1>2, <1>3, <1>7 DEF OnScreen, ScreenPoints
<1>11. p = <<x2, y2>> <=> n >= dx + dy
  <2>1. p = <<x2, y2>> <=> (i = dx /\ j = dy)
    BY <1>2, <1>3
  <2>2. i \in Nat /\ j \in Nat /\ i <= dx /\ j <= dy
    BY <1>5
  <2>3. (i = dx /\ j = dy) <=> n >= dx + dy
    BY <1>1, <1>5, <2>2
  <2> QED
    BY <2>1, <2>3
<1>12. n <= dx + dy => Apart(p, <<x1, y1>>) = n
  BY <1>1, <1>8 DEF Apart
<1> QED
  BY <1>6, <1>8, <1>9, <1>10, <1>11, <1>12 DEF p, dx, dy

LEMMA TurnMovesOne ==
    ASSUME NEW x1, NEW y1, NEW x2, NEW y2, NEW s \in Places,
           OnScreen(s.x, s.y), ~(s.x = x2 /\ s.y = y2)
    PROVE  LET t == Turned(s, x1, y1, x2, y2)
           IN  Apart(<<t.x, t.y>>, <<s.x, s.y>>) = 1
<1> DEFINE t == Turned(s, x1, y1, x2, y2)
<1>1. s.x \in Int /\ s.y \in Int
  BY DEF Places
<1>2. \/ t.x = s.x + Toward(x1, x2) /\ t.y = s.y
      \/ t.x = s.x /\ t.y = s.y + Toward(y1, y2)
  BY DEF Turned
<1>3. /\ (s.x + Toward(x1, x2)) - s.x \in {1, -1} /\ (s.y + Toward(y1, y2)) - s.y \in {1, -1}
      /\ s.x - s.x = 0 /\ s.y - s.y = 0
  BY <1>1 DEF Toward
<1>4. (\A e \in {1, -1} : Magnitude(e) = 1) /\ Magnitude(0) = 0
  <2>1. \A e \in {1, -1} : e \in Int /\ (IF e < 0 THEN -e ELSE e) = 1
    OBVIOUS
  <2>2. \A e \in {1, -1} : Magnitude(e) = 1
    BY <2>1 DEF Magnitude
  <2>3. Magnitude(0) = 0
    BY DEF Magnitude
  <2> QED
    BY <2>2, <2>3
<1> HIDE DEF t
<1>5. Apart(<<t.x, t.y>>, <<s.x, s.y>>) = Magnitude(t.x - s.x) + Magnitude(t.y - s.y)
  BY DEF Apart
<1> QED
  BY <1>2, <1>3, <1>4, <1>5 DEF t

\* The points the loop meets, and those of them it shows.
Met(x1, y1, x2, y2) ==
    LET walk == Walk(x1, y1, x2, y2) IN {<<walk[n].x, walk[n].y>> : n \in DOMAIN walk}
ShownOf(x1, y1, x2, y2) ==
    {p \in Met(x1, y1, x2, y2) : OnScreen(p[1], p[2]) /\ p # <<x2, y2>>}

(* The points drawLine shows are those of a line from (x1, y1) to (x2, y2) *)
(* without its end: with (x2, y2), which the loop reaches and does not     *)
(* show, they are the staircase near the straight line all the way.        *)
THEOREM LineIsStaircase ==
    ASSUME NEW x1 \in 0..(X - 1), NEW y1 \in 0..(Y - 1),
           NEW x2 \in 0..(X - 1), NEW y2 \in 0..(Y - 1), y1 # y2
    PROVE  /\ <<x2, y2>> \in Met(x1, y1, x2, y2)
           /\ ShownOf(x1, y1, x2, y2) \subseteq ScreenPoints
           /\ <<x2, y2>> \notin ShownOf(x1, y1, x2, y2)
           /\ IsStaircase(ShownOf(x1, y1, x2, y2) \cup {<<x2, y2>>}, x1, y1, x2, y2)
<1> DEFINE walk == Walk(x1, y1, x2, y2)
           met == {<<walk[n].x, walk[n].y>> : n \in DOMAIN walk}
           shown == {p \in met : OnScreen(p[1], p[2]) /\ p # <<x2, y2>>}
           whole == shown \cup {<<x2, y2>>}
           dx == Steps(x1, x2)
           dy == Steps(y1, y2)
           start == <<x1, y1>>
           P(n) == PointOf(walk, n)
<1>1. /\ X \in Nat /\ Y \in Nat
      /\ x1 \in Nat /\ y1 \in Nat /\ x2 \in Nat /\ y2 \in Nat
  BY ScreenAssumption
<1>2. /\ dx \in Nat /\ dy \in Nat \ {0}
      /\ dx = Magnitude(x2 - x1) /\ dy = Magnitude(y2 - y1)
      /\ dx + dy \in 0..(X + Y)
  <2>1. /\ dx \in Nat /\ dy \in Nat /\ dy # 0
        /\ dx = Magnitude(x2 - x1) /\ dy = Magnitude(y2 - y1)
    BY <1>1, TowardIs
  <2>2. dx < X /\ dy < Y
    BY <1>1 DEF Steps, Greatest, Least
  <2> HIDE DEF dx, dy
  <2> QED
    BY <1>1, <2>1, <2>2
<1>3. DOMAIN walk = 0..(X + Y)
  BY WalkTurns
<1>4. met = {P(n) : n \in 0..(X + Y)}
  BY <1>3 DEF PointOf
<1>5. \A n \in 0..(X + Y) :
          /\ P(n) \in Box(x1, y1, x2, y2) /\ P(n) \in ScreenPoints
          /\ OnScreen(P(n)[1], P(n)[2])
          /\ P(n) = <<x2, y2>> <=> n >= dx + dy
          /\ n <= dx + dy => Apart(P(n), start) = n
          /\ -dx <= dy * Magnitude(P(n)[1] - x1) - dx * Magnitude(P(n)[2] - y1)
          /\ dy * Magnitude(P(n)[1] - x1) - dx * Magnitude(P(n)[2] - y1) < dy
  <2> TAKE n \in 0..(X + Y)
  <2> QED
    BY PlaceReached
<1>6. \A n \in 1..(dx + dy) : Apart(P(n), P(n - 1)) = 1
  <2> TAKE n \in 1..(dx + dy)
  <2> DEFINE s == walk[n - 1]
  <2>1. n \in 1..(X + Y) /\ n - 1 \in 0..(X + Y) /\ ~(n - 1 >= dx + dy)
    <3> HIDE DEF dx, dy
    <3> QED
      BY <1>1, <1>2
  <2>2. walk[n] = Turned(s, x1, y1, x2, y2)
    BY <2>1, WalkTurns
  <2>3. s \in Places
    <3>1. PICK i \in 0..dx, j \in 0..dy : StepsMade(s, i, j, x1, y1, x2, y2)
      BY <2>1, WalkReaches DEF Reached
    <3> QED
      BY <3>1, TurnSteps
  <2>4. OnScreen(s.x, s.y) /\ ~(s.x = x2 /\ s.y = y2)
    <3>1. P(n - 1) = <<s.x, s.y>>
      BY DEF PointOf
    <3> HIDE DEF P, s
    <3>2. OnScreen(P(n - 1)[1], P(n - 1)[2]) /\ P(n - 1) # <<x2, y2>>
      BY <1>5, <2>1
    <3> QED
      BY <3>1, <3>2
  <2> HIDE DEF s, walk
  <2>5. Apart(<<walk[n].x, walk[n].y>>, <<s.x, s.y>>) = 1
    BY <2>2, <2>3, <2>4, TurnMovesOne
  <2> QED
    BY <2>5 DEF s, PointOf
<1>7. P(0) = start
  <2>1. walk[0] = [x |-> x1, y |-> y1, diff |-> 0]
    BY WalkTurns
  <2> HIDE DEF walk
  <2> QED
    BY <2>1 DEF PointOf
<1> HIDE DEF P, walk, met
<1>8. P(dx + dy) = <<x2, y2>>
  <2> HIDE DEF dx, dy
  <2>1. dx + dy >= dx + dy
    BY <1>2
  <2> QED
    BY <1>2, <1>5, <2>1
<1>9. <<x2, y2>> \in met
  BY <1>2, <1>4, <1>8
<1>10. whole = {P(n) : n \in 0..(dx + dy)}
  <2> HIDE DEF dx, dy
  <2>1. \A n \in 0..(X + Y) : P(n) \in whole
    BY <1>4, <1>5
  <2>2. 0..(dx + dy) \subseteq 0..(X + Y) /\ dx + dy \in 0..(dx + dy)
    BY <1>1, <1>2
  <2>3. \A n \in 0..(X + Y) : P(n) \in {P(m) : m \in 0..(dx + dy)}
    <3> TAKE n \in 0..(X + Y)
    <3>1. CASE n <= dx + dy
      BY <1>2, <3>1
    <3>2. CASE n >= dx + dy
      BY <1>5, <1>8, <2>2, <3>2
    <3> QED
      BY <1>2, <3>1, <3>2
  <2>4. whole \subseteq met
    BY <1>9
  <2> HIDE DEF whole
  <2> QED
    BY <1>4, <2>1, <2>2, <2>3, <2>4
<1>11. /\ shown \subseteq whole /\ <<x2, y2>> \notin shown
  OBVIOUS
<1> HIDE DEF shown, whole, dx, dy
<1>12. \A n \in 0..(dx + dy) : n \in 0..(X + Y) /\ n \in Int /\ Apart(P(n), start) = n
  <2> TAKE n \in 0..(dx + dy)
  <2>1. n \in 0..(X + Y) /\ n \in Int /\ n <= dx + dy
    BY <1>1, <1>2
  <2> QED
    BY <1>5, <2>1
<1>13. whole \subseteq ScreenPoints /\ whole \subseteq Box(x1, y1, x2, y2)
  BY <1>5, <1>10, <1>12
<1>14. \A m \in 0..(dx + dy) : \E p \in whole : {q \in whole : Apart(q, start) = m} = {p}
  <2> TAKE m \in 0..(dx + dy)
  <2>1. P(m) \in whole
    BY <1>10
  <2>2. \A q \in whole : Apart(q, start) = m <=> q = P(m)
    BY <1>10, <1>12
  <2> QED
    BY <2>1, <2>2
<1>15. \A p \in whole \ {start} : \E q \in whole : Apart(p, q) = 1
  <2> TAKE p \in whole \ {start}
  <2>1. PICK n \in 0..(dx + dy) : p = P(n)
    BY <1>10
  <2>2. n \in 1..(dx + dy) /\ n - 1 \in 0..(dx + dy)
    BY <1>2, <1>7, <2>1
  <2> QED
    BY <1>6, <1>10, <2>1, <2>2
<1>16. \A p \in whole :
           /\ -dx <= dy * Magnitude(p[1] - x1) - dx * Magnitude(p[2] - y1)
           /\ dy * Magnitude(p[1] - x1) - dx * Magnitude(p[2] - y1) < dy
  BY <1>5, <1>10, <1>12
<1>17. Greatest(dy, 1) = dy
  BY <1>2 DEF Greatest
<1>18. IsStaircase(whole, x1, y1, x2, y2)
  BY <1>2, <1>13, <1>14, <1>15, <1>16, <1>17 DEF IsStaircase, Apart, start
<1>19. Met(x1, y1, x2, y2) = met /\ ShownOf(x1, y1, x2, y2) = shown
  BY DEF Met, ShownOf, shown, met, walk
<1> QED
  BY <1>9, <1>11, <1>13, <1>18, <1>19 DEF whole

-----------------------------------------------------------------------------
(* Drawing calls.                                                          *)

Draws == call.op \in {"drawPixel", "drawLine", "drawRectangle", "drawCircle", "clearScreen"}

\* The arguments a program may draw with.
ShapeArgs ==
    /\ call.op = "drawPixel" => \E x \in Columns, y \in Rows : Args = <<x, y>>
    /\ call.op = "drawLine" =>
          \E x1, x2 \in Columns, y1, y2 \in Rows : Args = <<x1, y1, x2, y2>>
    /\ call.op = "drawRectangle" =>
          \E x1, x2 \in 0..(X - 1), y1, y2 \in 0..(Y - 1) : Args = <<x1, y1, x2, y2>>
    /\ call.op = "drawCircle" =>
          \E r \in 0..MaxRadius : \E x \in r..(X - 1 - r), y \in r..(Y - 1 - r) :
              Args = <<x, y, r>>

DrawInv ==
    Draws =>
        /\ pc \in {"called", "done"}
        /\ pc = "called" => display \in {Fresh, Reversed}
        /\ ShapeArgs

LEMMA DrawInit == Init => DrawInv
<1> SUFFICES ASSUME Init, Draws
             PROVE  pc = "called" /\ display \in {Fresh, Reversed} /\ ShapeArgs
  BY DEF DrawInv
<1>1. ~Arithmetic
  BY DEF Draws, Arithmetic, BinaryOps, UnaryOps, Call
<1>2. ~\E message \in Messages : call = Call("readLine", message)
  BY DEF Draws, Call
<1>3. Drawing /\ display \in {Fresh, Reversed} /\ pc = "called"
  BY <1>1, <1>2 DEF Init
<1>4. call.op = "drawPixel" => \E x \in Columns, y \in Rows : Args = <<x, y>>
  BY <1>3 DEF Drawing, Call, Args
<1>5. call.op = "drawLine" =>
          \E x1, x2 \in Columns, y1, y2 \in Rows : Args = <<x1, y1, x2, y2>>
  BY <1>3 DEF Drawing, Call, Args
<1>6. call.op = "drawRectangle" =>
          \E x1, x2 \in 0..(X - 1), y1, y2 \in 0..(Y - 1) : Args = <<x1, y1, x2, y2>>
  BY <1>3 DEF Drawing, Call, Args
<1>7. call.op = "drawCircle" =>
          \E r \in 0..MaxRadius : \E x \in r..(X - 1 - r), y \in r..(Y - 1 - r) :
              Args = <<x, y, r>>
  BY <1>3 DEF Drawing, Call, Args
<1> QED
  BY <1>3, <1>4, <1>5, <1>6, <1>7 DEF ShapeArgs

LEMMA DrawStep == DrawInv /\ [Next]_vars => DrawInv'
<1> SUFFICES ASSUME DrawInv, [Next]_vars, Draws' PROVE DrawInv'
  BY DEF DrawInv
<1>1. CASE Draw
  <2>1. call' = call /\ pc' = "done" /\ Draws
    BY <1>1 DEF Draw, Draws
  <2> QED
    BY <2>1 DEF DrawInv, Draws, ShapeArgs, Args
<1>2. CASE Evaluate \/ Convert \/ CallReadLine
  <2>1. call' = call /\ ~Draws
    BY <1>2 DEF Evaluate, Convert, CallReadLine, Draws, BinaryOps
  <2> QED
    BY <2>1 DEF Draws
<1>3. CASE Reading /\ UNCHANGED call
  <2>1. pc \in {"loop", "press", "release"}
    BY <1>3 DEF Reading, Prompt, SeePress, SeeRelease, ReturnLine
  <2>2. ~Draws
    BY <2>1 DEF DrawInv
  <2> QED
    BY <1>3, <2>2 DEF Draws
<1>4. CASE Strike /\ UNCHANGED call
  BY <1>4 DEF Strike, Draws
<1>5. CASE UNCHANGED vars
  <2>1. call' = call /\ pc' = pc /\ display' = display /\ Draws
    BY <1>5 DEF vars, consoleVars, Draws
  <2> QED
    BY <2>1 DEF DrawInv, Draws, ShapeArgs, Args
<1> QED
  BY <1>1, <1>2, <1>3, <1>4, <1>5 DEF Next

\* What DrawsItsShape says of a call that draws a shape and has changed the
\* display d into e.
RightShape(d, e, answer) ==
    LET painted == Painted(d, e)
    IN  /\ e = Update(d, painted)
        /\ IF answer = 0 THEN IsShape(PointsOf(painted) \cup LineEnd)
           ELSE /\ painted = {}
                /\ \/ ~OnScreen(Args[1], Args[2])
                   \/ call.op = "drawLine" /\ ~OnScreen(Args[3], Args[4])

LEMMA ShapeDrawn ==
    ASSUME NEW d \in {Fresh, Reversed}, NEW points \in SUBSET ScreenPoints,
           IsShape(points \cup LineEnd)
    PROVE  RightShape(d, Update(d, Covered(points)), 0)
<1>1. Covered(points) \in SUBSET ScreenPixels /\ PointsOf(Covered(points)) = points
  BY PointsCovered
<1>2. Painted(d, Update(d, Covered(points))) = Covered(points)
  BY <1>1, Paints
<1> QED
  BY <1>1, <1>2 DEF RightShape

LEMMA NothingDrawn ==
    ASSUME NEW d \in {Fresh, Reversed}, NEW n, n # 0,
           \/ ~OnScreen(Args[1], Args[2])
           \/ call.op = "drawLine" /\ ~OnScreen(Args[3], Args[4])
    PROVE  RightShape(d, d, n)
<1>1. Painted(d, d) = {} /\ Update(d, {}) = d
  <2>1. {} \in SUBSET ScreenPixels
    OBVIOUS
  <2> QED
    BY <2>1, Paints
<1> QED
  BY <1>1 DEF RightShape

LEMMA BoxOnScreen ==
    ASSUME NEW x1 \in 0..(X - 1), NEW x2 \in 0..(X - 1),
           NEW y1 \in 0..(Y - 1), NEW y2 \in 0..(Y - 1)
    PROVE  Box(x1, y1, x2, y2) \subseteq ScreenPoints
<1>1. /\ Least(x1, x2)..Greatest(x1, x2) \subseteq 0..(X - 1)
      /\ Least(y1, y2)..Greatest(y1, y2) \subseteq 0..(Y - 1)
  BY ScreenAssumption DEF Least, Greatest
<1> QED
  BY <1>1 DEF Box, ScreenPoints

LEMMA OutcomeIsRight ==
    ASSUME DrawInv, pc = "called",
           call.op \in {"drawPixel", "drawLine", "drawRectangle", "drawCircle"}
    PROVE  RightShape(display, Outcome.display, Outcome.result)
<1>1. display \in {Fresh, Reversed} /\ ShapeArgs
  BY DEF DrawInv, Draws
<1>2. /\ Error(4) # 0
      /\ call.op # "drawLine" \/ Args[2] = Args[4] => \A points : points \cup LineEnd = points
  BY DEF Error, LineEnd
<1>3. CASE call.op = "drawPixel"
  <2>1. PICK x \in Columns, y \in Rows : Args = <<x, y>>
    BY <1>1, <1>3 DEF ShapeArgs
  <2>2. Args[1] = x /\ Args[2] = y
    BY <2>1
  <2>3. Outcome = drawPixel(display, x, y)
    BY <1>3, <2>2 DEF Outcome
  <2>4. CASE OnScreen(x, y)
    <3>1. Outcome.display = Update(display, {Pixel(x, y)}) /\ Outcome.result = 0
      BY <2>3, <2>4 DEF drawPixel, Drawn
    <3>2. {Pixel(x, y)} = Covered({<<x, y>>})
      BY DEF Covered
    <3>3. {<<x, y>>} \in SUBSET ScreenPoints
      BY <2>4 DEF OnScreen, ScreenPoints
    <3>4. IsShape({<<x, y>>} \cup LineEnd)
      BY <1>2, <1>3, <2>1 DEF IsShape
    <3> QED
      BY <1>1, <3>1, <3>2, <3>3, <3>4, ShapeDrawn
  <2>5. CASE ~OnScreen(x, y)
    <3>1. Outcome.display = display /\ Outcome.result = Error(4)
      BY <2>3, <2>5 DEF drawPixel, Halted
    <3> QED
      BY <1>1, <1>2, <2>2, <2>5, <3>1, NothingDrawn
  <2> QED
    BY <2>4, <2>5
<1>4. CASE call.op = "drawRectangle"
  <2>1. PICK x1 \in 0..(X - 1), x2 \in 0..(X - 1), y1 \in 0..(Y - 1), y2 \in 0..(Y - 1) :
            Args = <<x1, y1, x2, y2>>
    BY <1>1, <1>4 DEF ShapeArgs
  <2>2. Args[1] = x1 /\ Args[2] = y1 /\ Args[3] = x2 /\ Args[4] = y2
    BY <2>1
  <2>3. Outcome = drawRectangle(display, x1, y1, x2, y2)
    BY <1>4, <2>2 DEF Outcome
  <2>4. y1 \in Nat /\ y2 \in Nat
    BY ScreenAssumption
  <2>5. Outcome = Drawn(display, Covered(Box(x1, y1, x2, y2)))
    BY <2>3, <2>4, RectangleCovered DEF Covered
  <2>6. Box(x1, y1, x2, y2) \in SUBSET ScreenPoints
    BY BoxOnScreen
  <2>7. IsShape(Box(x1, y1, x2, y2) \cup LineEnd)
    BY <1>2, <1>4, <2>2 DEF IsShape
  <2> QED
    BY <1>1, <2>5, <2>6, <2>7, ShapeDrawn DEF Drawn
<1>5. CASE call.op = "drawCircle"
  <2>1. PICK r \in 0..MaxRadius : \E x \in r..(X - 1 - r), y \in r..(Y - 1 - r) :
            Args = <<x, y, r>>
    BY <1>1, <1>5 DEF ShapeArgs
  <2>2. PICK x \in r..(X - 1 - r), y \in r..(Y - 1 - r) : Args = <<x, y, r>>
    BY <2>1
  <2>3. Args[1] = x /\ Args[2] = y /\ Args[3] = r
    BY <2>2
  <2>4. Outcome = drawCircle(display, x, y, r)
    BY <1>5, <2>3 DEF Outcome
  <2>5. r \in Nat /\ r * r < MINIMUM
    <3>1. r \in Nat /\ MaxRadius \in Nat /\ r <= MaxRadius
      BY BoundsAssumption
    <3>2. r * r <= MaxRadius * MaxRadius /\ r * r \in Nat /\ MaxRadius * MaxRadius \in Nat
      BY <3>1, SquareOrder
    <3> QED
      BY <3>1, <3>2, BoundsAssumption, Sizes
  <2>6. Outcome = Drawn(display, Covered(Disc(x, y, r)))
    BY <2>4, <2>5, CircleCovered
  <2>7. Disc(x, y, r) \in SUBSET ScreenPoints
    <3>1. /\ x - r \in 0..(X - 1) /\ x + r \in 0..(X - 1)
          /\ y - r \in 0..(Y - 1) /\ y + r \in 0..(Y - 1)
      BY <2>5, ScreenAssumption
    <3>2. Box(x - r, y - r, x + r, y + r) \subseteq ScreenPoints
      BY <3>1, BoxOnScreen
    <3> QED
      BY <3>2 DEF Disc
  <2>8. IsShape(Disc(x, y, r) \cup LineEnd)
    BY <1>2, <1>5, <2>3 DEF IsShape
  <2> QED
    BY <1>1, <2>6, <2>7, <2>8, ShapeDrawn DEF Drawn
<1>6. CASE call.op = "drawLine"
  <2>1. PICK x1 \in Columns, x2 \in Columns, y1 \in Rows, y2 \in Rows :
            Args = <<x1, y1, x2, y2>>
    BY <1>1, <1>6 DEF ShapeArgs
  <2>2. Args[1] = x1 /\ Args[2] = y1 /\ Args[3] = x2 /\ Args[4] = y2
    BY <2>1
  <2>3. Outcome = drawLine(display, x1, y1, x2, y2)
    BY <1>6, <2>2 DEF Outcome
  <2>4. CASE ~OnScreen(x1, y1) \/ ~OnScreen(x2, y2)
    <3>1. Outcome.display = display /\ Outcome.result = Error(4)
      BY <2>3, <2>4 DEF drawLine, Halted
    <3> QED
      BY <1>1, <1>2, <1>6, <2>2, <2>4, <3>1, NothingDrawn
  <2>5. CASE OnScreen(x1, y1) /\ OnScreen(x2, y2) /\ y1 = y2
    <3>1. x1 \in 0..(X - 1) /\ x2 \in 0..(X - 1) /\ y1 \in 0..(Y - 1) /\ y1 \in Nat
      BY <2>5, ScreenAssumption DEF OnScreen
    <3>2. Outcome = Drawn(display, Row(x1, x2, y1))
      BY <2>3, <2>5, <3>1, RowCovered DEF drawLine
    <3>3. Row(x1, x2, y1) = Covered(Box(x1, y1, x2, y1))
      <4>1. Least(y1, y1) = y1 /\ Greatest(y1, y1) = y1
        BY DEF Least, Greatest
      <4>2. y1..y1 = {y1}
        BY <3>1
      <4>3. Box(x1, y1, x2, y1) = (Least(x1, x2)..Greatest(x1, x2)) \X {y1}
        BY <4>1, <4>2 DEF Box
      <4>4. ASSUME NEW x \in Least(x1, x2)..Greatest(x1, x2)
            PROVE  Pixel(x, y1) \in Covered(Box(x1, y1, x2, y1))
        <5>1. <<x, y1>> \in Box(x1, y1, x2, y1) /\ <<x, y1>>[1] = x /\ <<x, y1>>[2] = y1
          BY <4>3
        <5> QED
          BY <5>1 DEF Covered
      <4>5. \A p \in Box(x1, y1, x2, y1) : p[1] \in Least(x1, x2)..Greatest(x1, x2) /\ p[2] = y1
        BY <4>3
      <4> QED
        BY <4>4, <4>5 DEF Row, Covered
    <3>4. Box(x1, y1, x2, y1) \in SUBSET ScreenPoints
      BY <3>1, BoxOnScreen
    <3>5. IsShape(Box(x1, y1, x2, y1) \cup LineEnd)
      BY <1>2, <1>6, <2>2, <2>5 DEF IsShape
    <3> QED
      BY <1>1, <3>2, <3>3, <3>4, <3>5, ShapeDrawn DEF Drawn
  <2>6. CASE OnScreen(x1, y1) /\ OnScreen(x2, y2) /\ y1 # y2
    <3> DEFINE met == Met(x1, y1, x2, y2)
               shown == ShownOf(x1, y1, x2, y2)
    <3>1. x1 \in 0..(X - 1) /\ x2 \in 0..(X - 1) /\ y1 \in 0..(Y - 1) /\ y2 \in 0..(Y - 1)
      BY <2>6 DEF OnScreen
    <3>2. <<x2, y2>> \in met /\ shown \subseteq ScreenPoints
          /\ IsStaircase(shown \cup {<<x2, y2>>}, x1, y1, x2, y2)
      BY <2>6, <3>1, LineIsStaircase
    <3>3. Outcome = [display |-> Update(display, {Pixel(p[1], p[2]) : p \in shown}),
                     result |-> IF <<x2, y2>> \in met THEN 0 ELSE Error(4)]
      BY <2>3, <2>6 DEF drawLine, Met, ShownOf
    <3> HIDE DEF shown, met
    <3>4. Outcome.display = Update(display, Covered(shown)) /\ Outcome.result = 0
      BY <3>2, <3>3 DEF Covered
    <3>5. IsShape(shown \cup LineEnd)
      BY <1>6, <2>2, <2>6, <3>2 DEF IsShape, LineEnd
    <3> QED
      BY <1>1, <3>2, <3>4, <3>5, ShapeDrawn
  <2> QED
    BY <2>4, <2>5, <2>6
<1> QED
  BY <1>3, <1>4, <1>5, <1>6

(* clearScreen gives every word of the screen the mask false: whatever the *)
(* display shows, and in either color, it is afterwards what it was        *)
(* (OS/Screen.jack:53), where the comment before it has the screen erased. *)
THEOREM ClearScreenErasesNothing ==
    ASSUME NEW lit, NEW color, NEW row, NEW col
    PROVE  LET shown == [lit |-> lit, color |-> color, row |-> row, col |-> col]
           IN  clearScreen(shown) = [display |-> shown, result |-> 0]
<1> DEFINE shown == [lit |-> lit, color |-> color, row |-> row, col |-> col]
<1>1. UNION {Cover(i, EmptyMask) : i \in 0..(wordsPerRow * Y - 1)} = {}
  BY DEF Cover, EmptyMask
<1>2. Update(shown, {}) = shown
  BY DEF Update
<1>3. clearScreen(shown) = [display |-> Update(shown, {}), result |-> 0]
  BY <1>1 DEF clearScreen, Drawn
<1> QED
  BY <1>2, <1>3

LEMMA ClearOnlyErases ==
    ASSUME DrawInv, Draw, call.op = "clearScreen"
    PROVE  OnlyErases
<1>1. display \in {Fresh, Reversed}
  BY DEF DrawInv, Draws, Draw
<1>2. display = [lit |-> display.lit, color |-> display.color,
                 row |-> display.row, col |-> display.col]
  BY <1>1 DEF Fresh, Reversed
<1>3. display' = display
  <2> DEFINE shown == [lit |-> display.lit, color |-> display.color,
                       row |-> display.row, col |-> display.col]
  <2>1. clearScreen(shown) = [display |-> shown, result |-> 0]
    BY ClearScreenErasesNothing
  <2>2. shown = display
    BY <1>2
  <2> HIDE DEF shown
  <2>3. clearScreen(display) = [display |-> display, result |-> 0]
    BY <2>1, <2>2
  <2> QED
    BY <2>3 DEF Draw, Outcome
<1>4. display = [display EXCEPT !.lit = display.lit]
  BY <1>1 DEF Fresh, Reversed
<1> QED
  BY <1>3, <1>4 DEF OnlyErases

(* DrawsItsShape: on a screen and in words of any size, a pixel, a line, a *)
(* box and a circle change the points of their shape and no other pixel of *)
(* memory, but for the last point of a line that is not horizontal, which  *)
(* may be missing; what is not on the screen halts a pixel and a line      *)
(* before they have drawn anything; clearScreen lights nothing.            *)
THEOREM ShapesAreDrawn == Spec => DrawsItsShape
<1>1. DrawInv /\ [Next]_vars =>
        [Draw =>
            LET painted == Painted(display, display')
            IN  IF call.op = "clearScreen" THEN OnlyErases
                ELSE /\ display' = Update(display, painted)
                     /\ IF result' = 0 THEN IsShape(PointsOf(painted) \cup LineEnd)
                        ELSE /\ painted = {}
                             /\ \/ ~OnScreen(Args[1], Args[2])
                                \/ call.op = "drawLine" /\ ~OnScreen(Args[3], Args[4])]_vars
  <2>1. ASSUME DrawInv, Draw, call.op # "clearScreen"
        PROVE  RightShape(display, display', result')
    <3>1. /\ pc = "called"
          /\ call.op \in {"drawPixel", "drawLine", "drawRectangle", "drawCircle"}
          /\ display' = Outcome.display /\ result' = Outcome.result
      BY <2>1 DEF Draw
    <3> QED
      BY <2>1, <3>1, OutcomeIsRight
  <2> QED
    BY <2>1, ClearOnlyErases DEF RightShape
<1> QED
  BY <1>1, DrawInit, DrawStep, PTL DEF Spec, DrawsItsShape

-----------------------------------------------------------------------------
(* Numerals.                                                               *)

\* The calls NumeralsSurvive speaks of, and their arguments.
Converts == call.op \in {"intToString", "setInt", "intValue"}

OnNumerals ==
    /\ call.op = "intToString" => \E x \in Numbers : Args = <<x>>
    /\ call.op = "setInt" => \E x \in Numbers, room \in 0..MaxText : Args = <<x, room>>
    /\ call.op = "intValue" => Args \in Seq(Codes)

NumeralInv ==
    /\ Converts => OnNumerals /\ pc \in {"called", "done"}
    /\ NumeralsSurvive

LEMMA NumeralInit == Init => NumeralInv
<1> SUFFICES ASSUME Init PROVE NumeralInv
  OBVIOUS
<1>1. pc = "called"
  BY DEF Init
<1>2. Arithmetic \/ Drawing \/ \E message \in Messages : call = Call("readLine", message)
  BY DEF Init
<1>3. ASSUME Converts PROVE OnNumerals
  <2>1. ~\E op \in BinaryOps, x, y \in Numbers : call = Call(op, <<x, y>>)
    BY <1>3 DEF Converts, BinaryOps, Call
  <2>2. CASE \E op \in UnaryOps, x \in Numbers : call = Call(op, <<x>>)
    BY <1>3, <2>2 DEF Call, OnNumerals, Args, UnaryOps, Converts
  <2>3. CASE \E x \in Numbers, room \in 0..MaxText : call = Call("setInt", <<x, room>>)
    BY <2>3 DEF OnNumerals, Call, Args
  <2>4. CASE \E text \in SeqOf(Codes, MaxText) : call = Call("intValue", text)
    <3>1. PICK text \in SeqOf(Codes, MaxText) : call = Call("intValue", text)
      BY <2>4
    <3>2. PICK m \in 0..MaxText : text \in [1..m -> Codes]
      BY DEF SeqOf
    <3>3. m \in Nat
      BY BoundsAssumption
    <3>4. text \in Seq(Codes)
      BY <3>2, <3>3
    <3> QED
      BY <3>1, <3>4 DEF OnNumerals, Call, Args
  <2>5. ~Drawing
    BY <1>3 DEF Converts, Call, Drawing
  <2>6. ~\E message \in Messages : call = Call("readLine", message)
    BY <1>3 DEF Converts, Call
  <2> QED
    BY <1>2, <2>1, <2>2, <2>3, <2>4, <2>5, <2>6 DEF Arithmetic
<1> QED
  BY <1>1, <1>3 DEF NumeralInv, NumeralsSurvive

LEMMA ConvertsRight ==
    ASSUME 10 < MINIMUM, Convert, NumeralInv
    PROVE  NumeralsSurvive'
<1>1. /\ call' = call /\ Converts /\ OnNumerals
      /\ call.op \in {"intToString", "setInt"}
      /\ line' = IF call.op = "setInt" THEN setInt(Args[1], Args[2]) ELSE intToString(Args[1])
  BY DEF Convert, NumeralInv, Converts
<1>2. CASE call.op = "intToString"
  <2>1. PICK x \in Numbers : Args[1] = x
    BY <1>1, <1>2 DEF OnNumerals
  <2>2. line' = intToString(x)
    BY <1>1, <1>2, <2>1
  <2>3. /\ Denoted(line') = Signed(x)
        /\ DigitsAhead(Unsigned(line')) = Unsigned(line')
        /\ Unsigned(line')[1] = ZERO => line' = <<ZERO>>
        /\ intValue(line') = IF x = MINIMUM THEN Error(10) ELSE x
    BY <2>2, WritesNumerals
  <2> QED
    BY <1>1, <1>2, <2>1, <2>3 DEF NumeralsSurvive, Args
<1>3. CASE call.op = "setInt"
  <2>1. PICK x \in Numbers, room \in 0..MaxText : Args[1] = x /\ Args[2] = room
    BY <1>1, <1>3 DEF OnNumerals
  <2>2. line' = setInt(x, room)
    BY <1>1, <1>3, <2>1
  <2>3. IF Len(intToString(x)) <= room THEN setInt(x, room) = intToString(x)
        ELSE setInt(x, room) \in {<<Error(13)>>, <<Error(15)>>}
    BY WritesNumerals
  <2> QED
    BY <1>1, <1>3, <2>1, <2>2, <2>3 DEF NumeralsSurvive, Args
<1> QED
  BY <1>1, <1>2, <1>3

LEMMA ReadsRight ==
    ASSUME 10 < MINIMUM, Evaluate, NumeralInv
    PROVE  NumeralsSurvive'
<1>1. /\ call' = call /\ result' = Evaluated
      /\ call.op \notin {"intToString", "setInt"}
  BY DEF Evaluate, BinaryOps
<1>2. ASSUME call.op = "intValue"
      PROVE  IF Args = <<>> THEN Evaluated = Error(11)
             ELSE Magnitude(Denoted(Args)) < MINIMUM => Evaluated = Wrap(Denoted(Args))
  <2>1. Args \in Seq(Codes)
    BY <1>2 DEF NumeralInv, Converts, OnNumerals
  <2>2. Evaluated = intValue(Args)
    BY <1>2 DEF Evaluated
  <2>3. CASE Args = <<>>
    BY <2>2, <2>3 DEF intValue
  <2>4. CASE Args # <<>>
    BY <2>1, <2>2, <2>4, IntValueIs
  <2> QED
    BY <2>3, <2>4
<1> QED
  BY <1>1, <1>2 DEF NumeralsSurvive, Args

LEMMA NumeralStep == 10 < MINIMUM /\ NumeralInv /\ [Next]_vars => NumeralInv'
<1> SUFFICES ASSUME 10 < MINIMUM, NumeralInv, [Next]_vars PROVE NumeralInv'
  OBVIOUS
<1>1. CASE Evaluate \/ Convert
  <2>1. (Converts => OnNumerals /\ pc \in {"called", "done"})'
    BY <1>1 DEF Evaluate, Convert, NumeralInv, Converts, OnNumerals, Args
  <2> QED
    BY <1>1, <2>1, ConvertsRight, ReadsRight DEF NumeralInv
<1>2. CASE Draw \/ CallReadLine
  <2>1. call' = call /\ ~Converts
    BY <1>2 DEF Draw, CallReadLine, Converts
  <2> QED
    BY <2>1 DEF NumeralInv, NumeralsSurvive, Converts
<1>3. CASE Reading /\ UNCHANGED call
  <2>1. pc \in {"loop", "press", "release"}
    BY <1>3 DEF Reading, Prompt, SeePress, SeeRelease, ReturnLine
  <2>2. ~Converts
    BY <2>1 DEF NumeralInv
  <2> QED
    BY <1>3, <2>2 DEF NumeralInv, NumeralsSurvive, Converts
<1>4. CASE Strike /\ UNCHANGED call
  <2>1. ~Converts
    BY <1>4 DEF Strike, Converts
  <2> QED
    BY <1>4, <2>1 DEF NumeralInv, NumeralsSurvive, Converts
<1>5. CASE UNCHANGED vars
  BY <1>5 DEF vars, consoleVars, NumeralInv, NumeralsSurvive, Converts, OnNumerals, Args
<1> QED
  BY <1>1, <1>2, <1>3, <1>4, <1>5 DEF Next

(* NumeralsSurvive: for every size of a word that holds ten, a number that *)
(* is written is read again as itself, no string is overrun, and a text is *)
(* read as the number its digits denote.                                   *)
THEOREM NumeralsAreRight == ASSUME 10 < MINIMUM PROVE Spec => []NumeralsSurvive
<1>1. NumeralInv => NumeralsSurvive
  BY DEF NumeralInv
<1> QED
  BY <1>1, NumeralInit, NumeralStep, PTL DEF Spec
===============================================================================
