------------------------------- MODULE OSMath -------------------------------
(***************************************************************************)
(* OS/Math.jack, the digits of OS/OSUtils.jack and the numerals of         *)
(* OS/String.jack, on words of WordSize bits (16 in the source): every sum *)
(* wraps around, and so does every comparison, which the VM translator     *)
(* makes from the sign of a difference.                                    *)
(*                                                                         *)
(* A call that reaches Sys.error(code) never returns: its result is        *)
(* -code, which is no word.  The ERR<code> it prints before it halts is    *)
(* left out.  A text is the sequence of its ASCII codes.                   *)
(***************************************************************************)
EXTENDS HackEncoding, FiniteSets

MINIMUM == 2^Sign
Numbers == 0..(Size - 1)

Error(code) == -code

Less(x, y) == IsNegative(Wrap(x - y))
Greater(x, y) == x # y /\ ~Less(x, y)
Opposite(x, y) ==
    \/ Less(x, 0) /\ Greater(y, 0)
    \/ Greater(x, 0) /\ Less(y, 0)

twoToThe(i) == 2^i

-----------------------------------------------------------------------------
abs(x) == IF Less(x, 0) THEN Wrap(-x) ELSE x
max(a, b) == IF Less(a, b) THEN b ELSE a
min(a, b) == IF Less(a, b) THEN a ELSE b

\* The loop of multiply, after at most n turns: it ends when the bits added
\* make y, after the last of them at the latest.
AddShifted(x, y) ==
    LET added[n \in 0..WordSize] ==
            IF n = 0 THEN [prod |-> 0, partialY |-> 0]
            ELSE LET so == added[n - 1]
                 IN  IF Less(so.partialY, y) /\ BitOf(y, n - 1)
                     THEN [prod |-> Wrap(so.prod + x * 2^(n - 1)),
                           partialY |-> Wrap(so.partialY + twoToThe(n - 1))]
                     ELSE so
    IN  added[WordSize].prod

multiply(x, y) ==
    IF x = 0 \/ y = 0 THEN 0
    ELSE LET a == abs(x)
             b == abs(y)
             prod == IF Less(a, b) THEN AddShifted(b, a) ELSE AddShifted(a, b)
         IN  IF Opposite(x, y) THEN Wrap(-prod) ELSE prod

\* The recursion doubles the divisor.
dividePos(x, y) ==
    LET quotient[d \in Numbers] ==
            IF d = 0 THEN Error(3)
            ELSE IF Greater(d, x) \/ IsNegative(d) THEN 0
            ELSE LET q == quotient[Wrap(d + d)]
                     tmp == multiply(d, q)
                     reminder == Wrap(x - Wrap(tmp + tmp))
                 IN  IF Less(reminder, d) THEN Wrap(q + q) ELSE Wrap(q + q + 1)
    IN  quotient[y]

\* Mutant of divide: the smallest number is divided as it is.
divide_NoMinimum(x, y) ==
    IF y = 0 THEN Error(3)
    ELSE LET q == dividePos(abs(x), abs(y))
         IN  IF Opposite(x, y) THEN Wrap(-q) ELSE q

\* The smallest number has no absolute value: as the divisor it is a case of
\* its own, and as the dividend it is first brought one divisor nearer to zero.
divide(x, y) ==
    IF y = 0 THEN Error(3)
    ELSE IF y = MINIMUM THEN IF x = MINIMUM THEN 1 ELSE 0
    ELSE LET nearer == IF x = MINIMUM THEN Wrap(x + abs(y)) ELSE x
             q == Wrap((IF x = MINIMUM THEN 1 ELSE 0) + dividePos(abs(nearer), abs(y)))
         IN  IF Opposite(nearer, y) THEN Wrap(-q) ELSE q

\* From the highest bit a root may have down, the bits whose square still fits.
sqrt(x) ==
    LET y[i \in 0..(WordSize \div 2)] ==       \* the root found above bit i - 1
            IF i = WordSize \div 2 THEN 0
            ELSE LET with == y[i + 1] + twoToThe(i)
                     yy == multiply(with, with)
                 IN  IF ~Greater(yy, x) /\ Greater(yy, 0) THEN with ELSE y[i + 1]
    IN  y[0]

mod(a, b) == IF b = 0 THEN Error(3) ELSE Wrap(a - multiply(divide(a, b), b))

-----------------------------------------------------------------------------
(* Numerals.                                                               *)

MINUS == 45
ZERO == 48

isIntegerAscii(c) == c \in ZERO..(ZERO + 9)
getIntegerAscii(digit) == IF digit \in 0..9 THEN ZERO + digit ELSE Error(7)

LastDigit(val) == Wrap(val - multiply(divide(val, 10), 10))

\* The loops of setInt, from the last digit to the first.
Digits[val \in Numbers] ==
    IF val = 0 THEN <<>>
    ELSE Append(Digits[divide(val, 10)], getIntegerAscii(abs(LastDigit(val))))

\* Mutant of setInt: the minus sign is not counted.
setInt_SignUncounted(val, maxLength) ==
    LET sign == IF Less(val, 0) THEN <<MINUS>> ELSE <<>>
    IN  IF val = 0 /\ maxLength > 0 THEN <<getIntegerAscii(0)>>
        ELSE IF val = 0 THEN <<Error(13)>>
        ELSE IF Len(Digits[val]) <= maxLength THEN sign \o Digits[val]
        ELSE <<Error(15)>>

\* The text a string of maxLength characters holds after setInt; the
\* code of an error when the call does not return.
setInt(val, maxLength) ==
    LET sign == IF Less(val, 0) THEN <<MINUS>> ELSE <<>>
        text == IF val = 0 THEN <<getIntegerAscii(0)>> ELSE sign \o Digits[val]
    IN  IF Len(text) <= maxLength THEN text
        ELSE IF val = 0 THEN <<Error(13)>> ELSE <<Error(15)>>

\* intToString counts the characters before it makes the string.
intToString(x) ==
    setInt(x, IF x = 0 THEN 1 ELSE Len(Digits[x]) + IF Less(x, 0) THEN 1 ELSE 0)

\* The digits of a text from the i-th on, after those that made n.
intValue(text) ==
    LET negative == text[1] = MINUS
        from[i \in 1..(Len(text) + 1)] ==
            [n \in Numbers |->
                IF i > Len(text) THEN n
                ELSE IF ~isIntegerAscii(text[i]) THEN n
                ELSE LET next == Wrap(multiply(n, 10) + (text[i] - ZERO))
                     IN  IF IsNegative(next) THEN Error(10) ELSE from[i + 1][next]]
        value == from[IF negative THEN 2 ELSE 1][0]
    IN  IF text = <<>> THEN Error(11)
        ELSE IF value < 0 THEN value
        ELSE IF negative THEN Wrap(-value) ELSE value

-----------------------------------------------------------------------------
(* The number a word stands for, and the quotient of two numbers.          *)

Signed(w) == IF IsNegative(w) THEN w - Size ELSE w
Magnitude(n) == IF n < 0 THEN -n ELSE n

Quotient(m, n) ==
    LET q == Magnitude(m) \div Magnitude(n) IN IF m * n < 0 THEN -q ELSE q

\* The digits a text begins with, after its sign, and the number they make.
Unsigned(text) == IF text # <<>> /\ Head(text) = MINUS THEN Tail(text) ELSE text

DigitsAhead(s) ==
    LET ends == {n \in 0..Len(s) : \A k \in 1..n : isIntegerAscii(s[k])}
    IN  SubSeq(s, 1, CHOOSE n \in ends : n + 1 \notin ends)

Value(digits) ==
    LET value[n \in 0..Len(digits)] ==
            IF n = 0 THEN 0 ELSE 10 * value[n - 1] + (digits[n] - ZERO)
    IN  value[Len(digits)]

Denoted(text) ==
    LET n == Value(DigitsAhead(Unsigned(text)))
    IN  IF text # <<>> /\ Head(text) = MINUS THEN -n ELSE n
=============================================================================
