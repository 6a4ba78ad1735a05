------------------------------ MODULE HackChips ------------------------------
(***************************************************************************)
(* The combinational chips of cpu_hdl/01 and cpu_hdl/02, gate by gate, for *)
(* a word of WordSize bits (16 in the source).  A bus is a function from   *)
(* bit numbers to Booleans; bit 0 is the lowest.  The two chains that run  *)
(* through the bits of a word, the carry of Add16 and the flips of Inc16,  *)
(* are recursive functions.                                                *)
(***************************************************************************)
EXTENDS Integers

CONSTANT WordSize

ASSUME WordSizeAssumption == WordSize \in 4..16

Bits == 0..(WordSize - 1)
Sign == WordSize - 1
Word == [Bits -> BOOLEAN]

\* The bus wired to false: the word 0.
Off == [i \in Bits |-> FALSE]

\* The number the n low bits of a bus carry.
Number(bus, n) ==
    LET value[i \in 0..n] ==
            IF i = 0 THEN 0
            ELSE value[i - 1] + (IF bus[i - 1] THEN 2^(i - 1) ELSE 0)
    IN  value[n]

-----------------------------------------------------------------------------
Mux(a, b, sel) == (a /\ b) \/ (a /\ ~b /\ ~sel) \/ (~a /\ b /\ sel)
Xor(a, b) == (~a /\ b) \/ (a /\ ~b)

Not16(a) == [i \in Bits |-> ~a[i]]
And16(a, b) == [i \in Bits |-> a[i] /\ b[i]]
Mux16(a, b, sel) == [i \in Bits |-> Mux(a[i], b[i], sel)]

\* The two Or8Way of the ALU, over the two halves of its output.
NonZero(a) == \E i \in Bits : a[i]

\* Output n of the eight, for the three bits of sel.
DMux8Way(sel, n) ==
    /\ sel[0] <=> n % 2 = 1
    /\ sel[1] <=> (n \div 2) % 2 = 1
    /\ sel[2] <=> n \div 4 = 1

-----------------------------------------------------------------------------
HalfSum(a, b) == Xor(a, b)
FullSum(a, b, c) == HalfSum(c, HalfSum(a, b))
FullCarry(a, b, c) == (a /\ b) \/ (c /\ HalfSum(a, b))

\* The carry that enters each bit.
Carry(a, b) ==
    LET c[i \in 0..WordSize] ==
            IF i = 0 THEN FALSE ELSE FullCarry(a[i - 1], b[i - 1], c[i - 1])
    IN  c

Add16(a, b) ==
    LET c == Carry(a, b)
    IN  [i \in Bits |-> FullSum(a[i], b[i], c[i])]

\* Bit i flips when every lower bit is on.
Inc16(a) ==
    LET flip[i \in Bits] == IF i = 0 THEN TRUE ELSE a[i - 1] /\ flip[i - 1]
    IN  [i \in Bits |-> Mux(a[i], ~a[i], flip[i])]

-----------------------------------------------------------------------------
\* The control of the ALU, as it comes in an instruction: zx nx zy ny f no.
ALUControl == [1..6 -> BOOLEAN]

\* What becomes of an input: zeroed, then negated.
Prepare(x, zero, negate) ==
    LET x0 == Mux16(x, Off, zero)
    IN  Mux16(x0, Not16(x0), negate)

ALU(x, y, control) ==
    LET x1   == Prepare(x, control[1], control[2])
        y1   == Prepare(y, control[3], control[4])
        fout == Mux16(And16(x1, y1), Add16(x1, y1), control[5])
    IN  Mux16(fout, Not16(fout), control[6])

zr(out) == ~NonZero(out)
ng(out) == out[Sign]
=============================================================================
