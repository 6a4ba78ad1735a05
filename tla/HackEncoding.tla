---------------------------- MODULE HackEncoding ----------------------------
(***************************************************************************)
(* Instructions and the sixteen bits the assembler gives them, for words   *)
(* of WordSize bits: an A-instruction carries WordSize - 1 bits.  The      *)
(* destination of a C-instruction is the set of the letters of its name.   *)
(* Read as numbers, words are added and compared as two's complement, and  *)
(* a computation is the expression its name spells.                        *)
(***************************************************************************)
EXTENDS HackChips, Sequences

\* The computation table of CInstruction: acccccc.  The rows with a = 1 are
\* those of M.
computation ==
    [comp \in {"0", "1", "-1", "D", "A", "M", "!D", "!A", "!M", "-D", "-A", "-M",
               "D+1", "A+1", "M+1", "D-1", "A-1", "M-1", "D+A", "D+M", "D-A",
               "D-M", "A-D", "M-D", "D&A", "D&M", "D|A", "D|M"} |->
        CASE comp = "0"   -> <<0, 1,0,1,0,1,0>>
          [] comp = "1"   -> <<0, 1,1,1,1,1,1>>
          [] comp = "-1"  -> <<0, 1,1,1,0,1,0>>
          [] comp = "D"   -> <<0, 0,0,1,1,0,0>>
          [] comp = "A"   -> <<0, 1,1,0,0,0,0>>
          [] comp = "M"   -> <<1, 1,1,0,0,0,0>>
          [] comp = "!D"  -> <<0, 0,0,1,1,0,1>>
          [] comp = "!A"  -> <<0, 1,1,0,0,0,1>>
          [] comp = "!M"  -> <<1, 1,1,0,0,0,1>>
          [] comp = "-D"  -> <<0, 0,0,1,1,1,1>>
          [] comp = "-A"  -> <<0, 1,1,0,0,1,1>>
          [] comp = "-M"  -> <<1, 1,1,0,0,1,1>>
          [] comp = "D+1" -> <<0, 0,1,1,1,1,1>>
          [] comp = "A+1" -> <<0, 1,1,0,1,1,1>>
          [] comp = "M+1" -> <<1, 1,1,0,1,1,1>>
          [] comp = "D-1" -> <<0, 0,0,1,1,1,0>>
          [] comp = "A-1" -> <<0, 1,1,0,0,1,0>>
          [] comp = "M-1" -> <<1, 1,1,0,0,1,0>>
          [] comp = "D+A" -> <<0, 0,0,0,0,1,0>>
          [] comp = "D+M" -> <<1, 0,0,0,0,1,0>>
          [] comp = "D-A" -> <<0, 0,1,0,0,1,1>>
          [] comp = "D-M" -> <<1, 0,1,0,0,1,1>>
          [] comp = "A-D" -> <<0, 0,0,0,1,1,1>>
          [] comp = "M-D" -> <<1, 0,0,0,1,1,1>>
          [] comp = "D&A" -> <<0, 0,0,0,0,0,0>>
          [] comp = "D&M" -> <<1, 0,0,0,0,0,0>>
          [] comp = "D|A" -> <<0, 0,1,0,1,0,1>>
          [] comp = "D|M" -> <<1, 0,1,0,1,0,1>>]

Computations == DOMAIN computation

JumpNames == {"", "JGT", "JEQ", "JGE", "JLT", "JNE", "JLE", "JMP"}

\* Bits 2, 1 and 0 of a jump: below zero, zero, above zero.
jumpBits(jump) ==
    << jump \in {"JLT", "JNE", "JLE", "JMP"},
       jump \in {"JEQ", "JGE", "JLE", "JMP"},
       jump \in {"JGT", "JGE", "JNE", "JMP"} >>

\* A value is valid below MAX_VALUE: it has Sign bits.
MAX_VALUE == 2^Sign

AInstruction == [op : {"A"}, value : 0..(MAX_VALUE - 1)]
CInstruction ==
    [op : {"C"}, comp : Computations, dest : SUBSET {"A", "D", "M"}, jump : JumpNames]

At(n) == [op |-> "A", value |-> n]
Do(dest, comp, jump) == [op |-> "C", comp |-> comp, dest |-> dest, jump |-> jump]

-----------------------------------------------------------------------------
InstructionBus == [0..15 -> BOOLEAN]

\* std::bitset: bit i of a number.
BitOf(n, i) == (n \div 2^i) % 2 = 1

translateA(n) == [i \in 0..15 |-> i < Sign /\ BitOf(n, i)]

translateC(instr) ==
    LET c == computation[instr.comp]
        j == jumpBits(instr.jump)
    IN  [i \in 0..15 |->
            \/ i \in 13..15
            \/ i \in 6..12 /\ c[13 - i] = 1
            \/ i = 5 /\ "A" \in instr.dest
            \/ i = 4 /\ "D" \in instr.dest
            \/ i = 3 /\ "M" \in instr.dest
            \/ i \in 0..2 /\ j[3 - i]]

translate(instr) ==
    IF instr.op = "A" THEN translateA(instr.value) ELSE translateC(instr)

-----------------------------------------------------------------------------
\* Words as numbers.
Size == 2^WordSize

Wrap(n) == n % Size

And(m, n) == Number([i \in Bits |-> BitOf(m, i) /\ BitOf(n, i)], WordSize)
Or(m, n)  == Number([i \in Bits |-> BitOf(m, i) \/ BitOf(n, i)], WordSize)

Compute(comp, d, a, m) ==
    CASE comp = "0"   -> 0
      [] comp = "1"   -> 1
      [] comp = "-1"  -> Wrap(-1)
      [] comp = "D"   -> d
      [] comp = "A"   -> a
      [] comp = "M"   -> m
      [] comp = "!D"  -> Wrap(-1 - d)
      [] comp = "!A"  -> Wrap(-1 - a)
      [] comp = "!M"  -> Wrap(-1 - m)
      [] comp = "-D"  -> Wrap(-d)
      [] comp = "-A"  -> Wrap(-a)
      [] comp = "-M"  -> Wrap(-m)
      [] comp = "D+1" -> Wrap(d + 1)
      [] comp = "A+1" -> Wrap(a + 1)
      [] comp = "M+1" -> Wrap(m + 1)
      [] comp = "D-1" -> Wrap(d - 1)
      [] comp = "A-1" -> Wrap(a - 1)
      [] comp = "M-1" -> Wrap(m - 1)
      [] comp = "D+A" -> Wrap(d + a)
      [] comp = "D+M" -> Wrap(d + m)
      [] comp = "D-A" -> Wrap(d - a)
      [] comp = "D-M" -> Wrap(d - m)
      [] comp = "A-D" -> Wrap(a - d)
      [] comp = "M-D" -> Wrap(m - d)
      [] comp = "D&A" -> And(d, a)
      [] comp = "D&M" -> And(d, m)
      [] comp = "D|A" -> Or(d, a)
      [] comp = "D|M" -> Or(d, m)

Successor(n) == Wrap(n + 1)
Immediate(n) == n
IsZero(n) == n = 0
IsNegative(n) == n >= Size \div 2
Location(n) == n % (Size \div 2)

Fetch(instructions, n) ==
    IF Location(n) < Len(instructions) THEN instructions[Location(n) + 1] ELSE At(0)
=============================================================================
