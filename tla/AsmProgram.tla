----------------------------- MODULE AsmProgram -----------------------------
(***************************************************************************)
(* Assembly programs, and what assembling one means.                       *)
(*                                                                         *)
(* A program is a sequence of lines, each a record: a symbolic or a        *)
(* numeric A-instruction, a C-instruction (its fields are opaque here),    *)
(* a label, a line that parses to nothing, or one whose isValid() is       *)
(* false.  The second part defines, with no notion of a pass, the address  *)
(* each symbol stands for; the assembler's runs are compared with it.      *)
(***************************************************************************)
EXTENDS Naturals, Sequences, FiniteSets

CONSTANTS
    Symbol,           \* the identifiers the programs use
    CFields,          \* the C-instructions the programs use
    SCREEN, KBD,      \* the addresses of the memory maps (16384, 24576)
    VARIABLE_START,   \* first address given to a variable (16)
    VARIABLE_END,     \* first address not given to a variable (256)
    MAX_INT           \* largest value of an A-instruction (2^15 - 1)

ASSUME BoundsAssumption ==
    /\ SCREEN \in Nat /\ KBD \in Nat
    /\ VARIABLE_START \in Nat
    /\ VARIABLE_END \in Nat
    /\ MAX_INT \in Nat
    /\ VARIABLE_START < VARIABLE_END

-----------------------------------------------------------------------------
SymbolicA(s) == [op |-> "symbol", name |-> s]
NumericA(n)  == [op |-> "number", value |-> n]
C(f)         == [op |-> "C", fields |-> f]
Label(s)     == [op |-> "label", name |-> s]
Blank        == [op |-> "blank"]
Malformed    == [op |-> "malformed"]

Line ==
    [op : {"symbol", "label"}, name : Symbol] \cup [op : {"number"}, value : Nat]
        \cup [op : {"C"}, fields : CFields] \cup {Blank, Malformed}

\* What Instruction::isValid() answers for the line.
IsValid(line) ==
    /\ line.op # "malformed"
    /\ line.op = "number" => line.value <= MAX_INT

IsInstruction(line) == line.op \in {"symbol", "number", "C"}

PredefinedSymbols ==
    [SP |-> 0, LCL |-> 1, ARG |-> 2, THIS |-> 3, THAT |-> 4,
     SCREEN |-> SCREEN, KBD |-> KBD,
     R0 |-> 0, R1 |-> 1, R2 |-> 2, R3 |-> 3, R4 |-> 4, R5 |-> 5, R6 |-> 6,
     R7 |-> 7, R8 |-> 8, R9 |-> 9, R10 |-> 10, R11 |-> 11, R12 |-> 12,
     R13 |-> 13, R14 |-> 14, R15 |-> 15]

ASSUME SymbolAssumption == DOMAIN PredefinedSymbols \subseteq Symbol

-----------------------------------------------------------------------------
(* What a program means.                                                   *)

\* The number of instructions before line i: the ROM address of the first
\* instruction from line i on.
RomAddress(lines, i) == Cardinality({j \in 1..(i - 1) : IsInstruction(lines[j])})

\* Line i is the declaration of s that counts among the first n lines.
DeclaresLast(lines, n, i, s) ==
    /\ i \in 1..n /\ lines[i] = Label(s)
    /\ \A j \in (i + 1)..n : lines[j] # Label(s)

Declared(lines) ==
    {s \in Symbol : \E i \in DOMAIN lines : lines[i] = Label(s)}

\* The symbols that are variables of the program.
Variables(lines) ==
    {s \in Symbol \ (Declared(lines) \cup DOMAIN PredefinedSymbols) :
        \E i \in DOMAIN lines : lines[i] = SymbolicA(s)}

FirstUse(lines, s) ==
    CHOOSE i \in DOMAIN lines :
        /\ lines[i] = SymbolicA(s)
        /\ \A j \in 1..(i - 1) : lines[j] # SymbolicA(s)

\* Variables get consecutive addresses in the order of their first use.
VariableAddress(lines, s) ==
    VARIABLE_START
        + Cardinality({t \in Variables(lines) :
                          FirstUse(lines, t) < FirstUse(lines, s)})

LabelAddress(lines, s) ==
    RomAddress(lines, CHOOSE i \in DOMAIN lines :
                          DeclaresLast(lines, Len(lines), i, s))

Address(lines, s) ==
    IF s \in Declared(lines) THEN LabelAddress(lines, s)
    ELSE IF s \in DOMAIN PredefinedSymbols THEN PredefinedSymbols[s]
    ELSE VariableAddress(lines, s)

Resolve(lines, line) ==
    IF line.op = "symbol" THEN NumericA(Address(lines, line.name)) ELSE line

\* The line that has k instructions before it and is one.
InstructionAt(lines, k) ==
    CHOOSE i \in DOMAIN lines : IsInstruction(lines[i]) /\ RomAddress(lines, i) = k

Instructions(lines) ==
    [n \in 1..RomAddress(lines, Len(lines) + 1) |-> lines[InstructionAt(lines, n - 1)]]

\* The code of a program: its instructions, every symbol replaced.
Code(lines) ==
    LET instructions == Instructions(lines)
    IN  [i \in DOMAIN instructions |-> Resolve(lines, instructions[i])]

AllValid(lines) == \A i \in DOMAIN lines : IsValid(lines[i])

FitsInRom(lines) == RomAddress(lines, Len(lines) + 1) <= MAX_INT

\* "memory address for variables are in [start,end)" (asm/builder.h:52)
VariablesFit(lines) ==
    Cardinality(Variables(lines)) <= VARIABLE_END - VARIABLE_START

\* What incrementVariableNo admits: it never gives the last address away.
VariablesAdmitted(lines) ==
    Cardinality(Variables(lines)) < VARIABLE_END - VARIABLE_START
=============================================================================
