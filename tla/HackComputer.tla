---------------------------- MODULE HackComputer ----------------------------
(***************************************************************************)
(* The computer of cpu_hdl/05: the CPU, wire by wire, the data memory with *)
(* its two memory maps, and a ROM that holds an assembled program.  One    *)
(* step is one clock cycle; the reset input and the keyboard belong to the *)
(* environment.                                                            *)
(***************************************************************************)
EXTENDS HackEncoding

CONSTANTS
    Programs,      \* the programs considered: sequences of instructions
    Keys,          \* the words the keyboard may show
    Resets         \* the values the reset input takes

\* The address buses of the RAM16K and of the screen.
RAMAddress    == [0..(WordSize - 3) -> BOOLEAN]
ScreenAddress == [0..(WordSize - 4) -> BOOLEAN]

ASSUME ProgramsAssumption ==
    /\ Programs \subseteq Seq(AInstruction \cup CInstruction)
    /\ Keys \subseteq Word
    /\ Resets \subseteq BOOLEAN

VARIABLES
    program,
    ARegister, DRegister, PC,
    RAM16K, Screen,
    Keyboard

vars == <<program, ARegister, DRegister, PC, RAM16K, Screen, Keyboard>>

Init ==
    /\ program \in Programs
    /\ ARegister = Off /\ DRegister = Off /\ PC = Off
    /\ RAM16K = [a \in RAMAddress |-> Off]
    /\ Screen = [a \in ScreenAddress |-> Off]
    /\ Keyboard = Off

-----------------------------------------------------------------------------
(* Memory.                                                                 *)

\* The low bits of a bus.
Low(bus, n) == [i \in 0..(n - 1) |-> bus[i]]

\* The two bits that select a part of the address space.
sel(address) == <<address[WordSize - 3], address[WordSize - 2]>>

loadRAM(load, address) ==
    \/ load /\ ~sel(address)[1] /\ ~sel(address)[2]
    \/ load /\ sel(address)[1] /\ ~sel(address)[2]

loadScreen(load, address) == load /\ ~sel(address)[1] /\ sel(address)[2]

\* Mux4Way16 of the RAM, twice, the screen and the keyboard.
MemoryOut(address) ==
    LET outRAM == RAM16K[Low(address, WordSize - 2)]
        RAMorRAM == Mux16(outRAM, outRAM, sel(address)[1])
        ScreenOrKBD == Mux16(Screen[Low(address, WordSize - 3)], Keyboard, sel(address)[1])
    IN  Mux16(RAMorRAM, ScreenOrKBD, sel(address)[2])

Store(in, load, address) ==
    /\ RAM16K' = IF loadRAM(load, address)
                 THEN [RAM16K EXCEPT ![Low(address, WordSize - 2)] = in] ELSE RAM16K
    /\ Screen' = IF loadScreen(load, address)
                 THEN [Screen EXCEPT ![Low(address, WordSize - 3)] = in] ELSE Screen

-----------------------------------------------------------------------------
(* ROM and CPU.                                                            *)

\* The instruction at an address of the ROM; a word no line was loaded into
\* is 0.
ROM32K(address) ==
    LET n == Number(address, WordSize - 1)
    IN  IF n + 1 \in DOMAIN program THEN translate(program[n + 1]) ELSE translate(At(0))

isCInstr(instruction) == instruction[15]

ALUIn(instruction) ==
    [n \in 1..6 |-> instruction[12 - n]]

AorMout(instruction) ==
    Mux16(ARegister, MemoryOut(ARegister), instruction[12] /\ isCInstr(instruction))

outM(instruction) == ALU(DRegister, AorMout(instruction), ALUIn(instruction))

loadA(instruction) ==
    ~isCInstr(instruction) \/ (instruction[5] /\ isCInstr(instruction))
loadD(instruction) == instruction[4] /\ isCInstr(instruction)
writeM(instruction) == instruction[3] /\ isCInstr(instruction)

\* JGT, JEQ, JGE, JLT, JNE, JLE and JMP, from the flags of the ALU.
conditions(out) ==
    LET JEQ == zr(out)
        JGT == ~zr(out) /\ ~ng(out)
        JGE == JEQ \/ JGT
    IN  <<JGT, JEQ, JGE, ~JGE, ~zr(out), ~JGT, TRUE>>

\* The jump the instruction selects is one whose condition holds.
jumpCond(instruction, out) ==
    \E n \in 1..7 : DMux8Way(instruction, n) /\ conditions(out)[n]

\* The chip PC: reset, then load, then increment.
NextPC(in, load, inc, reset) ==
    LET outLoad == Mux16(Mux16(PC, Off, reset), in, load /\ ~reset)
    IN  Mux16(outLoad, Inc16(PC), inc /\ ~load /\ ~reset)

\* Mutant of Tick: the memory is addressed by the new value of A.
Tick_NewAddress(reset) ==
    LET instruction == ROM32K(PC)
        out == outM(instruction)
        loadPC == jumpCond(instruction, out) /\ isCInstr(instruction)
    IN  /\ ARegister' = IF loadA(instruction)
                        THEN Mux16(Low(instruction, WordSize), out, isCInstr(instruction))
                        ELSE ARegister
        /\ DRegister' = IF loadD(instruction) THEN out ELSE DRegister
        /\ PC' = NextPC(ARegister, loadPC, ~(loadPC \/ reset), reset)
        /\ Store(out, writeM(instruction), ARegister')
        /\ UNCHANGED <<program, Keyboard>>

\* A clock cycle.  The registers keep their old values until it ends.
Tick(reset) ==
    LET instruction == ROM32K(PC)
        out == outM(instruction)
        loadPC == jumpCond(instruction, out) /\ isCInstr(instruction)
    IN  /\ ARegister' = IF loadA(instruction)
                        THEN Mux16(Low(instruction, WordSize), out, isCInstr(instruction))
                        ELSE ARegister
        /\ DRegister' = IF loadD(instruction) THEN out ELSE DRegister
        /\ PC' = NextPC(ARegister, loadPC, ~(loadPC \/ reset), reset)
        /\ Store(out, writeM(instruction), ARegister)
        /\ UNCHANGED <<program, Keyboard>>

Clock == \E reset \in Resets : Tick(reset)

\* A key is pressed or released.
KeyChange ==
    /\ Keyboard' \in Keys
    /\ UNCHANGED <<program, ARegister, DRegister, PC, RAM16K, Screen>>

Next == Clock \/ KeyChange

\* The clock ticks forever.
Spec == Init /\ [][Next]_vars /\ []<><<Clock>>_vars

-----------------------------------------------------------------------------
(* The computer seen by its programmers: words are numbers, and the memory *)
(* is one array with the screen after the RAM and the keyboard after it.   *)

\* 16384 words of RAM and 8192 words of screen, for words of 16 bits.
RAMSize == Size \div 4
ScreenSize == Size \div 8
Stored == 0..(RAMSize + ScreenSize - 1)

Bus(n, size) == [i \in 0..(size - 1) |-> BitOf(n, i)]

RAMBus == [n \in 0..(RAMSize - 1) |-> Bus(n, WordSize - 2)]
ScreenBus == [n \in 0..(ScreenSize - 1) |-> Bus(n, WordSize - 3)]

memory ==
    [n \in Stored |->
        IF n < RAMSize THEN Number(RAM16K[RAMBus[n]], WordSize)
        ELSE Number(Screen[ScreenBus[n - RAMSize]], WordSize)]

Documented == INSTANCE HackISA WITH
    Keys <- {Number(k, WordSize) : k \in Keys},
    Zero <- 0,
    A <- Number(ARegister, WordSize),
    D <- Number(DRegister, WordSize),
    pc <- Number(PC, WordSize),
    keyboard <- Number(Keyboard, WordSize)

-----------------------------------------------------------------------------
(* Properties.                                                             *)

\* The registers and the memory hold words.
TypeOK ==
    /\ program \in Programs
    /\ ARegister \in Word /\ DRegister \in Word /\ PC \in Word
    /\ RAM16K \in [RAMAddress -> Word]
    /\ Screen \in [ScreenAddress -> Word]
    /\ Keyboard \in Word

(* The gates do what the documentation of the chips says: each cycle       *)
(* executes one instruction as its mnemonic spells it, on 16-bit two's     *)
(* complement arithmetic, with the memory map of Memory.hdl, and a reset   *)
(* takes the program counter to 0 whatever the instruction.                *)
ImplementsISA == Documented!Spec
=============================================================================
