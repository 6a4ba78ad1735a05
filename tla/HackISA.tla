------------------------------- MODULE HackISA -------------------------------
(***************************************************************************)
(* The Hack machine as its programmers know it: two registers, a program   *)
(* counter, a memory whose last part is the keyboard, and one instruction  *)
(* a step.  What a word is and what a computation returns are parameters.  *)
(***************************************************************************)
CONSTANTS
    Programs,                \* sequences of instructions
    Fetch(_, _),             \* the instruction of a program at a counter
    Keys,                    \* what the keyboard may show
    Resets,                  \* the values the reset input takes
    Zero,
    Successor(_),            \* the next value of the program counter
    Immediate(_),            \* the word an A-instruction loads
    Compute(_, _, _, _),     \* Compute(comp, D, A, M)
    IsZero(_), IsNegative(_),
    Location(_),             \* the location a word addresses
    Stored                   \* the locations of the RAM and of the screen;
                             \* the others show the keyboard

VARIABLES program, A, D, pc, memory, keyboard

vars == <<program, A, D, pc, memory, keyboard>>

Init ==
    /\ program \in Programs
    /\ A = Zero /\ D = Zero /\ pc = Zero
    /\ memory = [location \in Stored |-> Zero]
    /\ keyboard = Zero

M == IF Location(A) \in Stored THEN memory[Location(A)] ELSE keyboard

Jumps(jump, out) ==
    \/ jump = "JMP"
    \/ jump = "JGT" /\ ~IsNegative(out) /\ ~IsZero(out)
    \/ jump = "JEQ" /\ IsZero(out)
    \/ jump = "JGE" /\ ~IsNegative(out)
    \/ jump = "JLT" /\ IsNegative(out)
    \/ jump = "JNE" /\ ~IsZero(out)
    \/ jump = "JLE" /\ (IsNegative(out) \/ IsZero(out))

Continue(reset, next) == pc' = IF reset THEN Zero ELSE next

Load(instr, reset) ==
    /\ instr.op = "A"
    /\ A' = Immediate(instr.value)
    /\ UNCHANGED <<D, memory>>
    /\ Continue(reset, Successor(pc))

\* M is the memory A addresses before the instruction; so is a jump's target.
Operate(instr, reset) ==
    /\ instr.op = "C"
    /\ LET out == Compute(instr.comp, D, A, M)
       IN  /\ A' = IF "A" \in instr.dest THEN out ELSE A
           /\ D' = IF "D" \in instr.dest THEN out ELSE D
           /\ memory' = IF "M" \in instr.dest /\ Location(A) \in Stored
                        THEN [memory EXCEPT ![Location(A)] = out] ELSE memory
           /\ Continue(reset, IF Jumps(instr.jump, out) THEN A ELSE Successor(pc))

Step ==
    /\ LET instr == Fetch(program, pc)
       IN  \E reset \in Resets : Load(instr, reset) \/ Operate(instr, reset)
    /\ UNCHANGED <<program, keyboard>>

Key ==
    /\ keyboard' \in Keys
    /\ UNCHANGED <<program, A, D, pc, memory>>

Next == Step \/ Key

Spec == Init /\ [][Next]_vars
=============================================================================
