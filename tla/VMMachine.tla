------------------------------ MODULE VMMachine ------------------------------
(***************************************************************************)
(* A VM program from its files to its execution: the VM translator makes   *)
(* assembly of it, the assembler the instructions (Code, what HackAssembler*)
(* is shown to produce), and the computer executes them.                   *)
(*                                                                         *)
(* view is a history variable: the frames, variables and heap that the     *)
(* words of the memory spell, read whenever the program counter reaches    *)
(* the beginning of a command's block.                                     *)
(***************************************************************************)
EXTENDS VMTranslator

CONSTANTS
    Heap,               \* the addresses the programs use as their heap
    RAMEnd              \* the memory modelled ends here

VARIABLES
    program, A, D, pc, memory, keyboard,
    code,               \* the commands of all files
    firstLine,          \* the line of the output each command's code begins at
    starts,             \* the ROM address of that line
    where,              \* the RAM address of each static variable
    view

machineVars == <<program, A, D, pc, memory, keyboard>>
linkVars == <<starts, where>>
vars == <<translatorVars, machineVars, code, firstLine, linkVars, view>>

Machine == INSTANCE HackISA WITH
    Programs <- {<<>>}, Keys <- {0}, Resets <- {FALSE}, Zero <- 0, Stored <- 0..(RAMEnd - 1)

VM == INSTANCE StackVM WITH
    frames <- view.frames, statics <- view.statics, temp <- view.temp, heap <- view.heap

-----------------------------------------------------------------------------
MachineInit ==
    /\ Init
    /\ Machine!Init
    /\ code = Commands(input.files)
    /\ firstLine = <<>> /\ starts = <<>> /\ where = <<>>
    /\ view = [frames |-> <<>>,
               statics |-> [v \in StaticsOf(code) |-> 0],
               temp |-> [n \in 0..7 |-> 0],
               heap |-> [a \in Heap |-> 0]]

Translate ==
    /\ Translating
    /\ firstLine' = IF Len(output') > Len(output)
                    THEN Append(firstLine, Len(allLines) + Len(output) + 1) ELSE firstLine
    /\ UNCHANGED <<machineVars, code, linkVars, view>>

-----------------------------------------------------------------------------
Acceptable(lines) == AllValid(lines) /\ FitsInRom(lines) /\ VariablesAdmitted(lines)

\* The assembler refuses what the VM translator wrote.
RefuseAssembly ==
    /\ status' = "not assembled"
    /\ UNCHANGED <<input, fileNo, lineNo, function, counters, output, allLines,
                   machineVars, code, firstLine, linkVars, view>>

\* The code is loaded into the ROM.  The bootstrap code comes first.
Load ==
    /\ \E words \in {Code(allLines)} :
          program' = [n \in DOMAIN words |->
                         IF words[n].op = "number" THEN At(words[n].value)
                         ELSE words[n].fields]
    /\ LET offset == Len(bootstrapCode(0))
       IN  starts' = [n \in DOMAIN code |-> RomAddress(allLines, offset + firstLine[n])]
    /\ where' = [v \in DOMAIN view.statics |-> Address(allLines, staticName(v[1], v[2]))]
    /\ status' = "running"
    /\ UNCHANGED <<input, fileNo, lineNo, function, counters, output, allLines,
                   A, D, pc, memory, keyboard, code, firstLine, view>>

\* Only the code of a directory can run by itself.
Assemble ==
    /\ status = "written" /\ input.directory
    /\ IF Acceptable(allLines) THEN Load ELSE RefuseAssembly

-----------------------------------------------------------------------------
\* A command whose block begins at a ROM address.
BeginsAt(n, address) == ~VM!Silent(n) /\ starts[n] = address
AtCommand(address) == \E n \in DOMAIN code : BeginsAt(n, address)
CommandAt(address) == CHOOSE n \in DOMAIN code : BeginsAt(n, address)

Words(m, first, end) == [i \in 1..(end - first) |-> m[first + i - 1]]

\* The calls whose last frame executes command n, has its local variables at
\* lcl, its arguments at arg and its stack up to top.  The word -1 that the
\* bootstrap code gave to LCL ends the chain.
RECURSIVE FramesAt(_, _, _, _, _, _, _)
FramesAt(m, n, top, lcl, arg, this, that) ==
    LET nVars == IF code[n].command.op = "function" THEN 0
                 ELSE code[VM!Enclosing(n)].command.nVars
        frame == [next |-> n, argument |-> Words(m, arg, lcl - 5),
                  local |-> Words(m, lcl, lcl + nVars), stack |-> Words(m, lcl + nVars, top),
                  this |-> this, that |-> that]
    IN  IF m[lcl - 4] = Wrap(-1) THEN <<frame>>
        ELSE Append(FramesAt(m, CommandAt(m[lcl - 5]), arg,
                             m[lcl - 4], m[lcl - 3], m[lcl - 2], m[lcl - 1]), frame)

View(m, n) ==
    [frames  |-> FramesAt(m, n, m[0], m[1], m[2], m[3], m[4]),
     statics |-> [v \in DOMAIN where |-> m[where[v]]],
     temp    |-> [i \in 0..7 |-> m[5 + i]],
     heap    |-> [a \in Heap |-> m[a]]]

Run ==
    /\ status = "running"
    /\ Machine!Step
    /\ view' = IF AtCommand(pc') THEN View(memory', CommandAt(pc')) ELSE view
    /\ UNCHANGED <<translatorVars, code, firstLine, linkVars>>

Next == Translate \/ Assemble \/ Run

Spec == MachineInit /\ [][Next]_vars

-----------------------------------------------------------------------------
(* Properties.                                                             *)

(* What the translated program does, seen at the beginning of each         *)
(* command's block, is what the stack machine does: calls and returns keep *)
(* the frames of the callers, also when the callee has no arguments,       *)
(* labels of one function and static variables of one file are its own.    *)
ImplementsStackVM == VM!Spec
=============================================================================
