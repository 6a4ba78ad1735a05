----------------------------- MODULE JackMachine -----------------------------
(***************************************************************************)
(* A Jack program is compiled, linked with the VM files of the OS, and run *)
(* on the machine of StackVM.  What it shows is compared with what         *)
(* JackLanguage says it means.                                             *)
(***************************************************************************)
EXTENDS JackCompiler

CONSTANTS
    WordSize,
    Heap,           \* the addresses of the heap, see StackVM
    FirstObject,    \* the address the OS gives first
    ShownAt,        \* where the OS counts the words shown; they follow
    Library         \* the files of the OS

VARIABLES code, frames, statics, temp, heap

machine == <<frames, statics, temp, heap>>
jackVars == <<compilerVars, code, machine>>

VM == INSTANCE StackVM
Reference == INSTANCE JackLanguage WITH program <- classes
Syntax == INSTANCE JackSyntax

JackInit ==
    /\ CompilerInit
    /\ code = << >>
    /\ statics = << >>
    /\ VM!Init

\* The VM translator takes the program and the OS as one directory.
Link ==
    /\ stage = "done" /\ code = << >>
    /\ code' = Commands(vmFiles \o Library)
    /\ statics' = [v \in StaticsOf(code') |-> 0]
    /\ UNCHANGED <<compilerVars, frames, temp, heap>>

CompilerStep == Compile /\ UNCHANGED <<code, machine>>
MachineStep  == code # << >> /\ VM!Next /\ UNCHANGED compilerVars

JackNext == CompilerStep \/ Link \/ MachineStep

\* Neither the compiler nor the machine stops while it can go on.
JackSpec == JackInit /\ [][JackNext]_jackVars /\ WF_jackVars(JackNext)

-----------------------------------------------------------------------------
(* Properties.                                                             *)

\* Sys.init is back from Main.main and goes round its last loop.
Halted ==
    /\ Len(frames) = 1
    /\ code[frames[1].next].command.op = "goto"

LabelsOf(f) ==
    {n \in DOMAIN code : code[n].command.op = "label" /\ VM!Enclosing(n) = f}

(* In a function of the code compiled, a label is declared once, and every *)
(* goto is to a label of the function: nested statements never share one.  *)
LabelsOnce ==
    \A n \in DOMAIN code :
        code[n].command.op \in {"goto", "if-goto", "label"} =>
            Cardinality({m \in LabelsOf(VM!Enclosing(n)) :
                             code[m].command.label = code[n].command.label}) = 1

(* The compiler refuses the texts that are no class by the grammar the     *)
(* comments of builder.cpp give, the programs that use a name they may not *)
(* use, define one twice or leave an expression ambiguous, and no others:  *)
(* one token of look ahead is enough, and what hides a variable of the     *)
(* class is no redefinition.                                               *)
RefusesIllFormed ==
    /\ stage = "failed" => ~Syntax!IsClass(texts[crtClass]) \/ ~Reference!Sound
    /\ stage = "done" => Reference!Sound /\ \A n \in DOMAIN texts : Syntax!IsClass(texts[n])

\* An else without statements, which the printed tree leaves out.
HasEmptyElse(text) ==
    \E n \in 1..(Len(text) - 2) :
        [m \in 0..2 |-> text[n + m].value] = (0 :> "else" @@ 1 :> "{" @@ 2 :> "}")

(* The tree the parser makes of a file, printed, is the text of the file   *)
(* up to the end of its class: nothing is lost, invented or misplaced.     *)
PrintsTheText ==
    stage = "subroutine" /\ crtSubroutine = 1 /\ ~HasEmptyElse(texts[crtClass]) =>
        \A built \in Parser!buildClass(texts[crtClass]) :
            LET printed == Parser!classXML(built.tree)
            IN  printed = SubSeq(texts[crtClass], 1, Len(printed))

(* A file that is closed or left behind by a throw holds the code of all   *)
(* the subroutines of its class or nothing, and only the file of the class *)
(* that throws is empty: the VM translator is never given half a class.    *)
FilesWhole ==
    LET functions(n) ==
            Cardinality({m \in DOMAIN vmFiles[n].commands : vmFiles[n].commands[m].op = "function"})
    IN  /\ \A n \in DOMAIN vmFiles :
               /\ n < crtClass \/ stage = "done" => functions(n) = Len(classes[n].subroutines)
               /\ n = crtClass /\ stage = "failed" => vmFiles[n].commands = << >>
        /\ stage = "failed" =>
               (Len(vmFiles) = crtClass <=> Syntax!IsClass(texts[crtClass]))

Printed == [n \in 1..heap[ShownAt] |-> heap[ShownAt + n]]

(* The compiled program shows what the source says, whatever it keeps in   *)
(* which segment and however its calls, loops and expressions nest.        *)
PrintsAsWritten == Halted => Printed = Reference!Shown

\* Every program is refused, or compiled and run to its end.
Finishes == <>(stage = "failed" \/ Halted)
=============================================================================
