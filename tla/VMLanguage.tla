----------------------------- MODULE VMLanguage -----------------------------
(***************************************************************************)
(* The commands of the VM language.  A command is a record; "unknown"      *)
(* stands for a line parseLine() has no command for.                       *)
(***************************************************************************)
EXTENDS Integers, Sequences

Push(segment, n) == [op |-> "push", segment |-> segment, value |-> n]
Pop(segment, n)  == [op |-> "pop", segment |-> segment, value |-> n]
Logic(op)        == [op |-> op]
Branch(op, l)    == [op |-> op, label |-> l]
Function(f, n)   == [op |-> "function", name |-> f, nVars |-> n]
Call(f, n)       == [op |-> "call", name |-> f, nArgs |-> n]
Return           == [op |-> "return"]
Unknown          == [op |-> "unknown"]
NoCommand        == [op |-> "none"]

SegmentNames == {"constant", "local", "argument", "this", "that", "temp", "pointer", "static"}
LogicOps == {"add", "sub", "neg", "eq", "gt", "lt", "and", "or", "not"}

\* A line as parseLine() reads it; names are opaque.
IsCommand(c) ==
    /\ c.op \in LogicOps \cup {"push", "pop", "label", "goto", "if-goto", "function", "call",
                               "return", "unknown", "none"}
    /\ c.op \in {"push", "pop"} => c.segment \in SegmentNames /\ c.value \in Int
    /\ c.op = "function" => c.nVars \in Int
    /\ c.op = "call" => c.nArgs \in Int

\* parseLine() knows the command and its isValid() accepts it.
IsValidCommand(c) ==
    /\ c.op # "unknown"
    /\ c.op \in {"push", "pop"} =>
          /\ c.value \in 0..(2^16 - 1)
          /\ c.segment = "constant" => c.op = "push"
          /\ c.segment = "temp" => c.value < 8
          /\ c.segment = "pointer" => c.value < 2
    /\ c.op = "function" => c.nVars >= 0
    /\ c.op = "call" => c.nArgs >= 0

-----------------------------------------------------------------------------
Concat(seqs) ==
    LET c[i \in 0..Len(seqs)] == IF i = 0 THEN <<>> ELSE c[i - 1] \o seqs[i]
    IN  c[Len(seqs)]

\* The commands of the files, each with the name of its file.
Commands(files) ==
    Concat([f \in DOMAIN files |->
        LET commands == SelectSeq(files[f].commands, LAMBDA c : c # NoCommand)
        IN  [n \in DOMAIN commands |-> [file |-> files[f].name, command |-> commands[n]]]])

StaticsOf(commands) ==
    {<<commands[n].file, commands[n].command.value>> :
        n \in {m \in DOMAIN commands :
                  /\ commands[m].command.op \in {"push", "pop"}
                  /\ commands[m].command.segment = "static"}}
=============================================================================
