--------------------------- MODULE MCHackAssembler ---------------------------
(***************************************************************************)
(* The assembler with a RAM window of three addresses from 2 on and at     *)
(* most four instructions in a file.  Every file of up to four lines, pairs *)
(* of files of up to two lines (a directory of .asm files), files with up  *)
(* to four variables, one more than the window has addresses, and files of *)
(* five lines, one more than a file may have instructions.                 *)
(***************************************************************************)
EXTENDS HackAssembler

MCSymbol == {"x", "y", "z", "w"} \cup DOMAIN PredefinedSymbols

MCLines ==
    {SymbolicA(s) : s \in {"x", "y", "z", "LCL"}} \cup {Label("x"), Label("LCL")}
        \cup {NumericA(1), NumericA(MAX_INT + 1), C("jump"), Blank, Malformed}

\* The lines of the files of a directory.
MCDirectoryLines == {SymbolicA("x"), SymbolicA("y"), Label("x"), C("jump")}

MCInputs ==
    {<<f>> : f \in UNION {[1..n -> MCLines] : n \in 0..4}}
        \cup {<<f, g>> : f, g \in UNION {[1..n -> MCDirectoryLines] : n \in 0..2}}
        \cup {<<f>> : f \in [1..4 -> {SymbolicA(s) : s \in {"x", "y", "z", "w"}}]}
        \cup {<<f>> : f \in [1..5 -> {SymbolicA("x"), C("jump"), Label("y")}]}
=============================================================================
