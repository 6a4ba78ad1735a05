--------------------------- MODULE MCHackComputer ---------------------------
(***************************************************************************)
(* Words of five bits: 8 words of RAM, 4 of screen, the keyboard at 12.    *)
(* Each program loads D, stores something at an address, executes one      *)
(* C-instruction there and starts again: every computation with every      *)
(* destination, each of the destinations with a jump of its own.           *)
(***************************************************************************)
EXTENDS HackComputer

MCKeys == {Off, [i \in Bits |-> i = 1]}

\* How D is loaded, and what is stored where: in the RAM, in the screen and,
\* with no effect, at the address of the keyboard.
MCStores == {<<5, "A", "D+1", 7>>, <<9, "-A", "!D", 8>>, <<0, "A", "D", 12>>, <<9, "-A", "D", 12>>}

MCEnds == {<<{}, "JGT">>, <<{"A", "D"}, "JEQ">>, <<{"D"}, "JGE">>, <<{"M"}, "JLT">>,
           <<{"M", "D"}, "JNE">>, <<{"A"}, "JLE">>, <<{"A", "M", "D"}, "JMP">>, <<{"A", "M"}, "">>}

MCPrograms ==
    {<<At(s[1]), Do({"D"}, s[2], ""), At(s[4]), Do({"M"}, s[3], ""), Do(e[1], i, e[2]),
       At(0), Do({}, "0", "JMP")>> :
        s \in MCStores, i \in Computations, e \in MCEnds}
=============================================================================
