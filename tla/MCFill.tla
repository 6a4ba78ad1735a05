------------------------------- MODULE MCFill -------------------------------
(***************************************************************************)
(* Fill.asm on words of seven bits: a screen of 16 words at address 32,    *)
(* the keyboard at 48, and variables from address 16.                      *)
(***************************************************************************)
EXTENDS Fill

MCSymbol ==
    {"color", "i", "end", "EVENT_LOOP", "KEY_PRESSED", "KEY_NOT_PRESSED",
     "COLOR_SCREEN", "COLOR_SCREEN_LOOP", "COLOR_SCREEN_DONE"} \cup DOMAIN PredefinedSymbols

MCPrograms == {Assembled}
MCKeys == {Off, [i \in Bits |-> i = 0]}
=============================================================================
