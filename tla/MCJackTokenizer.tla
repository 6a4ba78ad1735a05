--------------------------- MODULE MCJackTokenizer ---------------------------
(***************************************************************************)
(* Files of one to three lines, made of the pieces a delimiter can be      *)
(* mistaken in: every line of up to four pieces, every two lines of up to  *)
(* three and two, every three lines of up to two, one and one.             *)
(***************************************************************************)
EXTENDS JackTokenizer

MCPieces ==
    { <<"/", "*">>, <<"*", "/">>, <<"/", "/">>, <<"/">>, <<"\"">>, <<"x">>, <<"7", " ">> }

LinesUpTo(n) ==
    { line \in { FlattenSeq(pieces) : pieces \in SeqOf(MCPieces, n) } : IsLine(line) }

MCFiles ==
    { <<line>> : line \in LinesUpTo(4) \cup
          { <<"class", " ", "x", ";">>, <<"70000">>, <<"x", "\"", " ", ";", "\"">>,
            <<"7", "/", "*", "*", "/", "x">>, <<"?", " ">> } }
    \cup { <<first, second>> : first \in LinesUpTo(3), second \in LinesUpTo(2) }
    \cup { <<first, second, third>> :
              first \in LinesUpTo(2), second \in LinesUpTo(1), third \in LinesUpTo(1) }
=============================================================================
