---------------------------- MODULE AssemblerSpec ----------------------------
(***************************************************************************)
(* What the assembler promises for one file: the file is assembled into    *)
(* its code when it has one, or it is refused.  A file has a code when its *)
(* lines are valid, its instructions fit in the ROM and its variables fit  *)
(* in the documented window, [start,end).  No pass, no table, no counter.  *)
(* That the assembler does one of the two in the end is Terminates of      *)
(* HackAssembler.                                                          *)
(***************************************************************************)
EXTENDS AsmProgram

VARIABLES source,   \* the lines of the file
          result    \* Pending, Refused, or Assembled with the code

Pending == [status |-> "pending"]
Refused == [status |-> "refused"]
Assembled(code) == [status |-> "assembled", code |-> code]

Init == result = Pending

Acceptable == AllValid(source) /\ FitsInRom(source) /\ VariablesFit(source)

Assemble ==
    /\ result = Pending
    /\ Acceptable
    /\ result' = Assembled(Code(source))

Refuse ==
    /\ result = Pending
    /\ ~Acceptable
    /\ result' = Refused

Next == (Assemble \/ Refuse) /\ UNCHANGED source

Spec == Init /\ [][Next]_<<source, result>>
=============================================================================
