-------------------------------- MODULE Fill --------------------------------
(***************************************************************************)
(* cpu_hdl/04/Fill.asm, assembled and run by the computer: the program     *)
(* polls the keyboard, blackens the screen while a key is pressed and      *)
(* clears it when none is.  The screen has as many words as the words of   *)
(* WordSize bits give it (8192 for 16 bits).                               *)
(***************************************************************************)
EXTENDS HackComputer, AsmProgram

Assign(dest, comp) == C(Do(dest, comp, ""))
JumpIf(comp, jump) == C(Do({}, comp, jump))
goto(label) == <<SymbolicA(label), JumpIf("0", "JMP")>>

ScreenWords == 2^(WordSize - 3)

EventLoop ==
    << SymbolicA("color"), Assign({"M"}, "0"),
       Label("EVENT_LOOP"),
       SymbolicA("KBD"), Assign({"D"}, "M"),
       SymbolicA("KEY_PRESSED"), JumpIf("D", "JNE") >>
    \o goto("KEY_NOT_PRESSED")

\* Mutant of KeyPressed: the new color is never stored.
KeyPressed_NoColor ==
    << Label("KEY_PRESSED"),
       SymbolicA("color"), Assign({"D"}, "M+1"),
       SymbolicA("EVENT_LOOP"), JumpIf("D", "JEQ"),
       SymbolicA("color"), Assign({"D"}, "-1") >>
    \o goto("COLOR_SCREEN")

KeyPressed ==
    << Label("KEY_PRESSED"),
       SymbolicA("color"), Assign({"D"}, "M+1"),
       SymbolicA("EVENT_LOOP"), JumpIf("D", "JEQ"),
       SymbolicA("color"), Assign({"M"}, "-1") >>
    \o goto("COLOR_SCREEN")

KeyNotPressed ==
    << Label("KEY_NOT_PRESSED"),
       SymbolicA("color"), Assign({"D"}, "M"),
       SymbolicA("EVENT_LOOP"), JumpIf("D", "JEQ"),
       SymbolicA("color"), Assign({"M"}, "0") >>
    \o goto("COLOR_SCREEN")

\* Mutant of ColorScreen: i starts one word after the screen begins.
ColorScreen_SkipsFirst ==
    << Label("COLOR_SCREEN"),
       SymbolicA("SCREEN"), Assign({"D"}, "A+1"), SymbolicA("i"), Assign({"M"}, "D"),
       NumericA(ScreenWords), Assign({"D"}, "D+A"), SymbolicA("end"), Assign({"M"}, "D") >>

ColorScreen ==
    << Label("COLOR_SCREEN"),
       SymbolicA("SCREEN"), Assign({"D"}, "A"), SymbolicA("i"), Assign({"M"}, "D"),
       NumericA(ScreenWords), Assign({"D"}, "D+A"), SymbolicA("end"), Assign({"M"}, "D") >>

\* Mutant of ColorScreenLoop: the loop stops one word after the screen ends.
ColorScreenLoop_OneMore ==
    << Label("COLOR_SCREEN_LOOP"),
       SymbolicA("i"), Assign({"D"}, "M"), SymbolicA("end"), Assign({"D"}, "D-M"),
       SymbolicA("COLOR_SCREEN_DONE"), JumpIf("D", "JGT"),
       SymbolicA("color"), Assign({"D"}, "M"),
       SymbolicA("i"), Assign({"A"}, "M"), Assign({"M"}, "D"),
       SymbolicA("i"), Assign({"M"}, "M+1") >>
    \o goto("COLOR_SCREEN_LOOP")
    \o <<Label("COLOR_SCREEN_DONE")>> \o goto("EVENT_LOOP")

ColorScreenLoop ==
    << Label("COLOR_SCREEN_LOOP"),
       SymbolicA("i"), Assign({"D"}, "M"), SymbolicA("end"), Assign({"D"}, "D-M"),
       SymbolicA("COLOR_SCREEN_DONE"), JumpIf("D", "JGE"),
       SymbolicA("color"), Assign({"D"}, "M"),
       SymbolicA("i"), Assign({"A"}, "M"), Assign({"M"}, "D"),
       SymbolicA("i"), Assign({"M"}, "M+1") >>
    \o goto("COLOR_SCREEN_LOOP")
    \o <<Label("COLOR_SCREEN_DONE")>> \o goto("EVENT_LOOP")

\* The file the assembler reads, and the instructions it makes of it.
Source == EventLoop \o KeyPressed \o KeyNotPressed \o ColorScreen \o ColorScreenLoop

Assembled ==
    LET code == Code(Source)
    IN  [n \in DOMAIN code |->
            IF code[n].op = "number" THEN At(code[n].value) ELSE code[n].fields]

\* The program is the one in the ROM; it and its variables have room below
\* the memory maps.
ASSUME FillAssumption ==
    /\ WordSize >= 7
    /\ Programs = {Assembled}
    /\ SCREEN = RAMSize
    /\ KBD = RAMSize + ScreenSize
    /\ VARIABLE_START + 2 < SCREEN
    /\ {"color", "i", "end", "EVENT_LOOP", "KEY_PRESSED", "KEY_NOT_PRESSED",
        "COLOR_SCREEN", "COLOR_SCREEN_LOOP", "COLOR_SCREEN_DONE"} \subseteq Symbol

-----------------------------------------------------------------------------
(* Properties.                                                             *)

Painted(word) == \A a \in ScreenAddress : Screen[a] = word
White == Off
Black == Not16(Off)
Pressed == Keyboard # Off

Labels == Declared(Source)
Names == Variables(Source)

\* What the assembler has replaced the symbols of the program by.
AddressOf == [s \in Labels \cup Names |-> Address(Source, s)]

Value(s) == RAM16K[RAMBus[AddressOf[s]]]
AtLabel(s) == Number(PC, WordSize) = AddressOf[s]

(* A key that stays down makes the screen black for good, and one that     *)
(* stays up makes it white for good, whatever was drawn when it changed.   *)
FollowsKeyboard ==
    /\ <>[]Pressed => <>[]Painted(Black)
    /\ <>[]~Pressed => <>[]Painted(White)

(* The variable color tells what the whole screen shows whenever the       *)
(* keyboard has been read: "no need to color screen with white since it's  *)
(* already white".                                                         *)
ColorTellsScreen ==
    AtLabel("KEY_PRESSED") \/ AtLabel("KEY_NOT_PRESSED") =>
        Value("color") \in {White, Black} /\ Painted(Value("color"))

\* The address the memory gets: A without its top bit.
Addressed == Number(ARegister, WordSize - 1)

(* An instruction that writes to the memory has the address of a variable  *)
(* of the program or of a word of the screen in A: the loop never goes on  *)
(* to the keyboard's address or behind it, where a store is lost, and no   *)
(* store goes to another word of the RAM.  The screen's words are white or *)
(* black.                                                                  *)
StoresInPlace ==
    /\ writeM(ROM32K(PC)) =>
          Addressed \in {AddressOf[s] : s \in Names} \cup (SCREEN..(KBD - 1))
    /\ \A a \in ScreenAddress : Screen[a] \in {White, Black}
=============================================================================
