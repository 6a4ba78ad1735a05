----------------------------- MODULE VMCommands -----------------------------
(***************************************************************************)
(* The assembly each command of the VM language is translated to: the      *)
(* doTranslate() of every class of vm/instruction.cpp.                     *)
(***************************************************************************)
EXTENDS AsmProgram, HackEncoding, VMLanguage, TLC

CONSTANT StackBase      \* the first address of the stack (256)

-----------------------------------------------------------------------------
(* The idioms of the generated code.                                       *)

at(symbol)      == SymbolicA(symbol)
set(dest, comp) == C(Do(dest, comp, ""))
jump(on, name)  == C(Do({}, on, name))

decSP == <<at("SP"), set({"M"}, "M-1")>>
incSP == <<at("SP"), set({"M"}, "M+1")>>
goTop == decSP \o <<set({"A"}, "M")>>
popD  == goTop \o <<set({"D"}, "M")>>
pushD == <<at("SP"), set({"A"}, "M"), set({"M"}, "D")>> \o incSP

segmentToBase == [local |-> "LCL", argument |-> "ARG", this |-> "THIS", that |-> "THAT"]

pointerName(n) == IF n = 0 THEN "THIS" ELSE "THAT"
staticName(file, n) == file \o "." \o ToString(n)

\* The fixed location of a temp, pointer or static variable.
fixed(c, file) ==
    CASE c.segment = "temp"    -> NumericA(5 + c.value)
      [] c.segment = "pointer" -> at(pointerName(c.value))
      [] c.segment = "static"  -> at(staticName(file, c.value))

memorySegment(c, file) ==
    CASE c.segment = "constant" ->
            <<NumericA(c.value), set({"D"}, "A")>> \o pushD
      [] c.segment \in DOMAIN segmentToBase /\ c.op = "push" ->
            <<NumericA(c.value), set({"D"}, "A"),
              at(segmentToBase[c.segment]), set({"A"}, "D+M"), set({"D"}, "M")>> \o pushD
      [] c.segment \in DOMAIN segmentToBase /\ c.op = "pop" ->
            <<NumericA(c.value), set({"D"}, "A"),
              at(segmentToBase[c.segment]), set({"D"}, "D+M"), at("R13"), set({"M"}, "D")>>
            \o popD \o <<at("R13"), set({"A"}, "M"), set({"M"}, "D")>>
      [] OTHER ->
            IF c.op = "push" THEN <<fixed(c, file), set({"D"}, "M")>> \o pushD
            ELSE popD \o <<fixed(c, file), set({"M"}, "D")>>

-----------------------------------------------------------------------------
(* Arithmetic.  n numbers the labels of a comparison.                      *)

binary(lines) == popD \o goTop \o lines \o incSP

\* D becomes held or failed, as the jump on D is taken or not.
choose(taken, done, condition, held, failed) ==
    << at(taken), jump("D", condition), set({"D"}, failed),
       at(done), jump("0", "JMP"),
       Label(taken), set({"D"}, held), Label(done) >>
    \o <<at("SP"), set({"A"}, "M"), set({"M"}, "D")>>

comparison(op, n) ==
    CASE op = "eq" ->
            <<set({"D"}, "D-M")>>
            \o choose("EQ_NOT_EQUAL" \o ToString(n), "EQ_DONE" \o ToString(n), "JNE", "0", "-1")
      [] op = "gt" ->
            <<set({"D"}, "D-M"), set({"D"}, "-D")>>
            \o choose("GT_THAN_ZERO" \o ToString(n), "GT_DONE" \o ToString(n), "JGT", "-1", "0")
      [] op = "lt" ->
            <<set({"D"}, "D-M"), set({"D"}, "-D")>>
            \o choose("LT_THAN_ZERO" \o ToString(n), "LT_DONE" \o ToString(n), "JLT", "-1", "0")

arithmeticLogic(op, n) ==
    CASE op = "neg" -> <<at("SP"), set({"A"}, "M-1"), set({"M"}, "-M")>>
      [] op = "not" -> goTop \o <<set({"M"}, "!M")>> \o incSP
      [] op = "add" -> binary(<<set({"M"}, "D+M")>>)
      [] op = "sub" -> binary(<<set({"M"}, "D-M"), set({"M"}, "-M")>>)
      [] op = "and" -> binary(<<set({"M"}, "D&M")>>)
      [] op = "or"  -> binary(<<set({"M"}, "D|M")>>)
      [] OTHER      -> binary(comparison(op, n))

-----------------------------------------------------------------------------
(* Branches and functions.                                                 *)

fullLabel(file, function, label) ==
    (IF function = "" THEN file ELSE function) \o "$" \o label

branching(op, label) ==
    CASE op = "label"   -> <<Label(label)>>
      [] op = "goto"    -> <<at(label), jump("0", "JMP")>>
      [] op = "if-goto" ->
            decSP \o <<at("SP"), set({"A"}, "M"), set({"D"}, "M"), at(label), jump("D", "JNE")>>

repeat(n, lines) ==
    LET times[i \in 0..n] == IF i = 0 THEN <<>> ELSE lines \o times[i - 1]
    IN  times[n]

functionCode(f, nVars) ==
    <<Label(f)>>
    \o repeat(nVars, <<at("SP"), set({"A"}, "M"), set({"M"}, "0")>> \o incSP)

\* D = *(R13 - n), then into a register.
restore(n, register) ==
    << at("R13"), set({"D"}, "M"), NumericA(n), set({"A"}, "D-A"), set({"D"}, "M"),
       at(register), set({"M"}, "D") >>

\* Mutant of returnCode: the return address is read when it is needed.
returnCode_LateAddress ==
    << at("LCL"), set({"D"}, "M"), at("R13"), set({"M"}, "D") >>
    \o popD \o <<at("ARG"), set({"A"}, "M"), set({"M"}, "D")>>
    \o <<at("ARG"), set({"D"}, "M+1"), at("SP"), set({"M"}, "D")>>
    \o restore(4, "LCL") \o restore(3, "ARG") \o restore(2, "THIS")
    \o <<at("R13"), set({"A"}, "M-1"), set({"D"}, "M"), at("THAT"), set({"M"}, "D")>>
    \o restore(5, "R14")
    \o <<at("R14"), set({"A"}, "M"), jump("0", "JMP")>>

\* The frame's end goes to R13 and the return address to R14, before the
\* result is stored: a function without arguments returns it in the location
\* of the return address.
returnCode ==
    << at("LCL"), set({"D"}, "M"), at("R13"), set({"M"}, "D"),
       NumericA(5), set({"A"}, "D-A"), set({"D"}, "M"), at("R14"), set({"M"}, "D") >>
    \o popD \o <<at("ARG"), set({"A"}, "M"), set({"M"}, "D")>>
    \o <<at("ARG"), set({"D"}, "M+1"), at("SP"), set({"M"}, "D")>>
    \o restore(4, "LCL") \o restore(3, "ARG") \o restore(2, "THIS")
    \o <<at("R13"), set({"A"}, "M-1"), set({"D"}, "M"), at("THAT"), set({"M"}, "D")>>
    \o <<at("R14"), set({"A"}, "M"), jump("0", "JMP")>>

returnAddress(f, n) == f \o "$ret." \o ToString(n)

\* A register of the caller, saved on the stack.
save(register) == <<at(register), set({"D"}, "M")>> \o pushD

callCode(f, nArgs, n) ==
    <<at(returnAddress(f, n)), set({"D"}, "A")>> \o pushD
    \o save("LCL") \o save("ARG") \o save("THIS") \o save("THAT")
    \o <<at("SP"), set({"D"}, "M"), at("LCL"), set({"M"}, "D")>>
    \o <<at("SP"), set({"D"}, "M"), NumericA(5 + nArgs), set({"D"}, "D-A"),
         at("ARG"), set({"M"}, "D")>>
    \o <<at(f), jump("0", "JMP"), Label(returnAddress(f, n))>>

bootstrapCode(n) ==
    << NumericA(StackBase), set({"D"}, "A"), at("SP"), set({"M"}, "D"),
       at("LCL"), set({"M"}, "-1"), at("ARG"), set({"M"}, "-1"),
       at("THIS"), set({"M"}, "-1"), at("THAT"), set({"M"}, "-1") >>
    \o callCode("Sys.init", 0, n)
=============================================================================
