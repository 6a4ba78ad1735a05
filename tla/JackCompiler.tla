---------------------------- MODULE JackCompiler ----------------------------
(***************************************************************************)
(* The code generator of the Jack compiler, the toVMCode() of grammar.cpp, *)
(* and the files it writes.  A throw inside of it is an Error among the    *)
(* commands.                                                               *)
(***************************************************************************)
EXTENDS JackSymbolTable, JackGrammar, VMLanguage, TLC

CONSTANTS
    Texts,          \* what the directory may hold: sequences of files of tokens
    Characters      \* see JackParser

Parser == INSTANCE JackParser

VARIABLES
    texts,          \* the tokens of the files
    labels,         \* the static counter of VMCommands::UniqueLabel
    vmFiles         \* the files opened, [name, commands]

compilerVars == <<tableVars, texts, labels, vmFiles>>

Error == [op |-> "error"]

-----------------------------------------------------------------------------
(* Expressions.                                                            *)

opCode(op) ==
    CASE op = "+" -> Logic("add") [] op = "-" -> Logic("sub")
      [] op = "&" -> Logic("and") [] op = "|" -> Logic("or")
      [] op = "<" -> Logic("lt")  [] op = ">" -> Logic("gt") [] op = "=" -> Logic("eq")
      [] op = "*" -> Call("Math.multiply", 2)
      [] op = "/" -> Call("Math.divide", 2)

unaryOpCode(op) == IF op = "-" THEN Logic("neg") ELSE Logic("not")

segment(symbol) == IF symbol.kind = "field" THEN "this" ELSE symbol.kind

PushName(name) == Push(segment(get(name)), get(name).index)
PopName(name)  == Pop(segment(get(name)), get(name).index)

\* What pushes "this", which a function has not.
PushThis ==
    IF CurrentSubroutine.kind = "function" THEN Error ELSE Push("pointer", 0)

RECURSIVE expressionCode(_), termCode(_)

expressionCode(e) ==
    CASE Len(e.terms) = 1 -> termCode(e.terms[1])
      [] Len(e.terms) = 2 -> termCode(e.terms[1]) \o termCode(e.terms[2]) \o <<opCode(e.ops[1])>>
      [] OTHER -> <<Error>>

expressionListCode(list) == Concat([n \in DOMAIN list |-> expressionCode(list[n])])

subroutineCallCode(call) ==
    LET nArgs == Len(call.arguments)
        arguments == expressionListCode(call.arguments)
    IN  IF call.receiver = ""
        THEN <<PushThis>> \o arguments \o <<Call(CurrentClass.name \o "." \o call.name, nArgs + 1)>>
        ELSE IF Known(call.receiver)
        THEN <<PushName(call.receiver)>> \o arguments
             \o <<Call(get(call.receiver).type \o "." \o call.name, nArgs + 1)>>
        ELSE arguments \o <<Call(call.receiver \o "." \o call.name, nArgs)>>

\* THAT becomes the address on the stack plus an index.
goToElement(index) == expressionCode(index) \o <<Logic("add"), Pop("pointer", 1)>>

stringCode(chars) ==
    <<Push("constant", Len(chars)), Call("String.new", 1)>>
    \o Concat([n \in DOMAIN chars |->
                  <<Push("constant", chars[n]), Call("String.appendChar", 2)>>])

keywordCode(name) ==
    CASE name = "true" -> <<Push("constant", 0), Logic("not")>>
      [] name \in {"false", "null"} -> <<Push("constant", 0)>>
      [] name = "this" -> <<PushThis>>
      [] OTHER -> <<Error>>

termCode(t) ==
    CASE t.term = "unary" -> termCode(t.operand) \o <<unaryOpCode(t.op)>>
      [] t.term \in {"variable", "element"} /\ ~Known(t.name) -> <<Error>>
      [] t.term = "variable" /\ Known(t.name) -> <<PushName(t.name)>>
      [] t.term = "element" /\ Known(t.name) ->
            <<PushName(t.name)>> \o goToElement(t.index) \o <<Push("that", 0)>>
      [] t.term = "integer" -> <<Push("constant", t.value)>>
      [] t.term = "string" -> stringCode(t.chars)
      [] t.term = "keyword" -> keywordCode(t.name)
      [] t.term = "expression" -> expressionCode(t.inner)
      [] t.term = "call" -> subroutineCallCode(t.call)

-----------------------------------------------------------------------------
(* Statements.  n is the number the counter of labels has reached.         *)

RECURSIVE LabelsIn(_)
LabelsIn(statements) ==
    IF statements = << >> THEN 0
    ELSE LabelsIn(Tail(statements))
         + LET s == Head(statements)
           IN  CASE s.statement = "if" -> LabelsIn(s.held) + LabelsIn(s.failed) + 2
                 [] s.statement = "while" -> LabelsIn(s.body) + 2
                 [] OTHER -> 0

UniqueLabel(prefix, n) == prefix \o ToString(n)

\* Mutant of letCode: THAT is set before the right side, which may set it too.
letCode_AddressFirst(s) ==
    IF ~Known(s.name) THEN <<Error>>
    ELSE IF Len(s.expressions) = 1
    THEN expressionCode(s.expressions[1]) \o <<PopName(s.name)>>
    ELSE <<PushName(s.name)>> \o goToElement(s.expressions[1])
         \o expressionCode(s.expressions[2]) \o <<Pop("that", 0)>>

\* The right side waits in temp 0 for the address of an element.
letCode(s) ==
    IF ~Known(s.name) THEN <<Error>>
    ELSE IF Len(s.expressions) = 1
    THEN expressionCode(s.expressions[1]) \o <<PopName(s.name)>>
    ELSE expressionCode(s.expressions[2])
         \o <<Pop("temp", 0), PushName(s.name)>> \o goToElement(s.expressions[1])
         \o <<Push("temp", 0), Pop("that", 0)>>

RECURSIVE statementsCode(_, _)

\* The labels inside of a statement are numbered before its own.
ifCode(s, n) ==
    LET inFailed == n + LabelsIn(s.held)
        own == inFailed + LabelsIn(s.failed)
        L1 == UniqueLabel("IF_FALSE", own)
        L2 == UniqueLabel("IF_TRUE", own + 1)
    IN  expressionCode(s.condition) \o <<Logic("not"), Branch("if-goto", L1)>>
        \o statementsCode(s.held, n) \o <<Branch("goto", L2), Branch("label", L1)>>
        \o statementsCode(s.failed, inFailed) \o <<Branch("goto", L2), Branch("label", L2)>>

\* Mutants of whileCode: its labels are numbered first, and the number is given
\* again inside; the loop goes on while the condition fails.
whileCode_NumberedFirst(s, n) ==
    LET L1 == UniqueLabel("WHILE_EXP", n)
        L2 == UniqueLabel("WHILE_END", n + 1)
    IN  <<Branch("label", L1)>> \o expressionCode(s.condition)
        \o <<Logic("not"), Branch("if-goto", L2)>>
        \o statementsCode(s.body, n) \o <<Branch("goto", L1), Branch("label", L2)>>

whileCode_NotNegated(s, n) ==
    LET own == n + LabelsIn(s.body)
        L1 == UniqueLabel("WHILE_EXP", own)
        L2 == UniqueLabel("WHILE_END", own + 1)
    IN  <<Branch("label", L1)>> \o expressionCode(s.condition)
        \o <<Branch("if-goto", L2)>>
        \o statementsCode(s.body, n) \o <<Branch("goto", L1), Branch("label", L2)>>

whileCode(s, n) ==
    LET own == n + LabelsIn(s.body)
        L1 == UniqueLabel("WHILE_EXP", own)
        L2 == UniqueLabel("WHILE_END", own + 1)
    IN  <<Branch("label", L1)>> \o expressionCode(s.condition)
        \o <<Logic("not"), Branch("if-goto", L2)>>
        \o statementsCode(s.body, n) \o <<Branch("goto", L1), Branch("label", L2)>>

returnCode(expressions) ==
    (IF expressions = << >> THEN <<Push("constant", 0)>> ELSE expressionCode(expressions[1]))
    \o <<Return>>

statementCode(s, n) ==
    CASE s.statement = "let"    -> letCode(s)
      [] s.statement = "if"     -> ifCode(s, n)
      [] s.statement = "while"  -> whileCode(s, n)
      [] s.statement = "do"     -> subroutineCallCode(s.call) \o <<Pop("temp", 0)>>
      [] s.statement = "return" -> returnCode(s.expressions)

statementsCode(statements, n) ==
    IF statements = << >> THEN << >>
    ELSE statementCode(Head(statements), n)
         \o statementsCode(Tail(statements), n + LabelsIn(<<Head(statements)>>))

-----------------------------------------------------------------------------
(* Subroutines and files.                                                  *)

AtLeastOne(n) == IF n = 0 THEN 1 ELSE n

\* A method takes its object from the first argument; a constructor makes one.
prologue ==
    CASE CurrentSubroutine.kind = "method" -> <<PushName("this"), Pop("pointer", 0)>>
      [] CurrentSubroutine.kind = "constructor" ->
            <<Push("constant", AtLeastOne(count("field"))), Call("Memory.alloc", 1),
              Pop("pointer", 0)>>
      [] OTHER -> << >>

subroutineCode ==
    <<Function(CurrentClass.name \o "." \o CurrentSubroutine.name, count("local"))>>
    \o prologue
    \o statementsCode(CurrentSubroutine.body, labels)

Throws(commands) == \E n \in DOMAIN commands : commands[n] = Error

-----------------------------------------------------------------------------
(* The trees of the parser, as the symbol table takes them.                *)

\* The variables of a declaration, one by one.
Separate(dec) == [n \in DOMAIN dec.names |-> [name |-> dec.names[n], type |-> dec.type]]

SeparateInClass(dec) == OfKind(dec.kind, Separate(dec))

SubroutineGiven(dec) ==
    [kind |-> dec.kind, name |-> dec.name, parameters |-> dec.parameters,
     vars |-> Concat([n \in DOMAIN dec.body.varDecs |-> Separate(dec.body.varDecs[n])]),
     body |-> dec.body.statements]

ClassGiven(element) ==
    [name |-> element.name,
     vars |-> Concat([n \in DOMAIN element.classVarDecs |-> SeparateInClass(element.classVarDecs[n])]),
     subroutines |-> Concat([n \in DOMAIN element.subroutineDecs |->
                                <<SubroutineGiven(element.subroutineDecs[n])>>])]

\* Stands for the tree of a text the parser throws at.
NoClass == [name |-> "this", vars |-> << >>, subroutines |-> << >>]

ClassIn(text) ==
    LET built == Parser!buildClass(text)
    IN  IF built = Parser!Threw THEN NoClass
        ELSE CHOOSE class \in {ClassGiven(b.tree) : b \in built} : TRUE

ClassesOf(files) == Concat([n \in DOMAIN files |-> <<ClassIn(files[n])>>])

-----------------------------------------------------------------------------
CompilerInit ==
    /\ texts \in Texts
    /\ classes = ClassesOf(texts)
    /\ Init
    /\ labels = 0
    /\ vmFiles = << >>

\* The text is read to the end of the class before the file is created, and
\* the file is created before its code is made.
Open ==
    /\ OpenOutput
    /\ CurrentClass # NoClass
    /\ vmFiles' = Append(vmFiles, [name |-> CurrentClass.name, commands |-> << >>])
    /\ UNCHANGED <<texts, labels>>

Refuse ==
    /\ RefuseText
    /\ CurrentClass = NoClass
    /\ UNCHANGED <<texts, labels, vmFiles>>

FillTable ==
    /\ InitTable \/ SkipField \/ Define
    /\ UNCHANGED <<texts, labels, vmFiles>>

\* join() writes the code of all subroutines once it is made; the model adds
\* that of each one to the file.
Translate ==
    /\ Translated
    /\ LET commands == subroutineCode
       IN  /\ ~Throws(commands)
           /\ vmFiles' = [vmFiles EXCEPT ![crtClass].commands = @ \o commands]
    /\ labels' = labels + LabelsIn(CurrentSubroutine.body)
    /\ UNCHANGED texts

\* Mutant of Throw: the code made so far is written.
Throw_KeepsCode ==
    /\ Redefine \/ (Raised /\ Throws(subroutineCode))
    /\ UNCHANGED <<texts, labels, vmFiles>>

\* A throw ends the process: the file it was opened for stays empty.
Throw ==
    /\ Redefine \/ (Raised /\ Throws(subroutineCode))
    /\ vmFiles' = [vmFiles EXCEPT ![crtClass].commands = << >>]
    /\ UNCHANGED <<texts, labels>>

Close ==
    /\ CloseOutput
    /\ UNCHANGED <<texts, labels, vmFiles>>

Compile == Open \/ Refuse \/ FillTable \/ Translate \/ Throw \/ Close
=============================================================================
