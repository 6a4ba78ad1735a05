---------------------------- MODULE JackLanguage ----------------------------
(***************************************************************************)
(* What a Jack program means, by recursion over its tree, with no stack,   *)
(* no segment and no label: the reference the compiled code is compared    *)
(* with.  A variable is found by its name; a field belongs to an object.   *)
(* The operators of the OS the code generator itself calls are part of the *)
(* language; Out.print shows a word, and Memory.alloc gives addresses in   *)
(* their order.                                                            *)
(***************************************************************************)
EXTENDS JackGrammar, HackEncoding, FiniteSets

CONSTANTS
    program,        \* the classes
    FirstObject     \* the address of the first object

Signed(w) == IF IsNegative(w) THEN w - Size ELSE w
Truth(b) == IF b THEN Wrap(-1) ELSE 0

Binary(op, x, y) ==
    CASE op = "+" -> Wrap(x + y)
      [] op = "-" -> Wrap(x - y)
      [] op = "*" -> Wrap(x * y)
      [] op = "&" -> And(x, y)
      [] op = "|" -> Or(x, y)
      [] op = "=" -> Truth(x = y)
      [] op = "<" -> Truth(Signed(x) < Signed(y))
      [] op = ">" -> Truth(Signed(x) > Signed(y))

-----------------------------------------------------------------------------
(* What names mean.                                                        *)

ClassOf(name) == program[CHOOSE n \in DOMAIN program : program[n].name = name]

SubroutineOf(class, name) ==
    LET subroutines == ClassOf(class).subroutines
    IN  subroutines[CHOOSE n \in DOMAIN subroutines : subroutines[n].name = name]

NamesOf(variables) == {variables[n].name : n \in DOMAIN variables}
ClassNames(class, kind) == {v.name : v \in {class.vars[n] : n \in {m \in DOMAIN class.vars : class.vars[m].kind = kind}}}

\* The names a subroutine may use.
Visible(class, subroutine) ==
    NamesOf(subroutine.parameters) \cup NamesOf(subroutine.vars) \cup ClassNames(class, "static")
    \cup (IF subroutine.kind = "function" THEN {} ELSE ClassNames(class, "field"))

TypeIn(variables, name) == variables[CHOOSE n \in DOMAIN variables : variables[n].name = name].type

TypeOf(class, subroutine, name) ==
    IF name \in NamesOf(subroutine.parameters) THEN TypeIn(subroutine.parameters, name)
    ELSE IF name \in NamesOf(subroutine.vars) THEN TypeIn(subroutine.vars, name)
    ELSE TypeIn(class.vars, name)

-----------------------------------------------------------------------------
(* Programs the compiler has to refuse.                                    *)

Distinct(variables) == Cardinality(NamesOf(variables)) = Len(variables)

RECURSIVE SoundExpression(_, _), SoundTerm(_, _)

SoundCall(call, scope) ==
    /\ call.receiver = "" => ~scope.function
    /\ \A n \in DOMAIN call.arguments : SoundExpression(call.arguments[n], scope)

SoundTerm(t, scope) ==
    CASE t.term \in {"integer", "string"} -> TRUE
      [] t.term = "variable" -> t.name \in scope.names
      [] t.term = "element" -> t.name \in scope.names /\ SoundExpression(t.index, scope)
      [] t.term = "keyword" ->
            t.name \in {"true", "false", "null"} \/ (t.name = "this" /\ ~scope.function)
      [] t.term = "expression" -> SoundExpression(t.inner, scope)
      [] t.term = "unary" -> SoundTerm(t.operand, scope)
      [] t.term = "call" -> SoundCall(t.call, scope)

\* Operators have no priorities: parentheses separate them.
SoundExpression(e, scope) ==
    Len(e.terms) <= 2 /\ \A n \in DOMAIN e.terms : SoundTerm(e.terms[n], scope)

RECURSIVE SoundStatements(_, _)
SoundStatement(s, scope) ==
    CASE s.statement = "let" ->
            /\ s.name \in scope.names
            /\ \A n \in DOMAIN s.expressions : SoundExpression(s.expressions[n], scope)
      [] s.statement = "if" ->
            /\ SoundExpression(s.condition, scope)
            /\ SoundStatements(s.held, scope) /\ SoundStatements(s.failed, scope)
      [] s.statement = "while" ->
            SoundExpression(s.condition, scope) /\ SoundStatements(s.body, scope)
      [] s.statement = "do" -> SoundCall(s.call, scope)
      [] s.statement = "return" ->
            \A n \in DOMAIN s.expressions : SoundExpression(s.expressions[n], scope)

SoundStatements(statements, scope) ==
    \A n \in DOMAIN statements : SoundStatement(statements[n], scope)

SoundSubroutine(class, subroutine) ==
    LET function == subroutine.kind = "function"
        seen == SelectSeq(class.vars, LAMBDA v : ~(function /\ v.kind = "field"))
    IN  /\ Distinct(seen)
        /\ Distinct(subroutine.parameters \o subroutine.vars)
        /\ SoundStatements(subroutine.body,
                           [names |-> Visible(class, subroutine), function |-> function])

Sound ==
    \A c \in DOMAIN program : \A s \in DOMAIN program[c].subroutines :
        SoundSubroutine(program[c], program[c].subroutines[s])

-----------------------------------------------------------------------------
(* Execution.  A state holds the variables that outlive a call, by what    *)
(* they are, the next free address and the words shown.  env is the call.  *)

Start == [store |-> << >>, next |-> FirstObject, shown |-> << >>]

Read(state, key) == IF key \in DOMAIN state.store THEN state.store[key] ELSE 0

Write(state, key, word) ==
    [state EXCEPT !.store = [k \in DOMAIN @ \cup {key} |-> IF k = key THEN word ELSE @[k]]]

Show(state, words) == [state EXCEPT !.shown = @ \o words]

ElementAt(address) == <<"element", address>>

\* What a variable outside of the call is.
Outside(env, name) ==
    IF name \in ClassNames(env.class, "field")
    THEN <<"field", env.this, name>> ELSE <<"static", env.class.name, name>>

ValueOf(env, state, name) ==
    IF name \in DOMAIN env.locals THEN env.locals[name] ELSE Read(state, Outside(env, name))

Alloc(state, size) ==
    [value |-> state.next, state |-> [state EXCEPT !.next = @ + size]]

\* The OS, as the programs use it.
External(class, name, words, state) ==
    CASE <<class, name>> = <<"Out", "print">> -> [value |-> 0, state |-> Show(state, words)]
      [] class \in {"Array", "Memory"} -> Alloc(state, words[1])

IsExternal(class) == \A n \in DOMAIN program : program[n].name # class

RECURSIVE Value(_, _, _), TermValue(_, _, _), Values(_, _, _), Called(_, _, _), Executed(_, _, _)

\* The values of a list, each in the state the one before leaves.
Values(list, env, state) ==
    IF list = << >> THEN [words |-> << >>, state |-> state]
    ELSE LET first == Value(Head(list), env, state)
             rest == Values(Tail(list), env, first.state)
         IN  [words |-> <<first.value>> \o rest.words, state |-> rest.state]

\* A subroutine of an object, or of no object (this = 0), is executed.
Invoked(class, subroutine, this, words, state) ==
    LET n == Cardinality(ClassNames(class, "field"))
        made == Alloc(state, IF n = 0 THEN 1 ELSE n)
        constructed == subroutine.kind = "constructor"
        names == NamesOf(subroutine.parameters) \cup NamesOf(subroutine.vars)
        Given(name) == IF name \in NamesOf(subroutine.parameters)
                       THEN words[CHOOSE k \in DOMAIN words : subroutine.parameters[k].name = name]
                       ELSE 0
        env == [class |-> class, subroutine |-> subroutine,
                this |-> IF constructed THEN made.value ELSE this,
                locals |-> [name \in names |-> Given(name)]]
        end == Executed(subroutine.body, env, IF constructed THEN made.state ELSE state)
    IN  [value |-> end.value, state |-> end.state]

Called(call, env, state) ==
    LET arguments == Values(call.arguments, env, state)
        known == call.receiver \in Visible(env.class, env.subroutine)
        class == IF call.receiver = "" THEN env.class.name
                 ELSE IF known THEN TypeOf(env.class, env.subroutine, call.receiver)
                 ELSE call.receiver
        object == IF call.receiver = "" THEN env.this
                  ELSE IF known THEN ValueOf(env, state, call.receiver) ELSE 0
    IN  IF IsExternal(class)
        THEN External(class, call.name, arguments.words, arguments.state)
        ELSE Invoked(ClassOf(class), SubroutineOf(class, call.name), object,
                     arguments.words, arguments.state)

TermValue(t, env, state) ==
    CASE t.term = "integer" -> [value |-> t.value, state |-> state]
      [] t.term = "keyword" ->
            [value |-> CASE t.name = "true" -> Truth(TRUE) [] t.name = "this" -> env.this [] OTHER -> 0,
             state |-> state]
      [] t.term = "variable" -> [value |-> ValueOf(env, state, t.name), state |-> state]
      [] t.term = "element" ->
            LET index == Value(t.index, env, state)
                address == Wrap(ValueOf(env, state, t.name) + index.value)
            IN  [value |-> Read(index.state, ElementAt(address)), state |-> index.state]
      [] t.term = "string" ->
            [value |-> Len(t.chars), state |-> Show(state, t.chars)]
      [] t.term = "unary" ->
            LET operand == TermValue(t.operand, env, state)
            IN  [operand EXCEPT !.value = IF t.op = "-" THEN Wrap(-@) ELSE Wrap(-1 - @)]
      [] t.term = "expression" -> Value(t.inner, env, state)
      [] t.term = "call" -> Called(t.call, env, state)

Value(e, env, state) ==
    LET first == TermValue(e.terms[1], env, state)
        second == TermValue(e.terms[2], env, first.state)
    IN  IF Len(e.terms) = 1 THEN first
        ELSE [second EXCEPT !.value = Binary(e.ops[1], first.value, @)]

Assign(env, state, name, word) ==
    IF name \in DOMAIN env.locals
    THEN [env |-> [env EXCEPT !.locals[name] = word], state |-> state]
    ELSE [env |-> env, state |-> Write(state, Outside(env, name), word)]

\* The right side of an assignment is evaluated before the index.
Assigned(s, env, state) ==
    LET right == Value(s.expressions[Len(s.expressions)], env, state)
        index == Value(s.expressions[1], env, right.state)
        address == Wrap(ValueOf(env, right.state, s.name) + index.value)
    IN  IF Len(s.expressions) = 1 THEN Assign(env, right.state, s.name, right.value)
        ELSE [env |-> env, state |-> Write(index.state, ElementAt(address), right.value)]

\* Executes until a return.
Executed(statements, env, state) ==
    LET s == Head(statements)
        rest == Tail(statements)
    IN  IF s.statement = "return"
        THEN IF s.expressions = << >> THEN [value |-> 0, state |-> state]
             ELSE Value(s.expressions[1], env, state)
        ELSE IF s.statement = "let"
        THEN LET after == Assigned(s, env, state) IN Executed(rest, after.env, after.state)
        ELSE IF s.statement = "do"
        THEN Executed(rest, env, Called(s.call, env, state).state)
        ELSE LET condition == Value(s.condition, env, state)
                 next == CASE s.statement = "if" /\ condition.value # 0 -> s.held \o rest
                           [] s.statement = "if" /\ condition.value = 0 -> s.failed \o rest
                           [] s.statement = "while" /\ condition.value # 0 -> s.body \o statements
                           [] s.statement = "while" /\ condition.value = 0 -> rest
             IN  Executed(next, env, condition.state)

\* What the program shows: Main.main is called first.
Shown == Invoked(ClassOf("Main"), SubroutineOf("Main", "main"), 0, << >>, Start).state.shown
=============================================================================
