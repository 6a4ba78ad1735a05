------------------------------ MODULE JackParser ------------------------------
(***************************************************************************)
(* The parser of the Jack compiler, one operator for each build function.  *)
(* A text t is a sequence of tokens [type, value].  A function is given    *)
(* the place i of the next token; what it builds is a set: the tree with   *)
(* the place behind what was eaten, or nothing if it throws, and then      *)
(* nothing is built around it either.                                      *)
(***************************************************************************)
EXTENDS JackGrammar, Integers, TLC

CONSTANT Characters     \* from the value of a string token to its characters

At(i, tree) == [at |-> i, tree |-> tree]
Threw == {}

\* hasMore() and a look at the next token.
Sees(t, i, values) == i \in DOMAIN t /\ t[i].value \in values

\* The place behind the token at a place, if the token is valid.
eat(t, places, isValid(_)) == {i + 1 : i \in {j \in places : j \in DOMAIN t /\ isValid(t[j])}}

eatValue(t, places, value) == eat(t, places, LAMBDA token : token.value = value)
eatIdentifier(t, places)   == eat(t, places, LAMBDA token : token.type = "IDENTIFIER")

isAType(token) == token.value \in {"int", "char", "boolean"} \/ token.type = "IDENTIFIER"
eatAType(t, places) == eat(t, places, isAType)

\* A symbol is eaten behind what was built.
Closed(t, built, value) ==
    UNION {{At(i, b.tree) : i \in eatValue(t, {b.at}, value)} : b \in built}

-----------------------------------------------------------------------------
(* Expressions.                                                            *)

strOp == {"+", "-", "*", "/", "&", "|", "<", ">", "="}
strUnaryOp == {"-", "~"}

NumberOf(value) == CHOOSE n \in 0..32767 : ToString(n) = value

Constant(token) ==
    CASE token.type = "INT_CONSTANT" -> Integer(NumberOf(token.value))
      [] token.type = "STR_CONSTANT" -> StringOf(Characters[token.value])
      [] token.type = "KEYWORD" -> Keyword(token.value)
      [] token.type = "IDENTIFIER" -> Variable(token.value)

RECURSIVE buildTerm(_, _), buildExpression(_, _), MoreTerms(_, _, _, _),
          buildSubroutineCall(_, _, _), MoreExpressions(_, _, _)

\* One token is looked at to tell a variable, an element and a call apart.
buildTerm(t, i) ==
    IF i \notin DOMAIN t THEN Threw
    ELSE IF t[i].value \in strUnaryOp
    THEN {At(operand.at, Unary(t[i].value, operand.tree)) : operand \in buildTerm(t, i + 1)}
    ELSE IF t[i].type = "IDENTIFIER" /\ Sees(t, i + 1, {"["})
    THEN {At(index.at, Element(t[i].value, index.tree)) :
              index \in Closed(t, buildExpression(t, i + 2), "]")}
    ELSE IF t[i].type = "IDENTIFIER" /\ Sees(t, i + 1, {".", "("})
    THEN {At(call.at, CallTerm(call.tree)) : call \in buildSubroutineCall(t, i + 1, t[i].value)}
    ELSE IF t[i].type # "SYMBOL" THEN {At(i + 1, Constant(t[i]))}
    ELSE IF t[i].value = "("
    THEN {At(inner.at, Parentheses(inner.tree)) :
              inner \in Closed(t, buildExpression(t, i + 1), ")")}
    ELSE Threw

buildExpression(t, i) ==
    UNION {MoreTerms(t, first.at, <<first.tree>>, << >>) : first \in buildTerm(t, i)}

MoreTerms(t, i, terms, ops) ==
    IF ~Sees(t, i, strOp) THEN {At(i, Expression(terms, ops))}
    ELSE UNION {MoreTerms(t, next.at, Append(terms, next.tree), Append(ops, t[i].value)) :
                    next \in buildTerm(t, i + 1)}

MoreExpressions(t, i, list) ==
    IF ~Sees(t, i, {","}) THEN {At(i, list)}
    ELSE UNION {MoreExpressions(t, next.at, Append(list, next.tree)) :
                    next \in buildExpression(t, i + 1)}

buildExpressionList(t, i) ==
    IF Sees(t, i, {")"}) THEN {At(i, << >>)}
    ELSE UNION {MoreExpressions(t, first.at, <<first.tree>>) : first \in buildExpression(t, i)}

\* i is behind the first name.
buildSubroutineCall(t, i, name) ==
    LET dot == Sees(t, i, {"."})
        open == eatValue(t, IF dot THEN eatIdentifier(t, {i + 1}) ELSE {i}, "(")
    IN  {At(list.at, IF dot THEN SubroutineCall(name, t[i + 1].value, list.tree)
                            ELSE SubroutineCall("", name, list.tree)) :
             list \in Closed(t, UNION {buildExpressionList(t, j) : j \in open}, ")")}

-----------------------------------------------------------------------------
(* Statements.                                                             *)

\* The index of an element that is assigned to, if there is one.
Index(t, places) ==
    UNION {IF Sees(t, i, {"["})
           THEN {At(index.at, <<index.tree>>) : index \in Closed(t, buildExpression(t, i + 1), "]")}
           ELSE {At(i, << >>)} : i \in places}

AssignedValue(t, i) ==
    Closed(t, UNION {buildExpression(t, j) : j \in eatValue(t, {i}, "=")}, ";")

\* Mutant of buildLet: the index comes behind the value.
buildLet_Swapped(t, i) ==
    UNION {{At(value.at, Let(t[i].value, <<value.tree>> \o index.tree)) :
                value \in AssignedValue(t, index.at)} :
               index \in Index(t, eatIdentifier(t, {i}))}

buildLet(t, i) ==
    UNION {{At(value.at, Let(t[i].value, index.tree \o <<value.tree>>)) :
                value \in AssignedValue(t, index.at)} :
               index \in Index(t, eatIdentifier(t, {i}))}

RECURSIVE buildStatements(_, _, _)

\* The parenthesised condition of an if or a while.
Condition(t, i) ==
    Closed(t, UNION {buildExpression(t, j) : j \in eatValue(t, {i}, "(")}, ")")

\* The statements between braces.
Block(t, i) ==
    Closed(t, UNION {buildStatements(t, j, << >>) : j \in eatValue(t, {i}, "{")}, "}")

buildWhile(t, i) ==
    UNION {{At(body.at, While(condition.tree, body.tree)) : body \in Block(t, condition.at)} :
               condition \in Condition(t, i)}

Else(t, i) == IF Sees(t, i, {"else"}) THEN Block(t, i + 1) ELSE {At(i, << >>)}

buildIf(t, i) ==
    UNION {UNION {{At(failed.at, If(condition.tree, held.tree, failed.tree)) :
                       failed \in Else(t, held.at)} :
                      held \in Block(t, condition.at)} :
               condition \in Condition(t, i)}

buildDo(t, i) ==
    {At(call.at, DoCall(call.tree)) :
         call \in Closed(t, UNION {buildSubroutineCall(t, j, t[i].value) :
                                       j \in eatIdentifier(t, {i})}, ";")}

buildReturn(t, i) ==
    IF Sees(t, i, {";"}) THEN {At(i + 1, ReturnOf(<< >>))}
    ELSE {At(value.at, ReturnOf(<<value.tree>>)) : value \in Closed(t, buildExpression(t, i), ";")}

buildStatement(t, i) ==
    CASE t[i].value = "let" -> buildLet(t, i + 1)
      [] t[i].value = "if" -> buildIf(t, i + 1)
      [] t[i].value = "while" -> buildWhile(t, i + 1)
      [] t[i].value = "do" -> buildDo(t, i + 1)
      [] t[i].value = "return" -> buildReturn(t, i + 1)

buildStatements(t, i, statements) ==
    IF ~Sees(t, i, {"let", "if", "while", "do", "return"}) THEN {At(i, statements)}
    ELSE UNION {buildStatements(t, next.at, Append(statements, next.tree)) :
                    next \in buildStatement(t, i)}

-----------------------------------------------------------------------------
(* Declarations.                                                           *)

RECURSIVE MoreNames(_, _, _), buildClassVarDecs(_, _, _), buildVarDecs(_, _, _),
          MoreParameters(_, _, _), buildSubroutineDecs(_, _, _)

MoreNames(t, i, names) ==
    IF ~Sees(t, i, {","}) THEN {At(i, names)}
    ELSE UNION {MoreNames(t, j, Append(names, t[j - 1].value)) : j \in eatIdentifier(t, {i + 1})}

\* A type, names and the semicolon.
TypedNames(t, i) ==
    {At(names.at, [type |-> t[i].value, names |-> names.tree]) :
         names \in Closed(t, UNION {MoreNames(t, j, <<t[j - 1].value>>) :
                                        j \in eatIdentifier(t, eatAType(t, {i}))}, ";")}

buildClassVarDecs(t, i, decs) ==
    IF ~Sees(t, i, {"static", "field"}) THEN {At(i, decs)}
    ELSE UNION {buildClassVarDecs(t, dec.at,
                    Append(decs, [kind |-> t[i].value, type |-> dec.tree.type,
                                  names |-> dec.tree.names])) :
                    dec \in TypedNames(t, i + 1)}

buildVarDecs(t, i, decs) ==
    IF ~Sees(t, i, {"var"}) THEN {At(i, decs)}
    ELSE UNION {buildVarDecs(t, dec.at, Append(decs, dec.tree)) : dec \in TypedNames(t, i + 1)}

\* A parameter, and those behind a comma.
MoreParameters(t, i, parameters) ==
    LET more == Append(parameters, [name |-> t[i + 1].value, type |-> t[i].value])
    IN  UNION {IF Sees(t, j, {","}) THEN MoreParameters(t, j + 1, more) ELSE {At(j, more)} :
                   j \in eatIdentifier(t, eatAType(t, {i}))}

buildParameterList(t, i) ==
    IF i \in DOMAIN t /\ isAType(t[i]) THEN MoreParameters(t, i, << >>) ELSE {At(i, << >>)}

buildSubroutineBody(t, i) ==
    UNION {{At(statements.at, [varDecs |-> decs.tree, statements |-> statements.tree]) :
                statements \in Closed(t, buildStatements(t, decs.at, << >>), "}")} :
               decs \in UNION {buildVarDecs(t, j, << >>) : j \in eatValue(t, {i}, "{")}}

buildSubroutineDecs(t, i, decs) ==
    IF ~Sees(t, i, {"constructor", "function", "method"}) THEN {At(i, decs)}
    ELSE LET returns == eat(t, {i + 1}, LAMBDA token : token.value = "void" \/ isAType(token))
             open == eatValue(t, eatIdentifier(t, returns), "(")
             parameterLists == Closed(t, UNION {buildParameterList(t, j) : j \in open}, ")")
         IN  UNION {UNION {buildSubroutineDecs(t, body.at,
                               Append(decs, [kind |-> t[i].value, returns |-> t[i + 1].value,
                                             name |-> t[i + 2].value,
                                             parameters |-> parameters.tree, body |-> body.tree])) :
                               body \in buildSubroutineBody(t, parameters.at)} :
                        parameters \in parameterLists}

\* What follows the class is never read.
buildClass(t) ==
    LET open == eatValue(t, eatIdentifier(t, eatValue(t, {1}, "class")), "{")
    IN  UNION {{At(subroutines.at, [name |-> t[2].value, classVarDecs |-> vars.tree,
                                    subroutineDecs |-> subroutines.tree]) :
                    subroutines \in Closed(t, buildSubroutineDecs(t, vars.at, << >>), "}")} :
                   vars \in UNION {buildClassVarDecs(t, i, << >>) : i \in open}}

-----------------------------------------------------------------------------
(* The parse tree as the compiler prints it, the toXML() of grammar.cpp:   *)
(* its tokens in their order, without the tags around them and without the *)
(* escapes.                                                                *)

Token(type, value) == [type |-> type, value |-> value]
Symbol(value)      == Token("SYMBOL", value)
Word(value)        == Token("KEYWORD", value)
Name(value)        == Token("IDENTIFIER", value)

\* The name of a type is a keyword or that of a class.
TypeName(value) ==
    IF value \in {"int", "char", "boolean", "void"} THEN Word(value) ELSE Name(value)

\* The texts of the elements of a list, one behind the other.
Joined(list, textOf(_)) ==
    LET upTo[n \in 0..Len(list)] == IF n = 0 THEN << >> ELSE upTo[n - 1] \o textOf(list[n])
    IN  upTo[Len(list)]

\* The same with commas between them.
Listed(list, textOf(_)) ==
    LET upTo[n \in 1..Len(list)] ==
            IF n = 1 THEN textOf(list[1]) ELSE upTo[n - 1] \o <<Symbol(",")>> \o textOf(list[n])
    IN  IF list = << >> THEN << >> ELSE upTo[Len(list)]

Between(open, text, close) == <<Symbol(open)>> \o text \o <<Symbol(close)>>

-----------------------------------------------------------------------------
RECURSIVE termXML(_), expressionXML(_)

expressionListXML(list) == Listed(list, expressionXML)

subroutineCallXML(call) ==
    (IF call.receiver = "" THEN << >> ELSE <<Name(call.receiver), Symbol(".")>>)
    \o <<Name(call.name)>> \o Between("(", expressionListXML(call.arguments), ")")

StringWith(chars) == CHOOSE value \in DOMAIN Characters : Characters[value] = chars

termXML(t) ==
    CASE t.term = "unary" -> <<Symbol(t.op)>> \o termXML(t.operand)
      [] t.term = "integer" -> <<Token("INT_CONSTANT", ToString(t.value))>>
      [] t.term = "string" -> <<Token("STR_CONSTANT", StringWith(t.chars))>>
      [] t.term = "keyword" -> <<Word(t.name)>>
      [] t.term = "variable" -> <<Name(t.name)>>
      [] t.term = "element" -> <<Name(t.name)>> \o Between("[", expressionXML(t.index), "]")
      [] t.term = "expression" -> Between("(", expressionXML(t.inner), ")")
      [] t.term = "call" -> subroutineCallXML(t.call)

expressionXML(e) ==
    LET upTo[n \in 1..Len(e.terms)] ==
            IF n = 1 THEN termXML(e.terms[1])
            ELSE upTo[n - 1] \o <<Symbol(e.ops[n - 1])>> \o termXML(e.terms[n])
    IN  upTo[Len(e.terms)]

-----------------------------------------------------------------------------
RECURSIVE statementXML(_)
statementsXML(statements) == Joined(statements, statementXML)

letXML(s) ==
    <<Name(s.name)>>
    \o (IF Len(s.expressions) = 2 THEN Between("[", expressionXML(s.expressions[1]), "]") ELSE << >>)
    \o <<Symbol("=")>> \o expressionXML(s.expressions[Len(s.expressions)])

\* An else with no statements is not printed.
ifXML(s) ==
    Between("(", expressionXML(s.condition), ")") \o Between("{", statementsXML(s.held), "}")
    \o (IF s.failed = << >> THEN << >>
        ELSE <<Word("else")>> \o Between("{", statementsXML(s.failed), "}"))

whileXML(s) ==
    Between("(", expressionXML(s.condition), ")") \o Between("{", statementsXML(s.body), "}")

statementXML(s) ==
    <<Word(s.statement)>> \o
    CASE s.statement = "let" -> letXML(s) \o <<Symbol(";")>>
      [] s.statement = "if" -> ifXML(s)
      [] s.statement = "while" -> whileXML(s)
      [] s.statement = "do" -> subroutineCallXML(s.call) \o <<Symbol(";")>>
      [] s.statement = "return" ->
            Joined(s.expressions, expressionXML) \o <<Symbol(";")>>

-----------------------------------------------------------------------------
NamesXML(names) == Listed(names, LAMBDA name : <<Name(name)>>)

classVarDecXML(dec) == <<Word(dec.kind), TypeName(dec.type)>> \o NamesXML(dec.names) \o <<Symbol(";")>>
varDecXML(dec)      == <<Word("var"), TypeName(dec.type)>> \o NamesXML(dec.names) \o <<Symbol(";")>>

parameterListXML(parameters) ==
    Listed(parameters, LAMBDA parameter : <<TypeName(parameter.type), Name(parameter.name)>>)

subroutineBodyXML(body) ==
    Between("{", Joined(body.varDecs, varDecXML)
                 \o statementsXML(body.statements), "}")

subroutineDecXML(dec) ==
    <<Word(dec.kind), TypeName(dec.returns), Name(dec.name)>>
    \o Between("(", parameterListXML(dec.parameters), ")") \o subroutineBodyXML(dec.body)

classXML(class) ==
    <<Word("class"), Name(class.name)>>
    \o Between("{", Joined(class.classVarDecs, classVarDecXML)
                    \o Joined(class.subroutineDecs, subroutineDecXML), "}")
=============================================================================
