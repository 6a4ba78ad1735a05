----------------------------- MODULE JackGrammar -----------------------------
(***************************************************************************)
(* The trees the parser of the Jack compiler makes: the constructors of    *)
(* grammar.cpp, as records.                                                *)
(***************************************************************************)
EXTENDS Sequences

\* Terms.
Integer(n)       == [term |-> "integer", value |-> n]
StringOf(chars)  == [term |-> "string", chars |-> chars]
Keyword(k)       == [term |-> "keyword", name |-> k]
Variable(x)      == [term |-> "variable", name |-> x]
Element(x, e)    == [term |-> "element", name |-> x, index |-> e]
Parentheses(e)   == [term |-> "expression", inner |-> e]
Unary(op, t)     == [term |-> "unary", op |-> op, operand |-> t]
CallTerm(c)      == [term |-> "call", call |-> c]

\* buildExpression gathers all the terms an operator joins.
Expression(terms, ops) == [terms |-> terms, ops |-> ops]

\* receiver is the name before the dot, or "".
SubroutineCall(receiver, name, arguments) ==
    [receiver |-> receiver, name |-> name, arguments |-> arguments]

\* Statements.  A let has an index and a value, or a value; a return has a
\* value or none.
Let(x, expressions) == [statement |-> "let", name |-> x, expressions |-> expressions]
If(e, held, failed) == [statement |-> "if", condition |-> e, held |-> held, failed |-> failed]
While(e, body)      == [statement |-> "while", condition |-> e, body |-> body]
DoCall(call)        == [statement |-> "do", call |-> call]
ReturnOf(expressions) == [statement |-> "return", expressions |-> expressions]
=============================================================================
