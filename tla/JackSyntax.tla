------------------------------ MODULE JackSyntax ------------------------------
(***************************************************************************)
(* The grammar of Jack as the comments of builder.cpp give it, with no     *)
(* order of trials and no look ahead: a rule may end at any of a set of    *)
(* places.  The parser is compared with it.                                *)
(***************************************************************************)
EXTENDS Integers, Sequences

\* The forms of a rule.
Value(values) == [form |-> "value", of |-> values]
Type(types)   == [form |-> "type", of |-> types]
Rule(name)    == [form |-> "rule", of |-> name]
Row(rules)    == [form |-> "row", of |-> rules]
Either(rules) == [form |-> "either", of |-> rules]
Many(rule)    == [form |-> "many", of |-> rule]
Maybe(rule)   == [form |-> "maybe", of |-> rule]

The(value) == Value({value})
Name       == Type({"IDENTIFIER"})
AType      == Either(<<Value({"int", "char", "boolean"}), Name>>)
Commas(rule) == Row(<<rule, Many(Row(<<The(","), rule>>))>>)
Grouped(open, rule, close) == Row(<<The(open), rule, The(close)>>)

Grammar(name) ==
    CASE name = "class" ->
            Row(<<The("class"), Name, The("{"), Many(Rule("classVarDec")),
                  Many(Rule("subroutineDec")), The("}")>>)
      [] name = "classVarDec" ->
            Row(<<Value({"static", "field"}), AType, Commas(Name), The(";")>>)
      [] name = "subroutineDec" ->
            Row(<<Value({"constructor", "function", "method"}), Either(<<The("void"), AType>>), Name,
                  Grouped("(", Maybe(Commas(Row(<<AType, Name>>))), ")"), Rule("subroutineBody")>>)
      [] name = "subroutineBody" ->
            Grouped("{", Row(<<Many(Rule("varDec")), Rule("statements")>>), "}")
      [] name = "varDec" -> Row(<<The("var"), AType, Commas(Name), The(";")>>)
      [] name = "statements" -> Many(Rule("statement"))
      [] name = "statement" ->
            Either(<<Row(<<The("let"), Name, Maybe(Grouped("[", Rule("expression"), "]")),
                           The("="), Rule("expression"), The(";")>>),
                     Row(<<The("if"), Rule("condition"), Rule("block"),
                           Maybe(Row(<<The("else"), Rule("block")>>))>>),
                     Row(<<The("while"), Rule("condition"), Rule("block")>>),
                     Row(<<The("do"), Rule("subroutineCall"), The(";")>>),
                     Row(<<The("return"), Maybe(Rule("expression")), The(";")>>)>>)
      [] name = "condition" -> Grouped("(", Rule("expression"), ")")
      [] name = "block" -> Grouped("{", Rule("statements"), "}")
      [] name = "expression" ->
            Row(<<Rule("term"),
                  Many(Row(<<Value({"+", "-", "*", "/", "&", "|", "<", ">", "="}), Rule("term")>>))>>)
      [] name = "term" ->
            Either(<<Type({"INT_CONSTANT", "STR_CONSTANT", "KEYWORD", "IDENTIFIER"}),
                     Row(<<Name, Grouped("[", Rule("expression"), "]")>>),
                     Rule("subroutineCall"), Grouped("(", Rule("expression"), ")"),
                     Row(<<Value({"-", "~"}), Rule("term")>>)>>)
      [] name = "subroutineCall" ->
            Row(<<Maybe(Row(<<Name, The(".")>>)), Name,
                  Grouped("(", Maybe(Commas(Rule("expression"))), ")")>>)

\* The places where a rule that begins at i may end, i being the next token.
RECURSIVE Ends(_, _, _)
Ends(rule, t, i) ==
    CASE rule.form = "value" -> {j \in {i + 1} : i \in DOMAIN t /\ t[i].value \in rule.of}
      [] rule.form = "type" -> {j \in {i + 1} : i \in DOMAIN t /\ t[i].type \in rule.of}
      [] rule.form = "rule" -> Ends(Grammar(rule.of), t, i)
      [] rule.form = "row" ->
            IF rule.of = << >> THEN {i}
            ELSE UNION {Ends(Row(Tail(rule.of)), t, j) : j \in Ends(Head(rule.of), t, i)}
      [] rule.form = "either" -> UNION {Ends(rule.of[n], t, i) : n \in DOMAIN rule.of}
      [] rule.form = "many" -> {i} \cup UNION {Ends(rule, t, j) : j \in Ends(rule.of, t, i)}
      [] rule.form = "maybe" -> {i} \cup Ends(rule.of, t, i)

\* A text that begins with a class.
IsClass(t) == Ends(Rule("class"), t, 1) # {}
=============================================================================
