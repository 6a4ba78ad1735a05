----------------------------- MODULE MCVMMachine -----------------------------
(***************************************************************************)
(* Words of 16 bits, a stack at 20, a heap at 70, and directories of up to *)
(* three files.                                                            *)
(***************************************************************************)
EXTENDS VMMachine

MCFunctions == {"Sys.init", "Main.sum", "Main.f", "Main.g", "Other.g"}

MCSymbol ==
    DOMAIN PredefinedSymbols \cup MCFunctions
    \cup {f \o "." \o ToString(n) : f \in {"Sys", "Main", "Other"}, n \in 0..3}
    \cup {f \o "$" \o l : f \in MCFunctions \cup {"Main"}, l \in {"END", "LOOP"}}
    \cup {f \o "$ret." \o ToString(n) : f \in MCFunctions, n \in 0..9}
    \cup {l \o ToString(n) : l \in {"EQ_NOT_EQUAL", "EQ_DONE", "GT_THAN_ZERO", "GT_DONE",
                                    "LT_THAN_ZERO", "LT_DONE"}, n \in 1..3}

Directory(files) == [directory |-> TRUE, files |-> files]
OneFile(commands) == [directory |-> FALSE, files |-> <<[name |-> "Main", commands |-> commands]>>]

End == <<Branch("label", "END"), Branch("goto", "END")>>

\* Every operation on two words.
Operand(v) == IF v < 0 THEN <<Push("constant", -v), Logic("neg")>> ELSE <<Push("constant", v)>>
Operate(x, y, op) == Operand(x) \o Operand(y) \o <<Logic(op), Pop("temp", 3)>>

Arithmetic(x, y) ==
    Directory(<< [name |-> "Sys", commands |->
        <<Function("Sys.init", 0)>>
        \o Operate(x, y, "add") \o Operate(x, y, "sub") \o Operate(x, y, "and")
        \o Operate(x, y, "or") \o Operate(x, y, "eq") \o Operate(x, y, "gt")
        \o Operate(x, y, "lt") \o Operand(x)
        \o <<NoCommand, Logic("not")>> \o End] >>)

MCArithmetic == {Arithmetic(x, y) : x \in {0, 5, -3, 32767}, y \in {0, 5, -2, -32767}}

\* From every variable to the one given, in a function with two arguments
\* and two local variables, after both pointers were set.
MCVariables ==
    {<<"local", 1>>, <<"argument", 0>>, <<"this", 1>>, <<"that", 0>>, <<"static", 1>>,
     <<"temp", 7>>, <<"pointer", 0>>, <<"pointer", 1>>}

Copy(from, to) == <<Push(from[1], from[2]), Pop(to[1], to[2])>>

Segments(to) ==
    Directory(<<
        [name |-> "Sys", commands |->
            << Function("Sys.init", 1), Push("constant", 9), Push("constant", 71),
               Push("constant", 72), Call("Main.f", 2), Pop("local", 0), Pop("static", 0) >> \o End],
        [name |-> "Main", commands |->
            << Function("Main.f", 2),
               Push("argument", 0), Pop("pointer", 0), Push("argument", 1), Pop("pointer", 1),
               Push("constant", 4), Pop("static", 1), Push("constant", 73), Pop("local", 1) >>
            \o Copy(<<"local", 1>>, to) \o Copy(<<"argument", 1>>, to)
            \o Copy(<<"static", 1>>, <<"this", 0>>) \o Copy(<<"this", 1>>, <<"temp", 7>>)
            \o Copy(<<"pointer", 1>>, to) \o Copy(<<"temp", 7>>, <<"that", 1>>)
            \o Copy(<<"that", 0>>, <<"static", 1>>) \o Copy(<<"pointer", 0>>, to)
            \o << Push("that", 1), Return >>] >>)

\* Recursion, a call without arguments or variables, words left on the stack
\* at a return, labels and statics with the same names in several places.
Calls(n) ==
    Directory(<<
        [name |-> "Main", commands |->
            << Function("Main.sum", 1), Push("argument", 0), Branch("if-goto", "LOOP"),
               Push("constant", 0), Return, Branch("label", "LOOP"),
               Push("argument", 0), Push("argument", 0), Push("constant", 1), Logic("sub"),
               Call("Main.sum", 1), Logic("add"), Pop("local", 0),
               Push("constant", 7), Push("local", 0), Return,
               Function("Main.f", 0), Push("static", 0), Push("constant", 70), Pop("pointer", 0),
               Push("constant", 1), Call("Other.g", 2), Pop("this", 0), Call("Main.g", 0), Return,
               Function("Main.g", 0), Push("constant", 0), Branch("label", "LOOP"),
               Push("constant", 1), Logic("add"), Pop("static", 0), Push("static", 0),
               Push("static", 0), Push("constant", 2), Logic("lt"), Branch("if-goto", "LOOP"),
               Return >>],
        [name |-> "Other", commands |->
            << Function("Other.g", 1), Branch("label", "LOOP"), Push("argument", 0),
               Push("argument", 1), Logic("eq"), Logic("not"), Branch("if-goto", "END"),
               Push("constant", 5), Pop("argument", 1), Branch("goto", "LOOP"),
               Branch("label", "END"), Push("argument", 1), Pop("static", 0),
               Push("constant", 71), Pop("pointer", 0), Push("pointer", 0), Return >>],
        [name |-> "Sys", commands |->
            << Function("Sys.init", 0), Push("constant", n), Call("Main.sum", 1),
               Call("Main.f", 0), Logic("eq") >> \o End] >>)

\* Lines the translator refuses, a single file with a label before any
\* function, and more static variables than the assembler has addresses for.
MCOthers ==
    { OneFile(<<Push("constant", 1), c>>) :
        c \in {Pop("constant", 1), Push("temp", 8), Pop("pointer", 2), Push("local", 65536),
               Function("Main.f", -1), Call("Main.f", -1), Unknown} }
    \cup { OneFile(<<Branch("label", "LOOP"), Push("static", 0), Branch("if-goto", "LOOP"),
                     Function("Main.f", 0), Return>>),
           Directory(<<[name |-> "Sys", commands |->
              <<Function("Sys.init", 0), Push("static", 0), Push("static", 1), Push("static", 2),
                Push("static", 3)>> \o End]>>) }

MCInputs ==
    MCArithmetic \cup {Segments(to) : to \in MCVariables} \cup {Calls(n) : n \in 0..2} \cup MCOthers
=============================================================================
