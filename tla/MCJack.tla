------------------------------- MODULE MCJack -------------------------------
(***************************************************************************)
(* Words of 8 bits, a heap of 40 words, and Jack programs of one or two    *)
(* classes, written from their trees; then one class with every single     *)
(* token of it left out, doubled, swapped with the next or replaced, and   *)
(* cut off behind it.  The OS stands for that of src/: each operator does  *)
(* what the one of that name does, with no memory to give back.            *)
(***************************************************************************)
EXTENDS JackMachine

\* Expressions and declarations, shorter.
Just(t)         == Expression(<<t>>, << >>)
Joined(x, op, y) == Expression(<<x, y>>, <<op>>)
In(x, op, y)    == Parentheses(Joined(x, op, y))
Num(n)          == Just(Integer(n))
The(x)          == Just(Variable(x))
Ask(receiver, name, arguments) == CallTerm(SubroutineCall(receiver, name, arguments))
Tell(receiver, name, arguments) == DoCall(SubroutineCall(receiver, name, arguments))
Show(e)         == Tell("Out", "print", <<e>>)
Set(x, e)       == Let(x, <<e>>)
SetElement(x, index, e) == Let(x, <<index, e>>)
Give(e)         == ReturnOf(<<e>>)
Leave           == ReturnOf(<< >>)

Of(type, names)  == [n \in DOMAIN names |-> [name |-> names[n], type |-> type]]
Var(type, names) == <<[type |-> type, names |-> names]>>
InClassOf(kind, names) == <<[kind |-> kind, type |-> "int", names |-> names]>>
Does(kind, name, parameters, varDecs, statements) ==
    [kind |-> kind, returns |-> IF kind = "function" THEN "void" ELSE "int", name |-> name,
     parameters |-> parameters, body |-> [varDecs |-> varDecs, statements |-> statements]]
ClassWith(name, decs, subroutines) ==
    [name |-> name, classVarDecs |-> decs, subroutineDecs |-> subroutines]
Main(subroutines) == ClassWith("Main", << >>, subroutines)
MainDoes(vars, body) == Does("function", "main", << >>, vars, body)

-----------------------------------------------------------------------------
\* Objects with fields, a static variable between them, methods that call
\* methods of theirs and of others.
Point ==
    ClassWith("Point", InClassOf("static", <<"made">>) \o InClassOf("field", <<"x", "y">>),
      << Does("constructor", "new", Of("int", <<"a", "b">>), << >>,
            <<Set("x", The("a")), Set("y", The("b")),
              Set("made", Joined(Variable("made"), "+", Integer(1))),
              Give(Just(Keyword("this")))>>),
         Does("method", "getX", << >>, << >>, <<Give(The("x"))>>),
         Does("method", "step", Of("int", <<"n">>), << >>,
            <<Set("y", Joined(Variable("y"), "-", Variable("n"))), Leave>>),
         Does("method", "plus", Of("Point", <<"other">>), Var("Point", <<"sum">>),
            <<Tell("", "step", <<Num(1)>>),
              Set("sum", Just(Ask("Point", "new",
                    <<Joined(Variable("x"), "+", Ask("other", "getX", << >>)), The("y")>>))),
              Tell("sum", "step", <<Just(Ask("", "getX", << >>))>>),
              Tell("sum", "show", << >>),
              Give(The("sum"))>>),
         Does("method", "show", << >>, << >>,
            <<Show(The("x")), Show(The("y")), Show(The("made")), Leave>>) >>)

Objects ==
    << Point,
       Main(<<MainDoes(Var("Point", <<"p", "q">>),
            <<Set("p", Just(Ask("Point", "new", <<Num(1), Num(9)>>))),
              Set("q", Just(Ask("Point", "new", <<Num(5), Num(2)>>))),
              Set("p", Just(Ask("p", "plus", <<The("q")>>))),
              Tell("p", "step", <<Num(30)>>),
              Tell("p", "show", << >>), Tell("q", "show", << >>), Leave>>)>>) >>

\* Conditions and loops inside of each other, a loop that is not entered,
\* arrays and a string.
Loops ==
    << Main(<<MainDoes(Var("Array", <<"a">>) \o Var("int", <<"i", "j">>),
        <<Set("a", Just(Ask("Array", "new", <<Num(3)>>))),
          While(Joined(Variable("i"), "<", Integer(3)),
            <<If(Joined(Variable("i"), "=", Integer(1)),
                 <<While(Joined(Variable("j"), "<", Integer(2)),
                     <<Set("j", Joined(Variable("j"), "+", Integer(1)))>>),
                   SetElement("a", The("i"), The("j"))>>,
                 <<If(Just(Unary("~", In(Variable("i"), "=", Integer(0)))),
                      <<SetElement("a", The("i"),
                            Joined(Element("a", Num(1)), "*", Variable("i")))>>,
                      << >>)>>),
              Set("i", Joined(Variable("i"), "+", Integer(1)))>>),
          While(Joined(Variable("j"), ">", Variable("i")), << >>),
          SetElement("a", Just(Element("a", Num(0))),
                     Joined(Unary("-", Element("a", Num(2))), "+", Integer(1))),
          Show(Just(Element("a", Num(0)))), Show(Just(Element("a", Num(1)))),
          Show(Just(Element("a", Num(2)))),
          Show(Just(StringOf(<<6, 7>>))),
          Show(Joined(Keyword("true"), "&", In(Variable("j"), ">", Keyword("null")))), Leave>>)>>) >>

\* A function that calls itself twice in an expression.
Recursion ==
    << Main(<<Does("function", "fib", Of("int", <<"n">>), << >>,
            <<If(Joined(Variable("n"), "<", Integer(2)), <<Give(The("n"))>>, << >>),
              Give(Joined(Ask("Main", "fib", <<Joined(Variable("n"), "-", Integer(1))>>), "+",
                          Ask("Main", "fib", <<Joined(Variable("n"), "-", Integer(2))>>)))>>),
         MainDoes(<< >>, <<Show(Just(Ask("Main", "fib", <<Num(3)>>))), Leave>>)>>) >>

\* Names that hide others: a parameter and a local variable hide those of the
\* class, two classes have a static variable each, a function sees no field.
Hiding ==
    << ClassWith("Point",
          InClassOf("field", <<"x">>) \o InClassOf("static", <<"made">>) \o InClassOf("field", <<"y">>)
          \o InClassOf("static", <<"last">>),
          << Does("constructor", "new", Of("int", <<"y">>), Var("int", <<"made">>),
                <<Set("made", The("y")), Set("x", The("made")), Set("last", The("x")),
                  Give(Just(Keyword("this")))>>),
             Does("method", "plus", Of("int", <<"x">>), << >>,
                <<Set("y", Joined(Variable("x"), "+", Variable("y"))), Set("made", The("y")),
                  Give(Joined(Variable("made"), "|", Variable("last")))>>),
             Does("function", "total", << >>, Var("int", <<"x">>),
                <<Set("x", Joined(Variable("x"), "+", Variable("made"))), Give(The("x"))>>) >>),
       ClassWith("Main", InClassOf("static", <<"made", "x">>),
          <<MainDoes(Var("Point", <<"p">>),
                <<Set("made", Num(8)), Set("p", Just(Ask("Point", "new", <<Num(64)>>))),
                  Show(Just(Ask("p", "plus", <<Num(3)>>))), Show(Just(Ask("p", "plus", <<Num(2)>>))),
                  Show(Just(Ask("Point", "total", << >>))), Show(The("made")), Leave>>)>>) >>

\* A name defined twice where no subroutine sees it.
Unseen ==
    << ClassWith("Main", InClassOf("field", <<"x", "x">>),
                 <<MainDoes(<< >>, <<Show(Num(1)), Leave>>)>>) >>

-----------------------------------------------------------------------------
\* Ill-formed programs: one subroutine each, after a class that is accepted.
After(kind, vars, parameters, locals, body) ==
    << Main(<<MainDoes(<< >>, <<Leave>>)>>),
       ClassWith("Point", vars, <<Does(kind, "total", parameters, locals, body)>>) >>

Fields == InClassOf("field", <<"x", "y">>)

IllFormed ==
    { After("method", InClassOf("field", <<"x", "x">>), << >>, << >>, <<Leave>>),
      After("function", InClassOf("field", <<"x">>) \o InClassOf("static", <<"made", "made">>),
            << >>, << >>, <<Leave>>),
      After("function", Fields, Of("int", <<"a">>), Var("int", <<"b", "a">>), <<Leave>>),
      After("function", Fields, << >>, << >>, <<Give(The("x"))>>),
      After("method", Fields, << >>, << >>, <<If(The("x"), <<Set("a", Num(0))>>, << >>), Leave>>),
      After("method", Fields, << >>, << >>, <<Give(Just(Element("a", Num(0))))>>),
      After("function", Fields, << >>, << >>, <<Tell("", "step", << >>), Leave>>),
      After("function", Fields, << >>, << >>, <<Give(Just(Keyword("this")))>>),
      After("method", Fields, << >>, << >>, <<Give(Just(Keyword("class")))>>),
      After("method", Fields, << >>, << >>,
            <<While(Expression(<<Integer(1), Variable("x"), Variable("y")>>, <<"+", "*">>),
                    << >>), Leave>>),
      << Main(<<MainDoes(<< >>, <<Leave>>),
                Does("function", "total", << >>, << >>, <<Give(The("a"))>>)>>) >> }

-----------------------------------------------------------------------------
\* The texts of programs.
MCCharacters == ("\"AB\"" :> <<6, 7>>)

TextsOf(program) == [n \in DOMAIN program |-> Parser!classXML(program[n])]

\* A class that has all the rules of the grammar in it.
Sample ==
    ClassWith("Point", <<[kind |-> "static", type |-> "Point", names |-> <<"a", "b">>]>>,
      << Does("method", "show", Of("int", <<"n">>) \o Of("Point", <<"p">>), Var("int", <<"i">>),
           <<SetElement("i", Just(Unary("-", In(Variable("a"), "+", Integer(1)))), The("n")),
             If(Just(Unary("~", Variable("n"))),
                <<Tell("", "step", <<The("a"), The("b")>>)>>, <<Leave>>),
             While(Just(Keyword("true")), <<Set("n", Just(Ask("p", "getX", << >>)))>>),
             Give(Just(Keyword("this")))>>) >>)

Edges ==
    {Parser!Symbol(v) : v \in {"(", ")", "{", "}", "[", "]", ".", ",", ";", "=", "-", "~"}}
    \cup {Parser!Word(v) : v \in {"let", "else", "return", "var", "void", "int", "class"}}
    \cup {Parser!Name("x"), Parser!Token("INT_CONSTANT", "1"), Parser!Token("STR_CONSTANT", "\"AB\"")}

Edited(text) ==
    UNION { {SubSeq(text, 1, n - 1), SubSeq(text, 1, n - 1) \o SubSeq(text, n + 1, Len(text)),
             SubSeq(text, 1, n) \o SubSeq(text, n, Len(text))}
            \cup {[text EXCEPT ![n] = edge] : edge \in Edges} : n \in DOMAIN text }
    \cup { [text EXCEPT ![n] = text[n + 1], ![n + 1] = text[n]] : n \in 1..(Len(text) - 1) }

\* An else with nothing in it, and something behind the class.
EmptyElse ==
    LET text == Parser!classXML(Main(<<MainDoes(<< >>, <<If(Num(1), <<Leave>>, <<Leave>>), Leave>>)>>))
        n == CHOOSE m \in DOMAIN text : text[m].value = "else"
    IN  SubSeq(text, 1, n + 1) \o SubSeq(text, n + 4, Len(text)) \o <<Parser!Word("class")>>

Empty == Parser!classXML(Main(<<MainDoes(<< >>, <<Leave>>)>>))

MCTexts ==
    {TextsOf(program) : program \in {Objects, Loops, Recursion, Hiding, Unseen} \cup IllFormed}
    \cup {<<EmptyElse>>}
    \cup {<<Empty, text>> : text \in Edited(Parser!classXML(Sample))}

\* The index of an element shows a word: it calls a subroutine with a do in it.
IndexCalls ==
    << Main(<<Does("function", "index", << >>, << >>, <<Show(Num(3)), Give(Num(1))>>),
         MainDoes(Var("Array", <<"a">>),
            <<Set("a", Just(Ask("Array", "new", <<Num(2)>>))),
              SetElement("a", Just(Ask("Main", "index", << >>)), Num(5)),
              Show(Just(Element("a", Num(1)))), Leave>>)>>) >>

MCElementTexts == {TextsOf(Recursion), TextsOf(IndexCalls)}

ClassesIn(directories) == {ClassesOf(files) : files \in directories}
Classes == ClassesIn(MCTexts)
MCInputs == Classes
MCElementInputs == ClassesIn(MCElementTexts)

MCIdentifier ==
    {"this", "int", "Array", "Point", "Main", "main", "fib", "index", "n", "a", "b", "i", "j", "p", "q",
     "x", "y", "made", "last", "sum", "other", "new", "getX", "step", "plus", "show", "total"}

BodiesOf(inputs) ==
    UNION { UNION {{input[c].subroutines[s].body : s \in DOMAIN input[c].subroutines} :
                      c \in DOMAIN input} : input \in inputs}
AllBodies == BodiesOf(Classes \cup MCElementInputs)
MCBodies == AllBodies

-----------------------------------------------------------------------------
\* The OS.
MCFirstObject == 20
MCShownAt == 46
MCHeap == 20..59

MCLibrary ==
    << [name |-> "Sys", commands |->
          <<Function("Sys.init", 0), Push("constant", MCFirstObject), Call("Memory.init", 1),
            Pop("temp", 0), Call("Main.main", 0), Pop("temp", 0),
            Branch("label", "END"), Branch("goto", "END")>>],
       [name |-> "Memory", commands |->
          <<Function("Memory.init", 0), Push("argument", 0), Pop("static", 0),
            Push("constant", 0), Return,
            Function("Memory.alloc", 0), Push("static", 0), Push("static", 0),
            Push("argument", 0), Logic("add"), Pop("static", 0), Return>>],
       [name |-> "Array", commands |->
          <<Function("Array.new", 0), Push("argument", 0), Call("Memory.alloc", 1), Return>>],
       [name |-> "Math", commands |->
          <<Function("Math.multiply", 1),
            Branch("label", "LOOP"), Push("argument", 1), Push("constant", 0), Logic("eq"),
            Branch("if-goto", "END"), Push("local", 0), Push("argument", 0), Logic("add"),
            Pop("local", 0), Push("argument", 1), Push("constant", 1), Logic("sub"),
            Pop("argument", 1), Branch("goto", "LOOP"),
            Branch("label", "END"), Push("local", 0), Return>>],
       [name |-> "String", commands |->
          <<Function("String.new", 0), Push("argument", 0), Return,
            Function("String.appendChar", 0), Push("argument", 1), Call("Out.print", 1),
            Pop("temp", 0), Push("argument", 0), Return>>],
       [name |-> "Out", commands |->
          <<Function("Out.print", 0), Push("constant", MCShownAt), Pop("pointer", 1),
            Push("that", 0), Push("constant", 1), Logic("add"), Pop("that", 0),
            Push("constant", MCShownAt), Push("that", 0), Logic("add"), Pop("pointer", 1),
            Push("argument", 0), Pop("that", 0), Push("constant", 0), Return>>] >>
=============================================================================
