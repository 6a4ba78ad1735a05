----------------------------- MODULE OSProgram -----------------------------
(***************************************************************************)
(* A program that calls the operating system: one call, of any operation   *)
(* of OSMath, OSScreen and OSKeyboard, with any arguments, from the        *)
(* displays a program may have made before it.                             *)
(***************************************************************************)
EXTENDS OSKeyboard

CONSTANTS
    Codes,              \* the characters of the texts intValue is called with
    MaxText,            \* bound: the length of those texts
    MaxRadius,          \* bound: the radius of circles
    Messages,           \* the messages of readLine
    Margin              \* bound: the words before and behind the screen

ASSUME MessagesAssumption ==
    Messages \subseteq Seq(Printable \cup {SQUARE, NEWLINE, BACKSPACE})

\* "Draws a filled circle of radius r<=181": the square of the radius fits a word.
ASSUME BoundsAssumption ==
    /\ MaxRadius \in Nat /\ MaxRadius * MaxRadius < MINIMUM
    /\ Margin \in Nat /\ MaxText \in Nat

VARIABLE call           \* the operation and its arguments

vars == <<consoleVars, call>>

Call(op, args) == [op |-> op, args |-> args]

BinaryOps == {"multiply", "divide", "mod", "max", "min"}
UnaryOps == {"abs", "sqrt", "intToString"}

Arithmetic ==
    \/ \E op \in BinaryOps, x, y \in Numbers : call = Call(op, <<x, y>>)
    \/ \E op \in UnaryOps, x \in Numbers : call = Call(op, <<x>>)
    \/ \E x \in Numbers, room \in 0..MaxText : call = Call("setInt", <<x, room>>)
    \/ \E text \in SeqOf(Codes, MaxText) : call = Call("intValue", text)

Columns == -1..X
Rows == -1..Y

\* drawRectangle and drawCircle do not look whether their pixels are on the
\* screen: the program does.
Drawing ==
    \/ \E x \in Columns, y \in Rows : call = Call("drawPixel", <<x, y>>)
    \/ \E x1, x2 \in Columns, y1, y2 \in Rows : call = Call("drawLine", <<x1, y1, x2, y2>>)
    \/ \E x1, x2 \in 0..(X - 1), y1, y2 \in 0..(Y - 1) :
          call = Call("drawRectangle", <<x1, y1, x2, y2>>)
    \/ \E r \in 0..MaxRadius : \E x \in r..(X - 1 - r), y \in r..(Y - 1 - r) :
          call = Call("drawCircle", <<x, y, r>>)
    \/ call = Call("clearScreen", <<>>)

\* White everywhere, and the color is black; or the reverse, around the screen
\* too.
Fresh == [lit |-> {}, color |-> TRUE, row |-> 0, col |-> 0]
Reversed ==
    [Fresh EXCEPT
        !.lit = (-Margin..(wordsPerRow * Y + Margin - 1)) \X FullMask,
        !.color = FALSE]

Init ==
    /\ \/ Arithmetic /\ display = Fresh /\ kbd = NOKEY
       \/ Drawing /\ display \in {Fresh, Reversed} /\ kbd = NOKEY
       \/ /\ \E message \in Messages : call = Call("readLine", message)
          /\ \E i \in 0..(ROWS - 1), j \in 0..(COLS - 1) : display = moveCursor(Fresh, i, j)
          /\ kbd \in Keys \cup {NOKEY}
    /\ pc = "called"
    /\ line = <<>> /\ key = NOKEY /\ result = 0
    /\ answered = FALSE /\ longest = 0
    /\ home = [row |-> 0, col |-> 0]

-----------------------------------------------------------------------------
Args == call.args

\* The operations on numbers: what each returns.
Evaluated ==
    CASE call.op = "multiply" -> multiply(Args[1], Args[2])
      [] call.op = "divide" -> divide(Args[1], Args[2])
      [] call.op = "mod" -> mod(Args[1], Args[2])
      [] call.op = "max" -> max(Args[1], Args[2])
      [] call.op = "min" -> min(Args[1], Args[2])
      [] call.op = "abs" -> abs(Args[1])
      [] call.op = "sqrt" -> sqrt(Args[1])
      [] call.op = "intValue" -> intValue(Args)

Evaluate ==
    /\ pc = "called"
    /\ call.op \in BinaryOps \cup {"abs", "sqrt", "intValue"}
    /\ result' = Evaluated
    /\ pc' = "done"
    /\ UNCHANGED <<display, kbd, line, key, answered, home, longest, call>>

\* The operations on strings: what each leaves in the string.
Convert ==
    /\ pc = "called"
    /\ call.op \in {"intToString", "setInt"}
    /\ line' = IF call.op = "setInt" THEN setInt(Args[1], Args[2]) ELSE intToString(Args[1])
    /\ pc' = "done"
    /\ UNCHANGED <<display, kbd, key, result, answered, home, longest, call>>

\* The operations on the screen.
Outcome ==
    CASE call.op = "drawPixel" -> drawPixel(display, Args[1], Args[2])
      [] call.op = "drawLine" -> drawLine(display, Args[1], Args[2], Args[3], Args[4])
      [] call.op = "drawRectangle" ->
            drawRectangle(display, Args[1], Args[2], Args[3], Args[4])
      [] call.op = "drawCircle" -> drawCircle(display, Args[1], Args[2], Args[3])
      [] call.op = "clearScreen" -> clearScreen(display)

Draw ==
    /\ pc = "called"
    /\ call.op \in {"drawPixel", "drawLine", "drawRectangle", "drawCircle", "clearScreen"}
    /\ LET outcome == Outcome
       IN  display' = outcome.display /\ result' = outcome.result
    /\ pc' = "done"
    /\ UNCHANGED <<kbd, line, key, answered, home, longest, call>>

CallReadLine ==
    /\ pc = "called"
    /\ call.op = "readLine"
    /\ readLine(Args)
    /\ UNCHANGED call

\* The user matters to the call that looks at the keyboard.
Strike == call.op = "readLine" /\ pc \notin {"returned", "halted"} /\ User

Next ==
    \/ Evaluate \/ Convert \/ Draw \/ CallReadLine
    \/ Reading /\ UNCHANGED call
    \/ Strike /\ UNCHANGED call

Spec == Init /\ [][Next]_vars

-----------------------------------------------------------------------------
(* Properties.                                                             *)

\* A difference that a word cannot hold compares the wrong way round.
Comparable(m, n) == m - n \in (-MINIMUM)..(MINIMUM - 1)

(* multiply, divide, mod, abs, max, min and sqrt return the mathematical   *)
(* result on two's complement numbers, wrapped to a word, at the smallest  *)
(* and the largest number too; a division by zero halts.  max and min are  *)
(* right when the difference of their arguments fits a word, and sqrt is   *)
(* defined from zero on.                                                   *)
CalculatesRight ==
    pc = "done" /\ call.op \in BinaryOps \cup {"abs", "sqrt"} =>
        LET x == Signed(Args[1])
            y == Signed(Args[Len(Args)])
        IN  CASE call.op = "multiply" -> result = Wrap(x * y)
              [] call.op = "divide" ->
                    result = IF y = 0 THEN Error(3) ELSE Wrap(Quotient(x, y))
              [] call.op = "mod" ->
                    result = IF y = 0 THEN Error(3) ELSE Wrap(x - Quotient(x, y) * y)
              [] call.op = "abs" -> result = Wrap(Magnitude(x))
              [] call.op = "sqrt" ->
                    x >= 0 => result * result <= x /\ x < (result + 1) * (result + 1)
              [] call.op = "max" ->
                    Comparable(x, y) => result = Wrap(IF x > y THEN x ELSE y)
              [] call.op = "min" ->
                    Comparable(x, y) => result = Wrap(IF x < y THEN x ELSE y)

(* A number survives being written and read: the text is a decimal numeral *)
(* of the number, without leading zeros, in a string that is just long     *)
(* enough; a shorter string is never overrun, the call halts.  Every text  *)
(* whose digits make a number that fits a word is read as that number, up  *)
(* to its first character that is no digit.                                *)
NumeralsSurvive ==
    pc = "done" =>
        /\ call.op = "intToString" =>
              /\ Denoted(line) = Signed(Args[1])
              /\ DigitsAhead(Unsigned(line)) = Unsigned(line)
              /\ Unsigned(line)[1] = ZERO => line = <<ZERO>>
              /\ intValue(line) =
                    IF Args[1] = MINIMUM THEN Error(10) ELSE Args[1]
        /\ call.op = "setInt" =>
              LET text == intToString(Args[1])
              IN  IF Len(text) <= Args[2] THEN line = text
                  ELSE line \in {<<Error(13)>>, <<Error(15)>>}
        /\ call.op = "intValue" =>
              IF Args = <<>> THEN result = Error(11)
              ELSE Magnitude(Denoted(Args)) < MINIMUM => result = Wrap(Denoted(Args))

-----------------------------------------------------------------------------
\* The points of the screen, as the hardware numbers them: row by row, and
\* from the lowest bit of a word to the highest.
PointsOf(pixels) ==
    LET place(p) == p[1] * word + p[2]
    IN  {<<place(p) % X, place(p) \div X>> : p \in pixels}

Box(x1, y1, x2, y2) ==
    (Least(x1, x2)..Greatest(x1, x2)) \X (Least(y1, y2)..Greatest(y1, y2))

Disc(x, y, r) ==
    {p \in Box(x - r, y - r, x + r, y + r) :
        (p[1] - x) * (p[1] - x) + (p[2] - y) * (p[2] - y) <= r * r}

\* A line from (x1, y1) to (x2, y2), both included: one point at each distance
\* from the start, each next to the one before, and none further than a step
\* from the straight line.
IsStaircase(points, x1, y1, x2, y2) ==
    LET dx == Magnitude(x2 - x1)
        dy == Magnitude(y2 - y1)
        Distance(p, q) == Magnitude(p[1] - q[1]) + Magnitude(p[2] - q[2])
        PointAt(d) == {p \in points : Distance(p, <<x1, y1>>) = d}
    IN  /\ points \subseteq Box(x1, y1, x2, y2)
        /\ \A d \in 0..(dx + dy) : \E p \in points : PointAt(d) = {p}
        /\ \A p \in points \ {<<x1, y1>>} : \E q \in points : Distance(p, q) = 1
        /\ \A p \in points :
              LET offset == dy * Magnitude(p[1] - x1) - dx * Magnitude(p[2] - y1)
              IN  -dx <= offset /\ offset < Greatest(dy, 1)

IsShape(points) ==
    CASE call.op = "drawPixel" -> points = {Args}
      [] call.op = "drawRectangle" -> points = Box(Args[1], Args[2], Args[3], Args[4])
      [] call.op = "drawCircle" -> points = Disc(Args[1], Args[2], Args[3])
      [] call.op = "drawLine" ->
            IF Args[2] = Args[4] THEN points = Box(Args[1], Args[2], Args[3], Args[4])
            ELSE IsStaircase(points, Args[1], Args[2], Args[3], Args[4])

\* The end of a line that is not horizontal: the loop stops before it draws it.
LineEnd ==
    IF call.op = "drawLine" /\ Args[2] # Args[4] THEN {<<Args[3], Args[4]>>} ELSE {}

\* The pixels by which two displays differ.
Painted(d, e) == IF d.color THEN e.lit \ d.lit ELSE d.lit \ e.lit

\* The pixels of the screen, without the memory around it.
ScreenPixels == (0..(wordsPerRow * Y - 1)) \X FullMask

\* What clearScreen may do: put out pixels of the screen.
OnlyErases ==
    /\ display' = [display EXCEPT !.lit = display'.lit]
    /\ display'.lit \subseteq display.lit
    /\ display.lit \ display'.lit \subseteq ScreenPixels

(* A drawing call changes the points of its shape and no other pixel of    *)
(* memory, in either color and however the shape lies across the words of  *)
(* a row, and keeps the color; a pixel or a line that is not wholly on the *)
(* screen halts before it has drawn anything (the error is shown then).    *)
(* Two calls are held to less than the comments of Screen.jack say of      *)
(* them: of a line that is not horizontal the end (x2, y2) may be missing  *)
(* (it is: LineIsStaircase), and clearScreen may leave pixels of the       *)
(* screen lit (it puts out none: ClearScreenErasesNothing), but lights     *)
(* none and keeps the words around the screen.                             *)
DrawsItsShape ==
    [][Draw =>
          LET painted == Painted(display, display')
          IN  IF call.op = "clearScreen" THEN OnlyErases
              ELSE /\ display' = Update(display, painted)
                   /\ IF result' = 0 THEN IsShape(PointsOf(painted) \cup LineEnd)
                      ELSE /\ painted = {}
                           /\ \/ ~OnScreen(Args[1], Args[2])
                              \/ call.op = "drawLine" /\ ~OnScreen(Args[3], Args[4])]_vars
=============================================================================
