------------------------------ MODULE OSOutput ------------------------------
(***************************************************************************)
(* OS/Output.jack: characters in the frames of a grid, and the cursor.  A  *)
(* display is that of OSScreen with the row and the column of the cursor.  *)
(* The bitmaps of the characters are an assumption of the model: a glyph   *)
(* is the set of the pixels of a frame, its column and its row.            *)
(***************************************************************************)
EXTENDS OSScreen, SequencesExt

CONSTANTS
    WIDTH, HEIGHT,        \* of a frame, in pixels (8 and 11)
    Printable,            \* the characters with a bitmap of their own (32..126)
    Glyph,                \* the bitmaps of Printable and of SQUARE
    SQUARE, NEWLINE, BACKSPACE      \* the characters 0, 128 and 129

ASSUME OutputAssumption ==
    /\ WIDTH \in Nat \ {0} /\ HEIGHT \in Nat \ {0}
    /\ X % WIDTH = 0 /\ Y >= HEIGHT
    /\ Printable \cap {SQUARE, NEWLINE, BACKSPACE} = {}
    /\ SQUARE # NEWLINE /\ SQUARE # BACKSPACE /\ NEWLINE # BACKSPACE
    /\ Glyph \in [Printable \cup {SQUARE} -> SUBSET ((0..(WIDTH - 1)) \X (0..(HEIGHT - 1)))]

COLS == X \div WIDTH
ROWS == Y \div HEIGHT

getMap(c) == Glyph[IF c \in Printable THEN c ELSE SQUARE]

\* Its range check never fails for the rows and columns of these calls.
moveCursor(display, i, j) == [display EXCEPT !.row = i, !.col = j]

println(display) ==
    IF display.row = ROWS - 1 THEN moveCursor(display, 0, 0)
    ELSE moveCursor(display, display.row + 1, 0)

\* In the first column the cursor stays where it is.
backSpace(display) ==
    moveCursor(display, display.row, IF display.col > 0 THEN display.col - 1 ELSE 0)

advance(display) ==
    IF display.col = COLS - 1 THEN println(display)
    ELSE moveCursor(display, display.row, display.col + 1)

\* The frame at the cursor is cleared, and the color is black from then on.
clearFrame(display) ==
    LET x == display.col * WIDTH
        y == display.row * HEIGHT
        white == setColor(display, FALSE)
    IN  setColor(drawRectangle(white, x, y, x + (WIDTH - 1), y + (HEIGHT - 1)).display, TRUE)

drawMap(display, c) ==
    Update(display, {Pixel(display.col * WIDTH + p[1], display.row * HEIGHT + p[2]) :
                        p \in getMap(c)})

\* Mutant of printChar: the frame is cleared only to draw a character.
printChar_KeepsFrame(display, c) ==
    CASE c = BACKSPACE -> backSpace(display)
      [] c = NEWLINE -> println(clearFrame(display))
      [] OTHER -> advance(drawMap(clearFrame(display), c))

printChar(display, c) ==
    LET cleared == clearFrame(display)
    IN  CASE c = BACKSPACE -> backSpace(cleared)
          [] c = NEWLINE -> println(cleared)
          [] OTHER -> advance(drawMap(cleared, c))

printString(display, s) ==
    LET after[n \in 0..Len(s)] ==
            IF n = 0 THEN display ELSE printChar(after[n - 1], s[n])
    IN  after[Len(s)]
=============================================================================
