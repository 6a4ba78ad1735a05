------------------------------ MODULE OSScreen ------------------------------
(***************************************************************************)
(* OS/Screen.jack.  A display is a record: the pixels that are lit, each   *)
(* the address of its word (relative to the start of the screen) and the   *)
(* number of its bit; and the current color.  The words before and behind  *)
(* the screen have pixels too: the code computes addresses and does not    *)
(* look whether they are on the screen.                                    *)
(*                                                                         *)
(* A mask is the set of its bits.  The color does not change during a      *)
(* call, so a call is known by the pixels its masks cover.                 *)
(***************************************************************************)
EXTENDS OSMath

CONSTANTS X, Y,       \* columns and rows (512 and 256)
          word        \* pixels in a word (16)

ASSUME ScreenAssumption ==
    /\ X \in Nat \ {0} /\ Y \in Nat \ {0} /\ word \in Nat \ {0}
    /\ X % word = 0

wordsPerRow == X \div word

FullMask == 0..(word - 1)          \* true
EmptyMask == {}                    \* false

Cover(addr, mask) == {addr} \X mask

\* updateLocation, for all the masks of a call.
Update(display, pixels) ==
    [display EXCEPT !.lit = IF display.color THEN @ \cup pixels ELSE @ \ pixels]

setColor(display, b) == [display EXCEPT !.color = b]

-----------------------------------------------------------------------------
OnScreen(x, y) == x \in 0..(X - 1) /\ y \in 0..(Y - 1)

Pixel(x, y) == <<y * wordsPerRow + x \div word, x % word>>

Least(a, b) == IF a > b THEN b ELSE a
Greatest(a, b) == IF a > b THEN a ELSE b

\* Mutant of LineHorizontal: the whole words go on behind the last one.
LineHorizontal_StopsLate(a, b, y) ==
    LET x1 == Least(a, b)
        x2 == Greatest(a, b) + 1
        divX1 == x1 \div word        modX1 == x1 % word
        divX2 == x2 \div word        modX2 == x2 % word
        maskX1 == modX1..(word - 1)
        maskX2 == 0..(modX2 - 1)
        row == y * wordsPerRow
        partial == IF modX1 > 0 THEN 1 ELSE 0
        i == IF modX1 > 0 THEN x1 + (word - modX1) ELSE x1
        whole == {k \in 0..wordsPerRow : i + k * word < x2}
        col == divX1 + partial
    IN  IF divX1 = divX2 THEN Cover(row + divX1, maskX1 \cap maskX2)
        ELSE (IF modX1 > 0 THEN Cover(row + divX1, maskX1) ELSE {})
             \cup (UNION {Cover(row + col + k, FullMask) : k \in whole})
             \cup (IF modX2 > 0 THEN Cover(row + col + Cardinality(whole), maskX2)
                   ELSE {})

\* drawLineHorizontal: from x1 to the end of its word, the words in between,
\* and the last word up to x2, which is not drawn.
LineHorizontal(a, b, y) ==
    LET x1 == Least(a, b)
        x2 == Greatest(a, b) + 1
        divX1 == x1 \div word        modX1 == x1 % word
        divX2 == x2 \div word        modX2 == x2 % word
        maskX1 == modX1..(word - 1)
        maskX2 == 0..(modX2 - 1)
        row == y * wordsPerRow
        partial == IF modX1 > 0 THEN 1 ELSE 0
        i == IF modX1 > 0 THEN x1 + (word - modX1) ELSE x1
        stop == x2 - modX2
        whole == {k \in 0..wordsPerRow : i + k * word < stop}
        col == divX1 + partial
    IN  IF divX1 = divX2 THEN Cover(row + divX1, maskX1 \cap maskX2)
        ELSE (IF modX1 > 0 THEN Cover(row + divX1, maskX1) ELSE {})
             \cup (UNION {Cover(row + col + k, FullMask) : k \in whole})
             \cup (IF modX2 > 0 THEN Cover(row + col + Cardinality(whole), maskX2)
                   ELSE {})

\* The loop of drawLine, after at most n turns: it goes down or up unless diff
\* is negative.  It ends at (x2, y2), and a pixel off the screen halts it:
\* that takes no more than X + Y turns, each one column or one row onwards.
Walk(x1, y1, x2, y2) ==
    LET directionX == IF x1 < x2 THEN 1 ELSE -1
        directionY == IF y1 < y2 THEN 1 ELSE -1
        dx == Greatest(x1, x2) - Least(x1, x2)
        dy == Greatest(y1, y2) - Least(y1, y2)
        at[n \in 0..(X + Y)] ==
            IF n = 0 THEN [x |-> x1, y |-> y1, diff |-> 0]
            ELSE LET s == at[n - 1]
                 IN  IF (s.x = x2 /\ s.y = y2) \/ ~OnScreen(s.x, s.y) THEN s
                     ELSE IF s.diff < 0
                          THEN [x |-> s.x + directionX, y |-> s.y, diff |-> s.diff + dy]
                          ELSE [x |-> s.x, y |-> s.y + directionY, diff |-> s.diff - dx]
    IN  at

-----------------------------------------------------------------------------
(* The calls.  [display, result]: 0 is returned, or the call halts.        *)

Drawn(display, pixels) == [display |-> Update(display, pixels), result |-> 0]
Halted(display) == [display |-> display, result |-> Error(4)]

drawPixel(display, x, y) ==
    IF OnScreen(x, y) THEN Drawn(display, {Pixel(x, y)}) ELSE Halted(display)

drawLine(display, x1, y1, x2, y2) ==
    IF ~OnScreen(x1, y1) \/ ~OnScreen(x2, y2) THEN Halted(display)
    ELSE IF y1 = y2 THEN Drawn(display, LineHorizontal(x1, x2, y1))
    ELSE LET walk == Walk(x1, y1, x2, y2)
             met == {<<walk[n].x, walk[n].y>> : n \in DOMAIN walk}
             shown == {p \in met : OnScreen(p[1], p[2]) /\ p # <<x2, y2>>}
         IN  [display |-> Update(display, {Pixel(p[1], p[2]) : p \in shown}),
              result |-> IF <<x2, y2>> \in met THEN 0 ELSE Error(4)]

\* The loop over the rows repeats the text of drawLineHorizontal.
drawRectangle(display, x1, y1, x2, y2) ==
    Drawn(display,
          UNION {LineHorizontal(x1, x2, y) : y \in Least(y1, y2)..Greatest(y1, y2)})

drawCircle(display, x, y, r) ==
    Drawn(display,
          UNION {LET d == sqrt(Wrap(multiply(r, r) - multiply(h, h)))
                 IN  LineHorizontal(x - d, x + d, y + h)
                         \cup LineHorizontal(x - d, x + d, y - h) : h \in 0..r})

\* Every word gets the mask false, which covers no pixel.
clearScreen(display) ==
    Drawn(display, UNION {Cover(i, EmptyMask) : i \in 0..(wordsPerRow * Y - 1)})
=============================================================================
