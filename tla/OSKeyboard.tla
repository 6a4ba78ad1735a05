----------------------------- MODULE OSKeyboard -----------------------------
(***************************************************************************)
(* OS/Keyboard.jack: readLine, with the readChar it calls, while the user  *)
(* presses and releases keys.  The keyboard word holds the code of the key *)
(* that is down, or NOKEY; the program looks at it again and again and     *)
(* does not see what happens in between.  A key may go down before the one *)
(* before it is up.                                                        *)
(***************************************************************************)
EXTENDS OSOutput

CONSTANTS
    Keys,               \* the keys the user may press
    NOKEY,              \* 0
    MAX_LINE_LENGTH     \* 100

ASSUME KeyboardAssumption ==
    /\ NOKEY \notin Keys
    /\ SQUARE \notin Keys
    /\ NOKEY # NEWLINE
    /\ MAX_LINE_LENGTH \in Nat

VARIABLES
    display,
    kbd,                \* the word at ADDRESS
    pc,                 \* where the running call is
    line,               \* the buffer of readLine
    key,                \* the key readChar returned last; NOKEY before the first
    result,             \* what the call returned, or its error
    answered,           \* history: the key that is down has been read
    home,               \* history: where the echo of the line begins
    longest             \* history: the most characters the line has had

consoleVars == <<display, kbd, pc, line, key, result, answered, home, longest>>

-----------------------------------------------------------------------------
(* The user.                                                               *)

Press ==
    /\ \E k \in Keys \ {kbd} : kbd' = k
    /\ UNCHANGED <<display, pc, line, key, result, answered, home, longest>>

Release ==
    /\ kbd # NOKEY
    /\ kbd' = NOKEY
    /\ answered' = FALSE
    /\ UNCHANGED <<display, pc, line, key, result, home, longest>>

-----------------------------------------------------------------------------
(* readLine(message), from its call to its loop.                           *)

readLine(message) ==
    /\ display' = printString(display, message)
    /\ pc' = "loop"
    /\ line' = <<>> /\ key' = NOKEY
    /\ home' = [row |-> display'.row, col |-> display'.col]
    /\ longest' = 0
    /\ UNCHANGED <<kbd, result, answered>>

\* Mutant of HasRoom: one more character is read.
HasRoom_OneMore == Len(line) <= MAX_LINE_LENGTH

HasRoom == Len(line) < MAX_LINE_LENGTH

\* readChar begins: the square shows where the input will go.
Prompt ==
    /\ pc = "loop"
    /\ HasRoom /\ key # NEWLINE
    /\ display' = printChar(display, SQUARE)
    /\ pc' = "press"
    /\ UNCHANGED <<kbd, line, key, result, answered, home, longest>>

SeePress ==
    /\ pc = "press"
    /\ kbd # NOKEY
    /\ key' = kbd
    /\ answered' = TRUE
    /\ pc' = "release"
    /\ UNCHANGED <<display, kbd, line, result, home, longest>>

\* The square is erased, the key is shown and the buffer follows.
Echo ==
    /\ display' = printChar(printChar(display, BACKSPACE), key)
    /\ \/ /\ key = NEWLINE
          /\ pc' = "loop"
          /\ UNCHANGED <<line, result>>
       \/ /\ key = BACKSPACE /\ line = <<>>
          /\ pc' = "halted"
          /\ result' = Error(8)
          /\ UNCHANGED line
       \/ /\ key = BACKSPACE /\ line # <<>>
          /\ pc' = "loop"
          /\ line' = Front(line)
          /\ UNCHANGED result
       \/ /\ key \notin {NEWLINE, BACKSPACE}
          /\ pc' = "loop"
          /\ line' = Append(line, key)
          /\ UNCHANGED result
    /\ longest' = IF Len(line') > longest THEN Len(line') ELSE longest
    /\ UNCHANGED <<kbd, key, answered, home>>

\* Mutant of SeeRelease: the key is not waited for to go up.
SeeRelease_AtOnce == pc = "release" /\ Echo

SeeRelease ==
    /\ pc = "release"
    /\ kbd = NOKEY
    /\ Echo

\* Mutant of ReturnLine: a full line ends without a newline.
ReturnLine_NoNewline ==
    /\ pc = "loop"
    /\ ~HasRoom \/ key = NEWLINE
    /\ pc' = "returned"
    /\ result' = 0
    /\ UNCHANGED <<display, kbd, line, key, answered, home, longest>>

\* A line that is full ends without an enter key: its newline is printed here.
ReturnLine ==
    /\ pc = "loop"
    /\ ~HasRoom \/ key = NEWLINE
    /\ display' = IF Len(line) = MAX_LINE_LENGTH /\ key # NEWLINE
                  THEN printChar(display, NEWLINE) ELSE display
    /\ pc' = "returned"
    /\ result' = 0
    /\ UNCHANGED <<kbd, line, key, answered, home, longest>>

Reading == Prompt \/ SeePress \/ SeeRelease \/ ReturnLine

User == Press \/ Release

-----------------------------------------------------------------------------
(* Properties.                                                             *)

\* The cell at the given column of the row the echo began in.
Frame(col) ==
    {p \in (0..(WIDTH - 1)) \X (0..(HEIGHT - 1)) :
        Pixel(col * WIDTH + p[1], home.row * HEIGHT + p[2]) \in display.lit}

(* From the moment a key is down until no key is, readChar reads one       *)
(* character: a key that is held is not read again, and one that goes down *)
(* before the first is up is not read at all.                              *)
OneCharacterPerStroke == [][SeePress => ~answered]_consoleVars

(* While readLine waits for a key, the screen shows the buffer: the        *)
(* characters of the line from where the echo began, the square behind     *)
(* them and nothing in the frames that earlier, longer lines had used.     *)
(* This holds as long as the square has not been in the last column, where *)
(* it moves the cursor to the next row.                                    *)
EchoInStep ==
    pc \in {"press", "release"} /\ home.col + longest < COLS - 1 =>
        /\ \A k \in DOMAIN line : Frame(home.col + k - 1) = getMap(line[k])
        /\ Frame(home.col + Len(line)) = getMap(SQUARE)
        /\ \A k \in (Len(line) + 1)..longest : Frame(home.col + k) = {}

(* The buffer holds what the user typed and not erased, never the enter or *)
(* backspace key, and never more than its string has room for: appendChar  *)
(* does not halt, and nothing is written behind the array.                 *)
LineFits ==
    pc \in {"loop", "press", "release", "returned", "halted"} =>
        /\ line \in Seq(Keys \ {NEWLINE, BACKSPACE})
        /\ Len(line) <= MAX_LINE_LENGTH

(* A line that readLine returns is the line its echo shows, with the       *)
(* cursor at the start of the row below it, whether the user ended it or   *)
(* it was full.                                                            *)
ReturnsTheEcho ==
    pc = "returned" /\ home.col + longest < COLS - 1 =>
        /\ display.col = 0 /\ display.row = (home.row + 1) % ROWS
        /\ \A k \in DOMAIN line : Frame(home.col + k - 1) = getMap(line[k])
        /\ Frame(home.col + Len(line)) = {}
=============================================================================
