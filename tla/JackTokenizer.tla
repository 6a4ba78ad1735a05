---------------------------- MODULE JackTokenizer ----------------------------
(***************************************************************************)
(* The tokenizer of the Jack compiler: a file is read line by line,        *)
(* comments are cut out of the line, and what is left is split into        *)
(* tokens, which wait in a buffer until they are eaten.                    *)
(*                                                                         *)
(* A line is a sequence of glyphs.  The delimiters, symbols and blanks are *)
(* glyphs of one character; a glyph may also be a whole word, a run of     *)
(* letters and digits.  Two words are next to each other only when a       *)
(* comment between them was cut out.                                       *)
(***************************************************************************)
EXTENDS Integers, Sequences, SequencesExt

CONSTANTS
    KEYWORDS,       \* words
    Names,          \* words that are identifiers
    Numbers,        \* words that are numbers up to 32767
    SYMBOLS,        \* glyphs of one character that are tokens
    Files           \* what may be read: non-empty sequences of lines

QUOTE == "\""
NEWLINE == "\n"
BLANK == " "
IGNORE_CHARS == {BLANK, "\t", NEWLINE, "\r"}

IsWord(glyph) == glyph \notin SYMBOLS \cup IGNORE_CHARS \cup {QUOTE}

\* A line as getline() leaves it: no newline, and each word is one glyph.
IsLine(line) ==
    /\ line \in Seq(STRING)
    /\ \A n \in DOMAIN line : line[n] # NEWLINE
    /\ \A n \in 1..(Len(line) - 1) : ~(IsWord(line[n]) /\ IsWord(line[n + 1]))

ASSUME GlyphsAssumption ==
    /\ {"/", "*"} \subseteq SYMBOLS
    /\ SYMBOLS \subseteq STRING /\ SYMBOLS \cap (IGNORE_CHARS \cup {QUOTE}) = {}
    /\ \A file \in Files :
          /\ Len(file) \in Nat \ {0} /\ DOMAIN file = 1..Len(file)
          /\ \A n \in DOMAIN file : IsLine(file[n])

VARIABLES
    file,                   \* the lines of the input
    lineNo,                 \* _lineNo
    hasMore,                \* _hasMore: the end of the file was not met
    inMultiLineComment,     \* _inMultiLineComment
    buffer,                 \* _crt_buffer
    eaten,                  \* history: the tokens given to the parser
    stage                   \* "reading", "done", "failed"

vars == <<file, lineNo, hasMore, inMultiLineComment, buffer, eaten, stage>>

SINGLE_LINE_COMMENT     == <<"/", "/">>
MULTILINE_COMMENT_BEGIN == <<"/", "*">>
MULTILINE_COMMENT_END   == <<"*", "/">>

-----------------------------------------------------------------------------
(* Comments.                                                               *)

Marked(line, i, mark) == SubSeq(line, i, i + 1) = mark

\* Where a delimiter begins; behind the line when it is not there.
search(line, mark) ==
    LET found == {i \in 1..(Len(line) - 1) : Marked(line, i, mark)}
    IN  IF found = {} THEN Len(line) + 1 ELSE CHOOSE i \in found : \A j \in found : i <= j

Found(line, mark) == search(line, mark) <= Len(line)

\* Behind the delimiter, or at the end of the line.
Behind(line, mark) == IF Found(line, mark) THEN search(line, mark) + 2 ELSE Len(line) + 1

\* string::erase from begin up to end.
erase(line, begin, end) == SubSeq(line, 1, begin - 1) \o SubSeq(line, end, Len(line))

\* What is left of a line once the comment that is open is over.
AfterOpenComment(line) ==
    IF inMultiLineComment THEN erase(line, 1, Behind(line, MULTILINE_COMMENT_END)) ELSE line

\* "Can't have end of multiline comment w/o corresponding start."
EndsUnopened(line) ==
    Found(line, MULTILINE_COMMENT_END) /\ ~Found(line, MULTILINE_COMMENT_BEGIN)

\* erase() with its bounds the wrong way round, which is undefined: the library
\* writes the text between them twice where there is room for it.
Reversed(line) ==
    /\ Found(line, MULTILINE_COMMENT_BEGIN)
    /\ search(line, MULTILINE_COMMENT_BEGIN) > Behind(line, MULTILINE_COMMENT_END)

\* Mutant of LeavesOpen: the flag is not cleared by the end of a comment.
LeavesOpen_Kept(line) ==
    IF line = << >> THEN inMultiLineComment ELSE Found(line, MULTILINE_COMMENT_BEGIN)

\* Whether the next line begins in a comment; an empty rest leaves it as it was.
LeavesOpen(line) ==
    IF line = << >>
    THEN inMultiLineComment /\ ~Found(file[lineNo + 1], MULTILINE_COMMENT_END)
    ELSE Found(line, MULTILINE_COMMENT_BEGIN) /\ ~Found(line, MULTILINE_COMMENT_END)

\* The line without its comments: one from the first delimiter to the first
\* that ends one, then what follows two slashes.
stripComments(line) ==
    LET rest == erase(line, search(line, MULTILINE_COMMENT_BEGIN),
                      Behind(line, MULTILINE_COMMENT_END))
    IN  IF LeavesOpen(line) THEN rest
        ELSE SubSeq(rest, 1, search(rest, SINGLE_LINE_COMMENT) - 1)

-----------------------------------------------------------------------------
(* Tokens.  The value of a token is the run of glyphs it is made of.       *)

\* Token::fromString of a run of words; "NONE" where it throws.
TypeOf(run) ==
    CASE Len(run) = 1 /\ run[1] \in KEYWORDS -> "KEYWORD"
      [] \A n \in DOMAIN run : run[n] \in Numbers -> "INT_CONSTANT"
      [] /\ run[1] \in Names \cup KEYWORDS
         /\ Len(run) > 1 \/ run[1] \in Names
         /\ \A n \in DOMAIN run : run[n] \in Names \cup KEYWORDS \cup Numbers -> "IDENTIFIER"
      [] OTHER -> "NONE"

Token(type, value, line) == [type |-> type, value |-> value, lineNo |-> line]
StringToken(run, line) == Token("STR_CONSTANT", <<QUOTE>> \o run \o <<QUOTE>>, line)

Flushed(reading, line) ==
    IF reading.run = << >> THEN reading.tokens
    ELSE Append(reading.tokens, Token(TypeOf(reading.run), reading.run, line))

\* The next glyph of a line.  reading: the tokens so far, the run since the
\* last separator, and whether it is between double quotes.
Read(reading, glyph, line) ==
    CASE glyph = QUOTE /\ reading.quoted ->
            [tokens |-> Append(reading.tokens, StringToken(reading.run, line)),
             run |-> << >>, quoted |-> FALSE]
      [] glyph = QUOTE /\ ~reading.quoted ->
            [tokens |-> Flushed(reading, line), run |-> << >>, quoted |-> TRUE]
      [] ~reading.quoted /\ glyph \in SYMBOLS ->
            [tokens |-> Append(Flushed(reading, line), Token("SYMBOL", <<glyph>>, line)),
             run |-> << >>, quoted |-> FALSE]
      [] ~reading.quoted /\ glyph \in IGNORE_CHARS ->
            [tokens |-> Flushed(reading, line), run |-> << >>, quoted |-> FALSE]
      [] OTHER -> [reading EXCEPT !.run = Append(@, glyph)]

tokenizeLine(glyphs, line) ==
    LET ended == Append(glyphs, BLANK)
        reading[n \in 0..Len(ended)] ==
            IF n = 0 THEN [tokens |-> << >>, run |-> << >>, quoted |-> FALSE]
            ELSE Read(reading[n - 1], ended[n], line)
    IN  reading[Len(ended)].tokens

\* "Ill formed string constants in line".
UnevenQuotes(glyphs) == Cardinality({n \in DOMAIN glyphs : glyphs[n] = QUOTE}) % 2 # 0

Throws(line) ==
    \/ EndsUnopened(line)
    \/ UnevenQuotes(stripComments(line))
    \/ LET tokens == tokenizeLine(stripComments(line), lineNo + 1)
       IN  \E n \in DOMAIN tokens : tokens[n].type = "NONE"

-----------------------------------------------------------------------------
Init ==
    /\ file \in Files
    /\ lineNo = 0 /\ hasMore = TRUE
    /\ inMultiLineComment = FALSE
    /\ buffer = << >> /\ eaten = << >>
    /\ stage = "reading"

\* hasMore() goes on to the next line while the buffer is empty.
Refilling == stage = "reading" /\ buffer = << >> /\ hasMore

NextLine == AfterOpenComment(file[lineNo + 1])

Refill ==
    /\ Refilling
    /\ ~Throws(NextLine)
    /\ lineNo' = lineNo + 1
    /\ hasMore' = (lineNo + 1 < Len(file))
    /\ buffer' = tokenizeLine(stripComments(NextLine), lineNo + 1)
    /\ inMultiLineComment' = LeavesOpen(NextLine)
    /\ UNCHANGED <<file, eaten, stage>>

\* A throw, or the failure of an erase() that is undefined.
Fail ==
    /\ Refilling
    /\ Throws(NextLine) \/ Reversed(NextLine)
    /\ lineNo' = lineNo + 1
    /\ stage' = "failed"
    /\ UNCHANGED <<file, hasMore, inMultiLineComment, buffer, eaten>>

\* getCurrentToken() and advance().
Eat ==
    /\ stage = "reading" /\ buffer # << >>
    /\ eaten' = Append(eaten, Head(buffer))
    /\ buffer' = Tail(buffer)
    /\ UNCHANGED <<file, lineNo, hasMore, inMultiLineComment, stage>>

End ==
    /\ stage = "reading" /\ buffer = << >> /\ ~hasMore
    /\ stage' = "done"
    /\ UNCHANGED <<file, lineNo, hasMore, inMultiLineComment, buffer, eaten>>

Next == Refill \/ Fail \/ Eat \/ End

Spec == Init /\ [][Next]_vars

-----------------------------------------------------------------------------
(* What the text of the file means, glyph by glyph: each is part of the    *)
(* code, of a string or of a comment, which depends on what comes before   *)
(* it in the file and not on how it is broken into lines.  The tokenizer   *)
(* looks for each delimiter once in a line instead, and is compared with   *)
(* this.                                                                   *)

\* The first lines of the file as one sequence of glyphs.
Text(lines) == FlattenSeq([n \in 1..lines |-> Append(file[n], NEWLINE)])

At(text, i, mark) == i < Len(text) /\ <<text[i], text[i + 1]>> = mark

\* The mode of the glyph behind the i-th, whose mode is given.  "opening" and
\* "closing" are the second halves of the delimiters of a block; "broken" is
\* behind a string that its line does not end.
ModeBehind(text, i, mode) ==
    CASE mode = "code" /\ At(text, i, MULTILINE_COMMENT_BEGIN) -> "opening"
      [] mode = "code" /\ At(text, i, SINGLE_LINE_COMMENT) -> "line"
      [] mode = "code" /\ text[i] = QUOTE -> "string"
      [] mode = "opening" -> "block"
      [] mode = "block" /\ At(text, i, MULTILINE_COMMENT_END) -> "closing"
      [] mode = "closing" -> "code"
      [] mode = "string" /\ text[i] = QUOTE -> "code"
      [] mode = "string" /\ text[i] = NEWLINE -> "broken"
      [] mode = "line" /\ text[i] = NEWLINE -> "code"
      [] OTHER -> mode

\* The modes of all glyphs, and of the end.
Modes(text) ==
    LET modes[n \in 0..Len(text)] ==
            IF n = 0 THEN <<"code">>
            ELSE LET before == modes[n - 1]
                 IN  Append(before, ModeBehind(text, n, before[n]))
    IN  modes[Len(text)]

LineOf(text, i) == 1 + Cardinality({n \in 1..(i - 1) : text[n] = NEWLINE})

Opens(text, modes, i) ==
    modes[i] = "code" /\ modes[i + 1] \in {"opening", "line", "string"}

\* The token that the i-th glyph ends, if it ends one.
TokenAt(text, modes, i) ==
    CASE modes[i] = "string" /\ text[i] = QUOTE ->
            LET begin == CHOOSE j \in 1..i : Opens(text, modes, j)
                             /\ \A k \in (j + 1)..i : modes[k] = "string"
            IN  <<StringToken(SubSeq(text, begin + 1, i - 1), LineOf(text, i))>>
      [] /\ modes[i] = "code" /\ ~Opens(text, modes, i)
         /\ text[i] \notin IGNORE_CHARS ->
            <<Token(IF text[i] \in SYMBOLS THEN "SYMBOL" ELSE TypeOf(<<text[i]>>),
                    <<text[i]>>, LineOf(text, i))>>
      [] OTHER -> << >>

Tokens(text, modes) == FlattenSeq([i \in DOMAIN text |-> TokenAt(text, modes, i)])

-----------------------------------------------------------------------------
(* The texts the tokenizer is made for.                                    *)

BlockMarks == {MULTILINE_COMMENT_BEGIN, MULTILINE_COMMENT_END}
Marks == BlockMarks \cup {SINGLE_LINE_COMMENT}

\* No delimiter where it has no meaning: in a string, in a comment that ends
\* with its line, overlapping the one that opens a block, or in the code.
NoStrayMark(text, modes, i) ==
    /\ modes[i] = "string" => \A mark \in Marks : ~At(text, i, mark)
    /\ modes[i] = "line" => \A mark \in BlockMarks : ~At(text, i, mark)
    /\ modes[i] \in {"code", "opening"} => ~At(text, i, MULTILINE_COMMENT_END)

OpensBlock(modes, i) == i + 1 \in DOMAIN modes /\ modes[i + 1] = "opening"

\* A line opens one block at most.
OneBlockALine(text, modes) ==
    \A i, j \in DOMAIN text :
        i < j /\ OpensBlock(modes, i) /\ OpensBlock(modes, j) =>
            LineOf(text, i) # LineOf(text, j)

\* A block does not keep two words of a line apart.
NoWordsJoined(text, modes) ==
    \A i, j \in DOMAIN text :
        /\ i < j /\ LineOf(text, i) = LineOf(text, j)
        /\ modes[i] = "code" /\ OpensBlock(modes, i + 1)
        /\ modes[j] = "code" /\ \A k \in (i + 2)..(j - 1) : modes[k] # "code"
        => ~(IsWord(text[i]) /\ IsWord(text[j]))

Plain(text, modes) ==
    /\ \A i \in DOMAIN text : NoStrayMark(text, modes, i)
    /\ OneBlockALine(text, modes)
    /\ NoWordsJoined(text, modes)

-----------------------------------------------------------------------------
(* The tokens read so far are those of the lines read so far, each with    *)
(* its line, and the flag carried to the next line says whether a comment  *)
(* is open, as long as the file is Plain; a file is refused at the first   *)
(* line that has something that is no token.                               *)
ReadsAsWritten ==
    LET text == Text(lineNo)
        modes == Modes(text)
        tokens == Tokens(text, modes)
        wrong == \/ "broken" \in ToSet(modes)
                 \/ \E n \in DOMAIN tokens : tokens[n].type = "NONE"
    IN  Plain(text, modes) =>
            /\ wrong <=> stage = "failed"
            /\ ~wrong => /\ eaten \o buffer = tokens
                         /\ inMultiLineComment <=> modes[Len(modes)] \in {"opening", "block"}
=============================================================================
