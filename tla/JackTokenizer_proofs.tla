------------------------ MODULE JackTokenizer_proofs ------------------------
(***************************************************************************)
(* The tokenizer reads a plain file as it is written, whatever its words,  *)
(* symbols and lines are.  The text is followed glyph by glyph, in modes;  *)
(* of each line, what is left once its comments are cut out is the code    *)
(* and the strings of it; and the tokens of that are those of the text.    *)
(***************************************************************************)
EXTENDS JackTokenizer, NaturalLemmas, SequenceTheorems, FiniteSetTheorems, TLAPS

\* What a text is made of.
Glyph == STRING \cup {QUOTE, NEWLINE, BLANK}

-----------------------------------------------------------------------------
(* Sequences.                                                              *)

(* A sequence and what is appended to it, glyph by glyph.                  *)
LEMMA Appended ==
    ASSUME NEW S, NEW s \in Seq(S), NEW x \in S
    PROVE  /\ Append(s, x) \in Seq(S)
           /\ Len(Append(s, x)) = Len(s) + 1
           /\ \A i \in 1..Len(s) : Append(s, x)[i] = s[i]
           /\ Append(s, x)[Len(s) + 1] = x
           /\ Append(s, x) = s \o <<x>>
  OBVIOUS

LEMMA Joining ==
    ASSUME NEW S, NEW s \in Seq(S), NEW t \in Seq(S)
    PROVE  /\ s \o t \in Seq(S)
           /\ Len(s \o t) = Len(s) + Len(t)
           /\ \A i \in 1..Len(s) : (s \o t)[i] = s[i]
           /\ \A i \in 1..Len(t) : (s \o t)[Len(s) + i] = t[i]
  OBVIOUS

LEMMA JoiningAssociates ==
    ASSUME NEW S, NEW a \in Seq(S), NEW b \in Seq(S), NEW c \in Seq(S)
    PROVE  (a \o b) \o c = a \o (b \o c)
  OBVIOUS

\* The part of a sequence from one position to another.
LEMMA Slice ==
    ASSUME NEW S, NEW s \in Seq(S), NEW a \in Int, NEW b \in Int,
           1 <= a, a <= b + 1, b <= Len(s)
    PROVE  /\ SubSeq(s, a, b) \in Seq(S)
           /\ Len(SubSeq(s, a, b)) = b - a + 1
           /\ \A i \in 1..(b - a + 1) : SubSeq(s, a, b)[i] = s[a + i - 1]
  OBVIOUS

(* Two sequences of one length with the same elements are one.             *)
LEMMA SameSequence ==
    ASSUME NEW S, NEW s \in Seq(S), NEW t \in Seq(S), Len(s) = Len(t),
           \A i \in 1..Len(s) : s[i] = t[i]
    PROVE  s = t
  OBVIOUS

\* f[n] is what the first n sequences make.
Flattened(seqs, f, S) ==
    /\ f \in [0..Len(seqs) -> Seq(S)]
    /\ f[0] = << >>
    /\ \A n \in 1..Len(seqs) : f[n] = f[n - 1] \o seqs[n]

LEMMA FlattenExists ==
    ASSUME NEW S, NEW seqs \in Seq(Seq(S))
    PROVE  \E f : Flattened(seqs, f, S)
<1> DEFINE step == [p \in (1..Len(seqs)) \X Seq(S) |-> p[2] \o seqs[p[1]]]
<1>1. step \in [(1..Len(seqs)) \X Seq(S) -> Seq(S)]
  OBVIOUS
<1>2. << >> \in Seq(S) /\ Len(seqs) \in Nat
  OBVIOUS
<1>3. PICK f : IsIteration(f, Len(seqs), Seq(S), << >>, step)
  <2> HIDE DEF step
  <2> QED
    BY <1>1, <1>2, Iterated
<1>4. \A n \in 1..Len(seqs) : f[n] = f[n - 1] \o seqs[n]
  <2> TAKE n \in 1..Len(seqs)
  <2>1. n - 1 \in 0..Len(seqs) /\ f[n - 1] \in Seq(S)
    <3> HIDE DEF step
    <3>1. n - 1 \in 0..Len(seqs)
      BY <1>2
    <3>2. f \in [0..Len(seqs) -> Seq(S)]
      BY <1>3 DEF IsIteration
    <3> QED
      BY <3>1, <3>2
  <2>2. <<n, f[n - 1]>> \in (1..Len(seqs)) \X Seq(S)
    BY <2>1
  <2>3. f[n] = step[<<n, f[n - 1]>>]
    <3> HIDE DEF step
    <3> QED
      BY <1>3 DEF IsIteration
  <2> QED
    BY <2>2, <2>3
<1> QED
  BY <1>3, <1>4 DEF IsIteration, Flattened

LEMMA FlattenIs ==
    ASSUME NEW S, NEW seqs \in Seq(Seq(S)), NEW f, Flattened(seqs, f, S)
    PROVE  FlattenSeq(seqs) = f[Len(seqs)]
<1> DEFINE flatten == [i \in 1..Len(seqs) |-> f[i]]
           Fix(g) == g = [i \in 1..Len(seqs) |->
                             IF i = 1 THEN seqs[i] ELSE g[i - 1] \o seqs[i]]
<1>0. Len(seqs) \in Nat
  OBVIOUS
<1>1. CASE Len(seqs) = 0
  <2>1. seqs = << >>
    BY <1>1
  <2> QED
    BY <1>1, <2>1 DEF FlattenSeq, Flattened
<1>2. CASE Len(seqs) # 0
  <2>1. Fix(flatten)
    <3>1. \A i \in 1..Len(seqs) :
             f[i] = IF i = 1 THEN seqs[i] ELSE flatten[i - 1] \o seqs[i]
      <4> TAKE i \in 1..Len(seqs)
      <4>1. f[i] = f[i - 1] \o seqs[i] /\ seqs[i] \in Seq(S)
        BY DEF Flattened
      <4>2. CASE i = 1
        <5>1. f[i - 1] = << >>
          BY <4>2 DEF Flattened
        <5>2. << >> \o seqs[i] = seqs[i]
          BY <4>1
        <5> QED
          BY <4>1, <4>2, <5>1, <5>2
      <4>3. CASE i # 1
        <5>1. i - 1 \in 1..Len(seqs)
          BY <1>0, <4>3
        <5>2. flatten[i - 1] = f[i - 1]
          BY <5>1
        <5> QED
          BY <4>1, <4>3, <5>2
      <4> QED
        BY <4>2, <4>3
    <3> QED
      BY <3>1
  <2>2. ASSUME NEW g, Fix(g) PROVE g = flatten
    <3> DEFINE Same == {i \in 0..Len(seqs) : i = 0 \/ g[i] = f[i]}
    <3>1. \A i \in 1..Len(seqs) : g[i] = IF i = 1 THEN seqs[i] ELSE g[i - 1] \o seqs[i]
      BY <2>2
    <3>2. \A i \in 1..Len(seqs) : flatten[i] = IF i = 1 THEN seqs[i] ELSE flatten[i - 1] \o seqs[i]
      BY <2>1
    <3>3. \A i \in 1..Len(seqs) : flatten[i] = f[i]
      OBVIOUS
    <3>4. \A i \in 0..Len(seqs) : i \in Same /\ i + 1 \in 0..Len(seqs) => i + 1 \in Same
      <4> SUFFICES ASSUME NEW i \in 0..Len(seqs), i \in Same, i + 1 \in 0..Len(seqs)
                   PROVE  g[i + 1] = f[i + 1]
        OBVIOUS
      <4>1. i + 1 \in 1..Len(seqs)
        BY <1>0
      <4> HIDE DEF flatten
      <4>2. CASE i = 0
        BY <4>1, <4>2, <3>1, <3>2, <3>3
      <4>3. CASE i # 0
        <5>1. i \in 1..Len(seqs) /\ g[i] = f[i] /\ i + 1 # 1 /\ (i + 1) - 1 = i
          BY <1>0, <4>3
        <5>2. g[i + 1] = g[i] \o seqs[i + 1]
          BY <3>1, <4>1, <5>1
        <5>3. flatten[i + 1] = flatten[i] \o seqs[i + 1]
          BY <3>2, <4>1, <5>1
        <5> QED
          BY <3>3, <4>1, <5>1, <5>2, <5>3
      <4> QED
        BY <4>2, <4>3
    <3>5. 0..Len(seqs) \subseteq Same
      <4>1. 0 \in Same
        BY <1>0
      <4> HIDE DEF Same
      <4> QED
        BY <1>0, <3>4, <4>1, UpTo
    <3>6. \A i \in 1..Len(seqs) : g[i] = f[i]
      BY <1>0, <3>5, SMTT(60)
    <3>7. g = [i \in 1..Len(seqs) |-> g[i]]
      BY <2>2
    <3> QED
      BY <3>6, <3>7
  <2>3. (CHOOSE g : Fix(g)) = flatten
    <3> HIDE DEF Fix, flatten
    <3>1. Fix(CHOOSE g : Fix(g))
      BY <2>1
    <3> QED
      BY <2>2, <3>1
  <2>4. FlattenSeq(seqs) = (CHOOSE g : Fix(g))[Len(seqs)]
    BY <1>2 DEF FlattenSeq
  <2>5. flatten[Len(seqs)] = f[Len(seqs)]
    BY <1>0, <1>2
  <2> QED
    <3> HIDE DEF Fix, flatten
    <3> QED
      BY <2>3, <2>4, <2>5
<1> QED
  BY <1>1, <1>2

(* A beginning of the sequences makes a beginning.                         *)
LEMMA FlattenBeginning ==
    ASSUME NEW S, NEW s \in Seq(Seq(S)), NEW t \in Seq(Seq(S)),
           NEW f, Flattened(s \o t, f, S)
    PROVE  FlattenSeq(s) = f[Len(s)]
<1> DEFINE g == [n \in 0..Len(s) |-> f[n]]
<1>1. /\ Len(s) \in Nat /\ Len(t) \in Nat
      /\ Len(s \o t) = Len(s) + Len(t)
      /\ \A n \in 1..Len(s) : (s \o t)[n] = s[n]
  OBVIOUS
<1>2. Flattened(s, g, S)
  <2>1. g \in [0..Len(s) -> Seq(S)]
    BY <1>1 DEF Flattened
  <2>2. g[0] = << >>
    BY <1>1 DEF Flattened
  <2>3. ASSUME NEW n \in 1..Len(s) PROVE g[n] = g[n - 1] \o s[n]
    <3>1. n \in 1..Len(s \o t) /\ n \in 0..Len(s) /\ n - 1 \in 0..Len(s)
      BY <1>1
    <3>2. f[n] = f[n - 1] \o s[n]
      BY <1>1, <3>1 DEF Flattened
    <3> QED
      BY <3>1, <3>2
  <2> HIDE DEF g
  <2> QED
    BY <2>1, <2>2, <2>3 DEF Flattened
<1>3. g[Len(s)] = f[Len(s)]
  BY <1>1
<1> HIDE DEF g
<1> QED
  BY <1>2, <1>3, FlattenIs

(* What the sequences that follow add.                                     *)
LEMMA FlattenFollowing ==
    ASSUME NEW S, NEW s \in Seq(Seq(S)), NEW t \in Seq(Seq(S)),
           NEW f, Flattened(t, f, S)
    PROVE  /\ FlattenSeq(s) \in Seq(S)
           /\ FlattenSeq(s \o t) = FlattenSeq(s) \o f[Len(t)]
<1>1. /\ Len(s) \in Nat /\ Len(t) \in Nat /\ s \o t \in Seq(Seq(S))
      /\ Len(s \o t) = Len(s) + Len(t)
      /\ \A n \in 1..Len(t) : (s \o t)[Len(s) + n] = t[n]
  BY Joining
<1>2. PICK g : Flattened(s \o t, g, S)
  BY <1>1, FlattenExists
<1>3. FlattenSeq(s) = g[Len(s)]
  BY <1>2, FlattenBeginning
<1>4. FlattenSeq(s \o t) = g[Len(s) + Len(t)]
  BY <1>1, <1>2, FlattenIs
<1>5. g[Len(s)] \in Seq(S)
  BY <1>1, <1>2 DEF Flattened
<1> DEFINE Same == {n \in 0..Len(t) : g[Len(s) + n] = g[Len(s)] \o f[n]}
<1>6. 0 \in Same
  <2>1. f[0] = << >> /\ Len(s) + 0 = Len(s) /\ 0 \in 0..Len(t)
    BY <1>1 DEF Flattened
  <2>2. g[Len(s)] \o << >> = g[Len(s)]
    BY <1>5
  <2> QED
    BY <2>1, <2>2
<1>7. ASSUME NEW n \in 0..Len(t), n \in Same, n + 1 \in 0..Len(t)
      PROVE  n + 1 \in Same
  <2>1. n + 1 \in 1..Len(t) /\ (n + 1) - 1 = n
    BY <1>1, <1>7
  <2>2. Len(s) + (n + 1) \in 1..Len(s \o t) /\ (Len(s) + (n + 1)) - 1 = Len(s) + n
    BY <1>1, <2>1
  <2>3. g[Len(s) + (n + 1)] = g[Len(s) + n] \o t[n + 1]
    BY <1>1, <1>2, <2>1, <2>2 DEF Flattened
  <2>4. f[n + 1] = f[n] \o t[n + 1]
    BY <2>1 DEF Flattened
  <2>5. f[n] \in Seq(S) /\ t[n + 1] \in Seq(S)
    <3>1. f \in [0..Len(t) -> Seq(S)] /\ n \in 0..Len(t)
      BY DEF Flattened
    <3>2. t \in [1..Len(t) -> Seq(S)]
      OBVIOUS
    <3> QED
      BY <2>1, <3>1, <3>2
  <2>6. (g[Len(s)] \o f[n]) \o t[n + 1] = g[Len(s)] \o (f[n] \o t[n + 1])
    <3>1. PICK a, b, c : a = g[Len(s)] /\ b = f[n] /\ c = t[n + 1]
      OBVIOUS
    <3>2. a \in Seq(S) /\ b \in Seq(S) /\ c \in Seq(S)
      BY <1>5, <2>5, <3>1
    <3>3. (a \o b) \o c = a \o (b \o c)
      BY ONLY <3>2, JoiningAssociates
    <3> QED
      BY ONLY <3>1, <3>3
  <2> QED
    BY <1>7, <2>3, <2>4, <2>6
<1>8. 0..Len(t) \subseteq Same
  <2> HIDE DEF Same
  <2> QED
    BY <1>1, <1>6, <1>7, UpTo
<1>9. g[Len(s) + Len(t)] = g[Len(s)] \o f[Len(t)]
  <2>1. Len(t) \in 0..Len(t)
    BY <1>1
  <2>2. Len(t) \in Same
    <3> HIDE DEF Same
    <3> QED
      BY <1>8, <2>1
  <2> QED
    BY <2>2
<1> QED
  BY <1>3, <1>4, <1>5, <1>9

LEMMA FlattenNone == FlattenSeq(<< >>) = << >>
  BY DEF FlattenSeq

LEMMA FlattenOne ==
    ASSUME NEW S, NEW s \in Seq(Seq(S)), NEW x \in Seq(S)
    PROVE  FlattenSeq(Append(s, x)) = FlattenSeq(s) \o x
<1> DEFINE f == [n \in 0..1 |-> IF n = 0 THEN << >> ELSE x]
<1>1. <<x>> \in Seq(Seq(S)) /\ Len(<<x>>) = 1 /\ <<x>>[1] = x
  OBVIOUS
<1>2. Flattened(<<x>>, f, S)
  <2>1. f \in [0..1 -> Seq(S)]
    OBVIOUS
  <2>2. f[0] = << >> /\ f[1] = x /\ f[1] = << >> \o x
    OBVIOUS
  <2> HIDE DEF f
  <2>3. \A n \in 1..1 : n = 1 /\ n - 1 = 0
    OBVIOUS
  <2>4. \A n \in 1..1 : f[n] = f[n - 1] \o <<x>>[n]
    BY <1>1, <2>2, <2>3
  <2> QED
    BY <1>1, <2>1, <2>2, <2>4 DEF Flattened
<1>3. f[1] = x
  OBVIOUS
<1>4. FlattenSeq(s \o <<x>>) = FlattenSeq(s) \o f[1]
  <2> HIDE DEF f
  <2> QED
    BY <1>1, <1>2, FlattenFollowing
<1> QED
  BY <1>3, <1>4, Appended

-----------------------------------------------------------------------------
(* Delimiters.                                                             *)

(* Where two glyphs of a line are a delimiter.                             *)
LEMMA MarkedIs ==
    ASSUME NEW line \in Seq(Glyph), NEW i \in 1..(Len(line) - 1), NEW a, NEW b
    PROVE  Marked(line, i, <<a, b>>) <=> line[i] = a /\ line[i + 1] = b
<1>1. /\ SubSeq(line, i, i + 1) \in Seq(Glyph) /\ Len(SubSeq(line, i, i + 1)) = 2
      /\ SubSeq(line, i, i + 1)[1] = line[i] /\ SubSeq(line, i, i + 1)[2] = line[i + 1]
  <2>1. Len(line) \in Nat
    OBVIOUS
  <2>2. i \in Int /\ i + 1 \in Int /\ i + 1 <= Len(line) /\ (i + 1) - i + 1 = 2 /\ i >= 1
    BY <2>1
  <2>3. /\ SubSeq(line, i, i + 1) \in Seq(Glyph)
        /\ Len(SubSeq(line, i, i + 1)) = 2
        /\ \A n \in 1..2 : SubSeq(line, i, i + 1)[n] = line[i + n - 1]
    <3> DEFINE last == i + 1
    <3>1. last \in Int /\ i \in Int /\ 1 <= i /\ i <= last + 1 /\ last <= Len(line) /\ last - i + 1 = 2
      BY <2>1, <2>2
    <3> HIDE DEF last
    <3>2. /\ SubSeq(line, i, last) \in Seq(Glyph)
          /\ Len(SubSeq(line, i, last)) = last - i + 1
          /\ \A n \in 1..(last - i + 1) : SubSeq(line, i, last)[n] = line[i + n - 1]
      BY <3>1, Slice
    <3>3. /\ SubSeq(line, i, last) \in Seq(Glyph)
          /\ Len(SubSeq(line, i, last)) = 2
          /\ \A n \in 1..2 : SubSeq(line, i, last)[n] = line[i + n - 1]
      BY <3>1, <3>2
    <3> QED
      BY <3>3 DEF last
  <2>4. i + 1 - 1 = i /\ i + 2 - 1 = i + 1
    BY <2>1
  <2> QED
    BY <2>3, <2>4
<1>2. SubSeq(line, i, i + 1) = <<line[i], line[i + 1]>>
  <2> DEFINE pair == SubSeq(line, i, i + 1)
  <2>1. pair \in Seq(Glyph) /\ Len(pair) = 2
    BY <1>1
  <2> HIDE DEF pair
  <2>2. pair = <<pair[1], pair[2]>>
    BY <2>1
  <2> QED
    BY <1>1, <2>2 DEF pair
<1> QED
  BY <1>2 DEF Marked

(* A search returns the first delimiter, or the place behind the line.     *)
LEMMA SearchIs ==
    ASSUME NEW line \in Seq(Glyph), NEW mark
    PROVE  /\ search(line, mark) \in 1..(Len(line) + 1)
           /\ search(line, mark) # Len(line)
           /\ Found(line, mark) <=> search(line, mark) < Len(line)
           /\ Found(line, mark) => Marked(line, search(line, mark), mark)
           /\ ~Found(line, mark) => search(line, mark) = Len(line) + 1
           /\ \A i \in 1..(Len(line) - 1) : i < search(line, mark) => ~Marked(line, i, mark)
<1> DEFINE found == {i \in 1..(Len(line) - 1) : Marked(line, i, mark)}
<1>1. Len(line) \in Nat
  OBVIOUS
<1>2. CASE found = {}
  <2>1. search(line, mark) = Len(line) + 1
    BY <1>2 DEF search
  <2> QED
    BY <1>1, <1>2, <2>1 DEF Found
<1>3. CASE found # {}
  <2>1. search(line, mark) = CHOOSE i \in found : \A j \in found : i <= j
    BY <1>3 DEF search
  <2>2. \E i \in found : \A j \in found : i <= j
    <3>1. found \in SUBSET Nat
      BY <1>1
    <3> HIDE DEF found
    <3> QED
      BY <1>3, <3>1, LeastNatural
  <2>3. search(line, mark) \in found /\ \A j \in found : search(line, mark) <= j
    <3> HIDE DEF found
    <3> QED
      BY <2>1, <2>2
  <2> QED
    BY <1>1, <2>3 DEF Found
<1> QED
  BY <1>2, <1>3

-----------------------------------------------------------------------------
(* Modes.                                                                  *)

ModeNames == {"code", "opening", "line", "string", "block", "closing", "broken"}

(* A delimiter in a text is two glyphs of it.                              *)
LEMMA AtIs ==
    ASSUME NEW text, NEW i, NEW a, NEW b
    PROVE  At(text, i, <<a, b>>) <=> i < Len(text) /\ text[i] = a /\ text[i + 1] = b
  BY DEF At

LEMMA GlyphsDiffer ==
    /\ QUOTE \in Glyph /\ NEWLINE \in Glyph /\ BLANK \in Glyph
    /\ QUOTE # "/" /\ QUOTE # "*" /\ QUOTE # NEWLINE /\ QUOTE # BLANK /\ BLANK # NEWLINE
    /\ NEWLINE # "/" /\ NEWLINE # "*" /\ "/" # "*"
    /\ NEWLINE \in IGNORE_CHARS /\ BLANK \in IGNORE_CHARS
    /\ QUOTE \notin IGNORE_CHARS /\ "/" \notin IGNORE_CHARS /\ "*" \notin IGNORE_CHARS
    /\ MULTILINE_COMMENT_BEGIN = <<"/", "*">> /\ MULTILINE_COMMENT_END = <<"*", "/">>
    /\ SINGLE_LINE_COMMENT = <<"/", "/">>
<1>1. QUOTE \in Glyph /\ NEWLINE \in Glyph /\ BLANK \in Glyph
  BY DEF Glyph
<1> QED
  BY <1>1 DEF QUOTE, NEWLINE, BLANK, IGNORE_CHARS, MULTILINE_COMMENT_BEGIN,
              MULTILINE_COMMENT_END, SINGLE_LINE_COMMENT

(* The mode behind a glyph, by the mode of the glyph.                      *)
LEMMA ModeFacts ==
    ASSUME NEW text, NEW i
    PROVE  /\ At(text, i, MULTILINE_COMMENT_BEGIN) => ModeBehind(text, i, "code") = "opening"
           /\ At(text, i, SINGLE_LINE_COMMENT) => ModeBehind(text, i, "code") = "line"
           /\ text[i] = QUOTE => ModeBehind(text, i, "code") = "string"
           /\ /\ ~At(text, i, MULTILINE_COMMENT_BEGIN) /\ ~At(text, i, SINGLE_LINE_COMMENT)
              /\ text[i] # QUOTE
              => ModeBehind(text, i, "code") = "code"
           /\ ModeBehind(text, i, "opening") = "block"
           /\ At(text, i, MULTILINE_COMMENT_END) => ModeBehind(text, i, "block") = "closing"
           /\ ~At(text, i, MULTILINE_COMMENT_END) => ModeBehind(text, i, "block") = "block"
           /\ ModeBehind(text, i, "closing") = "code"
           /\ text[i] = QUOTE => ModeBehind(text, i, "string") = "code"
           /\ text[i] = NEWLINE => ModeBehind(text, i, "string") = "broken"
           /\ text[i] # QUOTE /\ text[i] # NEWLINE => ModeBehind(text, i, "string") = "string"
           /\ text[i] = NEWLINE => ModeBehind(text, i, "line") = "code"
           /\ text[i] # NEWLINE => ModeBehind(text, i, "line") = "line"
           /\ ModeBehind(text, i, "broken") = "broken"
<1>1. /\ ~(At(text, i, MULTILINE_COMMENT_BEGIN) /\ At(text, i, SINGLE_LINE_COMMENT))
      /\ ~(At(text, i, MULTILINE_COMMENT_BEGIN) /\ text[i] = QUOTE)
      /\ ~(At(text, i, SINGLE_LINE_COMMENT) /\ text[i] = QUOTE)
  <2>1. /\ At(text, i, MULTILINE_COMMENT_BEGIN) => text[i] = "/" /\ text[i + 1] = "*"
        /\ At(text, i, SINGLE_LINE_COMMENT) => text[i] = "/" /\ text[i + 1] = "/"
    BY AtIs DEF MULTILINE_COMMENT_BEGIN, SINGLE_LINE_COMMENT
  <2> QED
    BY <2>1, GlyphsDiffer
<1>2. ~(text[i] = QUOTE /\ text[i] = NEWLINE)
  BY GlyphsDiffer
<1>3. ASSUME NEW a, a = "code"
      PROVE  /\ At(text, i, MULTILINE_COMMENT_BEGIN) => ModeBehind(text, i, a) = "opening"
             /\ At(text, i, SINGLE_LINE_COMMENT) => ModeBehind(text, i, a) = "line"
             /\ text[i] = QUOTE => ModeBehind(text, i, a) = "string"
             /\ /\ ~At(text, i, MULTILINE_COMMENT_BEGIN) /\ ~At(text, i, SINGLE_LINE_COMMENT)
                /\ text[i] # QUOTE
                => ModeBehind(text, i, a) = "code"
  BY <1>1, <1>3 DEF ModeBehind
<1>4. ModeBehind(text, i, "opening") = "block" /\ ModeBehind(text, i, "closing") = "code"
  BY DEF ModeBehind
<1>5. /\ At(text, i, MULTILINE_COMMENT_END) => ModeBehind(text, i, "block") = "closing"
      /\ ~At(text, i, MULTILINE_COMMENT_END) => ModeBehind(text, i, "block") = "block"
  BY DEF ModeBehind
<1>6. /\ text[i] = QUOTE => ModeBehind(text, i, "string") = "code"
      /\ text[i] = NEWLINE => ModeBehind(text, i, "string") = "broken"
      /\ text[i] # QUOTE /\ text[i] # NEWLINE => ModeBehind(text, i, "string") = "string"
  BY <1>2 DEF ModeBehind
<1>7. /\ text[i] = NEWLINE => ModeBehind(text, i, "line") = "code"
      /\ text[i] # NEWLINE => ModeBehind(text, i, "line") = "line"
  BY DEF ModeBehind
<1>8. ModeBehind(text, i, "broken") = "broken"
  BY DEF ModeBehind
<1> QED
  BY <1>3, <1>4, <1>5, <1>6, <1>7, <1>8

LEMMA ModeTyped ==
    ASSUME NEW text, NEW i, NEW mode \in ModeNames
    PROVE  ModeBehind(text, i, mode) \in ModeNames
  BY ModeFacts DEF ModeNames

\* Each mode is the one behind the glyph before.
Chained(text, m) ==
    /\ m \in Seq(ModeNames) /\ Len(m) = Len(text) + 1
    /\ \A i \in 1..Len(text) : m[i + 1] = ModeBehind(text, i, m[i])

LEMMA ModesChained ==
    ASSUME NEW text \in Seq(Glyph)
    PROVE  Chained(text, Modes(text)) /\ Modes(text)[1] = "code"
<1> DEFINE V == Seq(ModeNames)
           step == [p \in (1..Len(text)) \X V |->
                       IF p[1] \in 1..Len(p[2])
                       THEN Append(p[2], ModeBehind(text, p[1], p[2][p[1]]))
                       ELSE p[2]]
           Fix(g) == g = [n \in 0..Len(text) |->
                             IF n = 0 THEN <<"code">>
                             ELSE Append(g[n - 1], ModeBehind(text, n, g[n - 1][n]))]
<1>0. Len(text) \in Nat
  OBVIOUS
<1>1. step \in [(1..Len(text)) \X V -> V]
  <2>1. ASSUME NEW p \in (1..Len(text)) \X V, p[1] \in 1..Len(p[2])
        PROVE  Append(p[2], ModeBehind(text, p[1], p[2][p[1]])) \in V
    <3>1. p[2] \in Seq(ModeNames) /\ p[2][p[1]] \in ModeNames
      BY <2>1
    <3>2. PICK mode : mode = ModeBehind(text, p[1], p[2][p[1]])
      OBVIOUS
    <3>3. mode \in ModeNames
      BY <3>1, <3>2, ModeTyped
    <3> QED
      BY <3>1, <3>2, <3>3
  <2>2. \A p \in (1..Len(text)) \X V : step[p] \in V
    BY <2>1
  <2> QED
    BY <2>2
<1>2. PICK f : IsIteration(f, Len(text), V, <<"code">>, step)
  <2>1. <<"code">> \in V
    BY DEF ModeNames
  <2> HIDE DEF step, V
  <2> QED
    BY <1>0, <1>1, <2>1, Iterated
<1>3. f \in [0..Len(text) -> V] /\ f[0] = <<"code">>
  <2> HIDE DEF step, V
  <2> QED
    BY <1>2 DEF IsIteration
<1>4. \A n \in 1..Len(text) :
         f[n] = IF n \in 1..Len(f[n - 1])
                THEN Append(f[n - 1], ModeBehind(text, n, f[n - 1][n])) ELSE f[n - 1]
  <2> TAKE n \in 1..Len(text)
  <2>1. n - 1 \in 0..Len(text)
    BY <1>0
  <2>2. <<n, f[n - 1]>> \in (1..Len(text)) \X V
    BY <1>3, <2>1
  <2>3. f[n] = step[<<n, f[n - 1]>>]
    <3> HIDE DEF step, V
    <3> QED
      BY <1>2 DEF IsIteration
  <2> QED
    BY <2>2, <2>3
<1> DEFINE Good(n) == /\ Len(f[n]) = n + 1 /\ f[n][1] = "code"
                      /\ \A i \in 1..n : f[n][i + 1] = ModeBehind(text, i, f[n][i])
           T == {n \in 0..Len(text) : Good(n)}
<1>5. 0 \in T
  <2>1. Len(f[0]) = 1 /\ f[0][1] = "code"
    BY <1>3
  <2> HIDE DEF step
  <2> QED
    BY <1>0, <2>1
<1>6. ASSUME NEW n \in 0..Len(text), n \in T, n + 1 \in 0..Len(text)
      PROVE  n + 1 \in T
  <2>1. f[n] \in Seq(ModeNames) /\ Len(f[n]) = n + 1 /\ f[n][1] = "code"
    BY <1>3, <1>6
  <2>2. n + 1 \in 1..Len(text) /\ (n + 1) - 1 = n /\ n + 1 \in 1..Len(f[n])
    BY <1>0, <1>6, <2>1
  <2>3. PICK mode : mode = ModeBehind(text, n + 1, f[n][n + 1])
    OBVIOUS
  <2>4. f[n + 1] = Append(f[n], mode)
    <3> HIDE DEF step, T
    <3> QED
      BY <1>4, <2>2, <2>3
  <2>5. mode \in ModeNames
    <3>1. f[n][n + 1] \in ModeNames
      BY <2>1, <2>2
    <3> QED
      BY <2>3, <3>1, ModeTyped
  <2>6. /\ Len(f[n + 1]) = (n + 1) + 1
        /\ \A i \in 1..(n + 1) : f[n + 1][i] = f[n][i]
        /\ f[n + 1][(n + 1) + 1] = mode
    BY <2>1, <2>4, <2>5, Appended
  <2>7. \A i \in 1..n : f[n][i + 1] = ModeBehind(text, i, f[n][i])
    BY <1>6
  <2>8. \A i \in 1..(n + 1) : f[n + 1][i + 1] = ModeBehind(text, i, f[n + 1][i])
    <3> TAKE i \in 1..(n + 1)
    <3>1. CASE i = n + 1
      BY <2>3, <2>6, <3>1
    <3>2. CASE i # n + 1
      <4>1. i \in 1..n /\ i + 1 \in 1..(n + 1)
        BY <1>6, <3>2
      <4>2. f[n + 1][i + 1] = f[n][i + 1] /\ f[n + 1][i] = f[n][i]
        BY <2>6, <4>1
      <4> QED
        BY <2>7, <4>1, <4>2
    <3> QED
      BY <3>1, <3>2
  <2>9. f[n + 1][1] = "code"
    BY <1>6, <2>1, <2>6
  <2> QED
    BY <1>6, <2>6, <2>8, <2>9
<1>7. \A n \in 0..Len(text) : Good(n)
  <2>1. 0..Len(text) \subseteq T
    <3> HIDE DEF T, step
    <3> QED
      BY <1>0, <1>5, <1>6, UpTo
  <2> QED
    BY <2>1
<1>8. Fix(f)
  <2>1. ASSUME NEW n \in 1..Len(text)
        PROVE  f[n] = Append(f[n - 1], ModeBehind(text, n, f[n - 1][n]))
    <3>1. n - 1 \in 0..Len(text) /\ (n - 1) + 1 = n
      BY <1>0
    <3>2. Len(f[n - 1]) = (n - 1) + 1
      <4> HIDE DEF step
      <4> QED
        BY <1>7, <3>1
    <3>3. n \in 1..Len(f[n - 1])
      BY <3>1, <3>2
    <3> HIDE DEF step, V
    <3> QED
      BY <1>4, <3>3
  <2>2. \A n \in 0..Len(text) :
           f[n] = IF n = 0 THEN <<"code">>
                  ELSE Append(f[n - 1], ModeBehind(text, n, f[n - 1][n]))
    <3>1. f[0] = <<"code">>
      BY <1>3
    <3>2. \A n \in 0..Len(text) : n = 0 \/ n \in 1..Len(text)
      BY <1>0
    <3> HIDE DEF step, V
    <3> QED
      BY <2>1, <3>1, <3>2
  <2> HIDE DEF step
  <2> QED
    BY <1>3, <2>2
<1>9. ASSUME NEW g, Fix(g) PROVE g = f
  <2> DEFINE Same == {n \in 0..Len(text) : g[n] = f[n]}
  <2>1. \A n \in 0..Len(text) : g[n] = IF n = 0 THEN <<"code">>
                                ELSE Append(g[n - 1], ModeBehind(text, n, g[n - 1][n]))
    BY <1>9
  <2>2. \A n \in 0..Len(text) : f[n] = IF n = 0 THEN <<"code">>
                                ELSE Append(f[n - 1], ModeBehind(text, n, f[n - 1][n]))
    BY <1>8
  <2>3. 0 \in Same
    BY <1>0, <2>1, <2>2
  <2>4. ASSUME NEW n \in 0..Len(text), n \in Same, n + 1 \in 0..Len(text)
        PROVE  n + 1 \in Same
    <3>1. n + 1 # 0 /\ (n + 1) - 1 = n
      BY <2>4
    <3>2. g[n + 1] = Append(g[n], ModeBehind(text, n + 1, g[n][n + 1]))
      BY <2>1, <2>4, <3>1
    <3>3. f[n + 1] = Append(f[n], ModeBehind(text, n + 1, f[n][n + 1]))
      BY <2>2, <2>4, <3>1
    <3> QED
      BY <2>4, <3>2, <3>3
  <2>5. 0..Len(text) \subseteq Same
    <3> HIDE DEF Same, Fix, step
    <3> QED
      BY <1>0, <2>3, <2>4, UpTo
  <2>6. \A n \in 0..Len(text) : g[n] = f[n]
    BY <2>5
  <2>7. g = [n \in 0..Len(text) |-> g[n]]
    BY <1>9
  <2>8. f = [n \in 0..Len(text) |-> f[n]]
    BY <1>3
  <2> QED
    BY <2>6, <2>7, <2>8
<1>10. Modes(text) = f[Len(text)]
  <2>1. Modes(text) = (CHOOSE g : Fix(g))[Len(text)]
    BY DEF Modes
  <2>2. (CHOOSE g : Fix(g)) = f
    <3> HIDE DEF Fix
    <3>1. Fix(CHOOSE g : Fix(g))
      BY <1>8
    <3> QED
      BY <1>9, <3>1
  <2> HIDE DEF Fix
  <2> QED
    BY <2>1, <2>2
<1>11. Len(text) \in 0..Len(text)
  BY <1>0
<1>12. Good(Len(text)) /\ f[Len(text)] \in Seq(ModeNames)
  <2>1. f[Len(text)] \in V
    BY <1>3, <1>11
  <2> QED
    BY <1>7, <1>11, <2>1
<1> QED
  <2> HIDE DEF step, Fix
  <2> QED
    BY <1>10, <1>12 DEF Chained

-----------------------------------------------------------------------------
(* Reading glyphs.                                                         *)

TypeNames == {"KEYWORD", "INT_CONSTANT", "IDENTIFIER", "NONE", "SYMBOL", "STR_CONSTANT"}
TokenSet == [type : TypeNames, value : Seq(Glyph), lineNo : Int]
Readings == [tokens : Seq(TokenSet), run : Seq(Glyph), quoted : BOOLEAN]

LEMMA TypeOfTyped == ASSUME NEW run PROVE TypeOf(run) \in TypeNames
  BY DEF TypeOf, TypeNames

LEMMA TokensTyped ==
    ASSUME NEW run \in Seq(Glyph), NEW line \in Int
    PROVE  /\ Token(TypeOf(run), run, line) \in TokenSet
           /\ Token("SYMBOL", run, line) \in TokenSet
           /\ StringToken(run, line) \in TokenSet
<1>1. \A type \in TypeNames, value \in Seq(Glyph) : Token(type, value, line) \in TokenSet
  BY DEF Token, TokenSet
<1>2. TypeOf(run) \in TypeNames /\ "SYMBOL" \in TypeNames /\ "STR_CONSTANT" \in TypeNames
  BY TypeOfTyped DEF TypeNames
<1>3. <<QUOTE>> \o run \o <<QUOTE>> \in Seq(Glyph)
  <2>1. <<QUOTE>> \in Seq(Glyph)
    <3>1. QUOTE \in Glyph
      BY GlyphsDiffer
    <3> QED
      BY ONLY <3>1
  <2>2. <<QUOTE>> \o run \in Seq(Glyph)
    BY <2>1
  <2> QED
    BY <2>1, <2>2
<1> QED
  BY <1>1, <1>2, <1>3 DEF StringToken

LEMMA FlushedIs ==
    ASSUME NEW R \in Readings, NEW line \in Int
    PROVE  /\ Flushed(R, line) \in Seq(TokenSet)
           /\ R.run = << >> => Flushed(R, line) = R.tokens
           /\ R.run # << >> =>
                 Flushed(R, line) = Append(R.tokens, Token(TypeOf(R.run), R.run, line))
<1>1. R.tokens \in Seq(TokenSet) /\ R.run \in Seq(Glyph)
  BY DEF Readings
<1>2. PICK token : token = Token(TypeOf(R.run), R.run, line)
  OBVIOUS
<1>3. token \in TokenSet
  BY <1>1, <1>2, TokensTyped
<1>4. Append(R.tokens, token) \in Seq(TokenSet)
  BY <1>1, <1>3
<1> QED
  BY <1>1, <1>2, <1>4 DEF Flushed

(* What is read, by the kind of the glyph.                                 *)
LEMMA ReadIs ==
    ASSUME NEW R \in Readings, NEW g \in Glyph, NEW line \in Int
    PROVE  /\ g = QUOTE /\ R.quoted =>
                 Read(R, g, line) = [tokens |-> Append(R.tokens, StringToken(R.run, line)),
                                     run |-> << >>, quoted |-> FALSE]
           /\ g = QUOTE /\ ~R.quoted =>
                 Read(R, g, line) = [tokens |-> Flushed(R, line),
                                     run |-> << >>, quoted |-> TRUE]
           /\ ~R.quoted /\ g \in SYMBOLS =>
                 Read(R, g, line) =
                    [tokens |-> Append(Flushed(R, line), Token("SYMBOL", <<g>>, line)),
                     run |-> << >>, quoted |-> FALSE]
           /\ ~R.quoted /\ g \in IGNORE_CHARS =>
                 Read(R, g, line) = [tokens |-> Flushed(R, line),
                                     run |-> << >>, quoted |-> FALSE]
           /\ (R.quoted /\ g # QUOTE) \/ (~R.quoted /\ IsWord(g)) =>
                 Read(R, g, line) = [tokens |-> R.tokens,
                                     run |-> Append(R.run, g), quoted |-> R.quoted]
<1>1. /\ R.quoted \in BOOLEAN
      /\ \A x : [R EXCEPT !.run = x] = [tokens |-> R.tokens, run |-> x, quoted |-> R.quoted]
  BY DEF Readings
<1>2. /\ g = QUOTE => g \notin SYMBOLS /\ g \notin IGNORE_CHARS
      /\ g \in SYMBOLS => g \notin IGNORE_CHARS
  BY GlyphsDiffer, GlyphsAssumption
<1>3. IsWord(g) <=> g \notin SYMBOLS /\ g \notin IGNORE_CHARS /\ g # QUOTE
  BY DEF IsWord
<1>4. CASE g = QUOTE /\ R.quoted
  BY <1>2, <1>3, <1>4 DEF Read
<1>5. CASE g = QUOTE /\ ~R.quoted
  BY <1>2, <1>3, <1>5 DEF Read
<1>6. CASE ~R.quoted /\ g \in SYMBOLS
  BY <1>2, <1>3, <1>6 DEF Read
<1>7. CASE ~R.quoted /\ g \in IGNORE_CHARS
  BY <1>2, <1>3, <1>7 DEF Read
<1>8. CASE (R.quoted /\ g # QUOTE) \/ (~R.quoted /\ IsWord(g))
  <2>1. Read(R, g, line) = [R EXCEPT !.run = Append(R.run, g)]
    BY <1>2, <1>3, <1>8 DEF Read
  <2> QED
    BY <1>1, <1>2, <1>3, <1>8, <2>1
<1> QED
  BY <1>1, <1>3, <1>4, <1>5, <1>6, <1>7, <1>8

LEMMA ReadTyped ==
    ASSUME NEW R \in Readings, NEW g \in Glyph, NEW line \in Int
    PROVE  /\ Read(R, g, line) \in Readings
           /\ Read(R, g, line).quoted <=> (g = QUOTE /\ ~R.quoted) \/ (g # QUOTE /\ R.quoted)
<1>1. /\ R.tokens \in Seq(TokenSet) /\ R.run \in Seq(Glyph) /\ R.quoted \in BOOLEAN
      /\ << >> \in Seq(Glyph)
  BY DEF Readings
<1>2. Flushed(R, line) \in Seq(TokenSet)
  BY FlushedIs
<1>3. Append(R.run, g) \in Seq(Glyph)
  BY <1>1
<1>4. Append(R.tokens, StringToken(R.run, line)) \in Seq(TokenSet)
  <2>1. StringToken(R.run, line) \in TokenSet
    BY <1>1, TokensTyped
  <2> QED
    BY <1>1, <2>1
<1>5. Append(Flushed(R, line), Token("SYMBOL", <<g>>, line)) \in Seq(TokenSet)
  <2>1. <<g>> \in Seq(Glyph)
    OBVIOUS
  <2>2. Token("SYMBOL", <<g>>, line) \in TokenSet
    BY <2>1, TokensTyped
  <2> QED
    BY <1>2, <2>2
<1>6. \A ts \in Seq(TokenSet), r \in Seq(Glyph), q \in BOOLEAN :
         /\ [tokens |-> ts, run |-> r, quoted |-> q] \in Readings
         /\ [tokens |-> ts, run |-> r, quoted |-> q].quoted = q
  BY DEF Readings
<1>7. \/ g = QUOTE /\ R.quoted
      \/ g = QUOTE /\ ~R.quoted
      \/ g # QUOTE /\ ~R.quoted /\ g \in SYMBOLS
      \/ g # QUOTE /\ ~R.quoted /\ g \in IGNORE_CHARS
      \/ g # QUOTE /\ R.quoted
      \/ g # QUOTE /\ ~R.quoted /\ IsWord(g)
  BY <1>1 DEF IsWord
<1>8. CASE g = QUOTE /\ R.quoted
  <2>1. Read(R, g, line) = [tokens |-> Append(R.tokens, StringToken(R.run, line)),
                            run |-> << >>, quoted |-> FALSE]
    BY <1>8, ReadIs
  <2> QED
    BY ONLY <1>1, <1>4, <1>6, <1>8, <2>1
<1>9. CASE g = QUOTE /\ ~R.quoted
  BY <1>1, <1>2, <1>6, <1>9, ReadIs
<1>10. CASE g # QUOTE /\ ~R.quoted /\ g \in SYMBOLS
  BY <1>1, <1>5, <1>6, <1>10, ReadIs
<1>11. CASE g # QUOTE /\ ~R.quoted /\ g \in IGNORE_CHARS
  BY <1>1, <1>2, <1>6, <1>11, ReadIs
<1>12. CASE g # QUOTE /\ R.quoted
  <2>1. Read(R, g, line) = [tokens |-> R.tokens, run |-> Append(R.run, g), quoted |-> TRUE]
    <3>1. R.quoted = TRUE
      BY <1>1, <1>12
    <3> QED
      BY <1>12, <3>1, ReadIs
  <2> QED
    BY ONLY <1>1, <1>3, <1>6, <1>12, <2>1
<1>13. CASE g # QUOTE /\ ~R.quoted /\ IsWord(g)
  <2>1. Read(R, g, line) = [tokens |-> R.tokens, run |-> Append(R.run, g), quoted |-> FALSE]
    <3>1. R.quoted = FALSE
      BY <1>1, <1>13
    <3> QED
      BY <1>13, <3>1, ReadIs
  <2> QED
    BY ONLY <1>1, <1>3, <1>6, <1>13, <2>1
<1> QED
  BY <1>7, <1>8, <1>9, <1>10, <1>11, <1>12, <1>13

Unread == [tokens |-> << >>, run |-> << >>, quoted |-> FALSE]

\* What has been read after each glyph.
Reads(glyphs, line, R) ==
    /\ R \in [0..Len(glyphs) -> Readings]
    /\ R[0] = Unread
    /\ \A n \in 1..Len(glyphs) : R[n] = Read(R[n - 1], glyphs[n], line)

LEMMA EndedIs ==
    ASSUME NEW glyphs \in Seq(Glyph)
    PROVE  /\ Append(glyphs, BLANK) \in Seq(Glyph)
           /\ Len(glyphs) \in Nat /\ Len(Append(glyphs, BLANK)) = Len(glyphs) + 1
           /\ \A n \in 1..Len(glyphs) :
                 Append(glyphs, BLANK)[n] = glyphs[n] /\ glyphs[n] \in Glyph
           /\ Append(glyphs, BLANK)[Len(glyphs) + 1] = BLANK
           /\ DOMAIN glyphs = 1..Len(glyphs)
<1>1. BLANK \in Glyph
  BY GlyphsDiffer
<1>2. \A x \in Glyph : /\ Append(glyphs, x) \in Seq(Glyph)
                       /\ Len(Append(glyphs, x)) = Len(glyphs) + 1
                       /\ \A i \in 1..Len(glyphs) : Append(glyphs, x)[i] = glyphs[i]
                       /\ Append(glyphs, x)[Len(glyphs) + 1] = x
  BY Appended
<1>3. /\ Len(glyphs) \in Nat /\ DOMAIN glyphs = 1..Len(glyphs)
      /\ \A n \in 1..Len(glyphs) : glyphs[n] \in Glyph
  OBVIOUS
<1> QED
  BY ONLY <1>1, <1>2, <1>3

LEMMA ReadsExists ==
    ASSUME NEW glyphs \in Seq(Glyph), NEW line \in Int
    PROVE  \E R : Reads(glyphs, line, R)
<1> DEFINE step == [p \in (1..Len(glyphs)) \X Readings |-> Read(p[2], glyphs[p[1]], line)]
<1>0. Len(glyphs) \in Nat
  OBVIOUS
<1>1. step \in [(1..Len(glyphs)) \X Readings -> Readings]
  <2>1. ASSUME NEW p \in (1..Len(glyphs)) \X Readings PROVE step[p] \in Readings
    <3>1. PICK R, g : R = p[2] /\ g = glyphs[p[1]]
      OBVIOUS
    <3>2. R \in Readings /\ g \in Glyph
      BY <3>1
    <3>3. Read(R, g, line) \in Readings
      BY <3>2, ReadTyped
    <3> QED
      BY <3>1, <3>3
  <2> QED
    BY <2>1
<1>2. Unread \in Readings
  BY DEF Unread, Readings
<1>3. PICK R : IsIteration(R, Len(glyphs), Readings, Unread, step)
  <2> HIDE DEF step
  <2> QED
    BY <1>0, <1>1, <1>2, Iterated
<1>4. R \in [0..Len(glyphs) -> Readings] /\ R[0] = Unread
  <2> HIDE DEF step
  <2> QED
    BY <1>3 DEF IsIteration
<1>5. ASSUME NEW n \in 1..Len(glyphs) PROVE R[n] = Read(R[n - 1], glyphs[n], line)
  <2>1. n - 1 \in 0..Len(glyphs)
    BY <1>0
  <2>2. <<n, R[n - 1]>> \in (1..Len(glyphs)) \X Readings
    BY <1>4, <2>1
  <2>3. R[n] = step[<<n, R[n - 1]>>]
    <3> HIDE DEF step
    <3> QED
      BY <1>3 DEF IsIteration
  <2> QED
    BY <2>2, <2>3
<1> QED
  BY <1>4, <1>5 DEF Reads

(* The tokens of a line are what has been read after the blank behind it.  *)
LEMMA TokenizeIs ==
    ASSUME NEW glyphs \in Seq(Glyph), NEW line \in Int,
           NEW R, Reads(Append(glyphs, BLANK), line, R)
    PROVE  tokenizeLine(glyphs, line) = R[Len(glyphs) + 1].tokens
<1> DEFINE ended == Append(glyphs, BLANK)
           Fix(g) == g = [n \in 0..Len(ended) |->
                             IF n = 0 THEN [tokens |-> << >>, run |-> << >>, quoted |-> FALSE]
                             ELSE Read(g[n - 1], ended[n], line)]
<1>1. Len(ended) \in Nat /\ Len(ended) = Len(glyphs) + 1
  BY EndedIs
<1>2. tokenizeLine(glyphs, line) = (CHOOSE g : Fix(g))[Len(ended)].tokens
  BY DEF tokenizeLine
<1> HIDE DEF ended
<1>3. Reads(ended, line, R)
  BY DEF ended
<1>4. Fix(R)
  <2>1. \A n \in 0..Len(ended) :
           R[n] = IF n = 0 THEN [tokens |-> << >>, run |-> << >>, quoted |-> FALSE]
                  ELSE Read(R[n - 1], ended[n], line)
    <3>1. R[0] = [tokens |-> << >>, run |-> << >>, quoted |-> FALSE]
      BY <1>3 DEF Reads, Unread
    <3>2. \A n \in 1..Len(ended) : R[n] = Read(R[n - 1], ended[n], line)
      BY <1>3 DEF Reads
    <3>3. \A n \in 0..Len(ended) : n = 0 \/ n \in 1..Len(ended)
      BY <1>1
    <3> QED
      BY <3>1, <3>2, <3>3
  <2>2. R = [n \in 0..Len(ended) |-> R[n]]
    BY <1>3 DEF Reads
  <2> QED
    BY <2>1, <2>2
<1>5. ASSUME NEW g, Fix(g) PROVE g = R
  <2> DEFINE Same == {n \in 0..Len(ended) : g[n] = R[n]}
  <2>1. \A n \in 0..Len(ended) :
           g[n] = IF n = 0 THEN [tokens |-> << >>, run |-> << >>, quoted |-> FALSE]
                  ELSE Read(g[n - 1], ended[n], line)
    BY <1>5
  <2>2. \A n \in 0..Len(ended) :
           R[n] = IF n = 0 THEN [tokens |-> << >>, run |-> << >>, quoted |-> FALSE]
                  ELSE Read(R[n - 1], ended[n], line)
    BY <1>4
  <2>3. 0 \in Same
    BY <1>1, <2>1, <2>2
  <2>4. ASSUME NEW n \in 0..Len(ended), n \in Same, n + 1 \in 0..Len(ended)
        PROVE  n + 1 \in Same
    <3>1. n + 1 # 0 /\ (n + 1) - 1 = n
      BY <2>4
    <3>2. g[n + 1] = Read(g[n], ended[n + 1], line)
      BY <2>1, <2>4, <3>1
    <3>3. R[n + 1] = Read(R[n], ended[n + 1], line)
      BY <2>2, <2>4, <3>1
    <3> QED
      BY <2>4, <3>2, <3>3
  <2>5. 0..Len(ended) \subseteq Same
    <3> HIDE DEF Same, Fix
    <3> QED
      BY <1>1, <2>3, <2>4, UpTo
  <2>6. \A n \in 0..Len(ended) : g[n] = R[n]
    BY <2>5
  <2>7. g = [n \in 0..Len(ended) |-> g[n]]
    BY <1>5
  <2>8. R = [n \in 0..Len(ended) |-> R[n]]
    BY <1>4
  <2> QED
    BY <2>6, <2>7, <2>8
<1>6. (CHOOSE g : Fix(g)) = R
  <2> HIDE DEF Fix
  <2>1. Fix(CHOOSE g : Fix(g))
    BY <1>4
  <2> QED
    BY <1>5, <2>1
<1> HIDE DEF Fix
<1> QED
  BY <1>1, <1>2, <1>6

(* The quotes read so far are odd in number between two of them.           *)
LEMMA QuotesCounted ==
    ASSUME NEW glyphs \in Seq(Glyph), NEW line \in Int,
           NEW R, Reads(Append(glyphs, BLANK), line, R)
    PROVE  UnevenQuotes(glyphs) <=> R[Len(glyphs)].quoted
<1> DEFINE ended == Append(glyphs, BLANK)
           Q(n) == {k \in 1..n : glyphs[k] = QUOTE}
           Good == {n \in 0..Len(glyphs) : /\ IsFiniteSet(Q(n)) /\ Cardinality(Q(n)) \in Nat
                                           /\ R[n].quoted <=> Cardinality(Q(n)) % 2 # 0}
<1>1. /\ Len(glyphs) \in Nat /\ Len(ended) = Len(glyphs) + 1
      /\ \A n \in 1..Len(glyphs) : ended[n] = glyphs[n] /\ glyphs[n] \in Glyph
      /\ DOMAIN glyphs = 1..Len(glyphs)
  BY EndedIs
<1>2. 0 \in Good
  <2>1. Q(0) = {}
    OBVIOUS
  <2>2. IsFiniteSet({}) /\ Cardinality({}) = 0
    BY FS_EmptySet
  <2>3. ~R[0].quoted
    BY DEF Reads, Unread
  <2>4. 0 % 2 = 0 /\ 0 \in 0..Len(glyphs)
    BY <1>1
  <2> HIDE DEF Q
  <2>5. IsFiniteSet(Q(0)) /\ Cardinality(Q(0)) = 0
    BY <2>1, <2>2
  <2> QED
    BY ONLY <2>3, <2>4, <2>5
<1>3. ASSUME NEW n \in 0..Len(glyphs), n \in Good, n + 1 \in 0..Len(glyphs)
      PROVE  n + 1 \in Good
  <2>1. n + 1 \in 1..Len(glyphs) /\ (n + 1) - 1 = n /\ n + 1 \in 1..Len(ended)
        /\ n \in 0..Len(ended) /\ n \in Nat
    BY <1>1, <1>3
  <2>2. R[n + 1] = Read(R[n], glyphs[n + 1], line) /\ R[n] \in Readings
    <3> HIDE DEF ended
    <3>1. Reads(ended, line, R)
      BY DEF ended
    <3> QED
      BY <1>1, <2>1, <3>1 DEF Reads
  <2>3. PICK g : g = glyphs[n + 1]
    OBVIOUS
  <2>0. PICK before : before = R[n]
    OBVIOUS
  <2>4. R[n + 1].quoted <=> (g = QUOTE /\ ~R[n].quoted) \/ (g # QUOTE /\ R[n].quoted)
    <3>1. g \in Glyph
      BY <1>1, <2>1, <2>3
    <3> QED
      <4>1. Read(before, g, line).quoted <=> (g = QUOTE /\ ~before.quoted) \/ (g # QUOTE /\ before.quoted)
        BY <2>0, <2>2, <3>1, ReadTyped
      <4> QED
        BY ONLY <2>0, <2>2, <2>3, <4>1
  <2>5. IsFiniteSet(Q(n)) /\ Cardinality(Q(n)) \in Nat
        /\ (R[n].quoted <=> Cardinality(Q(n)) % 2 # 0)
    BY <1>3
  <2>6. CASE g = QUOTE
    <3>0. \A k : k \in 1..(n + 1) <=> k \in 1..n \/ k = n + 1
      BY <2>1
    <3>1. Q(n + 1) = Q(n) \cup {n + 1} /\ n + 1 \notin Q(n)
      <4>1. glyphs[n + 1] = QUOTE /\ n + 1 \notin 1..n
        BY <2>1, <2>3, <2>6
      <4> QED
        BY ONLY <3>0, <4>1
    <3> HIDE DEF Q
    <3>2. IsFiniteSet(Q(n + 1)) /\ Cardinality(Q(n + 1)) = Cardinality(Q(n)) + 1
      BY <2>5, <3>1, FS_AddElement
    <3>3. PICK c, d : c = Cardinality(Q(n)) /\ d = Cardinality(Q(n + 1))
      OBVIOUS
    <3>4. c \in Nat /\ d = c + 1
      BY <2>5, <3>2, <3>3
    <3>5. c % 2 = 0 <=> d % 2 # 0
      BY <3>4
    <3> QED
      BY <1>3, <2>4, <2>5, <2>6, <3>2, <3>3, <3>4, <3>5
  <2>7. CASE g # QUOTE
    <3>1. Q(n + 1) = Q(n)
      BY <2>1, <2>3, <2>7
    <3> HIDE DEF Q
    <3> QED
      BY <1>3, <2>4, <2>5, <2>7, <3>1
  <2> QED
    BY <2>6, <2>7
<1>4. 0..Len(glyphs) \subseteq Good
  <2> HIDE DEF Good
  <2> QED
    BY <1>1, <1>2, <1>3, UpTo
<1>5. Len(glyphs) \in Good
  <2>1. Len(glyphs) \in 0..Len(glyphs)
    BY <1>1
  <2> HIDE DEF Good
  <2> QED
    BY <1>4, <2>1
<1>6. Q(Len(glyphs)) = {n \in DOMAIN glyphs : glyphs[n] = QUOTE}
  BY <1>1
<1>7. R[Len(glyphs)].quoted <=> Cardinality(Q(Len(glyphs))) % 2 # 0
  BY <1>5
<1> HIDE DEF Q, Good
<1> QED
  BY <1>6, <1>7 DEF UnevenQuotes

-----------------------------------------------------------------------------
(* One line of a text, from where the code begins in it.                   *)

(* A set that holds a number, and with each one the next, holds the        *)
(* interval from it.                                                       *)
LEMMA Along ==
    ASSUME NEW lo \in Int, NEW hi \in Int, lo <= hi, NEW S, lo \in S,
           \A i \in lo..(hi - 1) : i \in S => i + 1 \in S
    PROVE  lo..hi \subseteq S
<1> DEFINE T == {n \in 0..(hi - lo) : lo + n \in S}
<1>1. 0 \in T
  OBVIOUS
<1>2. ASSUME NEW n \in 0..(hi - lo), n \in T, n + 1 \in 0..(hi - lo)
      PROVE  n + 1 \in T
  <2>1. lo + n \in lo..(hi - 1) /\ lo + n \in S
    BY <1>2
  <2>2. (lo + n) + 1 \in S
    BY <2>1
  <2>3. (lo + n) + 1 = lo + (n + 1)
    BY <1>2
  <2> QED
    BY <1>2, <2>2, <2>3
<1>3. 0..(hi - lo) \subseteq T
  <2>1. hi - lo \in Nat
    OBVIOUS
  <2> HIDE DEF T
  <2> QED
    BY <1>1, <1>2, <2>1, UpTo
<1>4. ASSUME NEW i \in lo..hi PROVE i \in S
  <2>1. i - lo \in 0..(hi - lo) /\ lo + (i - lo) = i
    OBVIOUS
  <2>2. i - lo \in T
    <3> HIDE DEF T
    <3> QED
      BY <1>3, <2>1
  <2> QED
    BY <2>1, <2>2
<1> QED
  BY <1>4

(* The modes, glyph by glyph.                                              *)
LEMMA ChainSteps ==
    ASSUME NEW t, NEW m, Chained(t, m), NEW i \in 1..Len(t)
    PROVE  /\ m[i] = "code" /\ At(t, i, MULTILINE_COMMENT_BEGIN) => m[i + 1] = "opening"
           /\ m[i] = "code" /\ At(t, i, SINGLE_LINE_COMMENT) => m[i + 1] = "line"
           /\ m[i] = "code" /\ t[i] = QUOTE => m[i + 1] = "string"
           /\ /\ m[i] = "code" /\ t[i] # QUOTE
              /\ ~At(t, i, MULTILINE_COMMENT_BEGIN) /\ ~At(t, i, SINGLE_LINE_COMMENT)
              => m[i + 1] = "code"
           /\ m[i] = "opening" => m[i + 1] = "block"
           /\ m[i] = "block" /\ At(t, i, MULTILINE_COMMENT_END) => m[i + 1] = "closing"
           /\ m[i] = "block" /\ ~At(t, i, MULTILINE_COMMENT_END) => m[i + 1] = "block"
           /\ m[i] = "closing" => m[i + 1] = "code"
           /\ m[i] = "string" /\ t[i] = QUOTE => m[i + 1] = "code"
           /\ m[i] = "string" /\ t[i] = NEWLINE => m[i + 1] = "broken"
           /\ m[i] = "string" /\ t[i] # QUOTE /\ t[i] # NEWLINE => m[i + 1] = "string"
           /\ m[i] = "line" /\ t[i] = NEWLINE => m[i + 1] = "code"
           /\ m[i] = "line" /\ t[i] # NEWLINE => m[i + 1] = "line"
           /\ m[i] = "broken" => m[i + 1] = "broken"
<1>1. m[i + 1] = ModeBehind(t, i, m[i])
  BY DEF Chained
<1> QED
  BY <1>1, ModeFacts

\* The code of a line: r is what is left of it, t ends with the newline.
PlainLine(r, t, m) ==
    /\ r \in Seq(Glyph) /\ t = Append(r, NEWLINE)
    /\ \A i \in 1..Len(r) : r[i] # NEWLINE
    /\ \A i \in 1..(Len(r) - 1) : ~(IsWord(r[i]) /\ IsWord(r[i + 1]))
    /\ Chained(t, m) /\ m[1] = "code"
    /\ \A i \in 1..Len(t) : NoStrayMark(t, m, i)
    /\ \A i, j \in 1..Len(t) : i < j => ~(m[i + 1] = "opening" /\ m[j + 1] = "opening")
    /\ \A i, j \in 1..Len(r) :
          /\ i < j /\ m[i] = "code" /\ m[i + 2] = "opening" /\ m[j] = "code"
          /\ \A k \in (i + 2)..(j - 1) : m[k] # "code"
          => ~(IsWord(r[i]) /\ IsWord(r[j]))

MarkGlyphs(mark, a, b) == mark = <<a, b>> /\ a # NEWLINE /\ b # NEWLINE

LEMMA TheMarks ==
    /\ MarkGlyphs(MULTILINE_COMMENT_BEGIN, "/", "*")
    /\ MarkGlyphs(MULTILINE_COMMENT_END, "*", "/")
    /\ MarkGlyphs(SINGLE_LINE_COMMENT, "/", "/")
  BY GlyphsDiffer DEF MarkGlyphs

(* The line and the text it is in.                                         *)
LEMMA LineFacts ==
    ASSUME NEW r, NEW t, NEW m, PlainLine(r, t, m)
    PROVE  /\ Len(r) \in Nat /\ Len(t) = Len(r) + 1 /\ t \in Seq(Glyph)
           /\ \A i \in 1..Len(r) : t[i] = r[i] /\ t[i] # NEWLINE /\ r[i] \in Glyph
           /\ t[Len(r) + 1] = NEWLINE
           /\ \A i \in 1..(Len(r) + 2) : m[i] \in ModeNames
<1>1. r \in Seq(Glyph) /\ NEWLINE \in Glyph
  BY GlyphsDiffer DEF PlainLine
<1>2. /\ t \in Seq(Glyph) /\ Len(t) = Len(r) + 1
      /\ \A i \in 1..Len(r) : t[i] = r[i]
      /\ t[Len(r) + 1] = NEWLINE
  BY <1>1, Appended DEF PlainLine
<1>3. Len(r) \in Nat /\ \A i \in 1..Len(r) : r[i] \in Glyph
  BY <1>1
<1>4. \A i \in 1..(Len(r) + 2) : m[i] \in ModeNames
  <2>1. m \in Seq(ModeNames) /\ Len(m) = Len(r) + 2
    BY <1>2, <1>3 DEF PlainLine, Chained
  <2> QED
    BY <2>1
<1>5. \A i \in 1..Len(r) : r[i] # NEWLINE
  BY DEF PlainLine
<1> QED
  BY <1>2, <1>3, <1>4, <1>5

LEMMA MarkInLine ==
    ASSUME NEW r, NEW t, NEW m, PlainLine(r, t, m), NEW i \in 1..(Len(r) + 1),
           NEW a, NEW b, NEW mark, MarkGlyphs(mark, a, b)
    PROVE  /\ At(t, i, mark) <=> i <= Len(r) - 1 /\ Marked(r, i, mark)
           /\ At(t, i, mark) => i <= Len(r) - 1 /\ r[i] = a /\ r[i + 1] = b
           /\ i <= Len(r) - 1 /\ r[i] = a /\ r[i + 1] = b => At(t, i, mark)
<1>1. /\ Len(r) \in Nat /\ Len(t) = Len(r) + 1
      /\ \A j \in 1..Len(r) : t[j] = r[j]
      /\ t[Len(r) + 1] = NEWLINE /\ r \in Seq(Glyph)
  BY LineFacts DEF PlainLine
<1>2. At(t, i, mark) <=> i < Len(t) /\ t[i] = a /\ t[i + 1] = b
  BY AtIs DEF MarkGlyphs
<1>3. CASE i <= Len(r) - 1
  <2>1. i \in 1..(Len(r) - 1) /\ i \in 1..Len(r) /\ i + 1 \in 1..Len(r) /\ i < Len(t)
    BY <1>1, <1>3
  <2>2. Marked(r, i, <<a, b>>) <=> r[i] = a /\ r[i + 1] = b
    BY <1>1, <2>1, MarkedIs
  <2>3. mark = <<a, b>>
    BY DEF MarkGlyphs
  <2>4. t[i] = r[i] /\ t[i + 1] = r[i + 1]
    BY <1>1, <2>1
  <2> QED
    BY <1>2, <1>3, <2>1, <2>2, <2>3, <2>4
<1>4. CASE i > Len(r) - 1
  <2>1. ~(i <= Len(r) - 1)
    BY <1>1, <1>4
  <2>2. ~At(t, i, mark)
    <3> SUFFICES ASSUME At(t, i, mark) PROVE FALSE
      OBVIOUS
    <3>1. i = Len(r)
      BY <1>1, <1>2, <1>4
    <3>2. t[i + 1] = NEWLINE
      BY <1>1, <3>1
    <3> QED
      BY <1>2, <3>2 DEF MarkGlyphs
  <2> QED
    BY <2>1, <2>2
<1> QED
  BY <1>1, <1>3, <1>4

(* Without a delimiter the code goes on.                                   *)
LEMMA CodeGoesOn ==
    ASSUME NEW t, NEW m, Chained(t, m), NEW lo \in Int, NEW hi \in Int,
           1 <= lo, lo <= hi, hi <= Len(t) + 1, Len(t) \in Nat, m[lo] \in {"code", "string"},
           \A i \in lo..(hi - 1) :
              /\ t[i] # NEWLINE
              /\ m[i] = "code" => /\ ~At(t, i, MULTILINE_COMMENT_BEGIN)
                                  /\ ~At(t, i, SINGLE_LINE_COMMENT)
    PROVE  \A i \in lo..hi : m[i] \in {"code", "string"}
<1> DEFINE S == {i \in Int : m[i] \in {"code", "string"}}
<1>1. ASSUME NEW i \in lo..(hi - 1), i \in S PROVE i + 1 \in S
  <2>1. i \in 1..Len(t) /\ i + 1 \in Int
    OBVIOUS
  <2>2. m[i] \in {"code", "string"}
    BY <1>1
  <2>3. m[i + 1] \in {"code", "string"}
    BY <2>1, <2>2, ChainSteps
  <2> QED
    BY <2>1, <2>3
<1>2. lo..hi \subseteq S
  <2>1. lo \in S
    OBVIOUS
  <2> HIDE DEF S
  <2> QED
    BY <1>1, <2>1, Along
<1> QED
  BY <1>2

LEMMA LineGoesOn ==
    ASSUME NEW t, NEW m, Chained(t, m), NEW lo \in Int, NEW hi \in Int,
           1 <= lo, lo <= hi, hi <= Len(t) + 1, Len(t) \in Nat, m[lo] = "line",
           \A i \in lo..(hi - 1) : t[i] # NEWLINE
    PROVE  \A i \in lo..hi : m[i] = "line"
<1> DEFINE S == {i \in Int : m[i] = "line"}
<1>1. ASSUME NEW i \in lo..(hi - 1), i \in S PROVE i + 1 \in S
  <2>1. i \in 1..Len(t) /\ i + 1 \in Int
    OBVIOUS
  <2>2. m[i] = "line"
    BY <1>1
  <2>3. m[i + 1] = "line"
    BY <2>1, <2>2, ChainSteps
  <2> QED
    BY <2>1, <2>3
<1>2. lo..hi \subseteq S
  <2>1. lo \in S
    OBVIOUS
  <2> HIDE DEF S
  <2> QED
    BY <1>1, <2>1, Along
<1> QED
  BY <1>2

LEMMA BlockGoesOn ==
    ASSUME NEW t, NEW m, Chained(t, m), NEW lo \in Int, NEW hi \in Int,
           1 <= lo, lo <= hi, hi <= Len(t) + 1, Len(t) \in Nat, m[lo] = "block",
           \A i \in lo..(hi - 1) : ~At(t, i, MULTILINE_COMMENT_END)
    PROVE  \A i \in lo..hi : m[i] = "block"
<1> DEFINE S == {i \in Int : m[i] = "block"}
<1>1. ASSUME NEW i \in lo..(hi - 1), i \in S PROVE i + 1 \in S
  <2>1. i \in 1..Len(t) /\ i + 1 \in Int
    OBVIOUS
  <2>2. m[i] = "block"
    BY <1>1
  <2>3. m[i + 1] = "block"
    BY <2>1, <2>2, ChainSteps
  <2> QED
    BY <2>1, <2>3
<1>2. lo..hi \subseteq S
  <2>1. lo \in S
    OBVIOUS
  <2> HIDE DEF S
  <2> QED
    BY <1>1, <2>1, Along
<1> QED
  BY <1>2

\* A glyph that is no token and ends none.
Silent(t, m, i) ==
    /\ m[i] = "code" => Opens(t, m, i) \/ t[i] \in IGNORE_CHARS
    /\ m[i] = "string" => t[i] # QUOTE

(* The rest of a line, from the newline or from two slashes on.            *)
LEMMA Rest ==
    ASSUME NEW r, NEW t, NEW m, PlainLine(r, t, m), NEW k \in 1..(Len(r) + 1),
           m[k] \in {"code", "string"},
           k = Len(r) + 1 \/ At(t, k, SINGLE_LINE_COMMENT)
    PROVE  /\ \A i \in k..(Len(r) + 1) : Silent(t, m, i)
           /\ m[k] = "string" => m[Len(r) + 2] = "broken"
           /\ m[k] # "string" => m[Len(r) + 2] = "code"
           /\ \A i \in (k + 1)..(Len(r) + 1) : m[i] = "line"
<1>1. /\ Len(r) \in Nat /\ Len(t) = Len(r) + 1 /\ t \in Seq(Glyph)
      /\ \A i \in 1..Len(r) : t[i] = r[i] /\ t[i] # NEWLINE
      /\ t[Len(r) + 1] = NEWLINE
  BY LineFacts
<1>2. Chained(t, m)
  BY DEF PlainLine
<1> DEFINE n == Len(r) + 1
<1>3. /\ n \in 1..Len(t) /\ n + 1 = Len(r) + 2 /\ t[n] = NEWLINE
      /\ NEWLINE # QUOTE /\ NEWLINE \in IGNORE_CHARS
  BY <1>1, GlyphsDiffer
<1>4. ~At(t, n, MULTILINE_COMMENT_BEGIN) /\ ~At(t, n, SINGLE_LINE_COMMENT)
  <2>1. n \in 1..(Len(r) + 1) /\ ~(n <= Len(r) - 1)
    BY <1>1
  <2> QED
    BY <2>1, MarkInLine, TheMarks
<1>5. CASE k = Len(r) + 1
  <2>1. k = n
    BY <1>5
  <2>2. \A i \in k..(Len(r) + 1) : i = n
    BY <1>1, <2>1
  <2>3. Silent(t, m, n)
    BY <1>3 DEF Silent
  <2>4. m[n] = "string" => m[n + 1] = "broken"
    BY <1>2, <1>3, ChainSteps
  <2>5. m[n] = "code" => m[n + 1] = "code"
    BY <1>2, <1>3, <1>4, ChainSteps
  <2> QED
    BY <1>3, <2>1, <2>2, <2>3, <2>4, <2>5
<1>6. CASE At(t, k, SINGLE_LINE_COMMENT)
  <2>1. k <= Len(r) - 1
    BY <1>6, MarkInLine, TheMarks
  <2>2. m[k] = "code"
    <3>1. NoStrayMark(t, m, k)
      BY <1>1 DEF PlainLine
    <3> QED
      BY <1>6, <3>1 DEF NoStrayMark, Marks
  <2>3. k \in 1..Len(t)
    BY <1>1
  <2>4. m[k + 1] = "line"
    BY <1>2, <1>6, <2>2, <2>3, ChainSteps
  <2>5. \A i \in (k + 1)..n : m[i] = "line"
    <3>1. \A i \in (k + 1)..(n - 1) : t[i] # NEWLINE
      BY <1>1
    <3>2. k + 1 \in Int /\ n \in Int /\ 1 <= k + 1 /\ k + 1 <= n /\ n <= Len(t) + 1
      BY <1>1, <2>1
    <3> HIDE DEF n
    <3>3. PICK lo : lo = k + 1
      OBVIOUS
    <3>4. /\ lo \in Int /\ n \in Int /\ 1 <= lo /\ lo <= n /\ n <= Len(t) + 1
          /\ m[lo] = "line" /\ \A i \in lo..(n - 1) : t[i] # NEWLINE
      BY ONLY <2>4, <3>1, <3>2, <3>3
    <3>5. Len(t) \in Nat
      BY <1>1
    <3>6. \A i \in lo..n : m[i] = "line"
      BY ONLY <1>2, <3>4, <3>5, LineGoesOn
    <3> QED
      BY <3>3, <3>6
  <2>6. m[n + 1] = "code"
    <3>1. n \in (k + 1)..n
      BY <1>1, <2>1
    <3>2. m[n] = "line"
      BY <2>5, <3>1
    <3> QED
      BY <1>2, <1>3, <3>2, ChainSteps
  <2>7. \A i \in k..(Len(r) + 1) : Silent(t, m, i)
    <3>1. Silent(t, m, k)
      BY <2>2, <2>4 DEF Silent, Opens
    <3>2. \A i \in (k + 1)..n : Silent(t, m, i)
      BY <2>5 DEF Silent
    <3>3. \A i \in k..(Len(r) + 1) : i = k \/ i \in (k + 1)..n
      BY <1>1
    <3> QED
      BY <3>1, <3>2, <3>3
  <2> QED
    BY <1>3, <2>2, <2>5, <2>6, <2>7
<1> QED
  BY <1>5, <1>6

(* The first delimiter of a kind, in the line and in the text it is in.    *)
LEMMA FirstMark ==
    ASSUME NEW r, NEW t, NEW m, PlainLine(r, t, m),
           NEW a, NEW b, NEW mark, MarkGlyphs(mark, a, b)
    PROVE  /\ search(r, mark) \in 1..(Len(r) + 1)
           /\ Found(r, mark) <=> search(r, mark) <= Len(r) - 1
           /\ Found(r, mark) => At(t, search(r, mark), mark)
           /\ ~Found(r, mark) => search(r, mark) = Len(r) + 1
           /\ \A i \in 1..(Len(r) + 1) : i < search(r, mark) => ~At(t, i, mark)
<1>1. r \in Seq(Glyph) /\ Len(r) \in Nat
  BY LineFacts DEF PlainLine
<1>2. /\ search(r, mark) \in 1..(Len(r) + 1) /\ search(r, mark) # Len(r)
      /\ Found(r, mark) <=> search(r, mark) < Len(r)
      /\ Found(r, mark) => Marked(r, search(r, mark), mark)
      /\ ~Found(r, mark) => search(r, mark) = Len(r) + 1
      /\ \A i \in 1..(Len(r) - 1) : i < search(r, mark) => ~Marked(r, i, mark)
  BY <1>1, SearchIs
<1>3. ASSUME NEW i \in 1..(Len(r) + 1)
      PROVE  At(t, i, mark) <=> i <= Len(r) - 1 /\ Marked(r, i, mark)
  BY MarkInLine
<1>4. Found(r, mark) <=> search(r, mark) <= Len(r) - 1
  BY <1>1, <1>2
<1>5. \A i \in 1..(Len(r) + 1) : i < search(r, mark) => ~At(t, i, mark)
  BY <1>1, <1>2, <1>3
<1>6. Found(r, mark) => At(t, search(r, mark), mark)
  BY <1>2, <1>3, <1>4
<1> QED
  BY <1>2, <1>4, <1>5, <1>6

\* What stripComments() leaves of a line are the glyphs up to x and those from
\* y to z: code and strings, and nothing else of the line makes a token.
Kept(r, t, m, x, y, z) ==
    /\ x \in Nat /\ y \in Int /\ z \in Int
    /\ x < y /\ x <= Len(r) /\ y <= z + 1 /\ z <= Len(r)
    /\ \A i \in 1..(x + 1) : m[i] \in {"code", "string"}
    /\ \A i \in y..(z + 1) : m[i] \in {"code", "string"}
    /\ y # x + 1 => /\ m[x + 1] = "code" /\ m[y] = "code"
                    /\ x >= 1 /\ y <= z /\ m[x] = "code" => ~(IsWord(r[x]) /\ IsWord(r[y]))
    /\ \A i \in (x + 1)..(y - 1) : Silent(t, m, i)
    /\ \A i \in (z + 1)..(Len(r) + 1) : Silent(t, m, i)
    /\ m[z + 1] = "string" <=> m[Len(r) + 2] = "broken"

Split(r, t, m) ==
    /\ ~EndsUnopened(r) /\ ~Reversed(r)
    /\ LeavesOpen(r) <=> m[Len(r) + 2] = "block"
    /\ m[Len(r) + 2] \in {"code", "block", "broken"}
    /\ \E x, y, z \in Int : /\ Kept(r, t, m, x, y, z)
                            /\ stripComments(r) = SubSeq(r, 1, x) \o SubSeq(r, y, z)

LEMMA StrayMarks ==
    ASSUME NEW r, NEW t, NEW m, PlainLine(r, t, m), NEW i \in 1..(Len(r) + 1)
    PROVE  /\ m[i] = "string" => /\ ~At(t, i, MULTILINE_COMMENT_BEGIN)
                                 /\ ~At(t, i, MULTILINE_COMMENT_END)
                                 /\ ~At(t, i, SINGLE_LINE_COMMENT)
           /\ m[i] = "line" => /\ ~At(t, i, MULTILINE_COMMENT_BEGIN)
                               /\ ~At(t, i, MULTILINE_COMMENT_END)
           /\ m[i] \in {"code", "opening"} => ~At(t, i, MULTILINE_COMMENT_END)
<1>1. i \in 1..Len(t)
  BY LineFacts
<1>2. NoStrayMark(t, m, i)
  BY <1>1 DEF PlainLine
<1> QED
  BY <1>2 DEF NoStrayMark, Marks, BlockMarks

(* An empty part, and the whole.                                           *)
LEMMA Parts ==
    ASSUME NEW S, NEW r \in Seq(S)
    PROVE  /\ \A n \in 1..(Len(r) + 1) : SubSeq(r, n, n - 1) = << >>
           /\ SubSeq(r, 1, Len(r)) = r
           /\ \A n \in 0..Len(r) : SubSeq(r, 1, n) \in Seq(S) /\ SubSeq(r, 1, n) \o << >> = SubSeq(r, 1, n)
<1>1. Len(r) \in Nat
  OBVIOUS
<1>2. ASSUME NEW n \in 1..(Len(r) + 1) PROVE SubSeq(r, n, n - 1) = << >>
  BY <1>1
<1>3. SubSeq(r, 1, Len(r)) = r
  OBVIOUS
<1>4. ASSUME NEW n \in 0..Len(r)
      PROVE  SubSeq(r, 1, n) \in Seq(S) /\ SubSeq(r, 1, n) \o << >> = SubSeq(r, 1, n)
  <2>1. SubSeq(r, 1, n) \in Seq(S)
    BY <1>1
  <2> QED
    BY <2>1
<1> QED
  BY <1>2, <1>3, <1>4

(* A line that opens no block.                                             *)
LEMMA NoBlock ==
    ASSUME NEW r, NEW t, NEW m, PlainLine(r, t, m), r = << >> => ~LeavesOpen(r),
           ~Found(r, MULTILINE_COMMENT_BEGIN)
    PROVE  Split(r, t, m)
<1> DEFINE N == Len(r)
           q == search(r, SINGLE_LINE_COMMENT)
           e == search(r, MULTILINE_COMMENT_END)
<1>1. N \in Nat /\ Len(t) = N + 1 /\ (\A i \in 1..N : t[i] # NEWLINE) /\ r \in Seq(Glyph)
      /\ Chained(t, m) /\ m[1] = "code"
  BY LineFacts DEF PlainLine
<1>2. /\ q \in 1..(N + 1)
      /\ Found(r, SINGLE_LINE_COMMENT) => At(t, q, SINGLE_LINE_COMMENT)
      /\ ~Found(r, SINGLE_LINE_COMMENT) => q = N + 1
      /\ \A i \in 1..(N + 1) : i < q => ~At(t, i, SINGLE_LINE_COMMENT)
  BY FirstMark, TheMarks
<1>3. \A i \in 1..(N + 1) : ~At(t, i, MULTILINE_COMMENT_BEGIN)
  <2>1. /\ search(r, MULTILINE_COMMENT_BEGIN) = N + 1
        /\ \A i \in 1..(N + 1) : i < search(r, MULTILINE_COMMENT_BEGIN)
                                   => ~At(t, i, MULTILINE_COMMENT_BEGIN)
    BY FirstMark, TheMarks
  <2>2. ~At(t, N + 1, MULTILINE_COMMENT_BEGIN)
    <3>1. N + 1 \in 1..(Len(r) + 1) /\ ~(N + 1 <= Len(r) - 1)
      BY <1>1
    <3> QED
      BY <3>1, MarkInLine, TheMarks
  <2>3. \A i \in 1..(N + 1) : i < N + 1 \/ i = N + 1
    BY <1>1
  <2> QED
    BY <2>1, <2>2, <2>3
<1> HIDE DEF N, q, e
<1>4. \A i \in 1..q : m[i] \in {"code", "string"}
  <2>1. /\ 1 \in Int /\ q \in Int /\ 1 <= 1 /\ 1 <= q /\ q <= Len(t) + 1 /\ Len(t) \in Nat
        /\ m[1] \in {"code", "string"}
    BY <1>1, <1>2
  <2>2. \A i \in 1..(q - 1) : /\ t[i] # NEWLINE
                              /\ m[i] = "code" => /\ ~At(t, i, MULTILINE_COMMENT_BEGIN)
                                                  /\ ~At(t, i, SINGLE_LINE_COMMENT)
    <3> TAKE i \in 1..(q - 1)
    <3>1. i \in 1..N /\ i \in 1..(N + 1) /\ i < q
      BY <1>1, <1>2
    <3> QED
      BY <1>1, <1>2, <1>3, <3>1
  <2> QED
    BY <1>1, <2>1, <2>2, CodeGoesOn
<1>5. /\ \A i \in q..(N + 1) : Silent(t, m, i)
      /\ m[q] = "string" => m[N + 2] = "broken"
      /\ m[q] # "string" => m[N + 2] = "code"
      /\ \A i \in (q + 1)..(N + 1) : m[i] = "line"
  <2>1. q \in 1..(Len(r) + 1) /\ m[q] \in {"code", "string"}
        /\ (q = Len(r) + 1 \/ At(t, q, SINGLE_LINE_COMMENT))
    BY <1>2, <1>4 DEF N
  <2> QED
    BY <2>1, Rest DEF N
<1>6. ~Found(r, MULTILINE_COMMENT_END)
  <2> SUFFICES ASSUME Found(r, MULTILINE_COMMENT_END) PROVE FALSE
    OBVIOUS
  <2>1. e \in 1..(N + 1) /\ At(t, e, MULTILINE_COMMENT_END)
    BY FirstMark, TheMarks DEF N, e
  <2>2. CASE e <= q
    <3>1. m[e] \in {"code", "string"}
      BY <1>2, <1>4, <2>1, <2>2
    <3> QED
      BY <2>1, <3>1, StrayMarks DEF N
  <2>3. CASE e > q
    <3>1. m[e] = "line"
      BY <1>1, <1>2, <1>5, <2>1, <2>3
    <3> QED
      BY <2>1, <3>1, StrayMarks DEF N
  <2> QED
    BY <1>1, <1>2, <2>1, <2>2, <2>3
<1>7. ~EndsUnopened(r) /\ ~Reversed(r)
  BY <1>6 DEF EndsUnopened, Reversed
<1>8. ~LeavesOpen(r)
  <2>1. CASE r = << >>
    BY <2>1
  <2>2. CASE r # << >>
    BY <2>2 DEF LeavesOpen
  <2> QED
    BY <2>1, <2>2
<1>9. Kept(r, t, m, q - 1, q, q - 1)
  <2>1. /\ q - 1 \in Nat /\ q \in Int /\ q - 1 \in Int /\ q - 1 < q /\ q - 1 <= N
        /\ (q - 1) + 1 = q /\ q <= (q - 1) + 1
    BY <1>1, <1>2
  <2>2. \A i \in q..q : i \in 1..q
    BY <1>2
  <2>3. (q..(q - 1)) = {}
    BY <1>2
  <2>4. m[q] = "string" <=> m[N + 2] = "broken"
    BY <1>5
  <2> QED
    BY <1>4, <1>5, <2>1, <2>2, <2>3, <2>4 DEF Kept, N
<1>10. stripComments(r) = SubSeq(r, 1, q - 1) \o SubSeq(r, q, q - 1)
  <2>1. /\ Behind(r, MULTILINE_COMMENT_END) = N + 1
        /\ search(r, MULTILINE_COMMENT_BEGIN) = N + 1
    BY <1>6, FirstMark, TheMarks DEF Behind, N
  <2>2. erase(r, N + 1, N + 1) = r
    <3>1. SubSeq(r, 1, N) = r /\ (N + 1) - 1 = N
      BY <1>1, Parts DEF N
    <3>2. SubSeq(r, N + 1, N) = << >>
      <4>1. N + 1 \in 1..(Len(r) + 1)
        BY <1>1 DEF N
      <4>2. SubSeq(r, N + 1, (N + 1) - 1) = << >>
        BY <1>1, <4>1, Parts
      <4> QED
        BY <3>1, <4>2
    <3>3. r \o << >> = r
      BY <1>1
    <3> QED
      BY <3>1, <3>2, <3>3 DEF erase, N
  <2>3. stripComments(r) = SubSeq(r, 1, q - 1)
    BY <1>8, <2>1, <2>2 DEF stripComments, q
  <2>4. SubSeq(r, q, q - 1) = << >>
    BY <1>1, <1>2, Parts DEF N
  <2>5. SubSeq(r, 1, q - 1) \o << >> = SubSeq(r, 1, q - 1)
    <3>1. q - 1 \in 0..Len(r)
      BY <1>1, <1>2 DEF N
    <3> QED
      BY <1>1, <3>1, Parts
  <2> QED
    BY <2>3, <2>4, <2>5
<1>11. q - 1 \in Int /\ q \in Int
  BY <1>2
<1> QED
  BY <1>5, <1>7, <1>8, <1>9, <1>10, <1>11 DEF Split, N

(* A line that opens a block, up to where it does.                         *)
LEMMA BlockOpens ==
    ASSUME NEW r, NEW t, NEW m, PlainLine(r, t, m), Found(r, MULTILINE_COMMENT_BEGIN),
           NEW b, b = search(r, MULTILINE_COMMENT_BEGIN)
    PROVE  /\ b \in 1..(Len(r) - 1)
           /\ \A i \in 1..b : m[i] \in {"code", "string"}
           /\ m[b] = "code" /\ m[b + 1] = "opening" /\ m[b + 2] = "block"
           /\ \A i \in 1..(b + 1) : ~At(t, i, MULTILINE_COMMENT_END)
           /\ \A i \in 1..(b - 1) : ~At(t, i, SINGLE_LINE_COMMENT)
           /\ r[b] = "/"
           /\ ~EndsUnopened(r) /\ ~Reversed(r)
<1> DEFINE N == Len(r)
           q == search(r, SINGLE_LINE_COMMENT)
           e == search(r, MULTILINE_COMMENT_END)
<1>1. N \in Nat /\ Len(t) = N + 1 /\ (\A i \in 1..N : t[i] # NEWLINE) /\ r \in Seq(Glyph)
      /\ Chained(t, m) /\ m[1] = "code"
  BY LineFacts DEF PlainLine
<1>2. /\ q \in 1..(N + 1)
      /\ Found(r, SINGLE_LINE_COMMENT) => At(t, q, SINGLE_LINE_COMMENT)
      /\ ~Found(r, SINGLE_LINE_COMMENT) => q = N + 1
      /\ \A i \in 1..(N + 1) : i < q => ~At(t, i, SINGLE_LINE_COMMENT)
  BY FirstMark, TheMarks
<1>3. /\ b \in 1..(N + 1) /\ b <= N - 1 /\ At(t, b, MULTILINE_COMMENT_BEGIN)
      /\ \A i \in 1..(N + 1) : i < b => ~At(t, i, MULTILINE_COMMENT_BEGIN)
  BY FirstMark, TheMarks
<1>4. /\ e \in 1..(N + 1)
      /\ Found(r, MULTILINE_COMMENT_END) => At(t, e, MULTILINE_COMMENT_END)
      /\ ~Found(r, MULTILINE_COMMENT_END) => e = N + 1
  BY FirstMark, TheMarks
<1>5. r[b] = "/" /\ r[b + 1] = "*"
  BY <1>3, MarkInLine, TheMarks
<1> HIDE DEF N, q, e
<1>6. ASSUME NEW k \in Int, 1 <= k, k <= q, k <= b
      PROVE  \A i \in 1..k : m[i] \in {"code", "string"}
  <2>1. 1 \in Int /\ 1 <= 1 /\ k <= Len(t) + 1 /\ Len(t) \in Nat /\ m[1] \in {"code", "string"}
    BY <1>1, <1>2, <1>6
  <2>2. \A i \in 1..(k - 1) : /\ t[i] # NEWLINE
                              /\ m[i] = "code" => /\ ~At(t, i, MULTILINE_COMMENT_BEGIN)
                                                  /\ ~At(t, i, SINGLE_LINE_COMMENT)
    <3> TAKE i \in 1..(k - 1)
    <3>1. i \in 1..N /\ i \in 1..(N + 1) /\ i < q /\ i < b
      BY <1>1, <1>2, <1>3, <1>6
    <3> QED
      BY <1>1, <1>2, <1>3, <3>1
  <2> QED
    BY <1>1, <1>6, <2>1, <2>2, CodeGoesOn
<1>7. b < q
  <2>1. q # b
    <3>1. At(t, q, SINGLE_LINE_COMMENT) => r[q + 1] = "/"
      BY <1>2, MarkInLine, TheMarks DEF N
    <3> QED
      BY <1>1, <1>2, <1>3, <1>5, <3>1, GlyphsDiffer
  <2>2. ASSUME q < b PROVE FALSE
    <3>1. q # N + 1 /\ At(t, q, SINGLE_LINE_COMMENT)
      BY <1>1, <1>2, <1>3, <2>2
    <3>2. m[q] \in {"code", "string"}
      <4>1. q \in Int /\ 1 <= q /\ q <= q /\ q <= b /\ q \in 1..q
        BY <1>1, <1>2, <1>3, <2>2
      <4>2. \A i \in 1..q : m[i] \in {"code", "string"}
        BY <1>6, <4>1
      <4> QED
        BY <4>1, <4>2
    <3>3. \A i \in (q + 1)..(N + 1) : m[i] = "line"
      BY <1>2, <3>1, <3>2, Rest DEF N
    <3>4. m[b] = "line"
      BY <1>1, <1>2, <1>3, <2>2, <3>3
    <3> QED
      BY <1>3, <3>4, StrayMarks DEF N
  <2> QED
    BY <1>1, <1>2, <1>3, <2>1, <2>2
<1>8. \A i \in 1..b : m[i] \in {"code", "string"}
  BY <1>1, <1>2, <1>3, <1>6, <1>7
<1>9. m[b] = "code"
  <2>1. m[b] \in {"code", "string"}
    BY <1>1, <1>3, <1>8
  <2> QED
    BY <1>3, <2>1, StrayMarks DEF N
<1>10. m[b + 1] = "opening"
  <2>1. b \in 1..Len(t)
    BY <1>1, <1>3
  <2> QED
    BY <1>1, <1>3, <1>9, <2>1, ChainSteps
<1>11. m[b + 2] = "block"
  <2>1. b + 1 \in 1..Len(t) /\ (b + 1) + 1 = b + 2
    BY <1>1, <1>3
  <2>2. m[(b + 1) + 1] = "block"
    BY <1>1, <1>10, <2>1, ChainSteps
  <2> QED
    BY <2>1, <2>2
<1>12. \A i \in 1..(b + 1) : ~At(t, i, MULTILINE_COMMENT_END)
  <2> TAKE i \in 1..(b + 1)
  <2>1. i \in 1..(N + 1) /\ i \in Int
    BY <1>1, <1>3
  <2>2. m[i] \in {"code", "string", "opening"}
    <3>1. i \in 1..b \/ i = b + 1
      BY <1>3
    <3> QED
      BY <1>8, <1>10, <3>1
  <2> QED
    BY <2>1, <2>2, StrayMarks DEF N
<1>13. \A i \in 1..(b - 1) : ~At(t, i, SINGLE_LINE_COMMENT)
  <2> TAKE i \in 1..(b - 1)
  <2>1. i \in 1..(N + 1) /\ i < q
    BY <1>1, <1>2, <1>3, <1>7
  <2> QED
    BY <1>2, <2>1
<1>14. ~EndsUnopened(r)
  BY DEF EndsUnopened
<1>15. ~Reversed(r)
  <2>1. CASE Found(r, MULTILINE_COMMENT_END)
    <3>1. e > b
      BY <1>1, <1>3, <1>4, <1>12, <2>1
    <3>2. Behind(r, MULTILINE_COMMENT_END) = e + 2
      BY <2>1 DEF Behind, e
    <3> QED
      BY <1>1, <1>3, <1>4, <3>1, <3>2 DEF Reversed
  <2>2. CASE ~Found(r, MULTILINE_COMMENT_END)
    <3>1. Behind(r, MULTILINE_COMMENT_END) = N + 1
      BY <2>2 DEF Behind, N
    <3> QED
      BY <1>1, <1>3, <3>1 DEF Reversed
  <2> QED
    BY <2>1, <2>2
<1>16. b \in 1..(Len(r) - 1)
  BY <1>1, <1>3 DEF N
<1> QED
  BY <1>5, <1>8, <1>9, <1>10, <1>11, <1>12, <1>13, <1>14, <1>15, <1>16

(* A block that the line does not end.                                     *)
LEMMA OpenBlock ==
    ASSUME NEW r, NEW t, NEW m, PlainLine(r, t, m), Found(r, MULTILINE_COMMENT_BEGIN),
           ~Found(r, MULTILINE_COMMENT_END)
    PROVE  Split(r, t, m)
<1> DEFINE N == Len(r)
<1>1. N \in Nat /\ Len(t) = N + 1 /\ r \in Seq(Glyph) /\ Chained(t, m)
  BY LineFacts DEF PlainLine
<1>2. PICK b : b = search(r, MULTILINE_COMMENT_BEGIN)
  OBVIOUS
<1>3. /\ b \in 1..(N - 1)
      /\ \A i \in 1..b : m[i] \in {"code", "string"}
      /\ m[b] = "code" /\ m[b + 1] = "opening" /\ m[b + 2] = "block"
      /\ ~EndsUnopened(r) /\ ~Reversed(r)
  BY <1>2, BlockOpens
<1>4. /\ search(r, MULTILINE_COMMENT_END) = N + 1
      /\ \A i \in 1..(N + 1) : i < search(r, MULTILINE_COMMENT_END)
                                 => ~At(t, i, MULTILINE_COMMENT_END)
  BY FirstMark, TheMarks
<1>5. \A i \in 1..(N + 1) : ~At(t, i, MULTILINE_COMMENT_END)
  <2>1. ~At(t, N + 1, MULTILINE_COMMENT_END)
    <3>1. N + 1 \in 1..(Len(r) + 1) /\ ~(N + 1 <= Len(r) - 1)
      BY <1>1
    <3> QED
      BY <3>1, MarkInLine, TheMarks
  <2>2. \A i \in 1..(N + 1) : i < N + 1 \/ i = N + 1
    BY <1>1
  <2> QED
    BY <1>4, <2>1, <2>2
<1> HIDE DEF N
<1>6. \A i \in (b + 2)..(N + 2) : m[i] = "block"
  <2>1. PICK lo, hi : lo = b + 2 /\ hi = N + 2
    OBVIOUS
  <2>2. lo \in Int /\ hi \in Int /\ 1 <= lo /\ lo <= hi /\ hi <= Len(t) + 1 /\ Len(t) \in Nat
        /\ m[lo] = "block"
    BY <1>1, <1>3, <2>1
  <2>3. \A i \in lo..(hi - 1) : ~At(t, i, MULTILINE_COMMENT_END)
    <3> TAKE i \in lo..(hi - 1)
    <3>1. i \in 1..(N + 1)
      BY <1>1, <1>3, <2>1
    <3> QED
      BY <1>5, <3>1
  <2>4. \A i \in lo..hi : m[i] = "block"
    BY <1>1, <2>2, <2>3, BlockGoesOn
  <2> QED
    BY <2>1, <2>4
<1>7. m[N + 2] = "block"
  BY <1>1, <1>3, <1>6
<1>8. LeavesOpen(r)
  <2>1. r # << >>
    BY <1>1, <1>3 DEF N
  <2> QED
    BY <2>1 DEF LeavesOpen
<1>9. \A i \in b..(N + 1) : Silent(t, m, i)
  <2> TAKE i \in b..(N + 1)
  <2>1. CASE i = b
    BY <1>3, <2>1 DEF Silent, Opens
  <2>2. CASE i = b + 1
    BY <1>3, <2>2 DEF Silent
  <2>3. CASE i \notin {b, b + 1}
    <3>1. m[i] = "block"
      BY <1>1, <1>3, <1>6, <2>3
    <3> QED
      BY <3>1 DEF Silent
  <2> QED
    BY <2>1, <2>2, <2>3
<1>10. Kept(r, t, m, b - 1, b, b - 1)
  <2>1. /\ b - 1 \in Nat /\ b \in Int /\ b - 1 \in Int /\ b - 1 < b /\ b - 1 <= N
        /\ (b - 1) + 1 = b /\ b <= (b - 1) + 1
    BY <1>1, <1>3
  <2>2. \A i \in b..b : i \in 1..b
    BY <1>3
  <2>3. (b..(b - 1)) = {}
    BY <1>3
  <2>4. m[b] = "string" <=> m[N + 2] = "broken"
    BY <1>3, <1>7
  <2> QED
    BY <1>3, <1>9, <2>1, <2>2, <2>3, <2>4 DEF Kept, N
<1>11. stripComments(r) = SubSeq(r, 1, b - 1) \o SubSeq(r, b, b - 1)
  <2>1. Behind(r, MULTILINE_COMMENT_END) = N + 1
    BY DEF Behind, N
  <2>2. stripComments(r) = SubSeq(r, 1, b - 1) \o SubSeq(r, N + 1, N)
    BY <1>2, <1>8, <2>1 DEF stripComments, erase, N
  <2>3. SubSeq(r, N + 1, N) = << >>
    <3>1. N + 1 \in 1..(Len(r) + 1) /\ (N + 1) - 1 = N
      BY <1>1 DEF N
    <3>2. SubSeq(r, N + 1, (N + 1) - 1) = << >>
      BY <1>1, <3>1, Parts
    <3> QED
      BY <3>1, <3>2
  <2>4. SubSeq(r, b, b - 1) = << >>
    <3>1. b \in 1..(Len(r) + 1)
      BY <1>1, <1>3 DEF N
    <3> QED
      BY <1>1, <3>1, Parts
  <2> QED
    BY <2>2, <2>3, <2>4
<1>12. b - 1 \in Int /\ b \in Int
  BY <1>3
<1> QED
  BY <1>3, <1>7, <1>8, <1>10, <1>11, <1>12 DEF Split, N

(* The glyphs of two parts, and of the beginning of both.                  *)
LEMMA TwoParts ==
    ASSUME NEW r \in Seq(Glyph), NEW x \in Nat, NEW y \in Int, NEW z \in Int,
           x < y, x <= Len(r), y <= z + 1, z <= Len(r)
    PROVE  /\ SubSeq(r, 1, x) \o SubSeq(r, y, z) \in Seq(Glyph)
           /\ Len(SubSeq(r, 1, x) \o SubSeq(r, y, z)) = x + (z - y + 1)
           /\ \A i \in 1..x : (SubSeq(r, 1, x) \o SubSeq(r, y, z))[i] = r[i]
           /\ \A i \in y..z : (SubSeq(r, 1, x) \o SubSeq(r, y, z))[x + (i - y + 1)] = r[i]
<1> DEFINE s == SubSeq(r, 1, x)
           u == SubSeq(r, y, z)
<1>0. Len(r) \in Nat
  OBVIOUS
<1>1. s \in Seq(Glyph) /\ Len(s) = x /\ \A i \in 1..x : s[i] = r[i]
  <2>1. /\ 1 \in Int /\ x \in Int /\ 1 <= 1 /\ 1 <= x + 1 /\ x <= Len(r) /\ x - 1 + 1 = x
        /\ \A i \in 1..x : 1 + i - 1 = i
    OBVIOUS
  <2>2. /\ SubSeq(r, 1, x) \in Seq(Glyph)
        /\ Len(SubSeq(r, 1, x)) = x - 1 + 1
        /\ \A i \in 1..(x - 1 + 1) : SubSeq(r, 1, x)[i] = r[1 + i - 1]
    BY <2>1, Slice
  <2> QED
    BY <2>1, <2>2
<1>2. u \in Seq(Glyph) /\ Len(u) = z - y + 1 /\ \A i \in 1..(z - y + 1) : u[i] = r[y + i - 1]
  <2>1. 1 <= y
    OBVIOUS
  <2> QED
    BY <2>1, Slice
<1> HIDE DEF s, u
<1>3. /\ s \o u \in Seq(Glyph) /\ Len(s \o u) = Len(s) + Len(u)
      /\ \A i \in 1..Len(s) : (s \o u)[i] = s[i]
      /\ \A i \in 1..Len(u) : (s \o u)[Len(s) + i] = u[i]
  <2>1. s \in Seq(Glyph) /\ u \in Seq(Glyph)
    BY <1>1, <1>2
  <2> QED
    BY ONLY <2>1, Joining
<1>4. \A i \in 1..x : (s \o u)[i] = r[i]
  BY <1>1, <1>3
<1>5. ASSUME NEW i \in y..z PROVE (s \o u)[x + (i - y + 1)] = r[i]
  <2>1. i - y + 1 \in 1..Len(u) /\ y + (i - y + 1) - 1 = i
    BY <1>2
  <2>2. (s \o u)[x + (i - y + 1)] = u[i - y + 1]
    BY <1>1, <1>3, <2>1
  <2>3. u[i - y + 1] = r[y + (i - y + 1) - 1]
    BY <1>2, <2>1
  <2> QED
    BY <2>1, <2>2, <2>3
<1> QED
  BY <1>1, <1>2, <1>3, <1>4, <1>5 DEF s, u

LEMMA ShorterParts ==
    ASSUME NEW r \in Seq(Glyph), NEW x \in Nat, NEW y \in Int, NEW z \in Int,
           x < y, x <= Len(r), y <= Len(r) + 1, y <= z + 1, z <= Len(r)
    PROVE  SubSeq(SubSeq(r, 1, x) \o SubSeq(r, y, Len(r)), 1, x + (z - y + 1))
             = SubSeq(r, 1, x) \o SubSeq(r, y, z)
<1>0. Len(r) \in Nat
  OBVIOUS
<1>1. PICK whole : whole = SubSeq(r, 1, x) \o SubSeq(r, y, Len(r))
  OBVIOUS
<1>2. PICK n, k : n = Len(r) /\ k = x + (z - y + 1)
  OBVIOUS
<1>3. /\ whole \in Seq(Glyph) /\ Len(whole) = x + (n - y + 1)
      /\ \A i \in 1..x : whole[i] = r[i]
      /\ \A i \in y..n : whole[x + (i - y + 1)] = r[i]
  <2>1. n \in Int /\ y <= n + 1 /\ n <= Len(r)
    BY <1>0, <1>2
  <2>2. whole = SubSeq(r, 1, x) \o SubSeq(r, y, n)
    BY <1>1, <1>2
  <2> QED
    BY ONLY x \in Nat, y \in Int, x < y, x <= Len(r), r \in Seq(Glyph), <2>1, <2>2, TwoParts
<1>4. PICK parts : parts = SubSeq(r, 1, x) \o SubSeq(r, y, z)
  OBVIOUS
<1>5. /\ parts \in Seq(Glyph) /\ Len(parts) = k
      /\ \A i \in 1..x : parts[i] = r[i]
      /\ \A i \in y..z : parts[x + (i - y + 1)] = r[i]
  BY <1>2, <1>4, TwoParts
<1>6. /\ SubSeq(whole, 1, k) \in Seq(Glyph) /\ Len(SubSeq(whole, 1, k)) = k
      /\ \A i \in 1..k : SubSeq(whole, 1, k)[i] = whole[i]
  <2>1. /\ 1 \in Int /\ k \in Int /\ 1 <= 1 /\ 1 <= k + 1 /\ k <= Len(whole) /\ k - 1 + 1 = k
        /\ \A i \in 1..k : 1 + i - 1 = i
    BY <1>0, <1>2, <1>3
  <2>2. /\ SubSeq(whole, 1, k) \in Seq(Glyph)
        /\ Len(SubSeq(whole, 1, k)) = k - 1 + 1
        /\ \A i \in 1..(k - 1 + 1) : SubSeq(whole, 1, k)[i] = whole[1 + i - 1]
    BY <1>3, <2>1, Slice
  <2> QED
    BY <2>1, <2>2
<1>7. ASSUME NEW i \in 1..k PROVE SubSeq(whole, 1, k)[i] = parts[i]
  <2>1. CASE i <= x
    BY <1>3, <1>5, <1>6, <2>1
  <2>2. CASE i > x
    <3>1. PICK j : j = i - x + y - 1
      OBVIOUS
    <3>2. j \in y..z /\ j \in y..n /\ x + (j - y + 1) = i
      BY <1>0, <1>2, <2>2, <3>1
    <3>3. whole[i] = r[j] /\ parts[i] = r[j]
      BY <1>3, <1>5, <3>2
    <3> QED
      BY <1>6, <3>3
  <2> QED
    BY <1>2, <2>1, <2>2
<1>8. SubSeq(whole, 1, k) = parts
  <2>1. PICK w : w = SubSeq(whole, 1, k)
    OBVIOUS
  <2>2. w \in Seq(Glyph) /\ Len(w) = Len(parts) /\ \A i \in 1..Len(w) : w[i] = parts[i]
    BY <1>5, <1>6, <1>7, <2>1
  <2>3. w = parts
    BY <1>5, <2>2, SameSequence
  <2> QED
    BY <2>1, <2>3
<1> QED
  BY <1>1, <1>2, <1>4, <1>8

(* A block that the line ends.                                             *)
LEMMA EndedBlock ==
    ASSUME NEW r, NEW t, NEW m, PlainLine(r, t, m), Found(r, MULTILINE_COMMENT_BEGIN),
           Found(r, MULTILINE_COMMENT_END)
    PROVE  Split(r, t, m)
<1> DEFINE N == Len(r)
<1>1. N \in Nat /\ Len(t) = N + 1 /\ r \in Seq(Glyph) /\ Chained(t, m)
      /\ \A i \in 1..N : t[i] # NEWLINE
  BY LineFacts DEF PlainLine
<1>2. PICK b, e : /\ b = search(r, MULTILINE_COMMENT_BEGIN)
                  /\ e = search(r, MULTILINE_COMMENT_END)
  OBVIOUS
<1>3. /\ b \in 1..(N - 1)
      /\ \A i \in 1..b : m[i] \in {"code", "string"}
      /\ m[b] = "code" /\ m[b + 1] = "opening" /\ m[b + 2] = "block"
      /\ \A i \in 1..(b + 1) : ~At(t, i, MULTILINE_COMMENT_END)
      /\ \A i \in 1..(b - 1) : ~At(t, i, SINGLE_LINE_COMMENT)
      /\ r[b] = "/"
      /\ ~EndsUnopened(r) /\ ~Reversed(r)
  BY <1>2, BlockOpens
<1>4. /\ e \in 1..(N + 1) /\ e <= N - 1 /\ At(t, e, MULTILINE_COMMENT_END)
      /\ \A i \in 1..(N + 1) : i < e => ~At(t, i, MULTILINE_COMMENT_END)
  BY <1>2, FirstMark, TheMarks
<1>5. e >= b + 2 /\ e \in Int /\ b \in Int
  BY <1>1, <1>3, <1>4
<1> HIDE DEF N
<1>6. \A i \in (b + 2)..e : m[i] = "block"
  <2>1. PICK lo : lo = b + 2
    OBVIOUS
  <2>2. lo \in Int /\ e \in Int /\ 1 <= lo /\ lo <= e /\ e <= Len(t) + 1 /\ Len(t) \in Nat
        /\ m[lo] = "block"
    BY <1>1, <1>3, <1>4, <1>5, <2>1
  <2>3. \A i \in lo..(e - 1) : ~At(t, i, MULTILINE_COMMENT_END)
    <3> TAKE i \in lo..(e - 1)
    <3>1. i \in 1..(N + 1) /\ i < e
      BY <1>1, <1>3, <1>4, <2>1
    <3> QED
      BY <1>4, <3>1
  <2>4. \A i \in lo..e : m[i] = "block"
    BY <1>1, <2>2, <2>3, BlockGoesOn
  <2> QED
    BY <2>1, <2>4
<1>7. m[e + 1] = "closing" /\ m[e + 2] = "code"
  <2>1. e \in 1..Len(t) /\ e + 1 \in 1..Len(t) /\ (e + 1) + 1 = e + 2 /\ m[e] = "block"
    BY <1>1, <1>3, <1>4, <1>5, <1>6
  <2>2. m[e + 1] = "closing"
    BY <1>1, <1>4, <2>1, ChainSteps
  <2>3. m[(e + 1) + 1] = "code"
    BY <1>1, <2>1, <2>2, ChainSteps
  <2> QED
    BY <2>1, <2>2, <2>3
<1>8. ~LeavesOpen(r)
  <2>1. r # << >>
    BY <1>1, <1>3 DEF N
  <2> QED
    BY <2>1 DEF LeavesOpen
<1>9. PICK x, y : x = b - 1 /\ y = e + 2
  OBVIOUS
<1>10. x \in Nat /\ y \in Int /\ x + 1 < y /\ x <= N /\ y <= N + 1
  BY <1>1, <1>3, <1>4, <1>5, <1>9
<1>11. PICK rest : rest = SubSeq(r, 1, x) \o SubSeq(r, y, N)
  OBVIOUS
<1>12. /\ rest \in Seq(Glyph) /\ Len(rest) = x + (N - y + 1)
       /\ \A i \in 1..x : rest[i] = r[i]
       /\ \A i \in y..N : rest[x + (i - y + 1)] = r[i]
  <2>1. N \in Int /\ x < y /\ x <= Len(r) /\ y <= N + 1 /\ N <= Len(r)
    BY <1>1, <1>10 DEF N
  <2> QED
    BY ONLY <1>1, <1>10, <1>11, <2>1, TwoParts
<1>13. PICK p : p = search(rest, SINGLE_LINE_COMMENT)
  OBVIOUS
<1>14. /\ p \in 1..(Len(rest) + 1) /\ p # Len(rest)
       /\ p <= Len(rest) => Marked(rest, p, SINGLE_LINE_COMMENT)
       /\ \A i \in 1..(Len(rest) - 1) : i < p => ~Marked(rest, i, SINGLE_LINE_COMMENT)
  <2>1. /\ p \in 1..(Len(rest) + 1) /\ p # Len(rest)
        /\ Found(rest, SINGLE_LINE_COMMENT) => Marked(rest, p, SINGLE_LINE_COMMENT)
        /\ ~Found(rest, SINGLE_LINE_COMMENT) => p = Len(rest) + 1
        /\ \A i \in 1..(Len(rest) - 1) : i < p => ~Marked(rest, i, SINGLE_LINE_COMMENT)
    BY <1>12, <1>13, SearchIs
  <2>2. Len(rest) \in Nat
    BY <1>12
  <2> QED
    BY <2>1, <2>2
<1>15. ASSUME NEW i \in 1..(Len(rest) - 1)
       PROVE  Marked(rest, i, SINGLE_LINE_COMMENT) <=> rest[i] = "/" /\ rest[i + 1] = "/"
  BY <1>12, MarkedIs DEF SINGLE_LINE_COMMENT
<1>16. p > x
  <2> SUFFICES ASSUME p <= x PROVE FALSE
    BY <1>10, <1>12, <1>14
  <2>1. p \in 1..(Len(rest) - 1) /\ p \in 1..x
    BY <1>1, <1>10, <1>12, <1>14
  <2>2. rest[p] = "/" /\ rest[p + 1] = "/"
    BY <1>14, <1>15, <2>1
  <2>3. r[p] = "/" /\ r[p + 1] = "/"
    <3>1. r[p] = "/"
      BY <1>12, <2>1, <2>2
    <3>2. CASE p < x
      <4>1. p + 1 \in 1..x
        BY <1>10, <2>1, <3>2
      <4> QED
        BY <1>12, <2>2, <3>1, <4>1
    <3>3. CASE p = x
      BY <1>3, <1>9, <3>1, <3>3
    <3> QED
      BY <1>10, <2>1, <3>2, <3>3
  <2>4. p \in 1..(Len(r) + 1) /\ p <= Len(r) - 1 /\ p \in 1..(b - 1)
    BY <1>1, <1>3, <1>9, <2>1 DEF N
  <2>5. At(t, p, SINGLE_LINE_COMMENT)
    BY <2>3, <2>4, MarkInLine, TheMarks
  <2> QED
    BY <1>3, <2>4, <2>5
<1>17. PICK z : z = p + y - 2 - x
  OBVIOUS
<1>18. z \in Int /\ y <= z + 1 /\ z <= N /\ p = x + (z - y + 1) + 1
  BY <1>1, <1>10, <1>12, <1>14, <1>16, <1>17
<1>19. \A i \in y..(z + 1) : m[i] \in {"code", "string"}
  <2>1. PICK hi : hi = z + 1
    OBVIOUS
  <2>2. /\ y \in Int /\ hi \in Int /\ 1 <= y /\ y <= hi /\ hi <= Len(t) + 1 /\ Len(t) \in Nat
        /\ m[y] \in {"code", "string"}
    BY <1>1, <1>7, <1>9, <1>10, <1>18, <2>1
  <2>3. ASSUME NEW i \in y..(hi - 1)
        PROVE  /\ t[i] # NEWLINE
               /\ m[i] = "code" => /\ ~At(t, i, MULTILINE_COMMENT_BEGIN)
                                   /\ ~At(t, i, SINGLE_LINE_COMMENT)
    <3>1. i \in 1..N /\ i \in 1..Len(t) /\ i \in 1..(Len(r) + 1) /\ i \in y..z
      BY <1>1, <1>10, <1>18, <2>1, <2>2 DEF N
    <3>2. t[i] # NEWLINE
      BY <1>1, <3>1
    <3>3. ASSUME m[i] = "code", At(t, i, MULTILINE_COMMENT_BEGIN) PROVE FALSE
      <4>1. m[i + 1] = "opening"
        BY <1>1, <3>1, <3>3, ChainSteps
      <4>2. b \in 1..Len(t) /\ b < i
        BY <1>1, <1>3, <1>9, <1>10, <3>1
      <4>3. ~(m[b + 1] = "opening" /\ m[i + 1] = "opening")
        BY <3>1, <4>2 DEF PlainLine
      <4> QED
        BY <1>3, <4>1, <4>3
    <3>4. ASSUME At(t, i, SINGLE_LINE_COMMENT) PROVE FALSE
      <4>1. i <= Len(r) - 1 /\ r[i] = "/" /\ r[i + 1] = "/"
        BY <3>1, <3>4, MarkInLine, TheMarks
      <4>2. PICK k : k = x + (i - y + 1)
        OBVIOUS
      <4>3. k \in 1..(Len(rest) - 1) /\ k < p /\ k + 1 = x + ((i + 1) - y + 1)
            /\ i \in y..N /\ i + 1 \in y..N
        BY <1>1, <1>10, <1>12, <1>18, <3>1, <4>1, <4>2 DEF N
      <4>4. rest[k] = "/" /\ rest[k + 1] = "/"
        BY <1>12, <4>1, <4>2, <4>3
      <4> QED
        BY <1>14, <1>15, <4>3, <4>4
    <3> QED
      BY <3>2, <3>3, <3>4
  <2>4. \A i \in y..hi : m[i] \in {"code", "string"}
    BY <1>1, <2>2, <2>3, CodeGoesOn
  <2> QED
    BY <2>1, <2>4
<1>20. /\ \A i \in (z + 1)..(N + 1) : Silent(t, m, i)
       /\ m[z + 1] = "string" => m[N + 2] = "broken"
       /\ m[z + 1] # "string" => m[N + 2] = "code"
  <2>1. PICK k : k = z + 1
    OBVIOUS
  <2>2. k \in 1..(Len(r) + 1) /\ m[k] \in {"code", "string"}
    BY <1>1, <1>10, <1>18, <1>19, <2>1 DEF N
  <2>3. k = Len(r) + 1 \/ At(t, k, SINGLE_LINE_COMMENT)
    <3>1. CASE p = Len(rest) + 1
      BY <1>1, <1>10, <1>12, <1>17, <2>1, <3>1 DEF N
    <3>2. CASE p # Len(rest) + 1
      <4>1. p \in 1..(Len(rest) - 1)
        BY <1>12, <1>14, <3>2
      <4>2. rest[p] = "/" /\ rest[p + 1] = "/"
        BY <1>12, <1>14, <1>15, <4>1
      <4>3. k \in y..N /\ k + 1 \in y..N /\ p = x + (k - y + 1) /\ p + 1 = x + ((k + 1) - y + 1)
        BY <1>1, <1>10, <1>12, <1>16, <1>17, <2>1, <4>1
      <4>4. r[k] = "/" /\ r[k + 1] = "/"
        BY <1>12, <4>2, <4>3
      <4>5. k <= Len(r) - 1
        BY <1>1, <4>3 DEF N
      <4> QED
        BY <2>2, <4>4, <4>5, MarkInLine, TheMarks
    <3> QED
      BY <3>1, <3>2
  <2>4. /\ \A i \in k..(Len(r) + 1) : Silent(t, m, i)
        /\ m[k] = "string" => m[Len(r) + 2] = "broken"
        /\ m[k] # "string" => m[Len(r) + 2] = "code"
    BY <2>2, <2>3, Rest
  <2> QED
    BY <2>1, <2>4 DEF N
<1>21. \A i \in (x + 1)..(y - 1) : Silent(t, m, i)
  <2> TAKE i \in (x + 1)..(y - 1)
  <2>1. CASE i = b
    BY <1>3, <2>1 DEF Silent, Opens
  <2>2. CASE i = b + 1
    BY <1>3, <2>2 DEF Silent
  <2>3. CASE i = e + 1
    BY <1>7, <2>3 DEF Silent
  <2>4. CASE i \notin {b, b + 1, e + 1}
    <3>1. m[i] = "block"
      BY <1>5, <1>6, <1>9, <1>10, <2>4
    <3> QED
      BY <3>1 DEF Silent
  <2> QED
    BY <2>1, <2>2, <2>3, <2>4
<1>22. ASSUME x >= 1, y <= z, m[x] = "code" PROVE ~(IsWord(r[x]) /\ IsWord(r[y]))
  <2>1. x \in 1..Len(r) /\ y \in 1..Len(r) /\ x < y
    BY <1>1, <1>10, <1>18, <1>22 DEF N
  <2>2. m[x + 2] = "opening" /\ m[y] = "code"
    <3>1. x + 2 = b + 1
      BY <1>5, <1>9
    <3> QED
      BY <1>3, <1>7, <1>9, <3>1
  <2>3. ASSUME NEW k \in (x + 2)..(y - 1) PROVE m[k] # "code"
    <3>1. k = b + 1 \/ k = e + 1 \/ k \in (b + 2)..e
      BY <1>5, <1>9, <1>10
    <3> QED
      BY <1>3, <1>6, <1>7, <3>1
  <2> QED
    BY <1>22, <2>1, <2>2, <2>3 DEF PlainLine
<1>23. Kept(r, t, m, x, y, z)
  <2>1. \A i \in 1..(x + 1) : m[i] \in {"code", "string"}
    BY <1>3, <1>9
  <2>2. m[x + 1] = "code" /\ m[y] = "code"
    <3>1. x + 1 = b
      BY <1>5, <1>9
    <3> QED
      BY <1>3, <1>7, <1>9, <3>1
  <2>3. m[z + 1] = "string" <=> m[N + 2] = "broken"
    BY <1>20
  <2>4. x < y
    BY <1>10
  <2> QED
    BY <1>10, <1>18, <1>19, <1>20, <1>21, <1>22, <2>1, <2>2, <2>3, <2>4 DEF Kept, N
<1>24. stripComments(r) = SubSeq(r, 1, x) \o SubSeq(r, y, z)
  <2>1. Behind(r, MULTILINE_COMMENT_END) = y
    BY <1>2, <1>9 DEF Behind
  <2>2. erase(r, b, y) = rest
    BY <1>9, <1>11 DEF erase, N
  <2>3. stripComments(r) = SubSeq(rest, 1, p - 1)
    BY <1>2, <1>8, <1>13, <2>1, <2>2 DEF stripComments
  <2>4. p - 1 = x + (z - y + 1)
    BY <1>10, <1>18
  <2>5. SubSeq(SubSeq(r, 1, x) \o SubSeq(r, y, Len(r)), 1, x + (z - y + 1))
             = SubSeq(r, 1, x) \o SubSeq(r, y, z)
    <3>1. x < y /\ x <= Len(r) /\ y <= Len(r) + 1 /\ z <= Len(r)
      BY <1>10, <1>18 DEF N
    <3> QED
      BY ONLY <1>1, <1>10, <1>18, <3>1, ShorterParts
  <2> QED
    BY <1>11, <2>3, <2>4, <2>5 DEF N
<1>25. m[N + 2] \in {"code", "broken"}
  BY <1>20
<1>26. \E i, j, k \in Int : /\ Kept(r, t, m, i, j, k)
                            /\ stripComments(r) = SubSeq(r, 1, i) \o SubSeq(r, j, k)
  <2>1. x \in Int /\ y \in Int /\ z \in Int
    BY <1>10, <1>18
  <2> QED
    BY ONLY <1>23, <1>24, <2>1
<1>27. m[N + 2] # "block"
  BY <1>25
<1> QED
  <2>1. LeavesOpen(r) <=> m[Len(r) + 2] = "block"
    BY <1>8, <1>27 DEF N
  <2>2. m[Len(r) + 2] \in {"code", "block", "broken"}
    BY <1>25 DEF N
  <2>3. ~EndsUnopened(r) /\ ~Reversed(r)
    BY <1>3
  <2> QED
    BY ONLY <1>26, <2>1, <2>2, <2>3 DEF Split

LEMMA LineSplits ==
    ASSUME NEW r, NEW t, NEW m, PlainLine(r, t, m), r = << >> => ~LeavesOpen(r)
    PROVE  Split(r, t, m)
  BY NoBlock, OpenBlock, EndedBlock

-----------------------------------------------------------------------------
(* Reading what is left of a line.                                         *)

\* The tokens that the glyphs of a line end.
TokensOfLine(t, m, tok, line) ==
    /\ tok \in Seq(Seq(TokenSet)) /\ Len(tok) = Len(t)
    /\ \A i \in 1..Len(t) :
          /\ Silent(t, m, i) => tok[i] = << >>
          /\ m[i] = "code" /\ ~Opens(t, m, i) /\ t[i] \notin IGNORE_CHARS =>
                tok[i] = <<Token(IF t[i] \in SYMBOLS THEN "SYMBOL" ELSE TypeOf(<<t[i]>>),
                                 <<t[i]>>, line)>>
          /\ m[i] = "string" /\ t[i] = QUOTE =>
                \A j \in 1..i :
                   Opens(t, m, j) /\ (\A k \in (j + 1)..i : m[k] = "string") =>
                      tok[i] = <<StringToken(SubSeq(t, j + 1, i - 1), line)>>

\* What has been read before the i-th glyph, when the p-th was read last.
Agree(reading, i, p, t, m, F, line) ==
    /\ m[i] = "code" =>
          /\ reading.quoted = FALSE
          /\ Flushed(reading, line) = F[i - 1]
          /\ \/ reading.run = << >>
             \/ p >= 1 /\ p <= Len(t) - 1 /\ m[p] = "code" /\ IsWord(t[p])
    /\ m[i] = "string" =>
          /\ reading.quoted = TRUE
          /\ reading.tokens = F[i - 1]
          /\ \E j \in 1..(i - 1) : /\ Opens(t, m, j)
                                   /\ \A k \in (j + 1)..i : m[k] = "string"
                                   /\ reading.run = SubSeq(t, j + 1, i - 1)

LEMMA FlattenStep ==
    ASSUME NEW tok, NEW F, Flattened(tok, F, TokenSet), tok \in Seq(Seq(TokenSet)),
           NEW i \in 1..Len(tok)
    PROVE  /\ F[i - 1] \in Seq(TokenSet) /\ F[i] \in Seq(TokenSet)
           /\ tok[i] = << >> => F[i] = F[i - 1]
           /\ \A token : tok[i] = <<token>> => F[i] = Append(F[i - 1], token)
<1>1. Len(tok) \in Nat /\ i - 1 \in 0..Len(tok) /\ i \in 0..Len(tok)
  OBVIOUS
<1>2. F[i - 1] \in Seq(TokenSet) /\ F[i] \in Seq(TokenSet) /\ F[i] = F[i - 1] \o tok[i]
  BY <1>1 DEF Flattened
<1>3. PICK f : f = F[i - 1]
  OBVIOUS
<1>4. f \in Seq(TokenSet) /\ f \o << >> = f
  BY <1>2, <1>3
<1>5. ASSUME NEW token, tok[i] = <<token>> PROVE F[i] = Append(f, token)
  <2>1. tok[i] \in Seq(TokenSet)
    OBVIOUS
  <2>2. token \in TokenSet
    <3>1. <<token>> \in Seq(TokenSet)
      BY <1>5, <2>1
    <3> QED
      BY <3>1
  <2>3. Append(f, token) = f \o <<token>>
    BY ONLY <1>4, <2>2, Appended
  <2> QED
    BY <1>2, <1>3, <1>5, <2>3
<1> QED
  BY <1>2, <1>3, <1>4, <1>5

(* Glyphs that make no token add nothing.                                  *)
LEMMA NothingAdded ==
    ASSUME NEW tok, tok \in Seq(Seq(TokenSet)), NEW F, Flattened(tok, F, TokenSet),
           NEW lo \in Int, NEW hi \in Int, 1 <= lo, lo <= hi + 1, hi <= Len(tok),
           \A i \in lo..hi : tok[i] = << >>
    PROVE  F[hi] = F[lo - 1]
<1> DEFINE S == {i \in Int : F[i] = F[lo - 1]}
<1>1. PICK a : a = lo - 1
  OBVIOUS
<1>2. a \in Int /\ a <= hi /\ a \in S
  BY <1>1
<1>3. ASSUME NEW i \in a..(hi - 1), i \in S PROVE i + 1 \in S
  <2>1. PICK k : k = i + 1
    OBVIOUS
  <2>2. k \in lo..hi /\ k - 1 = i /\ k \in Int
    BY <1>1, <1>2, <2>1
  <2>3. tok[k] = << >> /\ k \in 1..Len(tok) /\ tok \in Seq(Seq(TokenSet))
    BY <2>2
  <2>4. F[k] = F[k - 1]
    BY ONLY <2>3, Flattened(tok, F, TokenSet), FlattenStep
  <2> QED
    BY <1>3, <2>1, <2>2, <2>4
<1>4. a..hi \subseteq S
  <2> HIDE DEF S
  <2> QED
    BY <1>2, <1>3, Along
<1>5. hi \in a..hi
  BY <1>2
<1> QED
  BY <1>4, <1>5

LEMMA SilentKeeps ==
    ASSUME NEW t, NEW m, NEW line, NEW tok, TokensOfLine(t, m, tok, line),
           NEW F, Flattened(tok, F, TokenSet), Len(t) \in Nat,
           NEW lo \in Int, NEW hi \in Int, 1 <= lo, lo <= hi + 1, hi <= Len(t),
           \A i \in lo..hi : Silent(t, m, i)
    PROVE  F[hi] = F[lo - 1]
<1>1. tok \in Seq(Seq(TokenSet)) /\ Len(tok) = Len(t)
  BY DEF TokensOfLine
<1>2. ASSUME NEW i \in lo..hi PROVE tok[i] = << >>
  <2>1. i \in 1..Len(t) /\ Silent(t, m, i)
    OBVIOUS
  <2> QED
    BY <2>1 DEF TokensOfLine
<1> QED
  BY <1>1, <1>2, NothingAdded

(* A glyph of code.                                                        *)
LEMMA ReadCode ==
    ASSUME NEW r, NEW t, NEW m, PlainLine(r, t, m),
           NEW line \in Int, NEW tok, TokensOfLine(t, m, tok, line),
           NEW F, Flattened(tok, F, TokenSet),
           NEW i \in 1..Len(r), NEW p, NEW R \in Readings, Agree(R, i, p, t, m, F, line),
           m[i] = "code", m[i + 1] \in {"code", "string"},
           p \in 1..Len(r) /\ m[p] = "code" => ~(IsWord(r[p]) /\ IsWord(r[i])), p \in Int
    PROVE  Agree(Read(R, t[i], line), i + 1, i, t, m, F, line)
<1>1. /\ Len(r) \in Nat /\ Len(t) = Len(r) + 1 /\ i \in 1..Len(t) /\ t \in Seq(Glyph)
      /\ t[i] = r[i] /\ t[i] \in Glyph /\ Chained(t, m) /\ t[i] # NEWLINE
  <2>1. /\ Len(r) \in Nat /\ Len(t) = Len(r) + 1 /\ t \in Seq(Glyph)
        /\ t[i] = r[i] /\ r[i] \in Glyph /\ t[i] # NEWLINE
    BY LineFacts
  <2>2. i \in 1..Len(t)
    BY <2>1
  <2> QED
    BY <2>1, <2>2 DEF PlainLine
<1>2. /\ R.quoted = FALSE /\ Flushed(R, line) = F[i - 1]
      /\ R.run = << >> \/ (p >= 1 /\ p <= Len(t) - 1 /\ m[p] = "code" /\ IsWord(t[p]))
  BY DEF Agree
<1>3. i \in 1..Len(tok) /\ tok \in Seq(Seq(TokenSet))
  BY <1>1 DEF TokensOfLine
<1>4. /\ F[i - 1] \in Seq(TokenSet) /\ F[i] \in Seq(TokenSet)
      /\ tok[i] = << >> => F[i] = F[i - 1]
      /\ \A token : tok[i] = <<token>> => F[i] = Append(F[i - 1], token)
  BY ONLY <1>3, Flattened(tok, F, TokenSet), FlattenStep
<1>5. PICK after : after = Read(R, t[i], line)
  OBVIOUS
<1>6. after \in Readings
  BY <1>1, <1>5, ReadTyped
<1>7. (i + 1) - 1 = i /\ i + 1 \in Int
  OBVIOUS
<1>8. CASE t[i] = QUOTE
  <2>1. m[i + 1] = "string"
    BY <1>1, <1>8, ChainSteps
  <2>2. Opens(t, m, i)
    BY <2>1 DEF Opens
  <2>3. F[i] = F[i - 1]
    <3>1. Silent(t, m, i)
      BY <2>2 DEF Silent
    <3> QED
      BY <1>1, <1>4, <3>1 DEF TokensOfLine
  <2>4. after.tokens = F[i] /\ after.run = << >> /\ after.quoted = TRUE
    <3>1. after = [tokens |-> Flushed(R, line), run |-> << >>, quoted |-> TRUE]
      BY <1>1, <1>2, <1>5, <1>8, ReadIs
    <3> QED
      BY <1>2, <2>3, <3>1
  <2>5. SubSeq(t, i + 1, i) = << >>
    <3>1. \A n \in 1..(Len(t) + 1) : SubSeq(t, n, n - 1) = << >>
      BY <1>1, Parts
    <3>2. i + 1 \in 1..(Len(t) + 1)
      BY <1>1
    <3> QED
      BY <1>7, <3>1, <3>2
  <2>6. \A k \in (i + 1)..(i + 1) : m[k] = "string"
    BY <1>7, <2>1
  <2>7. i \in 1..((i + 1) - 1)
    OBVIOUS
  <2>8. \E j \in 1..((i + 1) - 1) : /\ Opens(t, m, j)
                                    /\ \A k \in (j + 1)..(i + 1) : m[k] = "string"
                                    /\ after.run = SubSeq(t, j + 1, (i + 1) - 1)
    BY <1>7, <2>2, <2>4, <2>5, <2>6, <2>7
  <2> QED
    BY <1>5, <1>7, <2>1, <2>4, <2>8 DEF Agree
<1>9. CASE t[i] # QUOTE
  <2>1. m[i + 1] = "code" /\ ~Opens(t, m, i)
    <3>1. m[i + 1] = "code"
      BY <1>1, <1>9, ChainSteps
    <3> QED
      BY <3>1 DEF Opens
  <2>2. \/ t[i] \in SYMBOLS
        \/ t[i] \in IGNORE_CHARS
        \/ IsWord(t[i])
    BY <1>9 DEF IsWord
  <2>3. SUFFICES /\ after.quoted = FALSE
                 /\ Flushed(after, line) = F[i]
                 /\ after.run = << >> \/ IsWord(t[i])
    <3>1. i >= 1 /\ i <= Len(t) - 1
      BY <1>1
    <3>2. m[i + 1] # "string"
      BY <2>1
    <3>3. ASSUME after.quoted = FALSE, Flushed(after, line) = F[i], after.run = << >> \/ IsWord(t[i])
          PROVE  Agree(after, i + 1, i, t, m, F, line)
      BY <1>7, <2>1, <3>1, <3>2, <3>3 DEF Agree
    <3> QED
      BY <1>5, <3>3
  <2>4. after.run = << >> => Flushed(after, line) = after.tokens
    BY <1>6, FlushedIs
  <2>5. CASE t[i] \in SYMBOLS
    <3>1. t[i] \notin IGNORE_CHARS
      BY <2>5, GlyphsAssumption
    <3>2. tok[i] = <<Token("SYMBOL", <<t[i]>>, line)>>
      BY <1>1, <2>1, <2>5, <3>1 DEF TokensOfLine
    <3>3. F[i] = Append(F[i - 1], Token("SYMBOL", <<t[i]>>, line))
      BY <1>4, <3>2
    <3>4. after = [tokens |-> Append(Flushed(R, line), Token("SYMBOL", <<t[i]>>, line)),
                   run |-> << >>, quoted |-> FALSE]
      BY <1>1, <1>2, <1>5, <2>5, ReadIs
    <3> QED
      BY <1>2, <2>4, <3>3, <3>4
  <2>6. CASE t[i] \in IGNORE_CHARS
    <3>1. Silent(t, m, i)
      BY <2>6 DEF Silent
    <3>2. F[i] = F[i - 1]
      BY <1>1, <1>4, <3>1 DEF TokensOfLine
    <3>3. after = [tokens |-> Flushed(R, line), run |-> << >>, quoted |-> FALSE]
      BY <1>1, <1>2, <1>5, <2>6, ReadIs
    <3> QED
      BY <1>2, <2>4, <3>2, <3>3
  <2>7. CASE IsWord(t[i])
    <3>1. t[i] \notin IGNORE_CHARS /\ t[i] \notin SYMBOLS
      BY <2>7 DEF IsWord
    <3>2. tok[i] = <<Token(TypeOf(<<t[i]>>), <<t[i]>>, line)>>
      BY <1>1, <2>1, <3>1 DEF TokensOfLine
    <3>3. F[i] = Append(F[i - 1], Token(TypeOf(<<t[i]>>), <<t[i]>>, line))
      BY <1>4, <3>2
    <3>4. R.run = << >>
      <4> SUFFICES ASSUME p >= 1, p <= Len(t) - 1, m[p] = "code", IsWord(t[p]) PROVE FALSE
        BY <1>2
      <4>1. p \in 1..Len(r)
        BY <1>1
      <4>2. t[p] = r[p]
        BY <4>1, LineFacts
      <4> QED
        BY <1>1, <2>7, <4>1, <4>2
    <3>5. R.tokens = F[i - 1]
      BY <1>2, <3>4, FlushedIs
    <3>6. after = [tokens |-> R.tokens, run |-> Append(R.run, t[i]), quoted |-> FALSE]
      BY <1>1, <1>2, <1>5, <2>7, ReadIs
    <3>7. after.tokens = F[i - 1] /\ after.quoted = FALSE /\ after.run = <<t[i]>>
      <4>1. Append(<< >>, t[i]) = <<t[i]>>
        OBVIOUS
      <4> QED
        BY <3>4, <3>5, <3>6, <4>1
    <3>8. after.run # << >>
      <4>1. <<t[i]>> # << >>
        OBVIOUS
      <4> QED
        BY <3>7, <4>1
    <3>9. Flushed(after, line) = Append(F[i - 1], Token(TypeOf(<<t[i]>>), <<t[i]>>, line))
      BY <1>6, <3>7, <3>8, FlushedIs
    <3> QED
      BY <2>7, <3>3, <3>7, <3>9
  <2> QED
    BY <2>2, <2>5, <2>6, <2>7
<1> QED
  BY <1>8, <1>9

(* A glyph of a string.                                                    *)
LEMMA ReadQuoted ==
    ASSUME NEW r, NEW t, NEW m, PlainLine(r, t, m),
           NEW line \in Int, NEW tok, TokensOfLine(t, m, tok, line),
           NEW F, Flattened(tok, F, TokenSet),
           NEW i \in 1..Len(r), NEW p, NEW R \in Readings, Agree(R, i, p, t, m, F, line),
           m[i] = "string", m[i + 1] \in {"code", "string"}
    PROVE  Agree(Read(R, t[i], line), i + 1, i, t, m, F, line)
<1>1. /\ Len(r) \in Nat /\ Len(t) = Len(r) + 1 /\ i \in 1..Len(t) /\ t \in Seq(Glyph)
      /\ t[i] = r[i] /\ t[i] \in Glyph /\ Chained(t, m) /\ t[i] # NEWLINE
  <2>1. /\ Len(r) \in Nat /\ Len(t) = Len(r) + 1 /\ t \in Seq(Glyph)
        /\ t[i] = r[i] /\ r[i] \in Glyph /\ t[i] # NEWLINE
    BY LineFacts
  <2>2. i \in 1..Len(t)
    BY <2>1
  <2> QED
    BY <2>1, <2>2 DEF PlainLine
<1>2. R.quoted = TRUE /\ R.tokens = F[i - 1]
  BY DEF Agree
<1>3. PICK j \in 1..(i - 1) : /\ Opens(t, m, j)
                              /\ \A k \in (j + 1)..i : m[k] = "string"
                              /\ R.run = SubSeq(t, j + 1, i - 1)
  BY DEF Agree
<1>4. i \in 1..Len(tok) /\ tok \in Seq(Seq(TokenSet))
  BY <1>1 DEF TokensOfLine
<1>5. /\ F[i - 1] \in Seq(TokenSet) /\ F[i] \in Seq(TokenSet)
      /\ tok[i] = << >> => F[i] = F[i - 1]
      /\ \A token : tok[i] = <<token>> => F[i] = Append(F[i - 1], token)
  BY ONLY <1>4, Flattened(tok, F, TokenSet), FlattenStep
<1>6. PICK after : after = Read(R, t[i], line)
  OBVIOUS
<1>7. after \in Readings
  BY <1>1, <1>6, ReadTyped
<1>8. (i + 1) - 1 = i /\ i + 1 \in Int
  OBVIOUS
<1>9. CASE t[i] = QUOTE
  <2>1. m[i + 1] = "code"
    BY <1>1, <1>9, ChainSteps
  <2>2. tok[i] = <<StringToken(R.run, line)>>
    <3>1. j \in 1..i
      BY <1>3
    <3> QED
      BY <1>1, <1>3, <1>9, <3>1 DEF TokensOfLine
  <2>3. after = [tokens |-> Append(R.tokens, StringToken(R.run, line)), run |-> << >>, quoted |-> FALSE]
    BY <1>1, <1>2, <1>6, <1>9, ReadIs
  <2>4. after.quoted = FALSE /\ after.run = << >> /\ after.tokens = F[i]
    BY <1>2, <1>5, <2>2, <2>3
  <2>5. Flushed(after, line) = F[i]
    BY <1>7, <2>4, FlushedIs
  <2>6. m[i + 1] # "string"
    BY <2>1
  <2> QED
    BY <1>6, <1>8, <2>1, <2>4, <2>5, <2>6 DEF Agree
<1>10. CASE t[i] # QUOTE
  <2>1. m[i + 1] = "string"
    BY <1>1, <1>10, ChainSteps
  <2>2. F[i] = F[i - 1]
    <3>1. Silent(t, m, i)
      BY <1>10 DEF Silent
    <3> QED
      BY <1>1, <1>5, <3>1 DEF TokensOfLine
  <2>3. after = [tokens |-> R.tokens, run |-> Append(R.run, t[i]), quoted |-> TRUE]
    BY <1>1, <1>2, <1>6, <1>10, ReadIs
  <2>4. Append(R.run, t[i]) = SubSeq(t, j + 1, i)
    <3>1. PICK a : a = j + 1
      OBVIOUS
    <3>2. a \in 1..Len(t) /\ i \in a..Len(t)
      BY <1>1, <1>3, <3>1
    <3>3. SubSeq(t, a, i) = Append(SubSeq(t, a, i - 1), t[i])
      BY ONLY <1>1, <3>2, SubSeqRecursiveSecond
    <3> QED
      BY <1>3, <3>1, <3>3
  <2>5. \A k \in (j + 1)..(i + 1) : m[k] = "string"
    <3>1. \A k \in (j + 1)..(i + 1) : k \in (j + 1)..i \/ k = i + 1
      BY <1>3
    <3> QED
      BY <1>3, <2>1, <3>1
  <2>6. after.quoted = TRUE /\ after.tokens = F[i] /\ after.run = SubSeq(t, j + 1, i)
    BY <1>2, <2>2, <2>3, <2>4
  <2>7. j \in 1..((i + 1) - 1)
    BY <1>3
  <2>8. m[i + 1] # "code"
    BY <2>1
  <2>9. \E h \in 1..((i + 1) - 1) : /\ Opens(t, m, h)
                                    /\ \A k \in (h + 1)..(i + 1) : m[k] = "string"
                                    /\ after.run = SubSeq(t, h + 1, (i + 1) - 1)
    BY <1>3, <1>8, <2>5, <2>6, <2>7
  <2> QED
    BY <1>6, <1>8, <2>1, <2>6, <2>8, <2>9 DEF Agree
<1> QED
  BY <1>9, <1>10

\* A stretch of a line, from lo to hi, that is code and strings and is read as
\* the glyphs from n + 1 to c: R are the readings, p is the last glyph of code
\* before the stretch, last that of its end, and next the glyph behind it.
Stretch(r, t, m, line, F, glyphs, R, lo, hi, n, c, next, p, last) ==
    /\ Reads(glyphs, line, R) /\ Len(glyphs) \in Nat
    /\ lo \in Int /\ hi \in Int /\ 1 <= lo /\ lo <= hi + 1 /\ hi <= Len(r)
    /\ n \in Nat /\ c \in Nat /\ c = n + (hi - lo + 1) /\ c <= Len(glyphs)
    /\ \A i \in lo..hi : glyphs[n + (i - lo + 1)] = t[i]
    /\ next = hi + 1 /\ \A i \in lo..next : m[i] \in {"code", "string"}
    /\ p \in Int /\ Agree(R[n], lo, p, t, m, F, line)
    /\ lo <= hi /\ p \in 1..Len(r) /\ m[p] = "code" /\ m[lo] = "code"
          => ~(IsWord(r[p]) /\ IsWord(r[lo]))
    /\ last = IF hi >= lo THEN hi ELSE p

(* Such a stretch is read without a gap.                                   *)
LEMMA ReadStretch ==
    ASSUME NEW r, NEW t, NEW m, PlainLine(r, t, m),
           NEW line \in Int, NEW tok, TokensOfLine(t, m, tok, line),
           NEW F, Flattened(tok, F, TokenSet),
           NEW glyphs, NEW R, NEW lo, NEW hi, NEW n, NEW c, NEW next, NEW p, NEW last,
           Stretch(r, t, m, line, F, glyphs, R, lo, hi, n, c, next, p, last)
    PROVE  Agree(R[c], next, last, t, m, F, line)
<1> SUFFICES
        ASSUME Reads(glyphs, line, R), Len(glyphs) \in Nat,
               lo \in Int, hi \in Int, 1 <= lo, lo <= hi + 1, hi <= Len(r),
               n \in Nat, c \in Nat, c = n + (hi - lo + 1), c <= Len(glyphs),
               \A i \in lo..hi : glyphs[n + (i - lo + 1)] = t[i],
               next = hi + 1, \A i \in lo..next : m[i] \in {"code", "string"},
               p \in Int, Agree(R[n], lo, p, t, m, F, line),
               lo <= hi /\ p \in 1..Len(r) /\ m[p] = "code" /\ m[lo] = "code"
                  => ~(IsWord(r[p]) /\ IsWord(r[lo])),
               last = IF hi >= lo THEN hi ELSE p
        PROVE  Agree(R[c], next, last, t, m, F, line)
  BY DEF Stretch
<1> DEFINE Latest(k) == IF k = 0 THEN p ELSE lo + k - 1
           S == {k \in Nat : Agree(R[n + k], lo + k, Latest(k), t, m, F, line)}
<1>1. 0 \in S
  <2>1. n + 0 = n /\ lo + 0 = lo /\ Latest(0) = p
    OBVIOUS
  <2> QED
    BY <2>1
<1>2. ASSUME NEW k \in 0..(hi - lo), k \in S PROVE k + 1 \in S
  <2>1. PICK i, before, q : i = lo + k /\ before = R[n + k] /\ q = Latest(k)
    OBVIOUS
  <2>2. /\ i \in lo..hi /\ i \in lo..(hi + 1) /\ i + 1 \in lo..(hi + 1) /\ i \in 1..Len(r)
        /\ lo + (k + 1) = i + 1 /\ n + (i - lo + 1) = n + (k + 1)
    BY <2>1
  <2>3. n + (k + 1) \in 1..Len(glyphs) /\ (n + (k + 1)) - 1 = n + k /\ n + k \in 0..Len(glyphs)
    BY ONLY k \in 0..(hi - lo), n \in Nat, c \in Nat, c = n + (hi - lo + 1), c <= Len(glyphs),
            Len(glyphs) \in Nat, lo \in Int, hi \in Int
  <2>4. before \in Readings /\ R[n + (k + 1)] = Read(before, t[i], line)
    <3>1. R[n + (k + 1)] = Read(R[n + k], glyphs[n + (k + 1)], line) /\ R[n + k] \in Readings
      BY <2>3 DEF Reads
    <3>2. glyphs[n + (k + 1)] = t[i]
      BY <2>2
    <3> QED
      BY <2>1, <3>1, <3>2
  <2>5. m[i] \in {"code", "string"} /\ m[i + 1] \in {"code", "string"}
    BY <2>2
  <2>6. q \in Int /\ (k # 0 => q = i - 1)
    BY <2>1
  <2>7. Agree(before, i, q, t, m, F, line)
    BY <1>2, <2>1
  <2>8. Latest(k + 1) = i
    BY <2>1
  <2>9. ASSUME m[i] = "code", q \in 1..Len(r), m[q] = "code" PROVE ~(IsWord(r[q]) /\ IsWord(r[i]))
    <3>1. CASE k = 0
      <4>1. i = lo /\ q = p /\ lo <= hi
        BY <2>1, <2>2, <3>1
      <4> QED
        BY <2>9, <4>1
    <3>2. CASE k # 0
      <4>1. q \in 1..(Len(r) - 1) /\ q + 1 = i
        BY <2>2, <2>6, <2>9, <3>2
      <4> QED
        BY <4>1 DEF PlainLine
    <3> QED
      BY <3>1, <3>2
  <2> HIDE DEF Latest
  <2>10. Agree(Read(before, t[i], line), i + 1, i, t, m, F, line)
    <3>1. CASE m[i] = "code"
      BY <2>2, <2>4, <2>5, <2>6, <2>7, <2>9, <3>1, ReadCode
    <3>2. CASE m[i] = "string"
      BY <2>2, <2>4, <2>5, <2>7, <3>2, ReadQuoted
    <3> QED
      BY <2>5, <3>1, <3>2
  <2>11. k + 1 \in Nat
    OBVIOUS
  <2> QED
    BY <2>2, <2>4, <2>8, <2>10, <2>11
<1>3. PICK e : e = hi - lo + 1
  OBVIOUS
<1>4. 0 \in Int /\ e \in Int /\ 0 <= e /\ e - 1 = hi - lo
  BY <1>3
<1>5. 0..e \subseteq S
  <2> HIDE DEF S
  <2> QED
    BY <1>1, <1>2, <1>4, Along
<1>6. e \in S
  <2>1. e \in 0..e
    BY <1>4
  <2> HIDE DEF S
  <2> QED
    BY <1>5, <2>1
<1>7. lo + e = next /\ Latest(e) = last /\ n + e = c
  BY <1>3
<1>8. Agree(R[n + e], lo + e, Latest(e), t, m, F, line)
  BY <1>6
<1> HIDE DEF Latest, S
<1> QED
  BY <1>7, <1>8

LEMMA AgreeAfterGap ==
    ASSUME NEW t, NEW m, NEW F, NEW line, NEW R, NEW x \in Int, NEW y \in Int, NEW p,
           Agree(R, x + 1, p, t, m, F, line), m[x + 1] = "code", m[y] = "code",
           F[y - 1] = F[x]
    PROVE  Agree(R, y, p, t, m, F, line)
<1>1. (x + 1) - 1 = x
  OBVIOUS
<1>2. /\ R.quoted = FALSE /\ Flushed(R, line) = F[x]
      /\ \/ R.run = << >>
         \/ p >= 1 /\ p <= Len(t) - 1 /\ m[p] = "code" /\ IsWord(t[p])
  BY <1>1 DEF Agree
<1>3. m[y] # "string"
  OBVIOUS
<1> QED
  BY <1>2, <1>3 DEF Agree

\* What is read of the glyphs of a line, given the mode that the line ends in and
\* the tokens that it has.
ReadTo(glyphs, line, mode, tokens) ==
    /\ UnevenQuotes(glyphs) <=> mode = "broken"
    /\ ~UnevenQuotes(glyphs) => tokenizeLine(glyphs, line) = tokens

(* The tokens of a line are those its text is made of, and a string that   *)
(* it does not end is noticed.                                             *)
LEMMA ReadLine ==
    ASSUME NEW r, NEW t, NEW m, PlainLine(r, t, m),
           NEW line \in Int, NEW tok, TokensOfLine(t, m, tok, line),
           NEW F, Flattened(tok, F, TokenSet),
           NEW x, NEW y, NEW z, Kept(r, t, m, x, y, z),
           NEW glyphs, glyphs = SubSeq(r, 1, x) \o SubSeq(r, y, z)
    PROVE  ReadTo(glyphs, line, m[Len(r) + 2], F[Len(t)])
<1>1. /\ Len(r) \in Nat /\ Len(t) = Len(r) + 1 /\ r \in Seq(Glyph) /\ t \in Seq(Glyph)
      /\ \A i \in 1..Len(r) : t[i] = r[i]
      /\ m[1] = "code"
      /\ \A i \in 1..(Len(r) - 1) : ~(IsWord(r[i]) /\ IsWord(r[i + 1]))
  <2>1. /\ Len(r) \in Nat /\ Len(t) = Len(r) + 1 /\ t \in Seq(Glyph)
        /\ \A i \in 1..Len(r) : t[i] = r[i]
    BY LineFacts
  <2> QED
    BY <2>1 DEF PlainLine
<1>2. /\ x \in Nat /\ y \in Int /\ z \in Int
      /\ x < y /\ x <= Len(r) /\ y <= z + 1 /\ z <= Len(r)
      /\ \A i \in 1..(x + 1) : m[i] \in {"code", "string"}
      /\ \A i \in y..(z + 1) : m[i] \in {"code", "string"}
      /\ y # x + 1 => /\ m[x + 1] = "code" /\ m[y] = "code"
                      /\ x >= 1 /\ y <= z /\ m[x] = "code" => ~(IsWord(r[x]) /\ IsWord(r[y]))
      /\ \A i \in (x + 1)..(y - 1) : Silent(t, m, i)
      /\ \A i \in (z + 1)..(Len(r) + 1) : Silent(t, m, i)
      /\ m[z + 1] = "string" <=> m[Len(r) + 2] = "broken"
  BY DEF Kept
<1>3. /\ glyphs \in Seq(Glyph)
      /\ Len(glyphs) = x + (z - y + 1)
      /\ \A i \in 1..x : glyphs[i] = r[i]
      /\ \A i \in y..z : glyphs[x + (i - y + 1)] = r[i]
  <2>1. /\ r \in Seq(Glyph) /\ x \in Nat /\ y \in Int /\ z \in Int
        /\ x < y /\ x <= Len(r) /\ y <= z + 1 /\ z <= Len(r)
    BY ONLY <1>1, <1>2
  <2> QED
    BY ONLY <2>1, TwoParts, glyphs = SubSeq(r, 1, x) \o SubSeq(r, y, z)
<1>4. PICK ended : ended = Append(glyphs, BLANK)
  OBVIOUS
<1>5. /\ ended \in Seq(Glyph) /\ Len(glyphs) \in Nat /\ Len(ended) = Len(glyphs) + 1
      /\ \A i \in 1..Len(glyphs) : ended[i] = glyphs[i]
      /\ ended[Len(glyphs) + 1] = BLANK
  BY <1>3, <1>4, EndedIs
<1>0. /\ x \in Nat /\ x \in Int /\ y \in Int /\ z \in Int /\ Len(r) \in Nat /\ Len(ended) \in Nat
      /\ x < y /\ x <= Len(r) /\ y <= z + 1 /\ z <= Len(r) /\ Len(t) = Len(r) + 1
      /\ Len(glyphs) = x + (z - y + 1) /\ Len(ended) = Len(glyphs) + 1 /\ Len(glyphs) \in Nat
  BY <1>1, <1>2, <1>3, <1>5
<1>6. PICK R : Reads(ended, line, R)
  BY <1>5, ReadsExists
<1>7. R[0] = Unread
  BY <1>6 DEF Reads
<1>8. F[0] = << >>
  BY DEF Flattened
<1>9. Agree(R[0], 1, 0, t, m, F, line)
  <2>1. R[0].quoted = FALSE /\ R[0].run = << >> /\ R[0].tokens = << >>
    BY <1>7 DEF Unread
  <2>2. Flushed(R[0], line) = << >>
    BY <2>1 DEF Flushed
  <2>3. m[1] # "string" /\ 1 - 1 = 0
    BY <1>1
  <2> QED
    BY <1>1, <1>8, <2>1, <2>2, <2>3 DEF Agree
<1>10. Agree(R[x], x + 1, x, t, m, F, line)
  <2>1. PICK next, lo, first, last : /\ next = x + 1 /\ lo = 1 /\ first = 0
                                     /\ last = IF x >= lo THEN x ELSE first
    OBVIOUS
  <2>2. /\ lo \in Int /\ x \in Int /\ 1 <= lo /\ lo <= x + 1 /\ x <= Len(r)
        /\ first \in Nat /\ x \in Nat /\ x = first + (x - lo + 1) /\ x <= Len(ended)
        /\ Len(ended) \in Nat /\ first \in Int
    BY ONLY <1>0, <2>1
  <2>3. \A i \in lo..x : ended[first + (i - lo + 1)] = t[i]
    <3> TAKE i \in lo..x
    <3>1. first + (i - lo + 1) = i /\ i \in 1..Len(glyphs) /\ i \in 1..Len(r) /\ i \in 1..x
      BY ONLY <1>0, <2>1, i \in lo..x
    <3> QED
      BY ONLY <1>1, <1>3, <1>5, <3>1
  <2>4. first \notin 1..Len(r)
    BY <2>1
  <2>5. \A i \in lo..next : m[i] \in {"code", "string"}
    BY <1>2, <2>1
  <2>6. Agree(R[first], lo, first, t, m, F, line)
    BY <1>9, <2>1
  <2>9. Stretch(r, t, m, line, F, ended, R, lo, x, first, x, next, first, last)
    BY ONLY <1>6, <2>1, <2>2, <2>3, <2>4, <2>5, <2>6 DEF Stretch
  <2>7. Agree(R[x], next, last, t, m, F, line)
    BY ONLY PlainLine(r, t, m), line \in Int, TokensOfLine(t, m, tok, line),
            Flattened(tok, F, TokenSet), <2>9, ReadStretch
  <2>8. last = x
    BY <1>0, <2>1
  <2> QED
    BY <2>1, <2>7, <2>8
<1>11. Agree(R[x], y, x, t, m, F, line)
  <2>1. CASE y = x + 1
    BY <1>10, <2>1
  <2>2. CASE y # x + 1
    <3>1. PICK lo, hi : lo = x + 1 /\ hi = y - 1
      OBVIOUS
    <3>2. /\ lo \in Int /\ hi \in Int /\ 1 <= lo /\ lo <= hi + 1 /\ hi <= Len(t) /\ lo - 1 = x
      BY ONLY <1>0, <3>1
    <3>3. \A i \in lo..hi : Silent(t, m, i)
      BY <1>2, <3>1
    <3>4. F[hi] = F[lo - 1]
      BY <1>1, <3>2, <3>3, SilentKeeps
    <3>5. F[y - 1] = F[x] /\ m[x + 1] = "code" /\ m[y] = "code"
      BY <1>2, <2>2, <3>1, <3>2, <3>4
    <3> QED
      BY ONLY <1>0, <1>10, <3>5, AgreeAfterGap
  <2> QED
    BY <2>1, <2>2
<1>12. PICK last : Agree(R[Len(glyphs)], z + 1, last, t, m, F, line)
  <2>1. PICK next, c, last : /\ next = z + 1 /\ c = Len(glyphs)
                             /\ last = IF z >= y THEN z ELSE x
    OBVIOUS
  <2>2. /\ y \in Int /\ z \in Int /\ 1 <= y /\ y <= z + 1 /\ z <= Len(r) /\ x \in Nat /\ x \in Int
        /\ c \in Nat /\ c = x + (z - y + 1) /\ c <= Len(ended) /\ Len(ended) \in Nat
    BY ONLY <1>0, <2>1
  <2>3. \A i \in y..z : ended[x + (i - y + 1)] = t[i]
    <3> TAKE i \in y..z
    <3>1. x + (i - y + 1) \in 1..Len(glyphs) /\ i \in 1..Len(r)
      BY ONLY <1>0, i \in y..z
    <3> QED
      BY <1>1, <1>3, <1>5, <3>1
  <2>4. ASSUME y <= z, x \in 1..Len(r), m[x] = "code" PROVE ~(IsWord(r[x]) /\ IsWord(r[y]))
    <3>1. CASE y = x + 1
      <4>1. x \in 1..(Len(r) - 1)
        BY ONLY <1>0, <2>4, <3>1
      <4> QED
        BY <1>1, <3>1, <4>1
    <3>2. CASE y # x + 1
      <4>1. x >= 1
        BY <2>4
      <4> QED
        BY <1>2, <2>4, <3>2, <4>1
    <3> QED
      BY <3>1, <3>2
  <2>5. \A i \in y..next : m[i] \in {"code", "string"}
    BY <1>2, <2>1
  <2>7. y <= z /\ x \in 1..Len(r) /\ m[x] = "code" /\ m[y] = "code"
          => ~(IsWord(r[x]) /\ IsWord(r[y]))
    BY <2>4
  <2>6. PICK lo, hi, n : lo = y /\ hi = z /\ n = x
    OBVIOUS
  <2>8. /\ lo \in Int /\ hi \in Int /\ 1 <= lo /\ lo <= hi + 1 /\ hi <= Len(r) /\ n \in Nat
        /\ n \in Int /\ c \in Nat /\ c = n + (hi - lo + 1) /\ c <= Len(ended)
        /\ Len(ended) \in Nat /\ next = hi + 1 /\ last = IF hi >= lo THEN hi ELSE n
        /\ Agree(R[n], lo, n, t, m, F, line)
    BY ONLY <1>11, <2>1, <2>2, <2>6
  <2>9. /\ \A i \in lo..hi : ended[n + (i - lo + 1)] = t[i]
        /\ \A i \in lo..next : m[i] \in {"code", "string"}
        /\ lo <= hi /\ n \in 1..Len(r) /\ m[n] = "code" /\ m[lo] = "code"
              => ~(IsWord(r[n]) /\ IsWord(r[lo]))
    BY ONLY <2>3, <2>5, <2>6, <2>7
  <2>11. Stretch(r, t, m, line, F, ended, R, lo, hi, n, c, next, n, last)
    BY ONLY <1>6, <2>8, <2>9, Zenon DEF Stretch
  <2>10. Agree(R[c], next, last, t, m, F, line)
    BY ONLY PlainLine(r, t, m), line \in Int, TokensOfLine(t, m, tok, line),
            Flattened(tok, F, TokenSet), <2>11, ReadStretch
  <2> QED
    BY <2>1, <2>10
<1>13. m[z + 1] \in {"code", "string"}
  <2>1. z + 1 \in y..(z + 1)
    BY <1>2
  <2> QED
    BY <1>2, <2>1
<1>14. PICK end : end = R[Len(glyphs)]
  OBVIOUS
<1>15. end.quoted <=> m[z + 1] = "string"
  BY <1>12, <1>13, <1>14 DEF Agree
<1>16. UnevenQuotes(glyphs) <=> end.quoted
  <2>1. Reads(Append(glyphs, BLANK), line, R)
    BY <1>4, <1>6
  <2> QED
    BY <1>3, <1>14, <2>1, QuotesCounted
<1>17. UnevenQuotes(glyphs) <=> m[Len(r) + 2] = "broken"
  BY <1>2, <1>15, <1>16
<1>18. ASSUME ~UnevenQuotes(glyphs) PROVE tokenizeLine(glyphs, line) = F[Len(t)]
  <2>1. m[z + 1] = "code"
    BY <1>13, <1>15, <1>16, <1>18
  <2>2. end.quoted = FALSE /\ Flushed(end, line) = F[z]
    <3>1. (z + 1) - 1 = z
      BY <1>2
    <3> QED
      BY <1>12, <1>14, <2>1, <3>1 DEF Agree
  <2>3. F[Len(t)] = F[z]
    <3>1. PICK lo, hi : lo = z + 1 /\ hi = Len(r) + 1
      OBVIOUS
    <3>2. /\ lo \in Int /\ hi \in Int /\ 1 <= lo /\ lo <= hi + 1 /\ hi <= Len(t) /\ lo - 1 = z
          /\ hi = Len(t)
      BY ONLY <1>0, <3>1
    <3>4. \A i \in lo..hi : Silent(t, m, i)
      BY <1>2, <3>1
    <3>3. F[hi] = F[lo - 1]
      BY <1>1, <3>2, <3>4, SilentKeeps
    <3> QED
      BY <3>2, <3>3
  <2>4. end \in Readings /\ R[Len(glyphs) + 1] = Read(end, BLANK, line)
    <3>1. Len(glyphs) + 1 \in 1..Len(ended) /\ (Len(glyphs) + 1) - 1 = Len(glyphs)
          /\ Len(glyphs) \in 0..Len(ended)
      BY ONLY <1>0
    <3> QED
      BY <1>5, <1>6, <1>14, <3>1 DEF Reads
  <2>5. Read(end, BLANK, line) = [tokens |-> Flushed(end, line), run |-> << >>, quoted |-> FALSE]
    <3>1. ~end.quoted /\ BLANK \in IGNORE_CHARS /\ BLANK \in Glyph
      BY <2>2, GlyphsDiffer
    <3> QED
      BY <2>4, <3>1, ReadIs
  <2>6. R[Len(glyphs) + 1].tokens = F[z]
    BY <2>2, <2>4, <2>5
  <2>7. tokenizeLine(glyphs, line) = R[Len(glyphs) + 1].tokens
    <3>1. Reads(Append(glyphs, BLANK), line, R)
      BY <1>4, <1>6
    <3> QED
      BY <1>3, <3>1, TokenizeIs
  <2> QED
    BY <2>3, <2>6, <2>7
<1> QED
  BY <1>17, <1>18 DEF ReadTo

-----------------------------------------------------------------------------
(* A text, and a longer one that begins with it.                           *)

\* The text s, which ends with a newline, is how t begins.
Begins(s, t) ==
    /\ s \in Seq(Glyph) /\ t \in Seq(Glyph)
    /\ Len(s) \in Nat /\ Len(t) \in Nat /\ Len(s) <= Len(t)
    /\ \A i \in 1..Len(s) : s[i] = t[i]
    /\ Len(s) >= 1 => s[Len(s)] = NEWLINE

LEMMA MarkAgrees ==
    ASSUME NEW s, NEW t, Begins(s, t), NEW i \in 1..Len(s), NEW mark \in Marks
    PROVE  At(s, i, mark) <=> At(t, i, mark)
<1>1. PICK a, b : mark = <<a, b>> /\ a # NEWLINE
  BY TheMarks DEF Marks, BlockMarks, MarkGlyphs
<1>2. /\ At(s, i, mark) <=> i < Len(s) /\ s[i] = a /\ s[i + 1] = b
      /\ At(t, i, mark) <=> i < Len(t) /\ t[i] = a /\ t[i + 1] = b
  BY <1>1, AtIs
<1>3. Len(s) \in Nat /\ Len(t) \in Nat /\ Len(s) <= Len(t) /\ s[i] = t[i]
  BY DEF Begins
<1>4. CASE i < Len(s)
  <2>1. i + 1 \in 1..Len(s) /\ i < Len(t)
    BY <1>3, <1>4
  <2>2. s[i + 1] = t[i + 1]
    BY <2>1 DEF Begins
  <2> QED
    BY <1>2, <1>3, <1>4, <2>1, <2>2
<1>5. CASE ~(i < Len(s))
  <2>1. i = Len(s) /\ Len(s) >= 1
    BY <1>3, <1>5
  <2>2. s[i] = NEWLINE
    BY <2>1 DEF Begins
  <2> QED
    BY <1>1, <1>2, <1>3, <1>5, <2>2
<1> QED
  BY <1>4, <1>5

LEMMA ModeAgrees ==
    ASSUME NEW s, NEW t, Begins(s, t), NEW i \in 1..Len(s), NEW mode
    PROVE  ModeBehind(s, i, mode) = ModeBehind(t, i, mode)
<1>1. s[i] = t[i]
  BY DEF Begins
<1>2. /\ At(s, i, MULTILINE_COMMENT_BEGIN) <=> At(t, i, MULTILINE_COMMENT_BEGIN)
      /\ At(s, i, MULTILINE_COMMENT_END) <=> At(t, i, MULTILINE_COMMENT_END)
      /\ At(s, i, SINGLE_LINE_COMMENT) <=> At(t, i, SINGLE_LINE_COMMENT)
  BY MarkAgrees DEF Marks, BlockMarks
<1> QED
  BY <1>1, <1>2 DEF ModeBehind

\* The modes of a text and of how it begins.
Moded(s, ms, t, mt) ==
    /\ Begins(s, t) /\ Chained(s, ms) /\ Chained(t, mt)
    /\ ms[1] = "code" /\ mt[1] = "code"

LEMMA ModesAgree ==
    ASSUME NEW s, NEW ms, NEW t, NEW mt, Moded(s, ms, t, mt)
    PROVE  /\ \A i \in 1..(Len(s) + 1) : ms[i] = mt[i]
           /\ Len(ms) = Len(s) + 1 /\ Len(mt) = Len(t) + 1
           /\ DOMAIN ms = 1..(Len(s) + 1) /\ DOMAIN mt = 1..(Len(t) + 1)
           /\ DOMAIN s = 1..Len(s) /\ DOMAIN t = 1..Len(t)
<1> DEFINE S == {i \in Int : ms[i] = mt[i]}
<1>1. /\ Len(s) \in Nat /\ Len(t) \in Nat /\ Len(s) <= Len(t) /\ Begins(s, t)
      /\ s \in Seq(Glyph) /\ t \in Seq(Glyph)
  BY DEF Moded, Begins
<1>2. /\ \A i \in 1..Len(s) : ms[i + 1] = ModeBehind(s, i, ms[i])
      /\ \A i \in 1..Len(t) : mt[i + 1] = ModeBehind(t, i, mt[i])
      /\ Len(ms) = Len(s) + 1 /\ Len(mt) = Len(t) + 1
      /\ ms \in Seq(ModeNames) /\ mt \in Seq(ModeNames)
  BY DEF Moded, Chained
<1>3. PICK hi : hi = Len(s) + 1
  OBVIOUS
<1>4. ASSUME NEW i \in 1..(hi - 1), i \in S PROVE i + 1 \in S
  <2>1. i \in 1..Len(s) /\ i \in 1..Len(t) /\ i + 1 \in Int
    BY <1>1, <1>3
  <2>2. ModeBehind(s, i, ms[i]) = ModeBehind(t, i, ms[i])
    BY <1>1, <2>1, ModeAgrees
  <2> QED
    BY <1>2, <1>4, <2>1, <2>2
<1>5. 1..hi \subseteq S
  <2>1. 1 \in S
    BY DEF Moded
  <2>2. 1 \in Int /\ hi \in Int /\ 1 <= hi
    BY <1>1, <1>3
  <2> HIDE DEF S
  <2> QED
    BY <1>4, <2>1, <2>2, Along
<1>6. DOMAIN ms = 1..Len(ms) /\ DOMAIN mt = 1..Len(mt) /\ DOMAIN s = 1..Len(s) /\ DOMAIN t = 1..Len(t)
  BY <1>1, <1>2
<1> QED
  BY <1>2, <1>3, <1>5, <1>6

LEMMA LineOfAgrees ==
    ASSUME NEW s, NEW t, Begins(s, t), NEW i \in 1..(Len(s) + 1)
    PROVE  LineOf(s, i) = LineOf(t, i)
<1>1. {n \in 1..(i - 1) : s[n] = NEWLINE} = {n \in 1..(i - 1) : t[n] = NEWLINE}
  <2>1. \A n \in 1..(i - 1) : n \in 1..Len(s)
    BY DEF Begins
  <2>2. \A n \in 1..(i - 1) : s[n] = t[n]
    BY <2>1 DEF Begins
  <2> QED
    BY <2>2
<1> QED
  BY <1>1 DEF LineOf

(* A string has one beginning.                                             *)
LEMMA StringBegins ==
    ASSUME NEW t \in Seq(Glyph), NEW m, Chained(t, m), m[1] = "code", NEW i \in 1..(Len(t) + 1),
           m[i] = "string"
    PROVE  \E j \in 1..(i - 1) : Opens(t, m, j) /\ \A k \in (j + 1)..i : m[k] = "string"
<1> DEFINE Begun(h) == \E j \in 1..(h - 1) : Opens(t, m, j) /\ \A k \in (j + 1)..h : m[k] = "string"
           S == {h \in Int : m[h] = "string" => Begun(h)}
<1>1. Len(t) \in Nat
  OBVIOUS
<1>2. ASSUME NEW h \in 1..(i - 1), h \in S PROVE h + 1 \in S
  <2> SUFFICES ASSUME m[h + 1] = "string" PROVE Begun(h + 1)
    OBVIOUS
  <2>1. h \in 1..Len(t) /\ (h + 1) - 1 = h /\ h + 1 \in Int
    BY <1>1
  <2>2. m[h] \in ModeNames
    <3>1. m \in Seq(ModeNames) /\ Len(m) = Len(t) + 1
      BY DEF Chained
    <3>2. h \in 1..Len(m)
      BY <1>1, <2>1, <3>1
    <3> QED
      BY <3>1, <3>2
  <2>3. m[h] \in {"code", "string"}
    <3>1. m[h] = "opening" \/ m[h] = "block" \/ m[h] = "closing" \/ m[h] = "line"
          \/ m[h] = "broken" => m[h + 1] # "string"
      BY <2>1, ChainSteps
    <3> QED
      BY <2>2, <3>1 DEF ModeNames
  <2>4. CASE m[h] = "code"
    <3>1. Opens(t, m, h)
      BY <2>4 DEF Opens
    <3>2. \A k \in (h + 1)..(h + 1) : m[k] = "string"
      BY <2>1
    <3>3. h \in 1..((h + 1) - 1)
      BY <2>1
    <3> QED
      BY <3>1, <3>2, <3>3
  <2>5. CASE m[h] = "string"
    <3>1. PICK j \in 1..(h - 1) : Opens(t, m, j) /\ \A k \in (j + 1)..h : m[k] = "string"
      BY <1>2, <2>5
    <3>2. \A k \in (j + 1)..(h + 1) : m[k] = "string"
      <4>1. \A k \in (j + 1)..(h + 1) : k \in (j + 1)..h \/ k = h + 1
        BY <2>1, <3>1
      <4> QED
        BY <3>1, <4>1
    <3>3. j \in 1..((h + 1) - 1)
      BY <3>1
    <3> QED
      BY <3>1, <3>2, <3>3
  <2> QED
    BY <2>3, <2>4, <2>5
<1>3. 1..i \subseteq S
  <2>1. 1 \in S
    OBVIOUS
  <2>2. 1 \in Int /\ i \in Int /\ 1 <= i
    BY <1>1
  <2> HIDE DEF S
  <2> QED
    BY <1>2, <2>1, <2>2, Along
<1>4. i \in 1..i
  BY <1>1
<1> QED
  BY <1>3, <1>4

LEMMA OneBeginning ==
    ASSUME NEW t, NEW m, NEW i \in Int, NEW j \in 1..i, NEW h \in 1..i,
           Opens(t, m, j), \A k \in (j + 1)..i : m[k] = "string",
           Opens(t, m, h), \A k \in (h + 1)..i : m[k] = "string"
    PROVE  j = h
<1>1. m[j] # "string" /\ m[h] # "string"
  BY DEF Opens
<1>2. j <= h
  <2> SUFFICES ASSUME h < j PROVE FALSE
    OBVIOUS
  <2>1. j \in (h + 1)..i
    OBVIOUS
  <2> QED
    BY <1>1, <2>1
<1>3. h <= j
  <2> SUFFICES ASSUME j < h PROVE FALSE
    OBVIOUS
  <2>1. h \in (j + 1)..i
    OBVIOUS
  <2> QED
    BY <1>1, <2>1
<1> QED
  BY <1>2, <1>3

(* The token that a glyph ends.                                            *)
LEMMA TokenAtIs ==
    ASSUME NEW t, NEW m, NEW i \in Int
    PROVE  /\ Silent(t, m, i) => TokenAt(t, m, i) = << >>
           /\ m[i] = "code" /\ ~Opens(t, m, i) /\ t[i] \notin IGNORE_CHARS =>
                TokenAt(t, m, i) =
                   <<Token(IF t[i] \in SYMBOLS THEN "SYMBOL" ELSE TypeOf(<<t[i]>>),
                           <<t[i]>>, LineOf(t, i))>>
           /\ m[i] = "string" /\ t[i] = QUOTE =>
                \A j \in 1..i :
                   Opens(t, m, j) /\ (\A k \in (j + 1)..i : m[k] = "string") =>
                      TokenAt(t, m, i) = <<StringToken(SubSeq(t, j + 1, i - 1), LineOf(t, i))>>
<1>1. ASSUME Silent(t, m, i) PROVE TokenAt(t, m, i) = << >>
  BY <1>1 DEF Silent, TokenAt
<1>2. ASSUME m[i] = "code", ~Opens(t, m, i), t[i] \notin IGNORE_CHARS
      PROVE  TokenAt(t, m, i) =
                   <<Token(IF t[i] \in SYMBOLS THEN "SYMBOL" ELSE TypeOf(<<t[i]>>),
                           <<t[i]>>, LineOf(t, i))>>
  BY <1>2 DEF TokenAt
<1>3. ASSUME m[i] = "string", t[i] = QUOTE, NEW j \in 1..i,
             Opens(t, m, j), \A k \in (j + 1)..i : m[k] = "string"
      PROVE  TokenAt(t, m, i) = <<StringToken(SubSeq(t, j + 1, i - 1), LineOf(t, i))>>
  <2> DEFINE Begin(h) == Opens(t, m, h) /\ \A k \in (h + 1)..i : m[k] = "string"
  <2>1. PICK begin : begin = CHOOSE h \in 1..i : Begin(h)
    OBVIOUS
  <2>2. TokenAt(t, m, i) = <<StringToken(SubSeq(t, begin + 1, i - 1), LineOf(t, i))>>
    BY <1>3, <2>1 DEF TokenAt
  <2>3. begin \in 1..i /\ Begin(begin)
    <3>1. Begin(j)
      BY <1>3
    <3> HIDE DEF Begin
    <3> QED
      BY <2>1, <3>1
  <2>4. begin = j
    BY <1>3, <2>3, OneBeginning
  <2> QED
    BY <2>2, <2>4
<1> QED
  BY <1>1, <1>2, <1>3

LEMMA LineOfTyped ==
    ASSUME NEW t, NEW i \in Int
    PROVE  LineOf(t, i) \in Int
<1> DEFINE found == {n \in 1..(i - 1) : t[n] = NEWLINE}
<1>1. IsFiniteSet(1..(i - 1)) /\ found \subseteq 1..(i - 1)
  <2>1. 1 \in Int /\ i - 1 \in Int
    OBVIOUS
  <2>2. IsFiniteSet(1..(i - 1))
    BY <2>1, FS_Interval
  <2> QED
    BY <2>2
<1> HIDE DEF found
<1>2. Cardinality(found) \in Nat
  BY <1>1, FS_Subset, FS_CardinalityType
<1> QED
  BY <1>2 DEF LineOf, found

LEMMA TokenTyped ==
    ASSUME NEW t \in Seq(Glyph), NEW m, Chained(t, m), m[1] = "code", NEW i \in 1..Len(t)
    PROVE  TokenAt(t, m, i) \in Seq(TokenSet)
<1>1. PICK line : line = LineOf(t, i)
  OBVIOUS
<1>2. line \in Int /\ i \in Int /\ i \in 1..(Len(t) + 1) /\ t[i] \in Glyph
  BY <1>1, LineOfTyped
<1>3. CASE Silent(t, m, i)
  <2>1. TokenAt(t, m, i) = << >>
    BY <1>2, <1>3, TokenAtIs
  <2> QED
    BY <2>1
<1>4. CASE m[i] = "code" /\ ~Opens(t, m, i) /\ t[i] \notin IGNORE_CHARS
  <2>1. PICK token : token = Token(IF t[i] \in SYMBOLS THEN "SYMBOL" ELSE TypeOf(<<t[i]>>),
                                   <<t[i]>>, line)
    OBVIOUS
  <2>2. TokenAt(t, m, i) = <<token>>
    BY <1>1, <1>2, <1>4, <2>1, TokenAtIs
  <2>3. <<t[i]>> \in Seq(Glyph)
    BY <1>2
  <2>4. token \in TokenSet
    BY <1>2, <2>1, <2>3, TokensTyped
  <2> QED
    BY <2>2, <2>4
<1>5. CASE m[i] = "string" /\ t[i] = QUOTE
  <2>1. PICK j \in 1..(i - 1) : Opens(t, m, j) /\ \A k \in (j + 1)..i : m[k] = "string"
    BY <1>2, <1>5, StringBegins
  <2>2. PICK lo, hi : lo = j + 1 /\ hi = i - 1
    OBVIOUS
  <2>3. /\ lo \in Int /\ hi \in Int /\ 1 <= lo /\ lo <= hi + 1 /\ hi <= Len(t) /\ j \in 1..i
    BY <1>2, <2>1, <2>2
  <2>4. PICK token : token = StringToken(SubSeq(t, lo, hi), line)
    OBVIOUS
  <2>5. TokenAt(t, m, i) = <<token>>
    BY <1>1, <1>2, <1>5, <2>1, <2>2, <2>3, <2>4, TokenAtIs
  <2>6. SubSeq(t, lo, hi) \in Seq(Glyph)
    BY <2>3, Slice
  <2>7. token \in TokenSet
    BY <1>2, <2>4, <2>6, TokensTyped
  <2> QED
    BY <2>5, <2>7
<1>6. Silent(t, m, i)
      \/ (m[i] = "code" /\ ~Opens(t, m, i) /\ t[i] \notin IGNORE_CHARS)
      \/ (m[i] = "string" /\ t[i] = QUOTE)
  BY DEF Silent
<1> QED
  BY <1>3, <1>4, <1>5, <1>6

(* A longer text has the same tokens where they are the same.              *)
LEMMA TokenAgrees ==
    ASSUME NEW s, NEW ms, NEW t, NEW mt, Moded(s, ms, t, mt), NEW i \in 1..Len(s)
    PROVE  TokenAt(s, ms, i) = TokenAt(t, mt, i)
<1>1. /\ Len(s) \in Nat /\ Len(t) \in Nat /\ Len(s) <= Len(t) /\ Begins(s, t)
      /\ s \in Seq(Glyph) /\ t \in Seq(Glyph) /\ \A k \in 1..Len(s) : s[k] = t[k]
      /\ Chained(s, ms) /\ Chained(t, mt) /\ ms[1] = "code" /\ mt[1] = "code"
  BY DEF Moded, Begins
<1>2. \A k \in 1..(Len(s) + 1) : ms[k] = mt[k]
  BY ModesAgree
<1>3. /\ s[i] = t[i] /\ ms[i] = mt[i] /\ ms[i + 1] = mt[i + 1] /\ i \in Int
      /\ i \in 1..(Len(s) + 1) /\ i \in 1..Len(t)
  <2>1. i \in 1..(Len(s) + 1) /\ i + 1 \in 1..(Len(s) + 1) /\ i \in 1..Len(t)
    BY <1>1
  <2> QED
    BY <1>1, <1>2, <2>1
<1>4. PICK line : line = LineOf(s, i) /\ line = LineOf(t, i)
  BY <1>1, <1>3, LineOfAgrees
<1>5. Opens(s, ms, i) <=> Opens(t, mt, i)
  BY <1>3 DEF Opens
<1>6. CASE Silent(s, ms, i)
  <2>1. Silent(t, mt, i)
    BY <1>3, <1>5, <1>6 DEF Silent
  <2> QED
    BY <1>3, <1>6, <2>1, TokenAtIs
<1>7. CASE ms[i] = "code" /\ ~Opens(s, ms, i) /\ s[i] \notin IGNORE_CHARS
  <2>1. mt[i] = "code" /\ ~Opens(t, mt, i) /\ t[i] \notin IGNORE_CHARS
    BY <1>3, <1>5, <1>7
  <2>2. TokenAt(s, ms, i) =
                   <<Token(IF s[i] \in SYMBOLS THEN "SYMBOL" ELSE TypeOf(<<s[i]>>),
                           <<s[i]>>, line)>>
    BY <1>3, <1>4, <1>7, TokenAtIs
  <2>3. TokenAt(t, mt, i) =
                   <<Token(IF t[i] \in SYMBOLS THEN "SYMBOL" ELSE TypeOf(<<t[i]>>),
                           <<t[i]>>, line)>>
    BY <1>3, <1>4, <2>1, TokenAtIs
  <2> QED
    BY <1>3, <2>2, <2>3
<1>8. CASE ms[i] = "string" /\ s[i] = QUOTE
  <2>1. PICK j \in 1..(i - 1) : Opens(s, ms, j) /\ \A k \in (j + 1)..i : ms[k] = "string"
    BY <1>1, <1>3, <1>8, StringBegins
  <2>2. j \in 1..i /\ j \in 1..(Len(s) + 1) /\ j + 1 \in 1..(Len(s) + 1)
    BY <1>1, <2>1
  <2>3. Opens(t, mt, j)
    BY <1>2, <2>1, <2>2 DEF Opens
  <2>4. \A k \in (j + 1)..i : mt[k] = "string"
    <3>1. \A k \in (j + 1)..i : k \in 1..(Len(s) + 1)
      BY <1>1, <2>1
    <3> QED
      BY <1>2, <2>1, <3>1
  <2>5. TokenAt(s, ms, i) = <<StringToken(SubSeq(s, j + 1, i - 1), line)>>
    BY <1>3, <1>4, <1>8, <2>1, <2>2, TokenAtIs
  <2>6. TokenAt(t, mt, i) = <<StringToken(SubSeq(t, j + 1, i - 1), line)>>
    BY <1>3, <1>4, <1>8, <2>2, <2>3, <2>4, TokenAtIs
  <2>7. SubSeq(s, j + 1, i - 1) = SubSeq(t, j + 1, i - 1)
    <3>1. PICK lo, hi, u, v : /\ lo = j + 1 /\ hi = i - 1
                              /\ u = SubSeq(s, lo, hi) /\ v = SubSeq(t, lo, hi)
      OBVIOUS
    <3>2. /\ lo \in Int /\ hi \in Int /\ 1 <= lo /\ lo <= hi + 1 /\ hi <= Len(s) /\ hi <= Len(t)
      BY <1>1, <2>1, <3>1
    <3>3. u \in Seq(Glyph) /\ Len(u) = hi - lo + 1 /\ \A k \in 1..(hi - lo + 1) : u[k] = s[lo + k - 1]
      BY ONLY <1>1, <3>1, <3>2, Slice
    <3>4. v \in Seq(Glyph) /\ Len(v) = hi - lo + 1 /\ \A k \in 1..(hi - lo + 1) : v[k] = t[lo + k - 1]
      BY ONLY <1>1, <3>1, <3>2, Slice
    <3>5. ASSUME NEW k \in 1..Len(u) PROVE u[k] = v[k]
      <4>1. k \in 1..(hi - lo + 1) /\ lo + k - 1 \in 1..Len(s)
        BY ONLY <1>1, <3>2, <3>3, <3>5
      <4> QED
        BY <1>1, <3>3, <3>4, <4>1
    <3>6. u = v
      BY ONLY <3>3, <3>4, <3>5, SameSequence
    <3> QED
      BY <3>1, <3>6
  <2> QED
    BY <2>5, <2>6, <2>7
<1>9. Silent(s, ms, i)
      \/ (ms[i] = "code" /\ ~Opens(s, ms, i) /\ s[i] \notin IGNORE_CHARS)
      \/ (ms[i] = "string" /\ s[i] = QUOTE)
  BY DEF Silent
<1> QED
  BY <1>6, <1>7, <1>8, <1>9

(* A text that is plain begins with one that is.                           *)
LEMMA PlainAgrees ==
    ASSUME NEW s, NEW ms, NEW t, NEW mt, Moded(s, ms, t, mt), Plain(t, mt)
    PROVE  Plain(s, ms)
<1>1. /\ Len(s) \in Nat /\ Len(t) \in Nat /\ Len(s) <= Len(t) /\ Begins(s, t)
      /\ \A k \in 1..Len(s) : s[k] = t[k]
  BY DEF Moded, Begins
<1>2. /\ \A k \in 1..(Len(s) + 1) : ms[k] = mt[k]
      /\ DOMAIN ms = 1..(Len(s) + 1) /\ DOMAIN mt = 1..(Len(t) + 1)
      /\ DOMAIN s = 1..Len(s) /\ DOMAIN t = 1..Len(t)
  BY ModesAgree
<1>3. \A i \in DOMAIN s : i \in DOMAIN t /\ i \in 1..(Len(s) + 1) /\ i \in Int
  BY <1>1, <1>2
<1>4. ASSUME NEW i \in DOMAIN s PROVE NoStrayMark(s, ms, i)
  <2>1. NoStrayMark(t, mt, i) /\ ms[i] = mt[i]
    BY <1>2, <1>3, <1>4 DEF Plain
  <2>2. \A mark \in Marks : At(s, i, mark) <=> At(t, i, mark)
    BY <1>1, <1>2, <1>4, MarkAgrees
  <2>3. BlockMarks \subseteq Marks /\ MULTILINE_COMMENT_END \in Marks
    BY DEF Marks, BlockMarks
  <2> QED
    BY <2>1, <2>2, <2>3 DEF NoStrayMark
<1>5. ASSUME NEW i \in Int, OpensBlock(ms, i) PROVE OpensBlock(mt, i)
  <2>1. i + 1 \in 1..(Len(s) + 1) /\ i + 1 \in DOMAIN mt
    BY <1>1, <1>2, <1>5 DEF OpensBlock
  <2> QED
    BY <1>2, <1>5, <2>1 DEF OpensBlock
<1>6. \A i \in DOMAIN s : LineOf(s, i) = LineOf(t, i)
  BY <1>1, <1>3, LineOfAgrees
<1>7. OneBlockALine(s, ms)
  <2>1. OneBlockALine(t, mt)
    BY DEF Plain
  <2> QED
    BY <1>3, <1>5, <1>6, <2>1 DEF OneBlockALine
<1>8. NoWordsJoined(s, ms)
  <2> SUFFICES ASSUME NEW i \in DOMAIN s, NEW j \in DOMAIN s,
                      i < j, LineOf(s, i) = LineOf(s, j),
                      ms[i] = "code", OpensBlock(ms, i + 1), ms[j] = "code",
                      \A k \in (i + 2)..(j - 1) : ms[k] # "code"
               PROVE  ~(IsWord(s[i]) /\ IsWord(s[j]))
    BY DEF NoWordsJoined
  <2>1. i \in DOMAIN t /\ j \in DOMAIN t /\ LineOf(t, i) = LineOf(t, j)
        /\ mt[i] = "code" /\ mt[j] = "code" /\ s[i] = t[i] /\ s[j] = t[j]
    BY <1>1, <1>2, <1>3, <1>6
  <2>2. OpensBlock(mt, i + 1)
    <3>1. i + 1 \in Int
      BY <1>3
    <3> QED
      BY <1>5, <3>1
  <2>3. ASSUME NEW k \in (i + 2)..(j - 1) PROVE mt[k] # "code"
    <3>1. k \in 1..(Len(s) + 1)
      BY <1>1, <1>2
    <3> QED
      BY <1>2, <3>1
  <2>4. NoWordsJoined(t, mt)
    BY DEF Plain
  <2> QED
    BY <2>1, <2>2, <2>3, <2>4 DEF NoWordsJoined
<1> QED
  BY <1>4, <1>7, <1>8 DEF Plain

-----------------------------------------------------------------------------
(* The end of a text, from where the code begins in its last line.         *)

\* t is what T has behind its first D glyphs, and m are the modes of it.
Behindhand(T, M, D, t, m) ==
    /\ T \in Seq(Glyph) /\ t \in Seq(Glyph) /\ Chained(T, M) /\ M[1] = "code"
    /\ m \in Seq(ModeNames) /\ Len(m) = Len(t) + 1
    /\ D \in Nat /\ Len(t) \in Nat /\ Len(t) >= 1 /\ Len(T) = D + Len(t)
    /\ \A k \in 1..Len(t) : t[k] = T[D + k]
    /\ \A k \in 1..(Len(t) + 1) : m[k] = M[D + k]

LEMMA MarkBehind ==
    ASSUME NEW T, NEW M, NEW D, NEW t, NEW m, Behindhand(T, M, D, t, m),
           NEW k \in 1..Len(t), NEW mark \in Marks
    PROVE  At(t, k, mark) <=> At(T, D + k, mark)
<1>1. PICK a, b : mark = <<a, b>>
  BY TheMarks DEF Marks, BlockMarks, MarkGlyphs
<1>2. /\ At(t, k, mark) <=> k < Len(t) /\ t[k] = a /\ t[k + 1] = b
      /\ At(T, D + k, mark) <=> D + k < Len(T) /\ T[D + k] = a /\ T[(D + k) + 1] = b
  BY <1>1, AtIs
<1>3. D \in Nat /\ Len(t) \in Nat /\ Len(T) = D + Len(t) /\ t[k] = T[D + k]
  BY DEF Behindhand
<1>4. k < Len(t) <=> D + k < Len(T)
  BY <1>3
<1>5. k < Len(t) => t[k + 1] = T[(D + k) + 1]
  <2> SUFFICES ASSUME k < Len(t) PROVE t[k + 1] = T[(D + k) + 1]
    OBVIOUS
  <2>1. k + 1 \in 1..Len(t) /\ D + (k + 1) = (D + k) + 1
    BY <1>3
  <2>2. t[k + 1] = T[D + (k + 1)]
    BY <2>1 DEF Behindhand
  <2> QED
    BY <2>1, <2>2
<1> QED
  BY <1>2, <1>3, <1>4, <1>5

LEMMA ModesBehind ==
    ASSUME NEW T, NEW M, NEW D, NEW t, NEW m, Behindhand(T, M, D, t, m)
    PROVE  Chained(t, m)
<1>1. ASSUME NEW k \in 1..Len(t) PROVE m[k + 1] = ModeBehind(t, k, m[k])
  <2>1. PICK i : i = D + k
    OBVIOUS
  <2>2. /\ D \in Nat /\ Len(t) \in Nat /\ Len(T) = D + Len(t) /\ t[k] = T[i]
        /\ k \in 1..(Len(t) + 1) /\ k + 1 \in 1..(Len(t) + 1)
    BY <2>1 DEF Behindhand
  <2>3. i \in 1..Len(T) /\ D + (k + 1) = i + 1
    BY <2>1, <2>2
  <2>4. m[k] = M[i] /\ m[k + 1] = M[i + 1]
    <3>1. m[k] = M[D + k] /\ m[k + 1] = M[D + (k + 1)]
      BY <2>2 DEF Behindhand
    <3> QED
      BY <2>1, <2>3, <3>1
  <2>5. M[i + 1] = ModeBehind(T, i, M[i])
    BY <2>3 DEF Behindhand, Chained
  <2>6. \A mode : ModeBehind(T, i, mode) = ModeBehind(t, k, mode)
    <3>1. /\ At(t, k, MULTILINE_COMMENT_BEGIN) <=> At(T, i, MULTILINE_COMMENT_BEGIN)
          /\ At(t, k, MULTILINE_COMMENT_END) <=> At(T, i, MULTILINE_COMMENT_END)
          /\ At(t, k, SINGLE_LINE_COMMENT) <=> At(T, i, SINGLE_LINE_COMMENT)
      BY <2>1, MarkBehind DEF Marks, BlockMarks
    <3> QED
      BY <2>2, <3>1 DEF ModeBehind
  <2> QED
    BY <2>4, <2>5, <2>6
<1>2. m \in Seq(ModeNames) /\ Len(m) = Len(t) + 1
  BY DEF Behindhand
<1> QED
  BY <1>1, <1>2 DEF Chained

LEMMA TokensBehind ==
    ASSUME NEW T, NEW M, NEW D, NEW t, NEW m, Behindhand(T, M, D, t, m),
           NEW line, \A i \in (D + 1)..Len(T) : LineOf(T, i) = line,
           NEW tok \in Seq(Seq(TokenSet)), Len(tok) = Len(t),
           \A k \in 1..Len(t) : tok[k] = TokenAt(T, M, D + k)
    PROVE  TokensOfLine(t, m, tok, line)
<1>1. /\ D \in Nat /\ Len(t) \in Nat /\ Len(T) = D + Len(t)
      /\ \A k \in 1..Len(t) : t[k] = T[D + k]
      /\ \A k \in 1..(Len(t) + 1) : m[k] = M[D + k]
      /\ T \in Seq(Glyph) /\ t \in Seq(Glyph)
  BY DEF Behindhand
<1>2. ASSUME NEW k \in 1..Len(t) PROVE Opens(t, m, k) <=> Opens(T, M, D + k)
  <2>1. k \in 1..(Len(t) + 1) /\ k + 1 \in 1..(Len(t) + 1) /\ D + (k + 1) = (D + k) + 1
    BY <1>1
  <2>2. m[k] = M[D + k] /\ m[k + 1] = M[(D + k) + 1]
    BY <1>1, <2>1
  <2> QED
    BY <2>2 DEF Opens
<1>3. ASSUME NEW k \in 1..Len(t)
      PROVE  /\ Silent(t, m, k) => tok[k] = << >>
             /\ m[k] = "code" /\ ~Opens(t, m, k) /\ t[k] \notin IGNORE_CHARS =>
                   tok[k] = <<Token(IF t[k] \in SYMBOLS THEN "SYMBOL" ELSE TypeOf(<<t[k]>>),
                                    <<t[k]>>, line)>>
             /\ m[k] = "string" /\ t[k] = QUOTE =>
                   \A j \in 1..k :
                      Opens(t, m, j) /\ (\A h \in (j + 1)..k : m[h] = "string") =>
                         tok[k] = <<StringToken(SubSeq(t, j + 1, k - 1), line)>>
  <2>1. PICK i : i = D + k
    OBVIOUS
  <2>2. /\ i \in Int /\ t[k] = T[i] /\ m[k] = M[i] /\ tok[k] = TokenAt(T, M, i)
        /\ Opens(t, m, k) <=> Opens(T, M, i)
    BY <1>1, <1>2, <2>1
  <2>3. LineOf(T, i) = line
    BY <1>1, <2>1
  <2>4. ASSUME Silent(t, m, k) PROVE tok[k] = << >>
    <3>1. Silent(T, M, i)
      BY <2>2, <2>4 DEF Silent
    <3> QED
      BY <2>2, <3>1, TokenAtIs
  <2>5. ASSUME m[k] = "code", ~Opens(t, m, k), t[k] \notin IGNORE_CHARS
        PROVE  tok[k] = <<Token(IF t[k] \in SYMBOLS THEN "SYMBOL" ELSE TypeOf(<<t[k]>>),
                                    <<t[k]>>, line)>>
    <3>1. M[i] = "code" /\ ~Opens(T, M, i) /\ T[i] \notin IGNORE_CHARS
      BY <2>2, <2>5
    <3>2. TokenAt(T, M, i) =
                   <<Token(IF T[i] \in SYMBOLS THEN "SYMBOL" ELSE TypeOf(<<T[i]>>),
                           <<T[i]>>, line)>>
      BY <2>2, <2>3, <3>1, TokenAtIs
    <3> QED
      BY <2>2, <3>2
  <2>6. ASSUME m[k] = "string", t[k] = QUOTE, NEW j \in 1..k,
               Opens(t, m, j), \A h \in (j + 1)..k : m[h] = "string"
        PROVE  tok[k] = <<StringToken(SubSeq(t, j + 1, k - 1), line)>>
    <3>1. PICK b : b = D + j
      OBVIOUS
    <3>2. b \in 1..i /\ j \in 1..Len(t) /\ M[i] = "string" /\ T[i] = QUOTE
      BY <1>1, <2>1, <2>2, <2>6, <3>1
    <3>3. Opens(T, M, b)
      BY <1>2, <2>6, <3>1, <3>2
    <3>4. ASSUME NEW h \in (b + 1)..i PROVE M[h] = "string"
      <4>1. PICK g : g = h - D
        OBVIOUS
      <4>2. g \in (j + 1)..k /\ g \in 1..(Len(t) + 1) /\ D + g = h
        BY <1>1, <2>1, <3>1, <4>1
      <4>3. m[g] = M[D + g] /\ m[g] = "string"
        BY <1>1, <2>6, <4>2
      <4> QED
        BY <4>2, <4>3
    <3>5. TokenAt(T, M, i) = <<StringToken(SubSeq(T, b + 1, i - 1), line)>>
      BY <2>2, <2>3, <3>2, <3>3, <3>4, TokenAtIs
    <3>6. SubSeq(T, b + 1, i - 1) = SubSeq(t, j + 1, k - 1)
      <4>1. PICK lo, hi, u : lo = b + 1 /\ hi = i - 1 /\ u = SubSeq(T, lo, hi)
        OBVIOUS
      <4>2. PICK a, c, v : a = j + 1 /\ c = k - 1 /\ v = SubSeq(t, a, c)
        OBVIOUS
      <4>3. /\ lo \in Int /\ hi \in Int /\ 1 <= lo /\ lo <= hi + 1 /\ hi <= Len(T)
            /\ a \in Int /\ c \in Int /\ 1 <= a /\ a <= c + 1 /\ c <= Len(t)
            /\ lo = D + a /\ hi = D + c
        <5>1. j # k
          BY <2>6 DEF Opens
        <5> QED
          BY ONLY <1>1, <2>1, <3>1, <4>1, <4>2, <5>1, k \in 1..Len(t), j \in 1..k
      <4>4. /\ u \in Seq(Glyph) /\ Len(u) = hi - lo + 1
            /\ \A n \in 1..(hi - lo + 1) : u[n] = T[lo + n - 1]
        <5>1. /\ T \in Seq(Glyph) /\ lo \in Int /\ hi \in Int
              /\ 1 <= lo /\ lo <= hi + 1 /\ hi <= Len(T)
          BY <1>1, <4>3
        <5> QED
          BY ONLY <4>1, <5>1, Slice
      <4>5. /\ v \in Seq(Glyph) /\ Len(v) = c - a + 1
            /\ \A n \in 1..(c - a + 1) : v[n] = t[a + n - 1]
        BY ONLY <1>1, <4>2, <4>3, Slice
      <4>6. Len(u) = Len(v)
        BY ONLY <1>1, <4>3, <4>4, <4>5
      <4>7. ASSUME NEW n \in 1..Len(u) PROVE u[n] = v[n]
        <5>1. PICK x : x = a + n - 1
          OBVIOUS
        <5>2. x \in 1..Len(t) /\ lo + n - 1 = D + x /\ n \in 1..(hi - lo + 1) /\ n \in 1..(c - a + 1)
          BY ONLY <1>1, <4>3, <4>4, <4>7, <5>1
        <5>3. u[n] = T[D + x] /\ v[n] = t[x] /\ t[x] = T[D + x]
          BY <1>1, <4>4, <4>5, <5>1, <5>2
        <5> QED
          BY <5>3
      <4>8. u = v
        BY ONLY <4>4, <4>5, <4>6, <4>7, SameSequence
      <4> QED
        BY <4>1, <4>2, <4>8
    <3> QED
      BY <2>2, <3>5, <3>6
  <2> QED
    BY <2>4, <2>5, <2>6
<1> QED
  BY <1>3 DEF TokensOfLine

(* What is left of the last line of a plain text is a plain line.          *)
LEMMA RestIsPlain ==
    ASSUME NEW T, NEW M, NEW D, NEW t, NEW m, Behindhand(T, M, D, t, m), Plain(T, M),
           NEW line, \A i \in (D + 1)..Len(T) : LineOf(T, i) = line,
           NEW r \in Seq(Glyph), t = Append(r, NEWLINE), M[D + 1] = "code",
           \A k \in 1..Len(r) : r[k] # NEWLINE,
           \A k \in 1..(Len(r) - 1) : ~(IsWord(r[k]) /\ IsWord(r[k + 1]))
    PROVE  PlainLine(r, t, m)
<1>1. /\ D \in Nat /\ Len(t) \in Nat /\ Len(T) = D + Len(t)
      /\ \A k \in 1..Len(t) : t[k] = T[D + k]
      /\ \A k \in 1..(Len(t) + 1) : m[k] = M[D + k]
      /\ T \in Seq(Glyph) /\ t \in Seq(Glyph)
  BY DEF Behindhand
<1>2. Len(r) \in Nat /\ Len(t) = Len(r) + 1 /\ \A k \in 1..Len(r) : t[k] = r[k]
  BY Appended, GlyphsDiffer
<1>3. DOMAIN T = 1..Len(T) /\ DOMAIN M = 1..(Len(T) + 1)
  <2>1. M \in Seq(ModeNames) /\ Len(M) = Len(T) + 1
    BY DEF Behindhand, Chained
  <2> QED
    BY <1>1, <2>1
<1>4. Chained(t, m)
  BY ModesBehind
<1>5. m[1] = "code"
  <2>1. 1 \in 1..(Len(t) + 1)
    BY <1>1
  <2> QED
    BY <1>1, <2>1
<1>6. ASSUME NEW k \in 1..Len(t) PROVE NoStrayMark(t, m, k)
  <2>1. PICK i : i = D + k
    OBVIOUS
  <2>2. i \in DOMAIN T /\ m[k] = M[i]
    BY <1>1, <1>3, <2>1
  <2>3. NoStrayMark(T, M, i)
    BY <2>2 DEF Plain
  <2>4. \A mark \in Marks : At(t, k, mark) <=> At(T, i, mark)
    BY <2>1, MarkBehind
  <2>5. BlockMarks \subseteq Marks /\ MULTILINE_COMMENT_END \in Marks
    BY DEF Marks, BlockMarks
  <2> QED
    BY <2>2, <2>3, <2>4, <2>5 DEF NoStrayMark
<1>7. ASSUME NEW i \in 1..Len(t), NEW j \in 1..Len(t), i < j, m[i + 1] = "opening", m[j + 1] = "opening"
      PROVE  FALSE
  <2>1. PICK a, b : a = D + i /\ b = D + j
    OBVIOUS
  <2>2. /\ a \in DOMAIN T /\ b \in DOMAIN T /\ a < b /\ a \in (D + 1)..Len(T) /\ b \in (D + 1)..Len(T)
        /\ a + 1 \in DOMAIN M /\ b + 1 \in DOMAIN M /\ a + 1 = D + (i + 1) /\ b + 1 = D + (j + 1)
        /\ i + 1 \in 1..(Len(t) + 1) /\ j + 1 \in 1..(Len(t) + 1)
    BY <1>1, <1>3, <1>7, <2>1
  <2>3. M[a + 1] = "opening" /\ M[b + 1] = "opening"
    BY <1>1, <1>7, <2>2
  <2>4. LineOf(T, a) = LineOf(T, b)
    BY <2>2
  <2> QED
    BY <2>2, <2>3, <2>4 DEF Plain, OneBlockALine, OpensBlock
<1>8. ASSUME NEW i \in 1..Len(r), NEW j \in 1..Len(r), i < j, m[i] = "code", m[i + 2] = "opening",
             m[j] = "code", \A k \in (i + 2)..(j - 1) : m[k] # "code"
      PROVE  ~(IsWord(r[i]) /\ IsWord(r[j]))
  <2>1. PICK a, b : a = D + i /\ b = D + j
    OBVIOUS
  <2>2. /\ a \in DOMAIN T /\ b \in DOMAIN T /\ a < b /\ a \in (D + 1)..Len(T) /\ b \in (D + 1)..Len(T)
        /\ (a + 1) + 1 \in DOMAIN M /\ (a + 1) + 1 = D + (i + 2)
        /\ i \in 1..(Len(t) + 1) /\ j \in 1..(Len(t) + 1) /\ i + 2 \in 1..(Len(t) + 1)
        /\ i \in 1..Len(t) /\ j \in 1..Len(t)
    BY <1>1, <1>2, <1>3, <1>8, <2>1
  <2>3. M[a] = "code" /\ M[b] = "code" /\ M[(a + 1) + 1] = "opening" /\ T[a] = r[i] /\ T[b] = r[j]
    BY <1>1, <1>2, <1>8, <2>1, <2>2
  <2>4. ASSUME NEW k \in (a + 2)..(b - 1) PROVE M[k] # "code"
    <3>1. PICK g : g = k - D
      OBVIOUS
    <3>2. g \in (i + 2)..(j - 1) /\ g \in 1..(Len(t) + 1) /\ D + g = k
      <4>1. D \in Nat /\ Len(r) \in Nat /\ Len(t) = Len(r) + 1
        BY ONLY <1>1, <1>2
      <4> QED
        BY ONLY <2>1, <3>1, <4>1, k \in (a + 2)..(b - 1), i \in 1..Len(r), j \in 1..Len(r)
    <3> QED
      BY <1>1, <1>8, <3>2
  <2>5. LineOf(T, a) = LineOf(T, b)
    BY <2>2
  <2> QED
    BY <2>2, <2>3, <2>4, <2>5 DEF Plain, NoWordsJoined, OpensBlock
<1> QED
  BY <1>4, <1>5, <1>6, <1>7, <1>8 DEF PlainLine

-----------------------------------------------------------------------------
(* The text of the first lines.                                            *)

LEMMA FileIs ==
    ASSUME file \in Files
    PROVE  /\ Len(file) \in Nat /\ Len(file) >= 1
           /\ \A n \in 1..Len(file) :
                 /\ file[n] \in Seq(Glyph) /\ Len(file[n]) \in Nat
                 /\ \A i \in 1..Len(file[n]) : file[n][i] # NEWLINE
                 /\ \A i \in 1..(Len(file[n]) - 1) : ~(IsWord(file[n][i]) /\ IsWord(file[n][i + 1]))
<1>1. /\ Len(file) \in Nat \ {0} /\ DOMAIN file = 1..Len(file)
      /\ \A n \in DOMAIN file : IsLine(file[n])
  BY GlyphsAssumption
<1>2. ASSUME NEW n \in 1..Len(file)
      PROVE  /\ file[n] \in Seq(Glyph) /\ Len(file[n]) \in Nat
             /\ \A i \in 1..Len(file[n]) : file[n][i] # NEWLINE
             /\ \A i \in 1..(Len(file[n]) - 1) : ~(IsWord(file[n][i]) /\ IsWord(file[n][i + 1]))
  <2>1. PICK line : line = file[n]
    OBVIOUS
  <2>2. /\ line \in Seq(STRING)
        /\ \A i \in DOMAIN line : line[i] # NEWLINE
        /\ \A i \in 1..(Len(line) - 1) : ~(IsWord(line[i]) /\ IsWord(line[i + 1]))
    BY <1>1, <2>1 DEF IsLine
  <2>3. line \in Seq(Glyph) /\ DOMAIN line = 1..Len(line) /\ Len(line) \in Nat
    BY <2>2 DEF Glyph
  <2> QED
    BY <2>1, <2>2, <2>3
<1>3. Len(file) \in Nat /\ Len(file) >= 1
  BY <1>1
<1> QED
  BY <1>2, <1>3

TextLines(n) == [k \in 1..n |-> Append(file[k], NEWLINE)]

LEMMA TextGrows ==
    ASSUME file \in Files, NEW n \in 0..(Len(file) - 1)
    PROVE  /\ Text(0) = << >>
           /\ Text(n) \in Seq(Glyph) => Text(n + 1) = Text(n) \o Append(file[n + 1], NEWLINE)
<1>1. /\ Len(file) \in Nat /\ NEWLINE \in Glyph
      /\ \A k \in 1..Len(file) : file[k] \in Seq(Glyph)
  BY FileIs, GlyphsDiffer
<1>2. \A k \in 1..Len(file) : Append(file[k], NEWLINE) \in Seq(Glyph)
  BY <1>1, Appended
<1>3. \A h : Text(h) = FlattenSeq(TextLines(h))
  BY DEF Text, TextLines
<1>4. Text(0) = << >>
  <2>1. TextLines(0) = << >>
    BY DEF TextLines
  <2> QED
    BY <1>3, <2>1, FlattenNone
<1>5. TextLines(n) \in Seq(Seq(Glyph))
  <2>1. \A k \in 1..n : k \in 1..Len(file)
    BY <1>1
  <2>2. n \in Nat
    BY <1>1
  <2> QED
    BY <1>2, <2>1, <2>2 DEF TextLines
<1>6. TextLines(n + 1) = Append(TextLines(n), Append(file[n + 1], NEWLINE))
  <2>1. PICK f, g, x : f = TextLines(n) /\ g = TextLines(n + 1) /\ x = Append(file[n + 1], NEWLINE)
    OBVIOUS
  <2>2. n \in Nat /\ n + 1 \in 1..Len(file)
    BY <1>1
  <2>3. x \in Seq(Glyph) /\ f \in Seq(Seq(Glyph)) /\ Len(f) = n
    BY <1>2, <1>5, <2>1, <2>2 DEF TextLines
  <2>4. g \in Seq(Seq(Glyph)) /\ Len(g) = n + 1
    <3>1. \A k \in 1..(n + 1) : k \in 1..Len(file)
      BY <1>1
    <3> QED
      BY <1>2, <2>1, <2>2, <3>1 DEF TextLines
  <2>5. PICK h : h = Append(f, x)
    OBVIOUS
  <2>6. /\ h \in Seq(Seq(Glyph)) /\ Len(h) = n + 1 /\ h[n + 1] = x
        /\ \A i \in 1..n : h[i] = f[i]
    BY ONLY <2>3, <2>5, Appended
  <2>7. ASSUME NEW i \in 1..Len(g) PROVE g[i] = h[i]
    <3>1. CASE i = n + 1
      BY <2>1, <2>2, <2>4, <2>6, <3>1 DEF TextLines
    <3>2. CASE i # n + 1
      <4>1. i \in 1..n /\ i \in 1..(n + 1)
        BY <2>2, <2>4, <3>2
      <4>2. g[i] = Append(file[i], NEWLINE) /\ f[i] = Append(file[i], NEWLINE)
        BY <2>1, <4>1 DEF TextLines
      <4> QED
        BY <2>6, <4>1, <4>2
    <3> QED
      BY <3>1, <3>2
  <2>8. g = h
    BY ONLY <2>4, <2>6, <2>7, SameSequence
  <2> QED
    BY <2>1, <2>5, <2>8
<1>7. Text(n + 1) = Text(n) \o Append(file[n + 1], NEWLINE)
  <2>1. PICK f, x : f = TextLines(n) /\ x = Append(file[n + 1], NEWLINE)
    OBVIOUS
  <2>2. n + 1 \in 1..Len(file)
    BY <1>1
  <2>3. f \in Seq(Seq(Glyph)) /\ x \in Seq(Glyph)
    BY <1>2, <1>5, <2>1, <2>2
  <2>4. FlattenSeq(Append(f, x)) = FlattenSeq(f) \o x
    BY ONLY <2>3, FlattenOne
  <2> QED
    BY <1>3, <1>6, <2>1, <2>4
<1> QED
  BY <1>4, <1>7

\* The newlines of a text.
Newlines(t, i) == {k \in 1..i : t[k] = NEWLINE}

\* What a text of n lines is.
TextOf(t, n) ==
    /\ t \in Seq(Glyph) /\ Len(t) \in Nat
    /\ Len(t) >= 1 => t[Len(t)] = NEWLINE
    /\ IsFiniteSet(Newlines(t, Len(t))) /\ Cardinality(Newlines(t, Len(t))) = n

LEMMA NewlinesSame ==
    ASSUME NEW s, NEW t, NEW i \in Int, NEW j \in Int, i <= j,
           \A k \in 1..i : s[k] = t[k], \A k \in (i + 1)..j : t[k] # NEWLINE
    PROVE  Newlines(t, j) = Newlines(s, i)
<1>1. \A k \in 1..j : k \in 1..i \/ k \in (i + 1)..j
  OBVIOUS
<1>2. \A k \in 1..i : k \in 1..j
  OBVIOUS
<1> QED
  BY <1>1, <1>2 DEF Newlines

\* t is the text s of n lines and one line more.
Longer(s, L, t, n) ==
    /\ Begins(s, t) /\ TextOf(t, n + 1)
    /\ Len(L) \in Nat /\ Len(t) = Len(s) + (Len(L) + 1)
    /\ \A i \in 1..Len(L) : t[Len(s) + i] = L[i]
    /\ t[Len(t)] = NEWLINE
    /\ \A i \in (Len(s) + 1)..Len(t) : LineOf(t, i) = n + 1

(* A line that is added to a text.                                         *)
LEMMA LineAdded ==
    ASSUME NEW n \in Nat, NEW s, TextOf(s, n), NEW L \in Seq(Glyph),
           \A i \in 1..Len(L) : L[i] # NEWLINE,
           NEW t, t = s \o Append(L, NEWLINE)
    PROVE  Longer(s, L, t, n)
<1>1. PICK a : a = Append(L, NEWLINE)
  OBVIOUS
<1>2. /\ a \in Seq(Glyph) /\ Len(L) \in Nat /\ Len(a) = Len(L) + 1
      /\ \A i \in 1..Len(L) : a[i] = L[i]
      /\ a[Len(L) + 1] = NEWLINE
  BY <1>1, GlyphsDiffer, Appended
<1>3. s \in Seq(Glyph) /\ Len(s) \in Nat
  BY DEF TextOf
<1>4. /\ t \in Seq(Glyph) /\ Len(t) = Len(s) + Len(a)
      /\ \A i \in 1..Len(s) : t[i] = s[i]
      /\ \A i \in 1..Len(a) : t[Len(s) + i] = a[i]
  <2>1. t = s \o a
    BY <1>1
  <2>2. s \in Seq(Glyph) /\ a \in Seq(Glyph)
    BY <1>2, <1>3
  <2>3. /\ s \o a \in Seq(Glyph) /\ Len(s \o a) = Len(s) + Len(a)
        /\ \A i \in 1..Len(s) : (s \o a)[i] = s[i]
        /\ \A i \in 1..Len(a) : (s \o a)[Len(s) + i] = a[i]
    BY ONLY <2>2, Joining
  <2> QED
    BY <2>1, <2>3
<1>5. PICK B, E : B = Len(s) /\ E = Len(t)
  OBVIOUS
<1>6. B \in Nat /\ E = B + (Len(L) + 1) /\ E \in Nat /\ B < E
  BY <1>2, <1>3, <1>4, <1>5
<1>7. \A i \in 1..Len(L) : t[B + i] = L[i]
  <2>1. \A i \in 1..Len(L) : i \in 1..Len(a)
    BY <1>2
  <2> QED
    BY <1>2, <1>4, <1>5, <2>1
<1>8. t[E] = NEWLINE
  <2>1. Len(L) + 1 \in 1..Len(a)
    BY <1>2
  <2>2. t[B + (Len(L) + 1)] = NEWLINE
    BY <1>2, <1>4, <1>5, <2>1
  <2> QED
    BY <1>6, <2>2
<1>9. \A k \in (B + 1)..(E - 1) : t[k] # NEWLINE
  <2> TAKE k \in (B + 1)..(E - 1)
  <2>1. PICK i : i = k - B
    OBVIOUS
  <2>2. i \in 1..Len(L) /\ B + i = k
    BY <1>2, <1>6, <2>1
  <2>3. t[B + i] = L[i] /\ L[i] # NEWLINE
    BY <1>7, <2>2
  <2> QED
    BY <2>2, <2>3
<1>10. \A j \in B..(E - 1) : Newlines(t, j) = Newlines(s, B)
  <2> TAKE j \in B..(E - 1)
  <2>1. /\ B \in Int /\ j \in Int /\ B <= j
        /\ \A k \in 1..B : s[k] = t[k]
    BY <1>4, <1>5, <1>6
  <2>2. \A k \in (B + 1)..j : t[k] # NEWLINE
    <3>1. \A k \in (B + 1)..j : k \in (B + 1)..(E - 1)
      BY <1>6
    <3> QED
      BY <1>9, <3>1
  <2> QED
    BY ONLY <2>1, <2>2, NewlinesSame
<1>11. IsFiniteSet(Newlines(s, B)) /\ Cardinality(Newlines(s, B)) = n
  BY <1>5 DEF TextOf
<1>12. \A i \in (B + 1)..E : LineOf(t, i) = n + 1
  <2> TAKE i \in (B + 1)..E
  <2>1. i - 1 \in B..(E - 1)
    BY <1>6
  <2>2. Newlines(t, i - 1) = Newlines(s, B)
    BY <1>10, <2>1
  <2>3. LineOf(t, i) = 1 + Cardinality(Newlines(t, i - 1))
    BY DEF LineOf, Newlines
  <2>4. LineOf(t, i) = 1 + n
    BY <1>11, <2>2, <2>3
  <2> QED
    BY <2>4
<1>13. IsFiniteSet(Newlines(t, E)) /\ Cardinality(Newlines(t, E)) = n + 1
  <2>1. E - 1 \in B..(E - 1)
    BY <1>6
  <2>2. Newlines(t, E - 1) = Newlines(s, B)
    BY <1>10, <2>1
  <2>3. Newlines(t, E) = Newlines(t, E - 1) \cup {E} /\ E \notin Newlines(t, E - 1)
    <3>1. \A k : k \in 1..E <=> k \in 1..(E - 1) \/ k = E
      BY <1>6
    <3>2. E \notin 1..(E - 1)
      BY <1>6
    <3> QED
      BY ONLY <1>8, <3>1, <3>2 DEF Newlines
  <2>4. /\ IsFiniteSet(Newlines(t, E - 1) \cup {E})
        /\ Cardinality(Newlines(t, E - 1) \cup {E}) = Cardinality(Newlines(t, E - 1)) + 1
    BY <1>11, <2>2, <2>3, FS_AddElement
  <2> QED
    BY <1>11, <2>2, <2>3, <2>4
<1>14. TextOf(t, n + 1)
  BY <1>4, <1>5, <1>6, <1>8, <1>13 DEF TextOf
<1>15. Begins(s, t)
  <2>1. Len(s) >= 1 => s[Len(s)] = NEWLINE
    BY DEF TextOf
  <2> QED
    BY <1>3, <1>4, <1>5, <1>6, <2>1 DEF Begins
<1> QED
  BY <1>2, <1>5, <1>6, <1>7, <1>8, <1>12, <1>14, <1>15 DEF Longer

LEMMA TextIs ==
    ASSUME file \in Files, NEW n \in 0..Len(file)
    PROVE  TextOf(Text(n), n)
<1> DEFINE S == {k \in 0..Len(file) : TextOf(Text(k), k)}
<1>1. /\ Len(file) \in Nat
      /\ \A k \in 1..Len(file) : /\ file[k] \in Seq(Glyph)
                                 /\ \A i \in 1..Len(file[k]) : file[k][i] # NEWLINE
  BY FileIs
<1>2. 0 \in S
  <2>1. Text(0) = << >>
    <3>1. 0 \in 0..(Len(file) - 1)
      BY FileIs
    <3> QED
      BY <3>1, TextGrows
  <2>2. Newlines(<< >>, Len(<< >>)) = {}
    BY DEF Newlines
  <2>3. << >> \in Seq(Glyph) /\ Len(<< >>) = 0
    OBVIOUS
  <2>4. TextOf(<< >>, 0)
    <3>1. /\ IsFiniteSet(Newlines(<< >>, Len(<< >>)))
          /\ Cardinality(Newlines(<< >>, Len(<< >>))) = 0
      BY <2>2, FS_EmptySet
    <3>2. << >> \in Seq(Glyph) /\ Len(<< >>) \in Nat /\ ~(Len(<< >>) >= 1)
      BY <2>3
    <3> QED
      BY ONLY <3>1, <3>2 DEF TextOf
  <2> QED
    BY <1>1, <2>1, <2>4
<1>3. ASSUME NEW k \in 0..Len(file), k \in S, k + 1 \in 0..Len(file)
      PROVE  k + 1 \in S
  <2>1. k \in 0..(Len(file) - 1) /\ k + 1 \in 1..Len(file) /\ k \in Nat
    BY <1>1, <1>3
  <2>2. PICK s, t, L : s = Text(k) /\ t = Text(k + 1) /\ L = file[k + 1]
    OBVIOUS
  <2>3. TextOf(s, k)
    BY <1>3, <2>2
  <2>4. t = s \o Append(L, NEWLINE)
    <3>1. Text(k) \in Seq(Glyph)
      BY <2>2, <2>3 DEF TextOf
    <3> QED
      BY <2>1, <2>2, <3>1, TextGrows
  <2>5. L \in Seq(Glyph) /\ \A i \in 1..Len(L) : L[i] # NEWLINE
    BY <1>1, <2>1, <2>2
  <2>6. TextOf(t, k + 1)
    BY ONLY <2>1, <2>3, <2>4, <2>5, LineAdded DEF Longer
  <2> QED
    BY <1>3, <2>2, <2>6
<1>4. 0..Len(file) \subseteq S
  <2> HIDE DEF S
  <2> QED
    BY <1>1, <1>2, <1>3, UpTo
<1> QED
  BY <1>4

-----------------------------------------------------------------------------
(* A text and its next line.                                               *)

\* The tokens of the c glyphs of a text behind the a-th.
TokensIn(t, m, a, c) == [k \in 1..c |-> TokenAt(t, m, a + k)]

LEMMA TokensInIs ==
    ASSUME NEW t \in Seq(Glyph), NEW m, Chained(t, m), m[1] = "code",
           NEW a \in Nat, NEW c \in Nat, a + c <= Len(t)
    PROVE  /\ TokensIn(t, m, a, c) \in Seq(Seq(TokenSet)) /\ Len(TokensIn(t, m, a, c)) = c
           /\ \A k \in 1..c : TokensIn(t, m, a, c)[k] = TokenAt(t, m, a + k)
<1>1. \A k \in 1..c : a + k \in 1..Len(t)
  OBVIOUS
<1>2. \A k \in 1..c : TokenAt(t, m, a + k) \in Seq(TokenSet)
  BY <1>1, TokenTyped
<1> QED
  BY <1>2 DEF TokensIn

LEMMA FirstTokens ==
    ASSUME NEW t \in Seq(Glyph), NEW m, Chained(t, m), m[1] = "code",
           NEW b \in Nat, b <= Len(t)
    PROVE  /\ TokensIn(t, m, 0, b) \in Seq(Seq(TokenSet)) /\ Len(TokensIn(t, m, 0, b)) = b
           /\ \A k \in 1..b : TokensIn(t, m, 0, b)[k] = TokenAt(t, m, k)
<1>1. \A k \in 1..b : 0 + k = k /\ k \in 1..Len(t)
  OBVIOUS
<1>2. \A k \in 1..b : TokenAt(t, m, k) \in Seq(TokenSet)
  BY <1>1, TokenTyped
<1>3. TokensIn(t, m, 0, b) = [k \in 1..b |-> TokenAt(t, m, k)]
  BY <1>1 DEF TokensIn
<1> QED
  BY <1>2, <1>3

LEMMA PiecesJoin ==
    ASSUME NEW t \in Seq(Glyph), NEW m, Chained(t, m), m[1] = "code",
           NEW a \in Nat, NEW c \in Nat, NEW b, b = a + c, b <= Len(t)
    PROVE  TokensIn(t, m, 0, b) = TokensIn(t, m, 0, a) \o TokensIn(t, m, a, c)
<1>0. b \in Nat /\ a <= b /\ a + c <= Len(t)
  OBVIOUS
<1>1. PICK u, v, w : u = TokensIn(t, m, 0, a) /\ v = TokensIn(t, m, a, c) /\ w = TokensIn(t, m, 0, b)
  OBVIOUS
<1>2. /\ u \in Seq(Seq(TokenSet)) /\ Len(u) = a
      /\ \A k \in 1..a : u[k] = TokenAt(t, m, k)
  <2>1. a <= Len(t)
    BY <1>0
  <2> QED
    BY <1>1, <2>1, FirstTokens
<1>3. /\ v \in Seq(Seq(TokenSet)) /\ Len(v) = c
      /\ \A k \in 1..c : v[k] = TokenAt(t, m, a + k)
  <2>1. t \in Seq(Glyph) /\ Chained(t, m) /\ m[1] = "code" /\ a \in Nat /\ c \in Nat
    OBVIOUS
  <2> QED
    BY ONLY <1>0, <1>1, <2>1, TokensInIs
<1>4. /\ w \in Seq(Seq(TokenSet)) /\ Len(w) = b
      /\ \A k \in 1..b : w[k] = TokenAt(t, m, k)
  BY <1>0, <1>1, FirstTokens
<1>5. PICK x : x = u \o v
  OBVIOUS
<1>6. /\ x \in Seq(Seq(TokenSet)) /\ Len(x) = b
      /\ \A k \in 1..a : x[k] = u[k]
      /\ \A k \in 1..c : x[a + k] = v[k]
  <2>1. /\ u \o v \in Seq(Seq(TokenSet)) /\ Len(u \o v) = Len(u) + Len(v)
        /\ \A k \in 1..Len(u) : (u \o v)[k] = u[k]
        /\ \A k \in 1..Len(v) : (u \o v)[Len(u) + k] = v[k]
    <3>1. u \in Seq(Seq(TokenSet)) /\ v \in Seq(Seq(TokenSet))
      BY <1>2, <1>3
    <3> QED
      BY ONLY <3>1, Joining
  <2> QED
    BY <1>0, <1>2, <1>3, <1>5, <2>1
<1>7. ASSUME NEW k \in 1..Len(w) PROVE w[k] = x[k]
  <2>1. CASE k <= a
    <3>1. k \in 1..a /\ k \in 1..b
      BY <1>4, <2>1
    <3> QED
      BY <1>2, <1>4, <1>6, <3>1
  <2>2. CASE k > a
    <3>1. PICK h : h = k - a
      OBVIOUS
    <3>2. h \in 1..c /\ a + h = k /\ k \in 1..b
      BY <1>0, <1>4, <2>2, <3>1
    <3>3. x[a + h] = v[h] /\ v[h] = TokenAt(t, m, a + h)
      BY <1>3, <1>6, <3>2
    <3> QED
      BY <1>4, <3>2, <3>3
  <2> QED
    BY <1>4, <2>1, <2>2
<1>8. w = x
  <2>1. Len(w) = Len(x)
    BY <1>4, <1>6
  <2> QED
    BY ONLY <1>4, <1>6, <1>7, <2>1, SameSequence
<1> QED
  BY <1>1, <1>5, <1>8

(* The tokens up to where nothing more has been said.                      *)
LEMMA SilentTokens ==
    ASSUME NEW s, NEW ms, NEW t, NEW mt, Moded(s, ms, t, mt),
           NEW D \in Nat, Len(s) <= D, D <= Len(t),
           \A i \in (Len(s) + 1)..D : Silent(t, mt, i)
    PROVE  /\ FlattenSeq(TokensIn(t, mt, 0, D)) = Tokens(s, ms)
           /\ Tokens(s, ms) \in Seq(TokenSet)
<1>1. /\ s \in Seq(Glyph) /\ t \in Seq(Glyph) /\ Len(s) \in Nat /\ Len(t) \in Nat /\ Len(s) <= Len(t)
      /\ Chained(s, ms) /\ Chained(t, mt) /\ ms[1] = "code" /\ mt[1] = "code"
  BY DEF Moded, Begins
<1>2. PICK B : B = Len(s)
  OBVIOUS
<1>3. B \in Nat /\ B <= D /\ B <= Len(t)
  BY <1>1, <1>2
<1>0. PICK c : c = D - B
  OBVIOUS
<1>4. PICK u, v : u = TokensIn(t, mt, 0, B) /\ v = TokensIn(t, mt, B, c)
  OBVIOUS
<1>5. /\ u \in Seq(Seq(TokenSet)) /\ Len(u) = B
      /\ \A k \in 1..B : u[k] = TokenAt(t, mt, k)
  <2>1. t \in Seq(Glyph) /\ Chained(t, mt) /\ mt[1] = "code"
    BY <1>1
  <2> QED
    BY ONLY <1>3, <1>4, <2>1, FirstTokens
<1>6. /\ v \in Seq(Seq(TokenSet)) /\ Len(v) = c
      /\ \A k \in 1..c : v[k] = TokenAt(t, mt, B + k)
  <2>1. t \in Seq(Glyph) /\ Chained(t, mt) /\ mt[1] = "code" /\ c \in Nat /\ B + c <= Len(t)
    BY <1>0, <1>1, <1>3
  <2> QED
    BY ONLY <1>3, <1>4, <2>1, TokensInIs
<1>7. FlattenSeq(u) = Tokens(s, ms)
  <2>1. u = [k \in 1..B |-> u[k]]
    BY <1>5
  <2>2. \A k \in 1..B : u[k] = TokenAt(s, ms, k)
    BY <1>2, <1>5, TokenAgrees
  <2>3. DOMAIN s = 1..B
    BY <1>1, <1>2
  <2>4. u = [i \in DOMAIN s |-> TokenAt(s, ms, i)]
    BY <2>1, <2>2, <2>3
  <2> QED
    BY <2>4 DEF Tokens
<1>8. PICK F : Flattened(v, F, TokenSet)
  BY <1>6, FlattenExists
<1>9. F[c] = << >>
  <2>1. PICK lo, hi : lo = 1 /\ hi = c
    OBVIOUS
  <2>2. lo \in Int /\ hi \in Int /\ 1 <= lo /\ lo <= hi + 1 /\ hi <= Len(v) /\ lo - 1 = 0
    BY <1>0, <1>3, <1>6, <2>1
  <2>3. ASSUME NEW i \in lo..hi PROVE v[i] = << >>
    <3>1. PICK k : k = B + i
      OBVIOUS
    <3>2. i \in 1..c /\ k \in (Len(s) + 1)..D /\ k \in Int
      BY <1>0, <1>2, <1>3, <2>1, <3>1
    <3>3. TokenAt(t, mt, k) = << >>
      BY <3>2, TokenAtIs
    <3> QED
      BY <1>6, <3>1, <3>2, <3>3
  <2>4. F[hi] = F[lo - 1]
    BY <1>6, <1>8, <2>2, <2>3, NothingAdded
  <2>5. F[0] = << >>
    BY <1>8 DEF Flattened
  <2> QED
    BY <2>1, <2>2, <2>4, <2>5
<1>10. FlattenSeq(u) \in Seq(TokenSet) /\ FlattenSeq(u \o v) = FlattenSeq(u) \o F[Len(v)]
  <2>1. u \in Seq(Seq(TokenSet)) /\ v \in Seq(Seq(TokenSet))
    BY <1>5, <1>6
  <2> QED
    BY ONLY <1>8, <2>1, FlattenFollowing
<1>11. TokensIn(t, mt, 0, D) = u \o v
  <2>1. c \in Nat /\ D = B + c /\ D <= Len(t)
    BY <1>0, <1>1, <1>3
  <2> QED
    BY ONLY <1>1, <1>3, <1>4, <2>1, PiecesJoin, SMTT(30)
<1>12. FlattenSeq(u) \o << >> = FlattenSeq(u)
  BY <1>10
<1> QED
  BY <1>6, <1>7, <1>9, <1>10, <1>11, <1>12

LEMMA TokensWhole ==
    ASSUME NEW t \in Seq(Glyph), NEW m
    PROVE  Tokens(t, m) = FlattenSeq(TokensIn(t, m, 0, Len(t)))
<1>1. TokensIn(t, m, 0, Len(t)) = [i \in DOMAIN t |-> TokenAt(t, m, i)]
  <2>1. Len(t) \in Nat /\ DOMAIN t = 1..Len(t) /\ Len(t) - 0 = Len(t)
    OBVIOUS
  <2>2. \A k \in 1..Len(t) : 0 + k = k
    OBVIOUS
  <2> QED
    BY <2>1, <2>2 DEF TokensIn
<1> QED
  BY <1>1 DEF Tokens

(* A string that its line did not end is never forgotten.                  *)
LEMMA BrokenStays ==
    ASSUME NEW t \in Seq(Glyph), NEW m, Chained(t, m)
    PROVE  "broken" \in ToSet(m) <=> m[Len(t) + 1] = "broken"
<1>1. Len(t) \in Nat /\ m \in Seq(ModeNames) /\ Len(m) = Len(t) + 1 /\ DOMAIN m = 1..(Len(t) + 1)
  BY DEF Chained
<1>2. "broken" \in ToSet(m) <=> \E k \in 1..(Len(t) + 1) : m[k] = "broken"
  BY <1>1 DEF ToSet
<1>3. ASSUME NEW k \in 1..(Len(t) + 1), m[k] = "broken" PROVE m[Len(t) + 1] = "broken"
  <2> DEFINE S == {i \in Int : m[i] = "broken"}
  <2>1. PICK hi : hi = Len(t) + 1
    OBVIOUS
  <2>2. k \in Int /\ hi \in Int /\ k <= hi /\ k \in S
    BY <1>1, <1>3, <2>1
  <2>3. ASSUME NEW i \in k..(hi - 1), i \in S PROVE i + 1 \in S
    <3>1. i \in 1..Len(t) /\ i + 1 \in Int
      BY <1>1, <2>1
    <3> QED
      BY <2>3, <3>1, ChainSteps
  <2>4. k..hi \subseteq S
    <3> HIDE DEF S
    <3> QED
      BY <2>2, <2>3, Along
  <2>5. hi \in k..hi
    BY <2>2
  <2> QED
    BY <2>1, <2>4, <2>5
<1>4. Len(t) + 1 \in 1..(Len(t) + 1)
  BY <1>1
<1> QED
  BY <1>2, <1>3, <1>4

\* t is the text s and the line L, and it is plain.
NewLine(s, ms, t, mt, L, n) ==
    /\ n \in Nat /\ TextOf(s, n) /\ L \in Seq(Glyph)
    /\ \A i \in 1..Len(L) : L[i] # NEWLINE
    /\ \A i \in 1..(Len(L) - 1) : ~(IsWord(L[i]) /\ IsWord(L[i + 1]))
    /\ t = s \o Append(L, NEWLINE)
    /\ Chained(s, ms) /\ Chained(t, mt) /\ ms[1] = "code" /\ mt[1] = "code"
    /\ Plain(t, mt)

LEMMA NewLineFacts ==
    ASSUME NEW s, NEW ms, NEW t, NEW mt, NEW L, NEW n, NewLine(s, ms, t, mt, L, n)
    PROVE  /\ Moded(s, ms, t, mt) /\ TextOf(t, n + 1)
           /\ s \in Seq(Glyph) /\ t \in Seq(Glyph) /\ Len(s) \in Nat /\ Len(t) \in Nat
           /\ Len(L) \in Nat /\ Len(t) = Len(s) + (Len(L) + 1)
           /\ \A i \in 1..Len(L) : t[Len(s) + i] = L[i]
           /\ t[Len(t)] = NEWLINE
           /\ \A i \in (Len(s) + 1)..Len(t) : LineOf(t, i) = n + 1
<1>1. /\ n \in Nat /\ TextOf(s, n) /\ L \in Seq(Glyph)
      /\ \A i \in 1..Len(L) : L[i] # NEWLINE
      /\ t = s \o Append(L, NEWLINE)
  BY DEF NewLine
<1>2. /\ Begins(s, t) /\ TextOf(t, n + 1)
      /\ Len(L) \in Nat /\ Len(t) = Len(s) + (Len(L) + 1)
      /\ \A i \in 1..Len(L) : t[Len(s) + i] = L[i]
      /\ t[Len(t)] = NEWLINE
      /\ \A i \in (Len(s) + 1)..Len(t) : LineOf(t, i) = n + 1
  <2>1. Longer(s, L, t, n)
    BY ONLY <1>1, LineAdded, Zenon
  <2> QED
    BY ONLY <2>1 DEF Longer
<1>3. Moded(s, ms, t, mt)
  BY <1>2 DEF Moded, NewLine
<1>4. s \in Seq(Glyph) /\ t \in Seq(Glyph) /\ Len(s) \in Nat /\ Len(t) \in Nat
  BY <1>2 DEF Begins
<1> QED
  BY <1>2, <1>3, <1>4

\* u is what the code r of the line n + 1 is in t, m are its modes, and tok and
\* F its tokens.
CodeOf(r, s, ms, t, mt, n, u, m, tok, F) ==
    /\ PlainLine(r, u, m) /\ m[Len(r) + 2] = mt[Len(t) + 1]
    /\ TokensOfLine(u, m, tok, n + 1) /\ Flattened(tok, F, TokenSet)
    /\ F[Len(u)] \in Seq(TokenSet) /\ Tokens(s, ms) \in Seq(TokenSet)
    /\ Tokens(t, mt) = Tokens(s, ms) \o F[Len(u)]

(* The code of the line from its (d + 1)-th glyph on.                      *)
LEMMA CodeBehind ==
    ASSUME NEW s, NEW ms, NEW t, NEW mt, NEW L, NEW n, NewLine(s, ms, t, mt, L, n),
           NEW d \in 0..Len(L), NEW r, r = SubSeq(L, d + 1, Len(L)),
           NEW D, D = Len(s) + d, mt[D + 1] = "code",
           \A i \in (Len(s) + 1)..D : Silent(t, mt, i)
    PROVE  \E u, m, tok, F : CodeOf(r, s, ms, t, mt, n, u, m, tok, F)
<1>1. /\ Moded(s, ms, t, mt)
      /\ s \in Seq(Glyph) /\ t \in Seq(Glyph) /\ Len(s) \in Nat /\ Len(t) \in Nat
      /\ Len(L) \in Nat /\ Len(t) = Len(s) + (Len(L) + 1)
      /\ \A i \in 1..Len(L) : t[Len(s) + i] = L[i]
      /\ t[Len(t)] = NEWLINE
      /\ \A i \in (Len(s) + 1)..Len(t) : LineOf(t, i) = n + 1
  BY NewLineFacts
<1>2. /\ L \in Seq(Glyph) /\ Chained(t, mt) /\ mt[1] = "code" /\ Plain(t, mt)
      /\ \A i \in 1..Len(L) : L[i] # NEWLINE
      /\ \A i \in 1..(Len(L) - 1) : ~(IsWord(L[i]) /\ IsWord(L[i + 1]))
  BY DEF NewLine
<1>3. D \in Nat /\ d \in Nat /\ D < Len(t) /\ Len(s) <= D
  BY <1>1
<1>4. PICK N : N = Len(L) - d
  OBVIOUS
<1>5. r \in Seq(Glyph) /\ Len(r) = N /\ \A k \in 1..N : r[k] = L[d + k]
  <2>1. PICK lo, hi : lo = d + 1 /\ hi = Len(L)
    OBVIOUS
  <2>2. /\ lo \in Int /\ hi \in Int /\ 1 <= lo /\ lo <= hi + 1 /\ hi <= Len(L) /\ hi - lo + 1 = N
    BY <1>1, <1>3, <1>4, <2>1
  <2>3. /\ r \in Seq(Glyph) /\ Len(r) = hi - lo + 1
        /\ \A k \in 1..(hi - lo + 1) : r[k] = L[lo + k - 1]
    <3>1. r = SubSeq(L, lo, hi) /\ L \in Seq(Glyph)
      BY <1>2, <2>1
    <3> QED
      BY ONLY <2>2, <3>1, Slice
  <2>4. \A k \in 1..N : lo + k - 1 = d + k
    BY <1>3, <2>1
  <2> QED
    BY <2>2, <2>3, <2>4
<1>6. N \in Nat /\ Len(t) = D + (N + 1) /\ N + 1 \in Nat /\ d + N = Len(L)
  BY <1>1, <1>3, <1>4
<1>7. PICK u : u = Append(r, NEWLINE)
  OBVIOUS
<1>8. /\ u \in Seq(Glyph) /\ Len(u) = N + 1
      /\ \A k \in 1..N : u[k] = r[k]
      /\ u[N + 1] = NEWLINE
  BY <1>5, <1>7, Appended, GlyphsDiffer
<1>9. \A k \in 1..Len(u) : u[k] = t[D + k]
  <2> TAKE k \in 1..Len(u)
  <2>1. CASE k = N + 1
    BY <1>1, <1>6, <1>8, <2>1
  <2>2. CASE k # N + 1
    <3>1. PICK i : i = d + k
      OBVIOUS
    <3>2. k \in 1..N /\ i \in 1..Len(L) /\ D + k = Len(s) + i
      BY <1>1, <1>3, <1>6, <1>8, <2>2, <3>1
    <3>3. u[k] = L[i] /\ t[Len(s) + i] = L[i]
      BY <1>1, <1>5, <1>8, <3>1, <3>2
    <3> QED
      BY <3>2, <3>3
  <2> QED
    BY <2>1, <2>2
<1>10. PICK m : m = [k \in 1..(N + 2) |-> mt[D + k]]
  OBVIOUS
<1>11. /\ m \in Seq(ModeNames) /\ Len(m) = Len(u) + 1
       /\ \A k \in 1..(Len(u) + 1) : m[k] = mt[D + k]
  <2>1. mt \in Seq(ModeNames) /\ Len(mt) = D + (N + 2)
    <3>1. mt \in Seq(ModeNames) /\ Len(mt) = Len(t) + 1
      BY <1>2 DEF Chained
    <3> QED
      BY <1>3, <1>6, <3>1
  <2>2. \A k \in 1..(N + 2) : D + k \in 1..Len(mt)
    BY <1>3, <1>6, <2>1
  <2>3. \A k \in 1..(N + 2) : mt[D + k] \in ModeNames
    BY <2>1, <2>2
  <2>4. N + 2 \in Nat /\ Len(u) + 1 = N + 2
    BY <1>6, <1>8
  <2>5. m \in Seq(ModeNames) /\ Len(m) = N + 2 /\ \A k \in 1..(N + 2) : m[k] = mt[D + k]
    BY ONLY <1>10, <2>3, <2>4
  <2> QED
    BY <2>4, <2>5
<1>12. Behindhand(t, mt, D, u, m)
  <2>1. /\ t \in Seq(Glyph) /\ u \in Seq(Glyph) /\ Chained(t, mt) /\ mt[1] = "code"
        /\ m \in Seq(ModeNames) /\ Len(m) = Len(u) + 1 /\ D \in Nat
    BY <1>1, <1>2, <1>3, <1>8, <1>11
  <2>2. Len(u) \in Nat /\ Len(u) >= 1 /\ Len(t) = D + Len(u)
    BY ONLY <1>6, <1>8
  <2> QED
    BY ONLY <1>9, <1>11, <2>1, <2>2 DEF Behindhand
<1>13. \A i \in (D + 1)..Len(t) : LineOf(t, i) = n + 1
  <2>1. \A i \in (D + 1)..Len(t) : i \in (Len(s) + 1)..Len(t)
    BY <1>1, <1>3
  <2> QED
    BY <1>1, <2>1
<1>14. PlainLine(r, u, m)
  <2>1. ASSUME NEW k \in 1..Len(r) PROVE r[k] # NEWLINE
    <3>1. k \in 1..N /\ d + k \in 1..Len(L)
      BY <1>3, <1>5, <1>6
    <3> QED
      BY <1>2, <1>5, <3>1
  <2>2. ASSUME NEW k \in 1..(Len(r) - 1) PROVE ~(IsWord(r[k]) /\ IsWord(r[k + 1]))
    <3>1. PICK i : i = d + k
      OBVIOUS
    <3>2. k \in 1..N /\ k + 1 \in 1..N /\ i \in 1..(Len(L) - 1) /\ d + (k + 1) = i + 1
      BY <1>3, <1>5, <1>6, <3>1
    <3>3. r[k] = L[i] /\ r[k + 1] = L[i + 1]
      BY <1>5, <3>1, <3>2
    <3> QED
      BY <1>2, <3>2, <3>3
  <2>3. PICK line : line = n + 1
    OBVIOUS
  <2>4. \A i \in (D + 1)..Len(t) : LineOf(t, i) = line
    BY <1>13, <2>3
  <2>5. Plain(t, mt)
    BY <1>2
  <2>6. /\ \A k \in 1..Len(r) : r[k] # NEWLINE
        /\ \A k \in 1..(Len(r) - 1) : ~(IsWord(r[k]) /\ IsWord(r[k + 1]))
    BY <2>1, <2>2
  <2>7. r \in Seq(Glyph) /\ mt[D + 1] = "code"
    BY <1>5
  <2> QED
    BY ONLY <1>7, <1>12, <2>4, <2>5, <2>6, <2>7, RestIsPlain, Zenon
<1>15. m[Len(r) + 2] = mt[Len(t) + 1]
  <2>1. N + 2 \in 1..(Len(u) + 1) /\ D + (N + 2) = Len(t) + 1
    BY <1>3, <1>6, <1>8
  <2>2. m[N + 2] = mt[D + (N + 2)]
    BY <1>11, <2>1
  <2> QED
    BY <1>5, <2>1, <2>2
<1>16. PICK c, line : c = N + 1 /\ line = n + 1
  OBVIOUS
<1>17. c \in Nat /\ c = Len(u) /\ D + c = Len(t) /\ D + c <= Len(t)
  BY <1>6, <1>8, <1>16
<1>18. PICK tok : tok = TokensIn(t, mt, D, c)
  OBVIOUS
<1>19. /\ tok \in Seq(Seq(TokenSet)) /\ Len(tok) = c
       /\ \A k \in 1..c : tok[k] = TokenAt(t, mt, D + k)
  <2>1. t \in Seq(Glyph) /\ Chained(t, mt) /\ mt[1] = "code" /\ D \in Nat
    BY <1>1, <1>2, <1>3
  <2>2. c \in Nat /\ D + c <= Len(t)
    BY ONLY <1>17
  <2> QED
    BY ONLY <1>18, <2>1, <2>2, TokensInIs
<1>20. TokensOfLine(u, m, tok, line)
  <2>1. \A i \in (D + 1)..Len(t) : LineOf(t, i) = line
    BY <1>13, <1>16
  <2>2. Len(tok) = Len(u) /\ \A k \in 1..Len(u) : tok[k] = TokenAt(t, mt, D + k)
    BY <1>17, <1>19
  <2> QED
    BY ONLY <1>12, <1>19, <2>1, <2>2, TokensBehind
<1>21. PICK F : Flattened(tok, F, TokenSet)
  BY <1>19, FlattenExists
<1>22. PICK head : head = TokensIn(t, mt, 0, D)
  OBVIOUS
<1>23. head \in Seq(Seq(TokenSet))
  <2>1. D <= Len(t)
    BY <1>1, <1>3
  <2> QED
    BY <1>1, <1>2, <1>3, <1>22, <2>1, FirstTokens
<1>24. FlattenSeq(head) = Tokens(s, ms) /\ Tokens(s, ms) \in Seq(TokenSet)
  <2>1. Len(s) <= D /\ D <= Len(t)
    BY <1>1, <1>3
  <2> QED
    BY <1>1, <1>3, <1>22, <2>1, SilentTokens
<1>25. Tokens(t, mt) = FlattenSeq(head \o tok)
  <2>1. PICK E : E = Len(t)
    OBVIOUS
  <2>2. E = D + c /\ E <= Len(t)
    BY <1>1, <1>17, <2>1
  <2>3. TokensIn(t, mt, 0, E) = head \o tok
    <3>1. t \in Seq(Glyph) /\ Chained(t, mt) /\ mt[1] = "code" /\ D \in Nat /\ c \in Nat
      BY <1>1, <1>2, <1>3, <1>17
    <3>2. TokensIn(t, mt, 0, E) = TokensIn(t, mt, 0, D) \o TokensIn(t, mt, D, c)
      BY ONLY <2>2, <3>1, PiecesJoin, Zenon
    <3> QED
      BY ONLY <1>18, <1>22, <3>2
  <2> QED
    BY <1>1, <2>1, <2>3, TokensWhole
<1>26. FlattenSeq(head \o tok) = FlattenSeq(head) \o F[Len(tok)]
  BY ONLY <1>19, <1>21, <1>23, FlattenFollowing
<1>27. F[Len(u)] \in Seq(TokenSet)
  <2>1. Len(u) \in 0..Len(tok)
    BY <1>17, <1>19
  <2> QED
    BY <1>21, <2>1 DEF Flattened
<1>28. Tokens(t, mt) = Tokens(s, ms) \o F[Len(u)]
  BY <1>17, <1>19, <1>24, <1>25, <1>26
<1> QED
  BY <1>14, <1>15, <1>16, <1>20, <1>21, <1>24, <1>27, <1>28 DEF CodeOf

-----------------------------------------------------------------------------
(* A line is read as it is written.                                        *)

HasNone(tokens) == \E n \in DOMAIN tokens : tokens[n].type = "NONE"

\* Something in the text is no token.
Wrong(t, m) == "broken" \in ToSet(m) \/ HasNone(Tokens(t, m))

\* What is read of the line r that follows the text s, up to the end of t.
Result(r, s, ms, t, mt) ==
    /\ ~Reversed(r)
    /\ Throws(r) <=> Wrong(t, mt)
    /\ ~Wrong(t, mt) =>
          /\ Tokens(t, mt) = Tokens(s, ms) \o tokenizeLine(stripComments(r), lineNo + 1)
          /\ mt[Len(t) + 1] \in {"code", "block"}
          /\ LeavesOpen(r) <=> mt[Len(t) + 1] = "block"

LEMMA NoneJoined ==
    ASSUME NEW a \in Seq(TokenSet), NEW b \in Seq(TokenSet), NEW c, c = a \o b
    PROVE  HasNone(c) <=> HasNone(a) \/ HasNone(b)
<1>1. /\ c \in Seq(TokenSet) /\ Len(a) \in Nat /\ Len(b) \in Nat /\ Len(c) = Len(a) + Len(b)
      /\ \A i \in 1..Len(a) : c[i] = a[i]
      /\ \A i \in 1..Len(b) : c[Len(a) + i] = b[i]
  BY Joining
<1>2. DOMAIN a = 1..Len(a) /\ DOMAIN b = 1..Len(b) /\ DOMAIN c = 1..Len(c)
  BY <1>1
<1>3. ASSUME HasNone(a) PROVE HasNone(c)
  <2>1. PICK n \in 1..Len(a) : a[n].type = "NONE"
    BY <1>2, <1>3 DEF HasNone
  <2>2. n \in 1..Len(c) /\ c[n].type = "NONE"
    BY <1>1, <2>1
  <2> QED
    BY <1>2, <2>2 DEF HasNone
<1>4. ASSUME HasNone(b) PROVE HasNone(c)
  <2>1. PICK n \in 1..Len(b) : b[n].type = "NONE"
    BY <1>2, <1>4 DEF HasNone
  <2>2. PICK k : k = Len(a) + n
    OBVIOUS
  <2>3. k \in 1..Len(c) /\ c[k].type = "NONE"
    BY <1>1, <2>1, <2>2
  <2> QED
    BY <1>2, <2>3 DEF HasNone
<1>5. ASSUME HasNone(c) PROVE HasNone(a) \/ HasNone(b)
  <2>1. PICK n \in 1..Len(c) : c[n].type = "NONE"
    BY <1>2, <1>5 DEF HasNone
  <2>2. CASE n <= Len(a)
    <3>1. n \in 1..Len(a) /\ a[n].type = "NONE"
      BY <1>1, <2>1, <2>2
    <3> QED
      BY <1>2, <3>1 DEF HasNone
  <2>3. CASE n > Len(a)
    <3>1. PICK k : k = n - Len(a)
      OBVIOUS
    <3>2. k \in 1..Len(b) /\ Len(a) + k = n
      BY <1>1, <2>1, <2>3, <3>1
    <3>3. b[k].type = "NONE"
      BY <1>1, <2>1, <3>2
    <3> QED
      BY <1>2, <3>2, <3>3 DEF HasNone
  <2> QED
    BY <1>1, <2>1, <2>2, <2>3
<1> QED
  BY <1>3, <1>4, <1>5

(* The line, or what is left of it behind the end of a comment.            *)
LEMMA CodeReads ==
    ASSUME NEW s, NEW ms, NEW t, NEW mt, NEW L, NewLine(s, ms, t, mt, L, lineNo),
           ~Wrong(s, ms), NEW d \in 0..Len(L), NEW r, r = SubSeq(L, d + 1, Len(L)),
           NEW D, D = Len(s) + d, mt[D + 1] = "code",
           \A i \in (Len(s) + 1)..D : Silent(t, mt, i),
           r = << >> => ~LeavesOpen(r)
    PROVE  Result(r, s, ms, t, mt)
<1>1. PICK n : n = lineNo + 1
  OBVIOUS
<1>2. n \in Int
  BY <1>1 DEF NewLine
<1>3. PICK u, m, tok, F :
         /\ PlainLine(r, u, m) /\ m[Len(r) + 2] = mt[Len(t) + 1]
         /\ TokensOfLine(u, m, tok, n) /\ Flattened(tok, F, TokenSet)
         /\ F[Len(u)] \in Seq(TokenSet) /\ Tokens(s, ms) \in Seq(TokenSet)
         /\ Tokens(t, mt) = Tokens(s, ms) \o F[Len(u)]
  <2>1. \E u, m, tok, F : CodeOf(r, s, ms, t, mt, lineNo, u, m, tok, F)
    BY ONLY NewLine(s, ms, t, mt, L, lineNo), d \in 0..Len(L), r = SubSeq(L, d + 1, Len(L)),
            D = Len(s) + d, mt[D + 1] = "code",
            \A i \in (Len(s) + 1)..D : Silent(t, mt, i), CodeBehind, Zenon
  <2> QED
    BY <1>1, <2>1 DEF CodeOf
<1>4. Split(r, u, m)
  BY ONLY <1>3, LineSplits, r = << >> => ~LeavesOpen(r)
<1>5. PICK x, y, z \in Int : /\ Kept(r, u, m, x, y, z)
                             /\ stripComments(r) = SubSeq(r, 1, x) \o SubSeq(r, y, z)
  BY <1>4 DEF Split
<1>6. PICK glyphs : glyphs = stripComments(r)
  OBVIOUS
<1>7. /\ UnevenQuotes(glyphs) <=> m[Len(r) + 2] = "broken"
      /\ ~UnevenQuotes(glyphs) => tokenizeLine(glyphs, n) = F[Len(u)]
  <2>1. glyphs = SubSeq(r, 1, x) \o SubSeq(r, y, z)
    BY <1>5, <1>6
  <2>2. /\ PlainLine(r, u, m) /\ TokensOfLine(u, m, tok, n) /\ Flattened(tok, F, TokenSet)
        /\ Kept(r, u, m, x, y, z)
    BY <1>3, <1>5
  <2> QED
    <3>1. ReadTo(glyphs, n, m[Len(r) + 2], F[Len(u)])
      BY ONLY <1>2, <2>1, <2>2, ReadLine, Zenon
    <3> QED
      BY <3>1 DEF ReadTo
<1>8. PICK new, whole : new = F[Len(u)] /\ whole = Tokens(t, mt)
  OBVIOUS
<1>9. HasNone(whole) <=> HasNone(new)
  <2>1. PICK old : old = Tokens(s, ms)
    OBVIOUS
  <2>2. old \in Seq(TokenSet) /\ new \in Seq(TokenSet) /\ whole = old \o new
    BY <1>3, <1>8, <2>1
  <2>3. HasNone(whole) <=> HasNone(old) \/ HasNone(new)
    BY ONLY <2>2, NoneJoined
  <2>4. ~HasNone(old)
    BY <2>1 DEF Wrong
  <2> QED
    BY <2>3, <2>4
<1>10. "broken" \in ToSet(mt) <=> UnevenQuotes(glyphs)
  <2>1. t \in Seq(Glyph) /\ Chained(t, mt)
    BY NewLineFacts DEF NewLine
  <2>2. "broken" \in ToSet(mt) <=> mt[Len(t) + 1] = "broken"
    BY ONLY <2>1, BrokenStays
  <2> QED
    BY <1>3, <1>7, <2>2
<1>11. Wrong(t, mt) <=> UnevenQuotes(glyphs) \/ HasNone(new)
  BY <1>8, <1>9, <1>10 DEF Wrong
<1>12. ~EndsUnopened(r) /\ ~Reversed(r) /\ (LeavesOpen(r) <=> m[Len(r) + 2] = "block")
       /\ m[Len(r) + 2] \in {"code", "block", "broken"}
  BY <1>4 DEF Split
<1>13. Throws(r) <=> UnevenQuotes(glyphs) \/ HasNone(tokenizeLine(glyphs, n))
  BY <1>1, <1>6, <1>12 DEF Throws, HasNone
<1>14. Throws(r) <=> Wrong(t, mt)
  BY <1>7, <1>8, <1>11, <1>13
<1>15. ASSUME ~Wrong(t, mt)
       PROVE  /\ Tokens(t, mt) = Tokens(s, ms) \o tokenizeLine(stripComments(r), lineNo + 1)
              /\ mt[Len(t) + 1] \in {"code", "block"}
              /\ LeavesOpen(r) <=> mt[Len(t) + 1] = "block"
  <2>1. ~UnevenQuotes(glyphs)
    BY <1>11, <1>15
  <2> QED
    BY <1>1, <1>3, <1>6, <1>7, <1>12, <2>1
<1> QED
  BY <1>12, <1>14, <1>15 DEF Result

(* The end of a comment, in a line and in the text it is in.               *)
LEMMA EndInLine ==
    ASSUME NEW s, NEW ms, NEW t, NEW mt, NEW L, NEW n, NewLine(s, ms, t, mt, L, n),
           NEW i \in 1..(Len(L) + 1)
    PROVE  At(t, Len(s) + i, MULTILINE_COMMENT_END)
              <=> i <= Len(L) - 1 /\ Marked(L, i, MULTILINE_COMMENT_END)
<1>1. /\ Len(s) \in Nat /\ Len(t) \in Nat /\ Len(L) \in Nat /\ Len(t) = Len(s) + (Len(L) + 1)
      /\ \A k \in 1..Len(L) : t[Len(s) + k] = L[k]
      /\ t[Len(t)] = NEWLINE
  BY NewLineFacts
<1>2. PICK k : k = Len(s) + i
  OBVIOUS
<1>3. At(t, k, MULTILINE_COMMENT_END) <=> k < Len(t) /\ t[k] = "*" /\ t[k + 1] = "/"
  BY AtIs, GlyphsDiffer
<1>4. CASE i <= Len(L) - 1
  <2>1. i \in 1..Len(L) /\ i + 1 \in 1..Len(L) /\ Len(s) + (i + 1) = k + 1 /\ k < Len(t)
    BY <1>1, <1>2, <1>4
  <2>2. t[k] = L[i] /\ t[k + 1] = L[i + 1]
    <3>1. t[Len(s) + i] = L[i] /\ t[Len(s) + (i + 1)] = L[i + 1]
      BY <1>1, <2>1
    <3> QED
      BY <1>2, <2>1, <3>1
  <2>3. Marked(L, i, MULTILINE_COMMENT_END) <=> L[i] = "*" /\ L[i + 1] = "/"
    <3>1. L \in Seq(Glyph) /\ i \in 1..(Len(L) - 1)
      BY <1>1, <1>4 DEF NewLine
    <3> QED
      BY <3>1, MarkedIs, GlyphsDiffer
  <2> QED
    BY <1>2, <1>3, <1>4, <2>1, <2>2, <2>3
<1>5. CASE i = Len(L)
  <2>1. k + 1 = Len(t)
    BY <1>1, <1>2, <1>5
  <2>2. t[k + 1] = NEWLINE
    BY <1>1, <2>1
  <2>3. ~At(t, k, MULTILINE_COMMENT_END)
    BY <1>3, <2>2, GlyphsDiffer
  <2>4. ~(i <= Len(L) - 1)
    BY <1>1, <1>5
  <2> QED
    BY <1>2, <2>3, <2>4
<1>6. CASE i = Len(L) + 1
  <2>1. ~(k < Len(t)) /\ ~(i <= Len(L) - 1)
    BY <1>1, <1>2, <1>6
  <2> QED
    BY <1>2, <1>3, <2>1
<1> QED
  BY <1>1, <1>4, <1>5, <1>6

(* An empty rest.                                                          *)
LEMMA NothingRead ==
    ASSUME NEW r, r = << >>, NEW line \in Int
    PROVE  /\ ~EndsUnopened(r) /\ ~Reversed(r)
           /\ stripComments(r) = << >>
           /\ ~UnevenQuotes(<< >>) /\ tokenizeLine(<< >>, line) = << >>
<1>1. r \in Seq(Glyph) /\ Len(r) = 0
  OBVIOUS
<1>2. \A mark : ~Found(r, mark) /\ search(r, mark) = 1
  <2> TAKE mark
  <2>1. /\ search(r, mark) \in 1..(Len(r) + 1)
        /\ Found(r, mark) <=> search(r, mark) < Len(r)
    BY <1>1, SearchIs
  <2> QED
    BY <1>1, <2>1
<1>3. ~EndsUnopened(r) /\ ~Reversed(r)
  BY <1>2 DEF EndsUnopened, Reversed
<1>4. stripComments(r) = << >>
  <2>1. Behind(r, MULTILINE_COMMENT_END) = 1
    BY <1>1, <1>2 DEF Behind
  <2>2. \A a, b : SubSeq(r, 1, 0) = << >> /\ SubSeq(r, a, Len(r)) \o << >> = SubSeq(r, a, Len(r))
    BY <1>1
  <2>3. erase(r, 1, 1) = << >>
    <3>1. SubSeq(r, 1, 0) = << >> /\ Len(r) = 0 /\ 1 - 1 = 0
      BY <1>1
    <3> QED
      BY <3>1 DEF erase
  <2>4. SubSeq(<< >>, 1, 0) = << >> /\ 1 - 1 = 0
    OBVIOUS
  <2>5. search(<< >>, SINGLE_LINE_COMMENT) = 1
    BY <1>2
  <2> QED
    BY <1>2, <2>1, <2>3, <2>4, <2>5 DEF stripComments
<1>5. ~UnevenQuotes(<< >>)
  <2>1. PICK none : none = << >>
    OBVIOUS
  <2>2. DOMAIN none = {}
    BY <2>1
  <2>3. {n \in DOMAIN none : none[n] = QUOTE} = {}
    BY <2>2
  <2>4. Cardinality({}) = 0
    BY FS_EmptySet
  <2> QED
    BY <2>1, <2>3, <2>4 DEF UnevenQuotes
<1>6. tokenizeLine(<< >>, line) = << >>
  <2>1. PICK e, none : e = Append(none, BLANK) /\ none = << >>
    OBVIOUS
  <2>2. none \in Seq(Glyph) /\ Len(none) = 0
    BY <2>1
  <2>3. e \in Seq(Glyph) /\ Len(e) = 1 /\ e[1] = BLANK
    <3>1. /\ e \in Seq(Glyph) /\ Len(e) = Len(none) + 1 /\ e[Len(none) + 1] = BLANK
      BY ONLY <2>1, <2>2, EndedIs
    <3> QED
      BY <2>2, <3>1
  <2>4. PICK R : Reads(e, line, R)
    BY <2>3, ReadsExists
  <2>5. R[1] = Read(Unread, BLANK, line)
    <3>1. R[0] = Unread /\ \A n \in 1..Len(e) : R[n] = Read(R[n - 1], e[n], line)
      BY <2>4 DEF Reads
    <3>2. 1 \in 1..Len(e) /\ 1 - 1 = 0
      BY <2>3
    <3> QED
      BY <2>3, <3>1, <3>2
  <2>6. Unread \in Readings /\ Unread.quoted = FALSE /\ Unread.run = << >> /\ Unread.tokens = << >>
    BY DEF Unread, Readings
  <2>7. Flushed(Unread, line) = << >>
    BY <2>6, FlushedIs
  <2>8. Read(Unread, BLANK, line) = [tokens |-> Flushed(Unread, line), run |-> << >>, quoted |-> FALSE]
    BY <2>6, GlyphsDiffer, ReadIs
  <2>9. tokenizeLine(none, line) = R[Len(none) + 1].tokens
    <3>1. Reads(Append(none, BLANK), line, R)
      BY <2>1, <2>4
    <3> QED
      BY ONLY <2>2, <3>1, TokenizeIs, line \in Int
  <2> QED
    BY <2>1, <2>2, <2>5, <2>7, <2>8, <2>9
<1> QED
  BY <1>1, <1>3, <1>4, <1>5, <1>6

\* The line behind the lines of the text s, which the text t has as well.
LineBehind(s, ms, t, mt, L) ==
    /\ NewLine(s, ms, t, mt, L, lineNo)
    /\ L = file[lineNo + 1]
    /\ ~Wrong(s, ms)

(* A line that begins in the code.                                         *)
LEMMA LineReads ==
    ASSUME NEW s, NEW ms, NEW t, NEW mt, NEW L, LineBehind(s, ms, t, mt, L),
           inMultiLineComment = FALSE, ms[Len(s) + 1] = "code"
    PROVE  Result(AfterOpenComment(L), s, ms, t, mt)
<1>1. NewLine(s, ms, t, mt, L, lineNo) /\ ~Wrong(s, ms)
  BY DEF LineBehind
<1>2. Moded(s, ms, t, mt) /\ Len(s) \in Nat /\ Len(L) \in Nat /\ L \in Seq(Glyph)
  BY <1>1, NewLineFacts DEF NewLine
<1>3. PICK d, D, r : d = 0 /\ D = Len(s) + d /\ r = AfterOpenComment(L)
  OBVIOUS
<1>4. d \in 0..Len(L) /\ d + 1 = 1 /\ D = Len(s)
  BY <1>2, <1>3
<1>5. r = SubSeq(L, d + 1, Len(L))
  <2>1. r = L
    BY <1>3 DEF AfterOpenComment
  <2>2. SubSeq(L, 1, Len(L)) = L
    BY <1>2, Parts
  <2> QED
    BY <1>4, <2>1, <2>2
<1>6. mt[D + 1] = "code"
  <2>1. Len(s) + 1 \in 1..(Len(s) + 1)
    BY <1>2
  <2>2. ms[Len(s) + 1] = mt[Len(s) + 1]
    BY <1>2, <2>1, ModesAgree
  <2> QED
    BY <1>4, <2>2
<1>7. \A i \in (Len(s) + 1)..D : Silent(t, mt, i)
  <2>1. (Len(s) + 1)..D = {}
    BY <1>2, <1>4
  <2> QED
    BY <2>1
<1>8. r = << >> => ~LeavesOpen(r)
  BY DEF LeavesOpen
<1>9. D = Len(s) + d
  BY <1>3
<1>10. Result(r, s, ms, t, mt)
  BY ONLY <1>1, <1>4, <1>5, <1>6, <1>7, <1>8, <1>9, CodeReads, Zenon
<1> QED
  BY <1>3, <1>10

\* The line begins in a comment, and r is what it has behind that.
InComment(s, ms, t, mt, L, r) ==
    /\ LineBehind(s, ms, t, mt, L)
    /\ inMultiLineComment = TRUE /\ ms[Len(s) + 1] = "block"
    /\ r = AfterOpenComment(L)

LEMMA InCommentFacts ==
    ASSUME NEW s, NEW ms, NEW t, NEW mt, NEW L, NEW r, InComment(s, ms, t, mt, L, r)
    PROVE  /\ NewLine(s, ms, t, mt, L, lineNo) /\ ~Wrong(s, ms) /\ L = file[lineNo + 1]
           /\ Moded(s, ms, t, mt) /\ Chained(t, mt) /\ t \in Seq(Glyph)
           /\ Len(s) \in Nat /\ Len(t) \in Nat /\ Len(L) \in Nat /\ L \in Seq(Glyph)
           /\ Len(t) = Len(s) + (Len(L) + 1)
           /\ mt[Len(s) + 1] = "block"
           /\ r = SubSeq(L, Behind(L, MULTILINE_COMMENT_END), Len(L))
<1>1. NewLine(s, ms, t, mt, L, lineNo) /\ ~Wrong(s, ms) /\ L = file[lineNo + 1]
  BY DEF InComment, LineBehind
<1>2. /\ Moded(s, ms, t, mt) /\ Chained(t, mt) /\ t \in Seq(Glyph)
      /\ Len(s) \in Nat /\ Len(t) \in Nat /\ Len(L) \in Nat /\ L \in Seq(Glyph)
      /\ Len(t) = Len(s) + (Len(L) + 1)
  <2>1. Chained(t, mt) /\ L \in Seq(Glyph)
    BY <1>1 DEF NewLine
  <2> QED
    BY <1>1, <2>1, NewLineFacts
<1>3. mt[Len(s) + 1] = "block"
  <2>1. Len(s) + 1 \in 1..(Len(s) + 1)
    BY <1>2
  <2>2. ms[Len(s) + 1] = mt[Len(s) + 1]
    BY <1>2, <2>1, ModesAgree
  <2> QED
    BY <2>2 DEF InComment
<1>4. r = SubSeq(L, Behind(L, MULTILINE_COMMENT_END), Len(L))
  <2>1. PICK e : e = Behind(L, MULTILINE_COMMENT_END)
    OBVIOUS
  <2>2. r = erase(L, 1, e)
    BY <2>1 DEF InComment, AfterOpenComment
  <2>3. e \in Int /\ 1 <= e /\ e <= Len(L) + 1
    <3>1. /\ search(L, MULTILINE_COMMENT_END) \in 1..(Len(L) + 1)
          /\ Found(L, MULTILINE_COMMENT_END) <=> search(L, MULTILINE_COMMENT_END) < Len(L)
      BY <1>2, SearchIs
    <3> QED
      BY <1>2, <2>1, <3>1 DEF Behind
  <2>4. PICK hi, v : hi = Len(L) /\ v = SubSeq(L, e, hi)
    OBVIOUS
  <2>5. v \in Seq(Glyph)
    <3>1. hi \in Int /\ e <= hi + 1 /\ hi <= Len(L)
      BY <1>2, <2>3, <2>4
    <3> QED
      BY ONLY <1>2, <2>3, <2>4, <3>1, Slice
  <2>6. SubSeq(L, 1, 1 - 1) = << >> /\ << >> \o v = v
    <3>1. 1 \in 1..(Len(L) + 1)
      BY <1>2
    <3>2. SubSeq(L, 1, 1 - 1) = << >>
      BY <1>2, <3>1, Parts
    <3> QED
      BY <2>5, <3>2
  <2> QED
    BY <2>1, <2>2, <2>4, <2>6 DEF erase
<1> QED
  BY <1>1, <1>2, <1>3, <1>4

(* A line that is part of a comment.                                       *)
LEMMA CommentReads ==
    ASSUME NEW s, NEW ms, NEW t, NEW mt, NEW L, NEW r, InComment(s, ms, t, mt, L, r),
           ~Found(L, MULTILINE_COMMENT_END), lineNo \in Nat
    PROVE  Result(r, s, ms, t, mt)
<1>1. /\ NewLine(s, ms, t, mt, L, lineNo) /\ ~Wrong(s, ms) /\ L = file[lineNo + 1]
      /\ Moded(s, ms, t, mt) /\ Chained(t, mt) /\ t \in Seq(Glyph)
      /\ Len(s) \in Nat /\ Len(t) \in Nat /\ Len(L) \in Nat /\ L \in Seq(Glyph)
      /\ Len(t) = Len(s) + (Len(L) + 1)
      /\ mt[Len(s) + 1] = "block"
      /\ r = SubSeq(L, Behind(L, MULTILINE_COMMENT_END), Len(L))
  BY InCommentFacts
<1>2. r = << >>
  <2>1. Behind(L, MULTILINE_COMMENT_END) = Len(L) + 1
    BY DEF Behind
  <2>2. PICK n : n = Len(L) + 1
    OBVIOUS
  <2>3. n \in 1..(Len(L) + 1) /\ n - 1 = Len(L)
    BY <1>1, <2>2
  <2>4. SubSeq(L, n, n - 1) = << >>
    BY <1>1, <2>3, Parts
  <2> QED
    BY <1>1, <2>1, <2>2, <2>3, <2>4
<1>3. PICK B, E : B = Len(s) + 1 /\ E = Len(t) + 1
  OBVIOUS
<1>4. ASSUME NEW k \in B..(E - 1) PROVE ~At(t, k, MULTILINE_COMMENT_END)
  <2>1. PICK i : i = k - Len(s)
    OBVIOUS
  <2>2. i \in 1..(Len(L) + 1) /\ Len(s) + i = k
    BY <1>1, <1>3, <2>1
  <2>3. /\ search(L, MULTILINE_COMMENT_END) = Len(L) + 1
        /\ \A j \in 1..(Len(L) - 1) : j < search(L, MULTILINE_COMMENT_END)
                                         => ~Marked(L, j, MULTILINE_COMMENT_END)
    BY <1>1, SearchIs
  <2>4. i <= Len(L) - 1 => ~Marked(L, i, MULTILINE_COMMENT_END)
    BY <1>1, <2>2, <2>3
  <2>5. At(t, Len(s) + i, MULTILINE_COMMENT_END)
              <=> i <= Len(L) - 1 /\ Marked(L, i, MULTILINE_COMMENT_END)
    BY ONLY <1>1, <2>2, EndInLine
  <2> QED
    BY <2>2, <2>4, <2>5
<1>5. \A k \in B..E : mt[k] = "block"
  <2>1. /\ B \in Int /\ E \in Int /\ 1 <= B /\ B <= E /\ E <= Len(t) + 1 /\ mt[B] = "block"
    BY <1>1, <1>3
  <2>2. \A k \in B..(E - 1) : ~At(t, k, MULTILINE_COMMENT_END)
    BY <1>4
  <2> QED
    BY ONLY <1>1, <2>1, <2>2, BlockGoesOn
<1>6. mt[Len(t) + 1] = "block"
  <2>1. E \in B..E
    BY <1>1, <1>3
  <2> QED
    BY <1>3, <1>5, <2>1
<1>7. Tokens(t, mt) = Tokens(s, ms) /\ Tokens(s, ms) \in Seq(TokenSet)
  <2>1. PICK D : D = Len(t)
    OBVIOUS
  <2>2. D \in Nat /\ Len(s) <= D /\ D <= Len(t)
    BY <1>1, <2>1
  <2>3. \A i \in (Len(s) + 1)..D : Silent(t, mt, i)
    <3>1. \A i \in (Len(s) + 1)..D : i \in B..E
      BY <1>1, <1>3, <2>1
    <3> QED
      BY <1>5, <3>1 DEF Silent
  <2>4. FlattenSeq(TokensIn(t, mt, 0, D)) = Tokens(s, ms) /\ Tokens(s, ms) \in Seq(TokenSet)
    BY ONLY <1>1, <2>2, <2>3, SilentTokens
  <2> QED
    BY <1>1, <2>1, <2>4, TokensWhole
<1>8. ~Wrong(t, mt)
  <2>1. "broken" \notin ToSet(mt)
    BY <1>1, <1>6, BrokenStays
  <2>2. ~HasNone(Tokens(t, mt))
    BY <1>1, <1>7 DEF Wrong
  <2> QED
    BY <2>1, <2>2 DEF Wrong
<1>9. PICK n : n = lineNo + 1
  OBVIOUS
<1>10. /\ ~EndsUnopened(r) /\ ~Reversed(r) /\ stripComments(r) = << >>
       /\ ~UnevenQuotes(<< >>) /\ tokenizeLine(<< >>, n) = << >>
  <2>1. n \in Int
    BY <1>9
  <2> QED
    BY ONLY <1>2, <2>1, NothingRead
<1>11. ~Throws(r)
  <2>1. DOMAIN << >> = {}
    OBVIOUS
  <2> QED
    BY <1>9, <1>10, <2>1 DEF Throws
<1>12. LeavesOpen(r)
  BY <1>1, <1>2 DEF LeavesOpen, InComment
<1>13. Tokens(s, ms) \o << >> = Tokens(s, ms)
  BY <1>7
<1> QED
  BY <1>6, <1>7, <1>8, <1>9, <1>10, <1>11, <1>12, <1>13 DEF Result

(* A line in which the comment it begins in ends.                          *)
LEMMA EndReads ==
    ASSUME NEW s, NEW ms, NEW t, NEW mt, NEW L, NEW r, InComment(s, ms, t, mt, L, r),
           Found(L, MULTILINE_COMMENT_END)
    PROVE  Result(r, s, ms, t, mt)
<1>1. /\ NewLine(s, ms, t, mt, L, lineNo) /\ ~Wrong(s, ms) /\ L = file[lineNo + 1]
      /\ Moded(s, ms, t, mt) /\ Chained(t, mt) /\ t \in Seq(Glyph)
      /\ Len(s) \in Nat /\ Len(t) \in Nat /\ Len(L) \in Nat /\ L \in Seq(Glyph)
      /\ Len(t) = Len(s) + (Len(L) + 1)
      /\ mt[Len(s) + 1] = "block"
      /\ r = SubSeq(L, Behind(L, MULTILINE_COMMENT_END), Len(L))
  BY InCommentFacts
<1>2. PICK e : e = search(L, MULTILINE_COMMENT_END)
  OBVIOUS
<1>3. /\ e \in 1..(Len(L) + 1) /\ e < Len(L) /\ Marked(L, e, MULTILINE_COMMENT_END)
      /\ \A i \in 1..(Len(L) - 1) : i < e => ~Marked(L, i, MULTILINE_COMMENT_END)
  BY <1>1, <1>2, SearchIs
<1>4. PICK d, D : d = e + 1 /\ D = Len(s) + d
  OBVIOUS
<1>5. d \in 0..Len(L) /\ D \in Nat
  BY <1>1, <1>3, <1>4
<1>6. r = SubSeq(L, d + 1, Len(L))
  <2>1. Behind(L, MULTILINE_COMMENT_END) = e + 2
    BY <1>2 DEF Behind
  <2>2. d + 1 = e + 2
    BY <1>3, <1>4
  <2> QED
    BY <1>1, <2>1, <2>2
<1>7. PICK lo, hi : lo = Len(s) + 1 /\ hi = Len(s) + e
  OBVIOUS
<1>8. \A k \in lo..hi : mt[k] = "block"
  <2>1. /\ lo \in Int /\ hi \in Int /\ 1 <= lo /\ lo <= hi /\ hi <= Len(t) + 1 /\ mt[lo] = "block"
    BY <1>1, <1>3, <1>7
  <2>2. ASSUME NEW k \in lo..(hi - 1) PROVE ~At(t, k, MULTILINE_COMMENT_END)
    <3>1. PICK i : i = k - Len(s)
      OBVIOUS
    <3>2. i \in 1..(Len(L) + 1) /\ i \in 1..(Len(L) - 1) /\ i < e /\ Len(s) + i = k
      BY <1>1, <1>3, <1>7, <3>1
    <3>3. ~Marked(L, i, MULTILINE_COMMENT_END)
      BY <1>3, <3>2
    <3>4. At(t, Len(s) + i, MULTILINE_COMMENT_END)
              <=> i <= Len(L) - 1 /\ Marked(L, i, MULTILINE_COMMENT_END)
      BY ONLY <1>1, <3>2, EndInLine
    <3> QED
      BY <3>2, <3>3, <3>4
  <2>3. \A k \in lo..(hi - 1) : ~At(t, k, MULTILINE_COMMENT_END)
    BY <2>2
  <2> QED
    BY ONLY <1>1, <2>1, <2>3, BlockGoesOn
<1>9. mt[hi] = "block" /\ mt[hi + 1] = "closing" /\ mt[(hi + 1) + 1] = "code"
  <2>1. hi \in lo..hi /\ hi \in 1..Len(t) /\ hi + 1 \in 1..Len(t)
    BY <1>1, <1>3, <1>7
  <2>2. mt[hi] = "block"
    BY <1>8, <2>1
  <2>3. At(t, hi, MULTILINE_COMMENT_END)
    <3>1. e <= Len(L) - 1
      BY <1>1, <1>3
    <3>2. At(t, Len(s) + e, MULTILINE_COMMENT_END)
              <=> e <= Len(L) - 1 /\ Marked(L, e, MULTILINE_COMMENT_END)
      BY ONLY <1>1, <1>3, EndInLine
    <3> QED
      BY <1>3, <1>7, <3>1, <3>2
  <2>4. mt[hi + 1] = "closing"
    BY <1>1, <2>1, <2>2, <2>3, ChainSteps
  <2>5. mt[(hi + 1) + 1] = "code"
    BY <1>1, <2>1, <2>4, ChainSteps
  <2> QED
    BY <2>2, <2>4, <2>5
<1>10. D = hi + 1 /\ D + 1 = (hi + 1) + 1
  BY <1>1, <1>3, <1>4, <1>7
<1>11. mt[D + 1] = "code"
  BY <1>9, <1>10
<1>12. \A i \in (Len(s) + 1)..D : Silent(t, mt, i)
  <2>1. \A i \in (Len(s) + 1)..D : i \in lo..hi \/ i = hi + 1
    BY <1>1, <1>3, <1>7, <1>10
  <2> QED
    BY <1>8, <1>9, <2>1 DEF Silent
<1>13. r = << >> => ~LeavesOpen(r)
  BY <1>1 DEF LeavesOpen
<1>14. D = Len(s) + d
  BY <1>4
<1>15. NewLine(s, ms, t, mt, L, lineNo) /\ ~Wrong(s, ms)
  BY <1>1
<1> QED
  BY ONLY <1>5, <1>6, <1>11, <1>12, <1>13, <1>14, <1>15, CodeReads, Zenon

(* The next line.                                                          *)
LEMMA NextReads ==
    ASSUME NEW s, NEW ms, NEW t, NEW mt, NEW L, LineBehind(s, ms, t, mt, L), lineNo \in Nat,
           inMultiLineComment \in BOOLEAN, ms[Len(s) + 1] \in {"code", "block"},
           inMultiLineComment <=> ms[Len(s) + 1] = "block"
    PROVE  Result(AfterOpenComment(L), s, ms, t, mt)
<1>1. CASE inMultiLineComment = FALSE
  BY <1>1, LineReads
<1>2. CASE inMultiLineComment = TRUE
  <2>1. PICK r : r = AfterOpenComment(L)
    OBVIOUS
  <2>2. InComment(s, ms, t, mt, L, r)
    BY <1>2, <2>1 DEF InComment
  <2>3. Result(r, s, ms, t, mt)
    BY <2>2, CommentReads, EndReads
  <2> QED
    BY <2>1, <2>3
<1> QED
  BY <1>1, <1>2

-----------------------------------------------------------------------------
(* What is left of a line, and its tokens, whether the file is plain or    *)
(* not.                                                                    *)

LEMMA EraseTyped ==
    ASSUME NEW line \in Seq(Glyph), NEW a, NEW b
    PROVE  erase(line, search(line, a), Behind(line, b)) \in Seq(Glyph)
<1>1. Len(line) \in Nat /\ search(line, a) \in 1..(Len(line) + 1)
  BY SearchIs
<1>2. PICK lo, hi : lo = Behind(line, b) /\ hi = search(line, a) - 1
  OBVIOUS
<1>3. lo \in 1..(Len(line) + 1)
  <2>1. search(line, b) \in 1..(Len(line) + 1) /\ (Found(line, b) <=> search(line, b) < Len(line))
    BY SearchIs
  <2> QED
    BY <1>1, <1>2, <2>1 DEF Behind
<1>4. SubSeq(line, 1, hi) \in Seq(Glyph)
  BY <1>1, <1>2
<1>5. SubSeq(line, lo, Len(line)) \in Seq(Glyph)
  <2>1. PICK n : n = Len(line)
    OBVIOUS
  <2>2. lo \in Int /\ n \in Int /\ 1 <= lo /\ lo <= n + 1 /\ n <= Len(line)
    BY <1>1, <1>3, <2>1
  <2>3. SubSeq(line, lo, n) \in Seq(Glyph)
    BY ONLY line \in Seq(Glyph), <2>2, Slice
  <2> QED
    BY <2>1, <2>3
<1>6. SubSeq(line, 1, hi) \o SubSeq(line, lo, Len(line)) \in Seq(Glyph)
  BY <1>4, <1>5
<1> QED
  BY <1>2, <1>6 DEF erase

LEMMA StripTyped ==
    ASSUME NEW line \in Seq(Glyph)
    PROVE  stripComments(line) \in Seq(Glyph)
<1>1. PICK rest : rest = erase(line, search(line, MULTILINE_COMMENT_BEGIN),
                               Behind(line, MULTILINE_COMMENT_END))
  OBVIOUS
<1>2. rest \in Seq(Glyph)
  BY <1>1, EraseTyped
<1>3. SubSeq(rest, 1, search(rest, SINGLE_LINE_COMMENT) - 1) \in Seq(Glyph)
  <2>1. Len(rest) \in Nat /\ search(rest, SINGLE_LINE_COMMENT) \in 1..(Len(rest) + 1)
    BY <1>2, SearchIs
  <2> QED
    BY <1>2, <2>1
<1> QED
  BY <1>1, <1>2, <1>3 DEF stripComments

LEMMA AfterTyped ==
    ASSUME NEW line \in Seq(Glyph)
    PROVE  AfterOpenComment(line) \in Seq(Glyph)
<1>1. PICK lo, n : lo = Behind(line, MULTILINE_COMMENT_END) /\ n = Len(line)
  OBVIOUS
<1>2. n \in Nat /\ lo \in 1..(n + 1)
  <2>1. /\ search(line, MULTILINE_COMMENT_END) \in 1..(Len(line) + 1)
        /\ Found(line, MULTILINE_COMMENT_END) <=> search(line, MULTILINE_COMMENT_END) < Len(line)
    BY SearchIs
  <2> QED
    BY <1>1, <2>1 DEF Behind
<1>3. SubSeq(line, lo, n) \in Seq(Glyph)
  <2>1. lo \in Int /\ n \in Int /\ 1 <= lo /\ lo <= n + 1 /\ n <= Len(line)
    BY <1>1, <1>2
  <2> QED
    BY ONLY line \in Seq(Glyph), <2>1, Slice
<1>4. SubSeq(line, 1, 1 - 1) \in Seq(Glyph)
  OBVIOUS
<1>5. erase(line, 1, lo) \in Seq(Glyph)
  BY <1>1, <1>3, <1>4 DEF erase
<1> QED
  BY <1>1, <1>5 DEF AfterOpenComment

LEMMA TokenizeTyped ==
    ASSUME NEW glyphs \in Seq(Glyph), NEW line \in Int
    PROVE  tokenizeLine(glyphs, line) \in Seq(TokenSet)
<1>1. /\ Append(glyphs, BLANK) \in Seq(Glyph)
      /\ Len(glyphs) \in Nat /\ Len(Append(glyphs, BLANK)) = Len(glyphs) + 1
  BY EndedIs
<1>2. PICK R : Reads(Append(glyphs, BLANK), line, R)
  BY <1>1, ReadsExists
<1>3. R[Len(glyphs) + 1] \in Readings
  BY <1>1, <1>2 DEF Reads
<1> QED
  BY <1>2, <1>3, TokenizeIs DEF Readings

-----------------------------------------------------------------------------
(* Every state.                                                            *)

TypeInv ==
    /\ file \in Files
    /\ lineNo \in 0..Len(file)
    /\ hasMore \in BOOLEAN /\ inMultiLineComment \in BOOLEAN
    /\ stage \in {"reading", "done", "failed"}
    /\ stage = "reading" /\ hasMore => lineNo < Len(file)
    /\ buffer \in Seq(TokenSet) /\ eaten \in Seq(TokenSet)

\* What is known of the text s read so far, given its modes.
ReadSoFar(s, ms) ==
    Plain(s, ms) =>
        /\ Wrong(s, ms) <=> stage = "failed"
        /\ ~Wrong(s, ms) => /\ eaten \o buffer = Tokens(s, ms)
                            /\ ms[Len(s) + 1] \in {"code", "block"}
                            /\ inMultiLineComment <=> ms[Len(s) + 1] = "block"

Inv == TypeInv /\ ReadSoFar(Text(lineNo), Modes(Text(lineNo)))

LEMMA NothingReadYet ==
    ASSUME Init
    PROVE  Inv
<1>0. file \in Files /\ Len(file) \in Nat /\ Len(file) >= 1
  BY FileIs DEF Init
<1>1. TypeInv
  <2>1. << >> \in Seq(TokenSet) /\ 0 \in 0..Len(file) /\ 0 < Len(file)
    BY <1>0
  <2> QED
    BY <2>1 DEF Init, TypeInv
<1>2. PICK s, ms : s = Text(0) /\ ms = Modes(s)
  OBVIOUS
<1>3. s = << >> /\ s \in Seq(Glyph) /\ Len(s) = 0
  <2>1. 0 \in 0..(Len(file) - 1)
    BY <1>0
  <2>2. Text(0) = << >>
    BY ONLY <1>0, <2>1, TextGrows
  <2>3. s = << >>
    BY <1>2, <2>2
  <2> QED
    BY ONLY <2>3
<1>4. Chained(s, ms) /\ ms[Len(s) + 1] = "code"
  BY <1>2, <1>3, ModesChained
<1>5. Tokens(s, ms) = << >>
  <2>1. [i \in DOMAIN s |-> TokenAt(s, ms, i)] = << >>
    BY <1>3
  <2> QED
    BY <2>1, FlattenNone DEF Tokens
<1>6. ~Wrong(s, ms)
  <2>1. "broken" \notin ToSet(ms)
    BY <1>3, <1>4, BrokenStays
  <2>2. ~HasNone(<< >>)
    BY DEF HasNone
  <2> QED
    BY <1>5, <2>1, <2>2 DEF Wrong
<1>7. ReadSoFar(s, ms)
  BY <1>4, <1>5, <1>6 DEF ReadSoFar, Init
<1> QED
  BY <1>1, <1>2, <1>7 DEF Inv, Init

(* The line that is read next.                                             *)
LEMMA NextLineReads ==
    ASSUME Inv, Refilling, NEW s, s = Text(lineNo), NEW ms, ms = Modes(s),
           NEW t, t = Text(lineNo + 1), NEW mt, mt = Modes(t), Plain(t, mt)
    PROVE  /\ ~Wrong(s, ms) /\ Tokens(s, ms) = eaten /\ eaten \in Seq(TokenSet)
           /\ Result(NextLine, s, ms, t, mt)
           /\ Len(t) \in Nat /\ Chained(t, mt)
<1>1. /\ file \in Files /\ lineNo \in 0..(Len(file) - 1) /\ lineNo \in Nat /\ Len(file) \in Nat
      /\ inMultiLineComment \in BOOLEAN /\ stage = "reading" /\ buffer = << >>
      /\ eaten \in Seq(TokenSet)
  BY FileIs DEF Inv, TypeInv, Refilling
<1>2. PICK L : L = file[lineNo + 1]
  OBVIOUS
<1>3. TextOf(s, lineNo)
  <2>1. lineNo \in 0..Len(file)
    BY <1>1
  <2> QED
    BY <1>1, <2>1, TextIs
<1>4. /\ L \in Seq(Glyph)
      /\ \A i \in 1..Len(L) : L[i] # NEWLINE
      /\ \A i \in 1..(Len(L) - 1) : ~(IsWord(L[i]) /\ IsWord(L[i + 1]))
  <2>1. lineNo + 1 \in 1..Len(file)
    BY <1>1
  <2> QED
    BY <1>1, <1>2, <2>1, FileIs
<1>5. t = s \o Append(L, NEWLINE)
  <2>1. Text(lineNo) \in Seq(Glyph)
    BY <1>3 DEF TextOf
  <2> QED
    BY <1>1, <1>2, <2>1, TextGrows
<1>6. Longer(s, L, t, lineNo)
  BY ONLY <1>1, <1>3, <1>4, <1>5, LineAdded, Zenon
<1>7. Chained(s, ms) /\ ms[1] = "code" /\ Chained(t, mt) /\ mt[1] = "code"
  <2>1. s \in Seq(Glyph) /\ t \in Seq(Glyph)
    BY <1>3, <1>6 DEF TextOf, Longer
  <2> QED
    BY <2>1, ModesChained
<1>8. NewLine(s, ms, t, mt, L, lineNo)
  BY <1>1, <1>3, <1>4, <1>5, <1>7 DEF NewLine
<1>9. Plain(s, ms)
  <2>1. Moded(s, ms, t, mt)
    BY <1>6, <1>7 DEF Moded, Longer
  <2> QED
    BY <2>1, PlainAgrees
<1>10. ReadSoFar(s, ms)
  BY DEF Inv
<1>11. ~Wrong(s, ms) /\ eaten \o buffer = Tokens(s, ms) /\ ms[Len(s) + 1] \in {"code", "block"}
       /\ (inMultiLineComment <=> ms[Len(s) + 1] = "block")
  BY <1>1, <1>9, <1>10 DEF ReadSoFar
<1>12. LineBehind(s, ms, t, mt, L)
  BY <1>2, <1>8, <1>11 DEF LineBehind
<1>13. Result(AfterOpenComment(L), s, ms, t, mt)
  BY ONLY <1>1, <1>11, <1>12, NextReads
<1>14. eaten \o << >> = eaten
  BY <1>1
<1>15. Len(t) \in Nat
  BY <1>6 DEF Longer, TextOf
<1> QED
  BY <1>1, <1>2, <1>7, <1>11, <1>13, <1>14, <1>15 DEF NextLine

LEMMA RefillReads ==
    ASSUME Inv, Refill
    PROVE  Inv'
<1>1. /\ Refilling /\ ~Throws(NextLine) /\ lineNo' = lineNo + 1
      /\ hasMore' = (lineNo + 1 < Len(file))
      /\ buffer' = tokenizeLine(stripComments(NextLine), lineNo + 1)
      /\ inMultiLineComment' = LeavesOpen(NextLine)
      /\ file' = file /\ eaten' = eaten /\ stage' = stage
  BY DEF Refill
<1>2. /\ file \in Files /\ lineNo \in 0..(Len(file) - 1) /\ lineNo \in Nat /\ Len(file) \in Nat
      /\ stage = "reading" /\ eaten \in Seq(TokenSet)
  BY <1>1, FileIs DEF Inv, TypeInv, Refilling
<1>3. TypeInv'
  <2>1. file[lineNo + 1] \in Seq(Glyph)
    <3>1. lineNo + 1 \in 1..Len(file)
      BY <1>2
    <3> QED
      BY <1>2, <3>1, FileIs
  <2>2. buffer' \in Seq(TokenSet)
    <3>1. stripComments(NextLine) \in Seq(Glyph)
      BY <2>1, AfterTyped, StripTyped DEF NextLine
    <3>2. lineNo + 1 \in Int
      BY <1>2
    <3> QED
      BY <1>1, <3>1, <3>2, TokenizeTyped
  <2>3. hasMore' \in BOOLEAN /\ (hasMore' => lineNo' < Len(file'))
    <3> DEFINE more == lineNo + 1 < Len(file)
    <3>1. more \in BOOLEAN /\ (more => lineNo' < Len(file'))
      BY <1>1
    <3>2. hasMore' = more
      BY <1>1
    <3> HIDE DEF more
    <3> QED
      BY ONLY <3>1, <3>2
  <2>4. inMultiLineComment' \in BOOLEAN
    BY <1>1 DEF LeavesOpen
  <2>5. lineNo' \in 0..Len(file') /\ file' \in Files
    BY <1>1, <1>2
  <2> QED
    BY <1>1, <1>2, <2>2, <2>3, <2>4, <2>5 DEF TypeInv
<1>4. PICK s, ms, t, mt : s = Text(lineNo) /\ ms = Modes(s) /\ t = Text(lineNo + 1) /\ mt = Modes(t)
  OBVIOUS
<1>5. Text(lineNo)' = t
  BY <1>1, <1>4 DEF Text
<1>6. ASSUME Plain(t, mt)
      PROVE  /\ ~Wrong(t, mt) /\ stage' # "failed"
             /\ eaten' \o buffer' = Tokens(t, mt)
             /\ mt[Len(t) + 1] \in {"code", "block"}
             /\ inMultiLineComment' <=> mt[Len(t) + 1] = "block"
  <2>1. /\ Tokens(s, ms) = eaten /\ Result(NextLine, s, ms, t, mt)
    BY <1>1, <1>4, <1>6, NextLineReads
  <2>2. ~Wrong(t, mt)
    BY <1>1, <2>1 DEF Result
  <2> QED
    BY <1>1, <1>2, <2>1, <2>2 DEF Result
<1>7. Plain(t, mt) =>
         /\ Wrong(t, mt) <=> stage' = "failed"
         /\ ~Wrong(t, mt) => /\ eaten' \o buffer' = Tokens(t, mt)
                             /\ mt[Len(t) + 1] \in {"code", "block"}
                             /\ inMultiLineComment' <=> mt[Len(t) + 1] = "block"
  BY <1>6
<1>8. ReadSoFar(Text(lineNo), Modes(Text(lineNo)))'
  BY <1>4, <1>5, <1>7 DEF ReadSoFar
<1> QED
  BY <1>3, <1>8 DEF Inv

LEMMA FailReads ==
    ASSUME Inv, Fail
    PROVE  Inv'
<1>1. /\ Refilling /\ (Throws(NextLine) \/ Reversed(NextLine)) /\ lineNo' = lineNo + 1
      /\ stage' = "failed"
      /\ UNCHANGED <<file, hasMore, inMultiLineComment, buffer, eaten>>
  BY DEF Fail
<1>2. /\ file \in Files /\ lineNo \in 0..(Len(file) - 1) /\ lineNo \in Nat /\ Len(file) \in Nat
  BY <1>1, FileIs DEF Inv, TypeInv, Refilling
<1>3. TypeInv'
  <2>1. lineNo + 1 \in 0..Len(file)
    BY <1>2
  <2> QED
    BY <1>1, <2>1 DEF Inv, TypeInv
<1>4. PICK s, ms, t, mt : s = Text(lineNo) /\ ms = Modes(s) /\ t = Text(lineNo + 1) /\ mt = Modes(t)
  OBVIOUS
<1>5. Text(lineNo)' = t
  BY <1>1, <1>4 DEF Text
<1>6. Plain(t, mt) => Wrong(t, mt)
  <2> SUFFICES ASSUME Plain(t, mt) PROVE Wrong(t, mt)
    OBVIOUS
  <2>1. Result(NextLine, s, ms, t, mt)
    BY <1>1, <1>4, NextLineReads
  <2> QED
    BY <1>1, <2>1 DEF Result
<1>7. ReadSoFar(Text(lineNo), Modes(Text(lineNo)))'
  BY <1>1, <1>4, <1>5, <1>6 DEF ReadSoFar
<1> QED
  BY <1>3, <1>7 DEF Inv

LEMMA EatReads ==
    ASSUME Inv, Eat
    PROVE  Inv'
<1>1. /\ stage = "reading" /\ buffer # << >>
      /\ eaten' = Append(eaten, Head(buffer)) /\ buffer' = Tail(buffer)
      /\ UNCHANGED <<file, lineNo, hasMore, inMultiLineComment, stage>>
  BY DEF Eat
<1>2. buffer \in Seq(TokenSet) /\ eaten \in Seq(TokenSet)
  BY DEF Inv, TypeInv
<1>3. Head(buffer) \in TokenSet /\ Tail(buffer) \in Seq(TokenSet) /\ buffer = <<Head(buffer)>> \o Tail(buffer)
  BY <1>1, <1>2
<1>4. eaten' \in Seq(TokenSet) /\ buffer' \in Seq(TokenSet) /\ eaten' \o buffer' = eaten \o buffer
  <2>1. PICK x, u : x = Head(buffer) /\ u = Tail(buffer)
    OBVIOUS
  <2>2. <<x>> \in Seq(TokenSet) /\ u \in Seq(TokenSet)
    BY <1>3, <2>1
  <2>3. Append(eaten, x) \in Seq(TokenSet) /\ Append(eaten, x) = eaten \o <<x>>
    BY <1>2, <1>3, <2>1, Appended
  <2>4. (eaten \o <<x>>) \o u = eaten \o (<<x>> \o u)
    BY ONLY <1>2, <2>2, JoiningAssociates
  <2> QED
    BY <1>1, <1>3, <2>1, <2>2, <2>3, <2>4
<1>5. TypeInv'
  BY <1>1, <1>4 DEF Inv, TypeInv
<1>6. PICK s, ms : s = Text(lineNo) /\ ms = Modes(s)
  OBVIOUS
<1>7. Text(lineNo)' = s
  BY <1>1, <1>6 DEF Text
<1>8. ReadSoFar(s, ms)
  BY <1>6 DEF Inv
<1>9. ReadSoFar(Text(lineNo), Modes(Text(lineNo)))'
  BY <1>1, <1>4, <1>6, <1>7, <1>8 DEF ReadSoFar
<1> QED
  BY <1>5, <1>9 DEF Inv

LEMMA RestReads ==
    ASSUME Inv, End \/ UNCHANGED vars
    PROVE  Inv'
<1>1. /\ UNCHANGED <<file, lineNo, hasMore, inMultiLineComment, buffer, eaten>>
      /\ stage' \in {"reading", "done", "failed"}
      /\ stage' = "failed" <=> stage = "failed"
      /\ stage' = "reading" => stage = "reading"
  BY DEF End, vars, Inv, TypeInv
<1>2. TypeInv'
  BY <1>1 DEF Inv, TypeInv
<1>3. PICK s, ms : s = Text(lineNo) /\ ms = Modes(s)
  OBVIOUS
<1>4. Text(lineNo)' = s
  BY <1>1, <1>3 DEF Text
<1>5. ReadSoFar(s, ms)
  BY <1>3 DEF Inv
<1>6. ReadSoFar(Text(lineNo), Modes(Text(lineNo)))'
  BY <1>1, <1>3, <1>4, <1>5 DEF ReadSoFar
<1> QED
  BY <1>2, <1>6 DEF Inv

LEMMA InvReads ==
    ASSUME Inv
    PROVE  ReadsAsWritten
<1>1. PICK s, ms : s = Text(lineNo) /\ ms = Modes(s)
  OBVIOUS
<1>2. ReadSoFar(s, ms)
  BY <1>1 DEF Inv
<1>3. Len(ms) = Len(s) + 1
  <2>1. TextOf(s, lineNo)
    BY <1>1, TextIs DEF Inv, TypeInv
  <2>2. Chained(s, ms)
    BY <1>1, <2>1, ModesChained DEF TextOf
  <2> QED
    BY <2>2 DEF Chained
<1>4. Plain(s, ms) =>
         /\ ("broken" \in ToSet(ms) \/ \E n \in DOMAIN Tokens(s, ms) : Tokens(s, ms)[n].type = "NONE")
               <=> stage = "failed"
         /\ ~("broken" \in ToSet(ms) \/ \E n \in DOMAIN Tokens(s, ms) : Tokens(s, ms)[n].type = "NONE") =>
               /\ eaten \o buffer = Tokens(s, ms)
               /\ inMultiLineComment <=> ms[Len(ms)] \in {"opening", "block"}
  BY <1>2, <1>3 DEF ReadSoFar, Wrong, HasNone
<1> QED
  BY <1>1, <1>4 DEF ReadsAsWritten

(* What the parser is given, and what waits for it, are the tokens of the  *)
(* lines read so far, however a comment or a string is spread over them,   *)
(* and a file is refused at the first line that has no tokens: the         *)
(* tokenizer finds by looking for each delimiter once in a line what a     *)
(* reader finds glyph by glyph.                                            *)
THEOREM TokensAsWritten == Spec => []ReadsAsWritten
<1>1. Init => Inv
  BY NothingReadYet
<1>2. Inv /\ [Next]_vars => Inv'
  BY RefillReads, FailReads, EatReads, RestReads DEF Next
<1>3. Inv => ReadsAsWritten
  BY InvReads
<1> QED
  BY <1>1, <1>2, <1>3, PTL DEF Spec
===============================================================================
