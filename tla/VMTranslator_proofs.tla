------------------------ MODULE VMTranslator_proofs -------------------------
(***************************************************************************)
(* In the assembly the VM translator writes, every symbol that is jumped   *)
(* to or saved as a return address is declared by one line: for every      *)
(* directory of any size, and for every number of comparisons and calls.   *)
(***************************************************************************)
EXTENDS VMTranslator, NaturalLemmas, SequenceTheorems, FiniteSetTheorems, TLAPS

-----------------------------------------------------------------------------
(* Sequences of lines, and the names they declare and use.                 *)

IsSequence(s) == \E S : s \in Seq(S)

(* A sequence over a set is one over every larger set.                     *)
LEMMA SequenceMonotonic ==
    ASSUME NEW S, NEW T, S \subseteq T, NEW s \in Seq(S)
    PROVE  s \in Seq(T)
<1>1. Len(s) \in Nat /\ s = [i \in 1..Len(s) |-> s[i]] /\ \A i \in 1..Len(s) : s[i] \in T
  OBVIOUS
<1>2. s \in [1..Len(s) -> T]
  BY <1>1
<1> QED
  BY <1>1, <1>2

(* What a concatenation holds, whatever the two sequences hold.            *)
LEMMA Concatenation ==
    ASSUME NEW s, NEW t, IsSequence(s), IsSequence(t)
    PROVE  /\ IsSequence(s \o t)
           /\ Len(s) \in Nat /\ Len(t) \in Nat
           /\ DOMAIN s = 1..Len(s) /\ DOMAIN t = 1..Len(t)
           /\ DOMAIN (s \o t) = 1..(Len(s) + Len(t))
           /\ \A i \in 1..Len(s) : (s \o t)[i] = s[i]
           /\ \A i \in 1..Len(t) : (s \o t)[Len(s) + i] = t[i]
<1>1. PICK S : s \in Seq(S)
  BY DEF IsSequence
<1>2. PICK T : t \in Seq(T)
  BY DEF IsSequence
<1>3. s \in Seq(S \cup T) /\ t \in Seq(S \cup T)
  BY <1>1, <1>2, SequenceMonotonic
<1> HIDE DEF IsSequence
<1>4. s \o t \in Seq(S \cup T)
  BY <1>3
<1>5. IsSequence(s \o t)
  BY <1>4 DEF IsSequence
<1>6. /\ Len(s) \in Nat /\ Len(t) \in Nat
      /\ DOMAIN s = 1..Len(s) /\ DOMAIN t = 1..Len(t)
      /\ DOMAIN (s \o t) = 1..(Len(s) + Len(t))
      /\ \A i \in 1..Len(s) : (s \o t)[i] = s[i]
  BY <1>3
<1>7. \A i \in 1..Len(t) : (s \o t)[Len(s) + i] = t[i]
  BY <1>3
<1> QED
  BY <1>5, <1>6, <1>7

-----------------------------------------------------------------------------
Holds(lines, line) == \E i \in DOMAIN lines : lines[i] = line
Declares(lines, s) == \E i \in DOMAIN lines : lines[i] = Label(s)
Uses(lines, s)     == \E i \in DOMAIN lines : lines[i] = SymbolicA(s)

\* No name is declared by two of the lines.
Once(lines) ==
    \A i, j \in DOMAIN lines :
        lines[i].op = "label" /\ lines[i] = lines[j] => i = j

\* The names of the lines are where SymbolicA and Label put them.
Tidy(lines) ==
    \A i \in DOMAIN lines :
        /\ lines[i].op = "symbol" => lines[i] = SymbolicA(lines[i].name)
        /\ lines[i].op = "label" => lines[i] = Label(lines[i].name)

\* Lines that declare the names of D, each once, and use no names but those of U.
Block(lines, D, U) ==
    /\ IsSequence(lines) /\ Once(lines) /\ Tidy(lines)
    /\ \A s : Declares(lines, s) <=> s \in D
    /\ \A s : Uses(lines, s) => s \in U

(* An element of a concatenation is one of its parts.                      *)
LEMMA InConcatenation ==
    ASSUME NEW s, NEW t, IsSequence(s), IsSequence(t), NEW x
    PROVE  Holds(s \o t, x) <=> Holds(s, x) \/ Holds(t, x)
<1> DEFINE r == s \o t
<1>1. /\ Len(s) \in Nat /\ Len(t) \in Nat
      /\ DOMAIN s = 1..Len(s) /\ DOMAIN t = 1..Len(t)
      /\ DOMAIN r = 1..(Len(s) + Len(t))
      /\ \A i \in 1..Len(s) : r[i] = s[i]
      /\ \A i \in 1..Len(t) : r[Len(s) + i] = t[i]
  BY Concatenation
<1> HIDE DEF r
<1>2. ASSUME NEW i \in DOMAIN r, r[i] = x
      PROVE  (\E k \in DOMAIN s : s[k] = x) \/ (\E k \in DOMAIN t : t[k] = x)
  <2>1. CASE i <= Len(s)
    BY <1>1, <1>2, <2>1
  <2>2. CASE i > Len(s)
    <3>1. PICK k \in 1..Len(t) : i = Len(s) + k
      <4>1. i - Len(s) \in 1..Len(t) /\ i = Len(s) + (i - Len(s))
        BY <1>1, <1>2, <2>2
      <4> QED
        BY <4>1
    <3> QED
      BY <1>1, <1>2, <3>1
  <2> QED
    BY <1>1, <1>2, <2>1, <2>2
<1>3. ASSUME NEW i \in DOMAIN s, s[i] = x
      PROVE  \E k \in DOMAIN r : r[k] = x
  BY <1>1, <1>3
<1>4. ASSUME NEW i \in DOMAIN t, t[i] = x
      PROVE  \E k \in DOMAIN r : r[k] = x
  <2>1. Len(s) + i \in DOMAIN r /\ r[Len(s) + i] = x
    BY <1>1, <1>4
  <2> QED
    BY <2>1
<1> QED
  BY <1>2, <1>3, <1>4 DEF r, Holds

(* Blocks that declare different names make a block.                       *)
LEMMA BlockConcatenation ==
    ASSUME NEW s, NEW t, NEW D, NEW E, NEW U, NEW V,
           Block(s, D, U), Block(t, E, V), D \cap E = {}
    PROVE  Block(s \o t, D \cup E, U \cup V)
<1> DEFINE r == s \o t
<1>0. IsSequence(s) /\ IsSequence(t)
  BY DEF Block
<1>1. /\ IsSequence(r)
      /\ Len(s) \in Nat /\ Len(t) \in Nat
      /\ DOMAIN s = 1..Len(s) /\ DOMAIN t = 1..Len(t)
      /\ DOMAIN r = 1..(Len(s) + Len(t))
      /\ \A i \in 1..Len(s) : r[i] = s[i]
      /\ \A i \in 1..Len(t) : r[Len(s) + i] = t[i]
  BY <1>0, Concatenation
<1>2. ASSUME NEW n PROVE Declares(r, n) <=> n \in D \cup E
  <2>1. Declares(r, n) <=> Declares(s, n) \/ Declares(t, n)
    <3>1. PICK x : x = Label(n)
      OBVIOUS
    <3>2. Holds(r, x) <=> Holds(s, x) \/ Holds(t, x)
      BY ONLY <1>0, InConcatenation
    <3> QED
      BY ONLY <3>1, <3>2 DEF Holds, Declares
  <2>2. (Declares(s, n) <=> n \in D) /\ (Declares(t, n) <=> n \in E)
    BY DEF Block
  <2> QED
    BY ONLY <2>1, <2>2
<1>3. ASSUME NEW n PROVE Uses(r, n) => n \in U \cup V
  <2>1. Uses(r, n) <=> Uses(s, n) \/ Uses(t, n)
    <3>1. PICK x : x = SymbolicA(n)
      OBVIOUS
    <3>2. Holds(r, x) <=> Holds(s, x) \/ Holds(t, x)
      BY ONLY <1>0, InConcatenation
    <3> QED
      BY ONLY <3>1, <3>2 DEF Holds, Uses
  <2>2. (Uses(s, n) => n \in U) /\ (Uses(t, n) => n \in V)
    BY DEF Block
  <2> QED
    BY ONLY <2>1, <2>2
<1>4. ASSUME NEW i \in DOMAIN r
      PROVE  \/ i \in DOMAIN s /\ r[i] = s[i]
             \/ \E k \in DOMAIN t : i = Len(s) + k /\ r[i] = t[k]
  <2> HIDE DEF r
  <2>1. CASE i <= Len(s)
    BY <1>1, <2>1
  <2>2. CASE i > Len(s)
    <3>1. PICK k \in 1..Len(t) : i = Len(s) + k
      <4>1. i - Len(s) \in 1..Len(t) /\ i = Len(s) + (i - Len(s))
        BY <1>1, <2>2
      <4> QED
        BY <4>1
    <3> QED
      BY <1>1, <3>1
  <2> QED
    BY <1>1, <2>1, <2>2
<1>5. Tidy(r)
  BY <1>4 DEF Tidy, Block
<1>6. ASSUME NEW i \in DOMAIN s, NEW k \in DOMAIN t, s[i].op = "label"
      PROVE  s[i] # t[k]
  <2>1. s[i] = Label(s[i].name)
    BY <1>6 DEF Block, Tidy
  <2>2. s[i].name \in D
    BY <2>1 DEF Block, Declares
  <2>3. t[k] = s[i] => s[i].name \in E
    BY <2>1 DEF Block, Declares
  <2> QED
    BY <2>2, <2>3
<1>7. Once(r)
  <2> SUFFICES ASSUME NEW i \in DOMAIN r, NEW j \in DOMAIN r,
                      r[i].op = "label", r[i] = r[j]
               PROVE  i = j
    BY DEF Once
  <2> HIDE DEF r
  <2>1. CASE i \in DOMAIN s /\ r[i] = s[i] /\ j \in DOMAIN s /\ r[j] = s[j]
    BY <2>1 DEF Block, Once
  <2>2. ASSUME NEW k \in DOMAIN t, i = Len(s) + k, r[i] = t[k],
               NEW l \in DOMAIN t, j = Len(s) + l, r[j] = t[l]
        PROVE  i = j
    <3>1. k = l
      BY <2>2 DEF Block, Once
    <3> QED
      BY <2>2, <3>1
  <2>3. ASSUME NEW k \in DOMAIN t, r[i] = t[k], j \in DOMAIN s, r[j] = s[j]
        PROVE  FALSE
    BY <1>6, <2>3
  <2>4. ASSUME NEW k \in DOMAIN t, r[j] = t[k], i \in DOMAIN s, r[i] = s[i]
        PROVE  FALSE
    BY <1>6, <2>4
  <2> QED
    BY <1>4, <2>1, <2>2, <2>3, <2>4
<1> QED
  BY <1>1, <1>2, <1>3, <1>5, <1>7 DEF Block

-----------------------------------------------------------------------------
(* Lines that declare nothing.                                             *)

\* A line that declares nothing and uses no name but those of U.
QuietLine(line, U) ==
    /\ line.op # "label"
    /\ line.op = "symbol" => line.name \in U /\ line = SymbolicA(line.name)

(* The lines of the generated code that are no labels.                     *)
LEMMA QuietLines ==
    /\ \A s : QuietLine(at(s), {s})
    /\ \A n : QuietLine(NumericA(n), {})
    /\ \A d, c : QuietLine(set(d, c), {})
    /\ \A o, j : QuietLine(jump(o, j), {})
<1>1. \A f : QuietLine(C(f), {})
  BY DEF QuietLine, C
<1>2. \A d, c : QuietLine(set(d, c), {})
  BY <1>1 DEF set
<1>3. \A o, j : QuietLine(jump(o, j), {})
  BY <1>1 DEF jump
<1>4. \A s : QuietLine(at(s), {s})
  BY DEF QuietLine, at, SymbolicA
<1>5. \A n : QuietLine(NumericA(n), {})
  BY DEF QuietLine, NumericA
<1> QED
  BY <1>2, <1>3, <1>4, <1>5

(* More names may be used than are.                                        *)
LEMMA QuietMonotonic ==
    ASSUME NEW line, NEW U, NEW V, U \subseteq V, QuietLine(line, U)
    PROVE  QuietLine(line, V)
BY DEF QuietLine

(* Lines that declare nothing are a block without labels.                  *)
LEMMA QuietBlock ==
    ASSUME NEW lines, NEW U, IsSequence(lines),
           \A i \in DOMAIN lines : QuietLine(lines[i], U)
    PROVE  Block(lines, {}, U)
<1>1. Once(lines) /\ Tidy(lines)
  BY DEF Once, Tidy, QuietLine
<1>2. \A s : ~Declares(lines, s)
  BY DEF Declares, QuietLine, Label
<1>3. ASSUME NEW s, Uses(lines, s) PROVE s \in U
  <2>1. PICK i \in DOMAIN lines : lines[i] = SymbolicA(s)
    BY <1>3 DEF Uses
  <2>2. lines[i].op = "symbol" /\ lines[i].name = s
    BY <2>1 DEF SymbolicA
  <2> QED
    BY <2>2 DEF QuietLine
<1> QED
  BY <1>1, <1>2, <1>3 DEF Block

(* One line, two and three of them.                                        *)
LEMMA One ==
    ASSUME NEW a, NEW U, QuietLine(a, U)
    PROVE  Block(<<a>>, {}, U)
<1>1. IsSequence(<<a>>) /\ DOMAIN <<a>> = {1} /\ <<a>>[1] = a
  <2>1. <<a>> \in Seq({a}) /\ DOMAIN <<a>> = {1} /\ <<a>>[1] = a
    OBVIOUS
  <2> QED
    BY <2>1 DEF IsSequence
<1> QED
  BY <1>1, QuietBlock

LEMMA Two ==
    ASSUME NEW a, NEW b, NEW U, QuietLine(a, U), QuietLine(b, U)
    PROVE  Block(<<a, b>>, {}, U)
<1> DEFINE s == <<a, b>>
<1>1. IsSequence(s) /\ DOMAIN s = {1, 2} /\ s[1] = a /\ s[2] = b
  <2>1. s \in Seq({a, b}) /\ DOMAIN s = {1, 2} /\ s[1] = a /\ s[2] = b
    OBVIOUS
  <2> QED
    BY <2>1 DEF IsSequence
<1>2. \A i \in DOMAIN s : QuietLine(s[i], U)
  BY <1>1
<1> QED
  BY <1>1, <1>2, QuietBlock

LEMMA Three ==
    ASSUME NEW a, NEW b, NEW c, NEW U,
           QuietLine(a, U), QuietLine(b, U), QuietLine(c, U)
    PROVE  Block(<<a, b, c>>, {}, U)
<1> DEFINE s == <<a, b, c>>
<1>1. IsSequence(s) /\ DOMAIN s = {1, 2, 3} /\ s[1] = a /\ s[2] = b /\ s[3] = c
  <2>1. s \in Seq({a, b, c}) /\ DOMAIN s = {1, 2, 3} /\ s[1] = a /\ s[2] = b /\ s[3] = c
    OBVIOUS
  <2> QED
    BY <2>1 DEF IsSequence
<1>2. \A i \in DOMAIN s : QuietLine(s[i], U)
  BY <1>1
<1> QED
  BY <1>1, <1>2, QuietBlock


-----------------------------------------------------------------------------
(* The pieces every command's code is made of.                             *)

Registers == {"SP", "LCL", "ARG", "THIS", "THAT", "R13", "R14"}

(* The registers the generated code names are predefined.                  *)
LEMMA RegistersPredefined == Registers \subseteq DOMAIN PredefinedSymbols
BY DEF Registers, PredefinedSymbols

(* More names may be used than a block uses.                               *)
LEMMA BlockMonotonic ==
    ASSUME NEW lines, NEW D, NEW U, NEW V, U \subseteq V, Block(lines, D, U)
    PROVE  Block(lines, D, V)
BY DEF Block

(* Blocks without labels make one.                                         *)
LEMMA QuietConcatenation ==
    ASSUME NEW s, NEW t, NEW U, Block(s, {}, U), Block(t, {}, U)
    PROVE  Block(s \o t, {}, U)
<1>1. Block(s \o t, {} \cup {}, U \cup U)
  BY BlockConcatenation
<1>2. {} \cup {} = {} /\ U \cup U = U
  OBVIOUS
<1> QED
  BY <1>1, <1>2

\* The lines every block is made of, for any set with the names they use.
LEMMA Lines ==
    ASSUME NEW U
    PROVE  /\ \A s \in U : QuietLine(at(s), U)
           /\ \A n : QuietLine(NumericA(n), U)
           /\ \A d, c : QuietLine(set(d, c), U)
           /\ \A o, j : QuietLine(jump(o, j), U)
<1>1. \A s \in U : QuietLine(at(s), U)
  <2> TAKE s \in U
  <2>1. QuietLine(at(s), {s}) /\ {s} \subseteq U
    BY QuietLines
  <2> QED
    BY <2>1, QuietMonotonic
<1>2. \A n : QuietLine(NumericA(n), U)
  BY QuietLines, QuietMonotonic
<1>3. \A d, c : QuietLine(set(d, c), U)
  BY QuietLines, QuietMonotonic
<1>4. \A o, j : QuietLine(jump(o, j), U)
  BY QuietLines, QuietMonotonic
<1> QED
  BY <1>1, <1>2, <1>3, <1>4

(* The stack pointer is the only name the pushes and pops use.             *)
LEMMA Idioms ==
    ASSUME NEW U, "SP" \in U
    PROVE  /\ Block(decSP, {}, U) /\ Block(incSP, {}, U)
           /\ Block(goTop, {}, U) /\ Block(popD, {}, U) /\ Block(pushD, {}, U)
<1>1. Block(decSP, {}, U) /\ Block(incSP, {}, U)
  BY Two, Lines DEF decSP, incSP
<1>2. Block(<<set({"A"}, "M")>>, {}, U) /\ Block(<<set({"D"}, "M")>>, {}, U)
  BY One, Lines
<1>3. Block(goTop, {}, U)
  BY <1>1, <1>2, QuietConcatenation DEF goTop
<1>4. Block(popD, {}, U)
  BY <1>2, <1>3, QuietConcatenation DEF popD
<1>5. Block(<<at("SP"), set({"A"}, "M"), set({"M"}, "D")>>, {}, U)
  BY Three, Lines
<1>6. Block(pushD, {}, U)
  BY <1>1, <1>5, QuietConcatenation DEF pushD
<1> QED
  BY <1>1, <1>3, <1>4, <1>6

(* Five and seven lines.                                                   *)
LEMMA Five ==
    ASSUME NEW a, NEW b, NEW c, NEW d, NEW e, NEW U,
           QuietLine(a, U), QuietLine(b, U), QuietLine(c, U), QuietLine(d, U), QuietLine(e, U)
    PROVE  Block(<<a, b, c, d, e>>, {}, U)
<1>1. Block(<<a, b>>, {}, U) /\ Block(<<c, d, e>>, {}, U)
  BY Two, Three
<1>2. <<a, b, c, d, e>> = <<a, b>> \o <<c, d, e>>
  OBVIOUS
<1> QED
  BY <1>1, <1>2, QuietConcatenation

LEMMA Seven ==
    ASSUME NEW a, NEW b, NEW c, NEW d, NEW e, NEW f, NEW g, NEW U,
           QuietLine(a, U), QuietLine(b, U), QuietLine(c, U), QuietLine(d, U),
           QuietLine(e, U), QuietLine(f, U), QuietLine(g, U)
    PROVE  Block(<<a, b, c, d, e, f, g>>, {}, U)
<1>1. Block(<<a, b>>, {}, U) /\ Block(<<c, d, e, f, g>>, {}, U)
  BY Two, Five
<1>2. <<a, b, c, d, e, f, g>> = <<a, b>> \o <<c, d, e, f, g>>
  OBVIOUS
<1> QED
  BY <1>1, <1>2, QuietConcatenation

(* Lines without labels may be repeated.                                   *)
LEMMA RepeatBlock ==
    ASSUME NEW n \in Nat, NEW lines, NEW U, Block(lines, {}, U)
    PROVE  Block(repeat(n, lines), {}, U)
<1>1. PICK S : lines \in Seq(S)
  BY DEF Block, IsSequence
<1> DEFINE V == Seq(S)
           step == [p \in (1..n) \X V |-> lines \o p[2]]
           Times(f) == f = [i \in 0..n |-> IF i = 0 THEN <<>> ELSE lines \o f[i - 1]]
<1>2. step \in [(1..n) \X V -> V] /\ <<>> \in V
  BY <1>1
<1>3. PICK f : IsIteration(f, n, V, <<>>, step)
  <2> HIDE DEF V, step
  <2> QED
    BY <1>2, Iterated
<1>4. Times(f)
  <2>1. f \in [0..n -> V] /\ f[0] = <<>> /\ \A i \in 1..n : f[i] = step[<<i, f[i - 1]>>]
    BY <1>3 DEF IsIteration
  <2>2. ASSUME NEW i \in 1..n PROVE f[i] = lines \o f[i - 1]
    <3>0. i - 1 \in 0..n
      OBVIOUS
    <3>1. i - 1 \in 0..n /\ f[i - 1] \in V /\ f[i] = step[<<i, f[i - 1]>>]
      <4> HIDE DEF V, step
      <4> QED
        BY <3>0, <2>1
    <3>2. <<i, f[i - 1]>> \in (1..n) \X V
      BY <3>1
    <3> HIDE DEF V
    <3> QED
      BY <3>1, <3>2
  <2> HIDE DEF V, step
  <2>3. ASSUME NEW i \in 0..n
        PROVE  f[i] = IF i = 0 THEN <<>> ELSE lines \o f[i - 1]
    <3>1. CASE i = 0
      BY <2>1, <3>1
    <3>2. CASE i # 0
      <4>1. i \in 1..n
        BY <3>2
      <4> QED
        BY <2>2, <3>2, <4>1
    <3> QED
      BY <3>1, <3>2
  <2> QED
    BY <2>1, <2>3
<1> DEFINE g == CHOOSE h : Times(h)
<1>5. Times(g)
  <2> HIDE DEF Times
  <2> QED
    BY <1>4
<1>6. repeat(n, lines) = g[n]
  BY DEF repeat
<1> HIDE DEF g
<1>7. g[0] = <<>> /\ \A i \in 1..n : g[i] = lines \o g[i - 1]
  <2>1. \A i \in 0..n : g[i] = IF i = 0 THEN <<>> ELSE lines \o g[i - 1]
    BY <1>5
  <2>2. 0 \in 0..n /\ \A i \in 1..n : i \in 0..n /\ i # 0
    OBVIOUS
  <2> QED
    BY <2>1, <2>2
<1>8. Block(<<>>, {}, U)
  <2>1. IsSequence(<<>>) /\ DOMAIN <<>> = {}
    <3>1. <<>> \in Seq({}) /\ DOMAIN <<>> = {}
      OBVIOUS
    <3> QED
      BY <3>1 DEF IsSequence
  <2> QED
    BY <2>1, QuietBlock
<1> DEFINE good == {i \in 0..n : Block(g[i], {}, U)}
<1>9. 0 \in good
  BY <1>7, <1>8
<1>10. ASSUME NEW i \in 0..n, i \in good, i + 1 \in 0..n
       PROVE  i + 1 \in good
  <2>1. i + 1 \in 1..n /\ (i + 1) - 1 = i
    BY <1>10
  <2>2. g[i + 1] = lines \o g[i]
    BY <1>7, <2>1
  <2>3. Block(lines \o g[i], {}, U)
    BY <1>10, QuietConcatenation
  <2> QED
    BY <1>10, <2>2, <2>3
<1>11. 0..n \subseteq good
  <2> HIDE DEF good
  <2> QED
    BY <1>9, <1>10, UpTo
<1>12. n \in good
  BY <1>11
<1> QED
  BY <1>6, <1>12

-----------------------------------------------------------------------------
(* Segments, and the choice of a comparison.                               *)

(* push and pop use registers, or the symbol of the static variable.       *)
LEMMA SegmentBlock ==
    ASSUME NEW c, NEW file, NEW U, Registers \subseteq U,
           c.segment \in SegmentNames, c.op \in {"push", "pop"},
           c.segment = "static" => staticName(file, c.value) \in U
    PROVE  Block(memorySegment(c, file), {}, U)
<1>0. "SP" \in U /\ "R13" \in U
  BY DEF Registers
<1>1. Block(popD, {}, U) /\ Block(pushD, {}, U)
  BY <1>0, Idioms
<1>2. CASE c.segment = "constant"
  <2>0. c.segment \notin DOMAIN segmentToBase
    BY <1>2 DEF segmentToBase
  <2>1. memorySegment(c, file) = <<NumericA(c.value), set({"D"}, "A")>> \o pushD
    BY <1>2, <2>0 DEF memorySegment
  <2>2. Block(<<NumericA(c.value), set({"D"}, "A")>>, {}, U)
    BY Two, Lines
  <2> QED
    BY <1>1, <2>1, <2>2, QuietConcatenation
<1>3. CASE c.segment \in DOMAIN segmentToBase
  <2>1. c.segment # "constant"
    BY <1>3 DEF segmentToBase
  <2>2. segmentToBase[c.segment] \in U
    BY <1>3 DEF segmentToBase, Registers
  <2>3. CASE c.op = "push"
    <3>1. memorySegment(c, file) =
            <<NumericA(c.value), set({"D"}, "A"),
              at(segmentToBase[c.segment]), set({"A"}, "D+M"), set({"D"}, "M")>> \o pushD
      BY <1>3, <2>1, <2>3 DEF memorySegment
    <3>2. Block(<<NumericA(c.value), set({"D"}, "A"),
                  at(segmentToBase[c.segment]), set({"A"}, "D+M"), set({"D"}, "M")>>, {}, U)
      BY <2>2, Five, Lines
    <3> QED
      BY <1>1, <3>1, <3>2, QuietConcatenation
  <2>4. CASE c.op = "pop"
    <3> DEFINE first == <<NumericA(c.value), set({"D"}, "A"),
                  at(segmentToBase[c.segment]), set({"D"}, "D+M"), at("R13"), set({"M"}, "D")>>
               last == <<at("R13"), set({"A"}, "M"), set({"M"}, "D")>>
    <3>1. memorySegment(c, file) = first \o popD \o last
      BY <1>3, <2>1, <2>4 DEF memorySegment
    <3>2. Block(<<NumericA(c.value), set({"D"}, "A"), at(segmentToBase[c.segment])>>, {}, U)
      BY <2>2, Three, Lines
    <3>3. Block(<<set({"D"}, "D+M"), at("R13"), set({"M"}, "D")>>, {}, U) /\ Block(last, {}, U)
      BY <1>0, Three, Lines
    <3>4. first = <<NumericA(c.value), set({"D"}, "A"), at(segmentToBase[c.segment])>>
                  \o <<set({"D"}, "D+M"), at("R13"), set({"M"}, "D")>>
      OBVIOUS
    <3> HIDE DEF first, last
    <3>5. Block(first, {}, U)
      BY <3>2, <3>3, <3>4, QuietConcatenation
    <3>6. Block(first \o popD, {}, U)
      BY <1>1, <3>5, QuietConcatenation
    <3> QED
      BY <3>1, <3>3, <3>6, QuietConcatenation
  <2> QED
    BY <2>3, <2>4
<1>4. CASE c.segment \in {"temp", "pointer", "static"}
  <2>1. c.segment # "constant" /\ c.segment \notin DOMAIN segmentToBase
    BY <1>4 DEF segmentToBase
  <2>2. QuietLine(fixed(c, file), U)
    <3>1. CASE c.segment = "temp"
      BY <3>1, Lines DEF fixed
    <3>2. CASE c.segment = "pointer"
      <4>1. pointerName(c.value) \in U
        BY DEF pointerName, Registers
      <4>2. fixed(c, file) = at(pointerName(c.value))
        BY <3>2 DEF fixed
      <4> QED
        BY <4>1, <4>2, Lines
    <3>3. CASE c.segment = "static"
      <4>1. fixed(c, file) = at(staticName(file, c.value))
        BY <3>3 DEF fixed
      <4> QED
        BY <3>3, <4>1, Lines
    <3> QED
      BY <1>4, <3>1, <3>2, <3>3
  <2>3. Block(<<fixed(c, file), set({"D"}, "M")>>, {}, U)
        /\ Block(<<fixed(c, file), set({"M"}, "D")>>, {}, U)
    BY <2>2, Two, Lines
  <2>4. memorySegment(c, file) =
            IF c.op = "push" THEN <<fixed(c, file), set({"D"}, "M")>> \o pushD
            ELSE popD \o <<fixed(c, file), set({"M"}, "D")>>
    BY <2>1 DEF memorySegment
  <2> QED
    BY <1>1, <2>3, <2>4, QuietConcatenation
<1> QED
  BY <1>2, <1>3, <1>4 DEF SegmentNames, segmentToBase

(* A label is a block that declares it.                                    *)
LEMMA LabelBlock == \A s : Block(<<Label(s)>>, {s}, {})
<1> TAKE s
<1> DEFINE lines == <<Label(s)>>
<1>1. IsSequence(lines) /\ DOMAIN lines = {1} /\ lines[1] = Label(s)
  <2>1. lines \in Seq({Label(s)}) /\ DOMAIN lines = {1} /\ lines[1] = Label(s)
    OBVIOUS
  <2> QED
    BY <2>1 DEF IsSequence
<1>2. Label(s).op = "label" /\ Label(s).name = s
  BY DEF Label
<1> HIDE DEF lines
<1>3. Once(lines) /\ Tidy(lines)
  BY <1>1, <1>2 DEF Once, Tidy
<1>4. \A n : Declares(lines, n) <=> n \in {s}
  BY <1>1 DEF Declares, Label
<1>5. \A n : ~Uses(lines, n)
  BY <1>1 DEF Uses, Label, SymbolicA
<1> QED
  BY <1>1, <1>3, <1>4, <1>5 DEF Block, lines

(* A comparison declares its two labels, and jumps to no others.           *)
LEMMA ChooseBlock ==
    ASSUME NEW taken, NEW done, NEW condition, NEW held, NEW failed, taken # done
    PROVE  Block(choose(taken, done, condition, held, failed),
                 {taken, done}, {taken, done, "SP"})
<1> DEFINE U == {taken, done, "SP"}
           first == <<at(taken), jump("D", condition), set({"D"}, failed)>>
           second == <<at(done), jump("0", "JMP")>>
           third == <<set({"D"}, held)>>
           last == <<at("SP"), set({"A"}, "M"), set({"M"}, "D")>>
           labels == <<Label(taken)>>
           end == <<Label(done)>>
<1>1. choose(taken, done, condition, held, failed)
        = ((first \o second) \o (labels \o (third \o end))) \o last
  BY DEF choose
<1>2. Block(first, {}, U) /\ Block(second, {}, U) /\ Block(third, {}, U) /\ Block(last, {}, U)
  BY One, Two, Three, Lines
<1>3. Block(labels, {taken}, U) /\ Block(end, {done}, U)
  BY LabelBlock, BlockMonotonic
<1> HIDE DEF U, first, second, third, last, labels, end
<1>4. Block(first \o second, {}, U)
  BY <1>2, QuietConcatenation
<1>5. Block(third \o end, {done}, U)
  <2>1. Block(third \o end, {} \cup {done}, U \cup U)
    BY <1>2, <1>3, BlockConcatenation
  <2>2. {} \cup {done} = {done} /\ U \cup U = U
    OBVIOUS
  <2> QED
    BY <2>1, <2>2
<1>6. Block(labels \o (third \o end), {taken, done}, U)
  <2>1. Block(labels \o (third \o end), {taken} \cup {done}, U \cup U)
    BY <1>3, <1>5, BlockConcatenation
  <2>2. {taken} \cup {done} = {taken, done} /\ U \cup U = U
    OBVIOUS
  <2> QED
    BY <2>1, <2>2
<1>7. Block((first \o second) \o (labels \o (third \o end)), {taken, done}, U)
  <2>1. Block((first \o second) \o (labels \o (third \o end)), {} \cup {taken, done}, U \cup U)
    BY <1>4, <1>6, BlockConcatenation
  <2>2. {} \cup {taken, done} = {taken, done} /\ U \cup U = U
    OBVIOUS
  <2> QED
    BY <2>1, <2>2
<1>8. Block(((first \o second) \o (labels \o (third \o end))) \o last, {taken, done}, U)
  <2>1. Block(((first \o second) \o (labels \o (third \o end))) \o last,
              {taken, done} \cup {}, U \cup U)
    BY <1>2, <1>7, BlockConcatenation
  <2>2. {taken, done} \cup {} = {taken, done} /\ U \cup U = U
    OBVIOUS
  <2> QED
    BY <2>1, <2>2
<1> QED
  BY <1>1, <1>8 DEF U

-----------------------------------------------------------------------------
(* Arithmetic, branches and functions.                                     *)

\* The labels of a comparison.
takenFamily(op) ==
    CASE op = "eq" -> "EQ_NOT_EQUAL" [] op = "gt" -> "GT_THAN_ZERO" [] op = "lt" -> "LT_THAN_ZERO"
doneFamily(op) ==
    CASE op = "eq" -> "EQ_DONE" [] op = "gt" -> "GT_DONE" [] op = "lt" -> "LT_DONE"

(* A binary operation adds no names to those of its lines.                 *)
LEMMA BinaryBlock ==
    ASSUME NEW lines, NEW D, NEW U, "SP" \in U, Block(lines, D, U)
    PROVE  Block(binary(lines), D, U)
<1>1. Block(popD, {}, U) /\ Block(goTop, {}, U) /\ Block(incSP, {}, U)
  BY Idioms
<1>2. Block(popD \o goTop, {}, U)
  BY <1>1, QuietConcatenation
<1>3. Block((popD \o goTop) \o lines, D, U)
  <2>1. Block((popD \o goTop) \o lines, {} \cup D, U \cup U)
    BY <1>2, BlockConcatenation
  <2>2. {} \cup D = D /\ U \cup U = U
    OBVIOUS
  <2> QED
    BY <2>1, <2>2
<1>4. Block(((popD \o goTop) \o lines) \o incSP, D, U)
  <2>1. Block(((popD \o goTop) \o lines) \o incSP, D \cup {}, U \cup U)
    BY <1>1, <1>3, BlockConcatenation
  <2>2. D \cup {} = D /\ U \cup U = U
    OBVIOUS
  <2> QED
    BY <2>1, <2>2
<1> QED
  BY <1>4 DEF binary

(* A comparison is a block if its two labels differ.                       *)
LEMMA ComparisonBlock ==
    ASSUME NEW op \in {"eq", "gt", "lt"}, NEW n, NEW U,
           numbered(takenFamily(op), n) # numbered(doneFamily(op), n),
           {numbered(takenFamily(op), n), numbered(doneFamily(op), n), "SP"} \subseteq U
    PROVE  Block(arithmeticLogic(op, n), {numbered(takenFamily(op), n), numbered(doneFamily(op), n)}, U)
<1> DEFINE t == numbered(takenFamily(op), n)
           d == numbered(doneFamily(op), n)
<1>1. PICK first, condition, held, failed :
        /\ Block(first, {}, U)
        /\ comparison(op, n) = first \o choose(t, d, condition, held, failed)
  <2>1. CASE op = "eq"
    <3>1. comparison(op, n) = <<set({"D"}, "D-M")>> \o choose(t, d, "JNE", "0", "-1")
      BY <2>1 DEF comparison, numbered, takenFamily, doneFamily
    <3>2. Block(<<set({"D"}, "D-M")>>, {}, U)
      BY One, Lines
    <3> QED
      BY <3>1, <3>2
  <2>2. CASE op = "gt"
    <3>1. comparison(op, n)
            = <<set({"D"}, "D-M"), set({"D"}, "-D")>> \o choose(t, d, "JGT", "-1", "0")
      BY <2>2 DEF comparison, numbered, takenFamily, doneFamily
    <3>2. Block(<<set({"D"}, "D-M"), set({"D"}, "-D")>>, {}, U)
      BY Two, Lines
    <3> QED
      BY <3>1, <3>2
  <2>3. CASE op = "lt"
    <3>1. comparison(op, n)
            = <<set({"D"}, "D-M"), set({"D"}, "-D")>> \o choose(t, d, "JLT", "-1", "0")
      BY <2>3 DEF comparison, numbered, takenFamily, doneFamily
    <3>2. Block(<<set({"D"}, "D-M"), set({"D"}, "-D")>>, {}, U)
      BY Two, Lines
    <3> QED
      BY <3>1, <3>2
  <2> QED
    BY <2>1, <2>2, <2>3
<1>2. Block(choose(t, d, condition, held, failed), {t, d}, U)
  <2>1. Block(choose(t, d, condition, held, failed), {t, d}, {t, d, "SP"})
    BY ChooseBlock
  <2> QED
    BY <2>1, BlockMonotonic
<1>3. Block(comparison(op, n), {t, d}, U)
  <2>1. Block(first \o choose(t, d, condition, held, failed), {} \cup {t, d}, U \cup U)
    BY <1>1, <1>2, BlockConcatenation
  <2>2. {} \cup {t, d} = {t, d} /\ U \cup U = U
    OBVIOUS
  <2> QED
    BY <1>1, <2>1, <2>2
<1>4. arithmeticLogic(op, n) = binary(comparison(op, n))
  BY DEF arithmeticLogic
<1> QED
  BY <1>3, <1>4, BinaryBlock

(* The other operations declare nothing.                                   *)
LEMMA LogicBlock ==
    ASSUME NEW op \in {"add", "sub", "neg", "and", "or", "not"}, NEW n, NEW U, "SP" \in U
    PROVE  Block(arithmeticLogic(op, n), {}, U)
<1>1. CASE op = "neg"
  <2>1. arithmeticLogic(op, n) = <<at("SP"), set({"A"}, "M-1"), set({"M"}, "-M")>>
    BY <1>1 DEF arithmeticLogic
  <2> QED
    BY <2>1, Three, Lines
<1>2. CASE op = "not"
  <2>1. arithmeticLogic(op, n) = goTop \o <<set({"M"}, "!M")>> \o incSP
    BY <1>2 DEF arithmeticLogic
  <2>2. Block(<<set({"M"}, "!M")>>, {}, U)
    BY One, Lines
  <2>3. Block(goTop \o <<set({"M"}, "!M")>>, {}, U)
    BY <2>2, Idioms, QuietConcatenation
  <2> QED
    BY <2>1, <2>3, Idioms, QuietConcatenation
<1>3. CASE op \in {"add", "sub", "and", "or"}
  <2>1. PICK lines : arithmeticLogic(op, n) = binary(lines) /\ Block(lines, {}, U)
    <3>1. CASE op = "add"
      <4>1. arithmeticLogic(op, n) = binary(<<set({"M"}, "D+M")>>)
        BY <3>1 DEF arithmeticLogic
      <4>2. Block(<<set({"M"}, "D+M")>>, {}, U)
        BY One, Lines
      <4> QED
        BY <4>1, <4>2
    <3>2. CASE op = "sub"
      <4>1. arithmeticLogic(op, n) = binary(<<set({"M"}, "D-M"), set({"M"}, "-M")>>)
        BY <3>2 DEF arithmeticLogic
      <4>2. Block(<<set({"M"}, "D-M"), set({"M"}, "-M")>>, {}, U)
        BY Two, Lines
      <4> QED
        BY <4>1, <4>2
    <3>3. CASE op = "and"
      <4>1. arithmeticLogic(op, n) = binary(<<set({"M"}, "D&M")>>)
        BY <3>3 DEF arithmeticLogic
      <4>2. Block(<<set({"M"}, "D&M")>>, {}, U)
        BY One, Lines
      <4> QED
        BY <4>1, <4>2
    <3>4. CASE op = "or"
      <4>1. arithmeticLogic(op, n) = binary(<<set({"M"}, "D|M")>>)
        BY <3>4 DEF arithmeticLogic
      <4>2. Block(<<set({"M"}, "D|M")>>, {}, U)
        BY One, Lines
      <4> QED
        BY <4>1, <4>2
    <3> QED
      BY <1>3, <3>1, <3>2, <3>3, <3>4
  <2> QED
    BY <2>1, BinaryBlock
<1> QED
  BY <1>1, <1>2, <1>3

(* A branch uses its label.                                                *)
LEMMA BranchBlock ==
    ASSUME NEW op \in {"goto", "if-goto"}, NEW label, NEW U, label \in U, "SP" \in U
    PROVE  Block(branching(op, label), {}, U)
<1>1. CASE op = "goto"
  <2>1. branching(op, label) = <<at(label), jump("0", "JMP")>>
    BY <1>1 DEF branching
  <2> QED
    BY <2>1, Two, Lines
<1>2. CASE op = "if-goto"
  <2>1. branching(op, label) =
            decSP \o <<at("SP"), set({"A"}, "M"), set({"D"}, "M"), at(label), jump("D", "JNE")>>
    BY <1>2 DEF branching
  <2>2. Block(<<at("SP"), set({"A"}, "M"), set({"D"}, "M"), at(label), jump("D", "JNE")>>, {}, U)
    BY Five, Lines
  <2> QED
    BY <2>1, <2>2, Idioms, QuietConcatenation
<1> QED
  BY <1>1, <1>2

(* A function declares its name.                                           *)
LEMMA FunctionBlock ==
    ASSUME NEW f, NEW nVars \in Nat, NEW U, "SP" \in U
    PROVE  Block(functionCode(f, nVars), {f}, U)
<1> DEFINE zero == <<at("SP"), set({"A"}, "M"), set({"M"}, "0")>>
<1>1. Block(zero, {}, U)
  BY Three, Lines
<1>2. functionCode(f, nVars) = <<Label(f)>> \o repeat(nVars, zero \o incSP)
  BY DEF functionCode
<1> HIDE DEF zero
<1>3. Block(repeat(nVars, zero \o incSP), {}, U)
  <2>1. Block(zero \o incSP, {}, U)
    BY <1>1, Idioms, QuietConcatenation
  <2> QED
    BY <2>1, RepeatBlock
<1>4. Block(<<Label(f)>>, {f}, U)
  BY LabelBlock, BlockMonotonic
<1>5. Block(<<Label(f)>> \o repeat(nVars, zero \o incSP), {f} \cup {}, U \cup U)
  BY <1>3, <1>4, BlockConcatenation
<1>6. {f} \cup {} = {f} /\ U \cup U = U
  OBVIOUS
<1> QED
  BY <1>2, <1>5, <1>6

-----------------------------------------------------------------------------
(* Returns, calls and the bootstrap code.                                  *)

(* A return restores registers.                                            *)
LEMMA RestoreBlock ==
    ASSUME NEW n, NEW register, NEW U, Registers \subseteq U, register \in Registers
    PROVE  Block(restore(n, register), {}, U)
<1>1. "R13" \in U /\ register \in U
  BY DEF Registers
<1>2. Block(<<at("R13"), set({"D"}, "M"), NumericA(n), set({"A"}, "D-A"), set({"D"}, "M"),
              at(register), set({"M"}, "D")>>, {}, U)
  BY <1>1, Seven, Lines
<1> QED
  BY <1>2 DEF restore

(* A return uses registers only.                                           *)
LEMMA ReturnBlock ==
    ASSUME NEW U, Registers \subseteq U
    PROVE  Block(returnCode, {}, U)
<1>0. {"SP", "LCL", "ARG", "THIS", "THAT", "R13", "R14"} \subseteq U
  BY DEF Registers
<1> DEFINE a == << at("LCL"), set({"D"}, "M"), at("R13"), set({"M"}, "D"), NumericA(5)>>
           b == << set({"A"}, "D-A"), set({"D"}, "M"), at("R14"), set({"M"}, "D") >>
           c == <<at("ARG"), set({"A"}, "M"), set({"M"}, "D")>>
           d == <<at("ARG"), set({"D"}, "M+1"), at("SP"), set({"M"}, "D")>>
           e == <<at("R13"), set({"A"}, "M-1"), set({"D"}, "M"), at("THAT"), set({"M"}, "D")>>
           f == <<at("R14"), set({"A"}, "M"), jump("0", "JMP")>>
           ab == << at("LCL"), set({"D"}, "M"), at("R13"), set({"M"}, "D"),
                    NumericA(5), set({"A"}, "D-A"), set({"D"}, "M"), at("R14"), set({"M"}, "D") >>
<1>1. returnCode = ab \o popD \o c \o d
                   \o restore(4, "LCL") \o restore(3, "ARG") \o restore(2, "THIS") \o e \o f
  BY DEF returnCode
<1>2. ab = a \o b
  OBVIOUS
<1>3. Block(a, {}, U)
  BY <1>0, Five, Lines
<1>4. Block(b, {}, U) /\ Block(d, {}, U)
  <2>1. ASSUME NEW p, NEW q, NEW r, NEW s,
               QuietLine(p, U), QuietLine(q, U), QuietLine(r, U), QuietLine(s, U)
        PROVE  Block(<<p, q, r, s>>, {}, U)
    <3>1. Block(<<p, q>>, {}, U) /\ Block(<<r, s>>, {}, U)
      BY <2>1, Two
    <3>2. <<p, q, r, s>> = <<p, q>> \o <<r, s>>
      OBVIOUS
    <3> QED
      BY <3>1, <3>2, QuietConcatenation
  <2> QED
    BY <1>0, <2>1, Lines
<1>5. Block(c, {}, U) /\ Block(f, {}, U)
  BY <1>0, Three, Lines
<1>6. Block(e, {}, U)
  BY <1>0, Five, Lines
<1>7. /\ Block(restore(4, "LCL"), {}, U) /\ Block(restore(3, "ARG"), {}, U)
      /\ Block(restore(2, "THIS"), {}, U)
  BY <1>0, RestoreBlock DEF Registers
<1>8. Block(popD, {}, U)
  BY <1>0, Idioms
<1> HIDE DEF a, b, c, d, e, f, ab
<1>9. Block(ab \o popD \o c \o d, {}, U)
  <2>1. Block(ab, {}, U)
    BY <1>2, <1>3, <1>4, QuietConcatenation
  <2>2. Block(ab \o popD, {}, U)
    BY <1>8, <2>1, QuietConcatenation
  <2>3. Block(ab \o popD \o c, {}, U)
    BY <1>5, <2>2, QuietConcatenation
  <2> QED
    BY <1>4, <2>3, QuietConcatenation
<1> DEFINE g == ab \o popD \o c \o d
<1>10. Block(g \o restore(4, "LCL") \o restore(3, "ARG") \o restore(2, "THIS"), {}, U)
  <2>0. Block(g, {}, U)
    BY <1>9
  <2> HIDE DEF g
  <2>1. Block(g \o restore(4, "LCL"), {}, U)
    BY <1>7, <2>0, QuietConcatenation
  <2>2. Block(g \o restore(4, "LCL") \o restore(3, "ARG"), {}, U)
    BY <1>7, <2>1, QuietConcatenation
  <2> QED
    BY <1>7, <2>2, QuietConcatenation
<1> DEFINE h == g \o restore(4, "LCL") \o restore(3, "ARG") \o restore(2, "THIS")
<1>11. Block(h \o e \o f, {}, U)
  <2>0. Block(h, {}, U)
    BY <1>10
  <2> HIDE DEF h
  <2>1. Block(h \o e, {}, U)
    BY <1>6, <2>0, QuietConcatenation
  <2> QED
    BY <1>5, <2>1, QuietConcatenation
<1> QED
  BY <1>1, <1>11

(* A call saves registers.                                                 *)
LEMMA SaveBlock ==
    ASSUME NEW register, NEW U, "SP" \in U, register \in U
    PROVE  Block(save(register), {}, U)
<1>1. Block(<<at(register), set({"D"}, "M")>>, {}, U)
  BY Two, Lines
<1> QED
  BY <1>1, Idioms, QuietConcatenation DEF save

(* A call declares its return address and uses the name of the function.   *)
LEMMA CallBlock ==
    ASSUME NEW f, NEW nArgs, NEW n, NEW U,
           Registers \subseteq U, f \in U, returnAddress(f, n) \in U
    PROVE  Block(callCode(f, nArgs, n), {returnAddress(f, n)}, U)
<1>0. {"SP", "LCL", "ARG", "THIS", "THAT"} \subseteq U
  BY DEF Registers
<1> DEFINE address == returnAddress(f, n)
           a == <<at(address), set({"D"}, "A")>>
           b == <<at("SP"), set({"D"}, "M"), at("LCL"), set({"M"}, "D")>>
           c1 == <<at("SP"), set({"D"}, "M"), NumericA(5 + nArgs)>>
           c2 == <<set({"D"}, "D-A"), at("ARG"), set({"M"}, "D")>>
           c == <<at("SP"), set({"D"}, "M"), NumericA(5 + nArgs), set({"D"}, "D-A"),
                  at("ARG"), set({"M"}, "D")>>
           d == <<at(f), jump("0", "JMP")>>
           e == <<at(f), jump("0", "JMP"), Label(address)>>
           label == <<Label(address)>>
<1>1. callCode(f, nArgs, n) = a \o pushD \o save("LCL") \o save("ARG") \o save("THIS")
                              \o save("THAT") \o b \o c \o e
  BY DEF callCode
<1>2. Block(a, {}, U) /\ Block(d, {}, U)
  BY Two, Lines
<1>3. Block(b, {}, U)
  <2>1. Block(<<at("SP"), set({"D"}, "M")>>, {}, U) /\ Block(<<at("LCL"), set({"M"}, "D")>>, {}, U)
    BY <1>0, Two, Lines
  <2>2. b = <<at("SP"), set({"D"}, "M")>> \o <<at("LCL"), set({"M"}, "D")>>
    OBVIOUS
  <2> QED
    BY <2>1, <2>2, QuietConcatenation
<1>4. Block(c, {}, U)
  <2>1. Block(c1, {}, U) /\ Block(c2, {}, U)
    BY <1>0, Three, Lines
  <2>2. c = c1 \o c2
    OBVIOUS
  <2> QED
    BY <2>1, <2>2, QuietConcatenation
<1>5. Block(e, {address}, U)
  <2>1. Block(label, {address}, U)
    BY LabelBlock, BlockMonotonic
  <2>2. e = d \o label
    OBVIOUS
  <2> HIDE DEF d, e, label, address
  <2>3. Block(d \o label, {} \cup {address}, U \cup U)
    BY <1>2, <2>1, BlockConcatenation
  <2>4. {} \cup {address} = {address} /\ U \cup U = U
    OBVIOUS
  <2> QED
    BY <2>2, <2>3, <2>4
<1>6. /\ Block(pushD, {}, U) /\ Block(save("LCL"), {}, U) /\ Block(save("ARG"), {}, U)
      /\ Block(save("THIS"), {}, U) /\ Block(save("THAT"), {}, U)
  BY <1>0, Idioms, SaveBlock
<1> HIDE DEF address, a, b, c, d, e
<1>7. Block(a \o pushD \o save("LCL") \o save("ARG"), {}, U)
  <2>1. Block(a \o pushD, {}, U)
    BY <1>2, <1>6, QuietConcatenation
  <2>2. Block(a \o pushD \o save("LCL"), {}, U)
    BY <1>6, <2>1, QuietConcatenation
  <2> QED
    BY <1>6, <2>2, QuietConcatenation
<1> DEFINE g == a \o pushD \o save("LCL") \o save("ARG")
<1>8. Block(g \o save("THIS") \o save("THAT") \o b \o c, {}, U)
  <2>0. Block(g, {}, U)
    BY <1>7
  <2> HIDE DEF g
  <2>1. Block(g \o save("THIS"), {}, U)
    BY <1>6, <2>0, QuietConcatenation
  <2>2. Block(g \o save("THIS") \o save("THAT"), {}, U)
    BY <1>6, <2>1, QuietConcatenation
  <2>3. Block(g \o save("THIS") \o save("THAT") \o b, {}, U)
    BY <1>3, <2>2, QuietConcatenation
  <2> QED
    BY <1>4, <2>3, QuietConcatenation
<1> DEFINE h == g \o save("THIS") \o save("THAT") \o b \o c
<1>9. Block(h \o e, {address}, U)
  <2>0. Block(h, {}, U)
    BY <1>8
  <2> HIDE DEF h
  <2>1. Block(h \o e, {} \cup {address}, U \cup U)
    BY <1>5, <2>0, BlockConcatenation
  <2>2. {} \cup {address} = {address} /\ U \cup U = U
    OBVIOUS
  <2> QED
    BY <2>1, <2>2
<1> QED
  BY <1>1, <1>9 DEF address

(* The bootstrap code is a call of Sys.init.                               *)
LEMMA BootstrapBlock ==
    ASSUME NEW n, NEW U,
           Registers \subseteq U, "Sys.init" \in U, returnAddress("Sys.init", n) \in U
    PROVE  Block(bootstrapCode(n), {returnAddress("Sys.init", n)}, U)
<1>0. {"SP", "LCL", "ARG", "THIS", "THAT"} \subseteq U
  BY DEF Registers
<1> DEFINE a == << NumericA(StackBase), set({"D"}, "A"), at("SP"), set({"M"}, "D"), at("LCL")>>
           b == << set({"M"}, "-1"), at("ARG"), set({"M"}, "-1"),
                   at("THIS"), set({"M"}, "-1"), at("THAT"), set({"M"}, "-1") >>
           ab == << NumericA(StackBase), set({"D"}, "A"), at("SP"), set({"M"}, "D"),
                    at("LCL"), set({"M"}, "-1"), at("ARG"), set({"M"}, "-1"),
                    at("THIS"), set({"M"}, "-1"), at("THAT"), set({"M"}, "-1") >>
           call == callCode("Sys.init", 0, n)
           D == {returnAddress("Sys.init", n)}
<1>1. bootstrapCode(n) = ab \o call
  BY DEF bootstrapCode
<1>2. ab = a \o b
  OBVIOUS
<1>3. Block(a, {}, U) /\ Block(b, {}, U)
  BY <1>0, Five, Seven, Lines
<1>4. Block(call, D, U)
  BY CallBlock
<1> HIDE DEF a, b, ab, call, D
<1>5. Block(ab, {}, U)
  BY <1>2, <1>3, QuietConcatenation
<1>6. Block(ab \o call, {} \cup D, U \cup U)
  BY <1>4, <1>5, BlockConcatenation
<1>7. {} \cup D = D /\ U \cup U = U
  OBVIOUS
<1> QED
  BY <1>1, <1>6, <1>7 DEF D

-----------------------------------------------------------------------------
(* The lines of the input, in the order they are read.                     *)

\* The lines read so far, and the lines written so far.
Before(in, f, n) == {p \in Positions(in) : p[1] < f \/ (p[1] = f /\ p[2] < n)}
Reached == Before(input, fileNo, lineNo)
Text == IF status \in {"joined", "written"} THEN allLines ELSE allLines \o output

lastNumber(family) ==
    IF family \in {"EQ_NOT_EQUAL", "EQ_DONE"} THEN eqs
    ELSE IF family \in {"GT_THAN_ZERO", "GT_DONE"} THEN gts
    ELSE lts

ComparisonNames == UNION {{numbered(l, n) : n \in 1..lastNumber(l)} : l \in LabelFamilies}
ReturnNames == {returnAddress(f, n) : f \in Callees(input), n \in 0..rets}
OwnNames == {OwnName(input, p) : p \in Declaring(input) \cap Reached}
Introduced == ComparisonNames \cup ReturnNames \cup OwnNames

WellPlaced(in, f, n) ==
    /\ in \in Inputs /\ f \in DOMAIN in.files
    /\ n \in 1..(Len(in.files[f].commands) + 1)

(* What is assumed of the inputs.                                          *)
LEMMA InputFacts ==
    ASSUME NEW in \in Inputs
    PROVE  /\ Len(in.files) \in Nat \ {0} /\ DOMAIN in.files = 1..Len(in.files)
           /\ \A f \in DOMAIN in.files :
                 /\ Len(in.files[f].commands) \in Nat
                 /\ DOMAIN in.files[f].commands = 1..Len(in.files[f].commands)
                 /\ \A n \in DOMAIN in.files[f].commands : IsCommand(in.files[f].commands[n])
BY InputsAssumption

(* The lines of an input are finitely many pairs of numbers.               *)
LEMMA PositionFacts ==
    ASSUME NEW in \in Inputs
    PROVE  /\ IsFiniteSet(Positions(in))
           /\ \A f, n : <<f, n>> \in Positions(in)
                            <=> f \in DOMAIN in.files /\ n \in DOMAIN in.files[f].commands
           /\ \A p \in Positions(in) : p = <<p[1], p[2]>> /\ p[1] \in Nat /\ p[2] \in Nat
<1> DEFINE lines(f) == {f} \X DOMAIN in.files[f].commands
           perFile == {lines(f) : f \in DOMAIN in.files}
<1>1. IsFiniteSet(DOMAIN in.files)
  BY InputFacts, FS_Interval
<1>2. IsFiniteSet(perFile)
  <2> DEFINE g == [f \in DOMAIN in.files |-> lines(f)]
  <2>1. g \in Surjection(DOMAIN in.files, perFile)
    BY DEF Surjection
  <2> HIDE DEF g, perFile
  <2> QED
    BY <1>1, <2>1, FS_Surjection
<1>3. ASSUME NEW f \in DOMAIN in.files
      PROVE  IsFiniteSet(lines(f))
  <2>1. IsFiniteSet(DOMAIN in.files[f].commands)
    <3>1. /\ Len(in.files[f].commands) \in Int
          /\ DOMAIN in.files[f].commands = 1..Len(in.files[f].commands)
      BY InputFacts
    <3> QED
      BY <3>1, FS_Interval
  <2>2. IsFiniteSet({f})
    BY FS_Singleton
  <2> QED
    BY <2>1, <2>2, FS_Product
<1>4. IsFiniteSet(Positions(in))
  <2>1. \A s \in perFile : IsFiniteSet(s)
    BY <1>3
  <2>2. IsFiniteSet(UNION perFile)
    <3> HIDE DEF perFile
    <3> QED
      BY <1>2, <2>1, FS_UNION
  <2> QED
    BY <2>2 DEF Positions
<1>5. ASSUME NEW f, NEW n
      PROVE  <<f, n>> \in Positions(in)
                <=> f \in DOMAIN in.files /\ n \in DOMAIN in.files[f].commands
  BY DEF Positions
<1>6. ASSUME NEW p \in Positions(in)
      PROVE  p = <<p[1], p[2]>> /\ p[1] \in Nat /\ p[2] \in Nat
  <2>1. PICK f \in DOMAIN in.files : p \in {f} \X DOMAIN in.files[f].commands
    BY DEF Positions
  <2>2. f \in Nat /\ DOMAIN in.files[f].commands \subseteq Nat
    BY InputFacts
  <2> QED
    BY <2>1, <2>2
<1> QED
  BY <1>4, <1>5, <1>6

\* Reading a line adds its position.
LEMMA BeforeNext ==
    ASSUME NEW in, NEW f, NEW n, WellPlaced(in, f, n), n <= Len(in.files[f].commands)
    PROVE  /\ <<f, n>> \in Positions(in) /\ <<f, n>> \notin Before(in, f, n)
           /\ Before(in, f, n + 1) = Before(in, f, n) \cup {<<f, n>>}
           /\ WellPlaced(in, f, n + 1)
<1>1. /\ in \in Inputs /\ f \in DOMAIN in.files /\ f \in Nat /\ n \in Nat
      /\ Len(in.files[f].commands) \in Nat
      /\ n \in DOMAIN in.files[f].commands
      /\ n + 1 \in 1..(Len(in.files[f].commands) + 1)
  BY InputFacts DEF WellPlaced
<1>2. <<f, n>> \in Positions(in)
  BY <1>1, PositionFacts
<1>3. <<f, n>> \notin Before(in, f, n)
  BY <1>1 DEF Before
<1>4. ASSUME NEW p \in Positions(in)
      PROVE  p \in Before(in, f, n + 1) <=> p \in Before(in, f, n) \/ p = <<f, n>>
  <2>1. p = <<p[1], p[2]>> /\ p[1] \in Nat /\ p[2] \in Nat
    BY <1>1, PositionFacts
  <2>2. p[2] < n + 1 <=> p[2] < n \/ p[2] = n
    BY <1>1, <2>1
  <2>3. p = <<f, n>> <=> p[1] = f /\ p[2] = n
    BY <2>1
  <2> QED
    BY <1>1, <2>1, <2>2, <2>3 DEF Before
<1>5. Before(in, f, n + 1) \subseteq Positions(in) /\ Before(in, f, n) \subseteq Positions(in)
  BY DEF Before
<1> QED
  BY <1>1, <1>2, <1>3, <1>4, <1>5 DEF WellPlaced

(* The next file begins where the one before ends.                         *)
LEMMA BeforeNextFile ==
    ASSUME NEW in, NEW f, NEW n, WellPlaced(in, f, n), n > Len(in.files[f].commands),
           f < Len(in.files)
    PROVE  /\ Before(in, f + 1, 1) = Before(in, f, n)
           /\ WellPlaced(in, f + 1, 1)
<1>1. /\ in \in Inputs /\ f \in DOMAIN in.files /\ f \in Nat /\ n \in Nat
      /\ Len(in.files[f].commands) \in Nat /\ Len(in.files) \in Nat
      /\ DOMAIN in.files[f].commands = 1..Len(in.files[f].commands)
      /\ DOMAIN in.files = 1..Len(in.files)
  BY InputFacts DEF WellPlaced
<1>2. f + 1 \in DOMAIN in.files
  BY <1>1
<1>3. WellPlaced(in, f + 1, 1)
  <2>1. Len(in.files[f + 1].commands) \in Nat
    BY <1>1, <1>2, InputFacts
  <2> QED
    BY <1>1, <1>2, <2>1 DEF WellPlaced
<1>4. ASSUME NEW p \in Positions(in)
      PROVE  p \in Before(in, f + 1, 1) <=> p \in Before(in, f, n)
  <2>1. p = <<p[1], p[2]>> /\ p[1] \in Nat /\ p[2] \in Nat
    BY <1>1, PositionFacts
  <2>2. p[1] \in DOMAIN in.files /\ p[2] \in DOMAIN in.files[p[1]].commands
    BY <1>1, <2>1, PositionFacts
  <2>3. p[2] >= 1
    BY <1>1, <2>1, <2>2, InputFacts
  <2>4. p[1] = f => p[2] < n
    BY <1>1, <2>1, <2>2
  <2>5. p[1] < f + 1 <=> p[1] < f \/ p[1] = f
    BY <1>1, <2>1
  <2> QED
    BY <1>1, <2>1, <2>3, <2>4, <2>5 DEF Before
<1>5. Before(in, f + 1, 1) \subseteq Positions(in) /\ Before(in, f, n) \subseteq Positions(in)
  BY DEF Before
<1> QED
  BY <1>3, <1>4, <1>5

(* At the end of the last file all lines are read.                         *)
LEMMA BeforeEnd ==
    ASSUME NEW in, NEW f, NEW n, WellPlaced(in, f, n), n > Len(in.files[f].commands),
           f = Len(in.files)
    PROVE  Before(in, f, n) = Positions(in)
<1>1. /\ in \in Inputs /\ f \in DOMAIN in.files /\ f \in Nat /\ n \in Nat
      /\ Len(in.files[f].commands) \in Nat /\ Len(in.files) \in Nat
      /\ DOMAIN in.files[f].commands = 1..Len(in.files[f].commands)
      /\ DOMAIN in.files = 1..Len(in.files)
  BY InputFacts DEF WellPlaced
<1>2. ASSUME NEW p \in Positions(in)
      PROVE  p \in Before(in, f, n)
  <2>1. p = <<p[1], p[2]>> /\ p[1] \in Nat /\ p[2] \in Nat
    BY <1>1, PositionFacts
  <2>2. p[1] \in DOMAIN in.files /\ p[2] \in DOMAIN in.files[p[1]].commands
    BY <1>1, <2>1, PositionFacts
  <2>3. p[1] <= f /\ (p[1] = f => p[2] < n)
    BY <1>1, <2>1, <2>2
  <2> QED
    BY <1>1, <2>1, <2>3 DEF Before
<1> QED
  BY <1>2 DEF Before

\* The function a line stands in, from the line before.
LEMMA ScopeNext ==
    ASSUME NEW in, NEW f, NEW n, WellPlaced(in, f, n), n <= Len(in.files[f].commands)
    PROVE  Scope(in, <<f, n + 1>>) =
              IF Given(in, <<f, n>>).op = "function" THEN Given(in, <<f, n>>).name
              ELSE Scope(in, <<f, n>>)
<1> DEFINE before == {m \in 1..(n - 1) : Given(in, <<f, m>>).op = "function"}
           after == {m \in 1..n : Given(in, <<f, m>>).op = "function"}
           last(S) == CHOOSE k \in S : \A m \in S : m <= k
<1>1. n \in Nat \ {0} /\ (n + 1) - 1 = n
  BY InputFacts DEF WellPlaced
<1>2. Scope(in, <<f, n>>) = IF before = {} THEN "" ELSE Given(in, <<f, last(before)>>).name
  BY DEF Scope
<1>3. Scope(in, <<f, n + 1>>) = IF after = {} THEN "" ELSE Given(in, <<f, last(after)>>).name
  BY <1>1 DEF Scope
<1>4. CASE Given(in, <<f, n>>).op = "function"
  <2>1. n \in after /\ \A m \in after : m <= n /\ m \in Nat
    BY <1>1, <1>4
  <2>2. last(after) = n
    <3> HIDE DEF after
    <3>1. \E k \in after : \A m \in after : m <= k
      BY <2>1
    <3>2. last(after) \in after /\ \A m \in after : m <= last(after)
      BY <3>1
    <3> HIDE DEF last
    <3>3. n <= last(after) /\ last(after) <= n /\ last(after) \in Nat
      BY <2>1, <3>2
    <3> QED
      BY <1>1, <3>3
  <2> QED
    BY <1>3, <1>4, <2>1, <2>2
<1>5. CASE Given(in, <<f, n>>).op # "function"
  <2>1. after = before
    BY <1>1, <1>5
  <2> QED
    BY <1>2, <1>3, <1>5, <2>1
<1> QED
  BY <1>4, <1>5

(* A file begins outside of every function.                                *)
LEMMA ScopeFirst == \A in, f : Scope(in, <<f, 1>>) = ""
BY DEF Scope

-----------------------------------------------------------------------------
(* The inductive invariant.                                                *)

TypeInv ==
    /\ status \in {"translating", "refused", "joined", "written"}
    /\ WellPlaced(input, fileNo, lineNo)
    /\ eqs \in Nat /\ gts \in Nat /\ lts \in Nat /\ rets \in Int /\ -1 <= rets

\* The files are read to the end before their lines are joined.
ReadsAll ==
    status \in {"joined", "written"} =>
        fileNo = Len(input.files) /\ lineNo > Len(File.commands)

\* A line of the input takes one number at most, the bootstrap code another.
Counted ==
    /\ eqs + gts + lts <= Cardinality(Reached) /\ rets <= Cardinality(Reached)
    /\ status # "written" => eqs + gts + lts + rets + 1 <= Cardinality(Reached)

Scoped == status = "translating" => function = Scope(input, <<fileNo, lineNo>>)

\* The names the lines declare are of those introduced so far, and they are
\* all the functions and labels of the lines read.
Named ==
    Linked(input) /\ NamesApart(input) =>
        /\ IsSequence(allLines) /\ IsSequence(output)
        /\ \E D \in SUBSET Introduced :
              OwnNames \subseteq D /\ Block(Text, D, Locations(input) \cup Targets(input) \cup D)

IInv == TypeInv /\ ReadsAll /\ Counted /\ Scoped /\ Named

\* The sets of names NamesApart keeps apart.
Numbers(in) == 0..Cardinality(Positions(in))
Comparisons(in) == {numbered(l, n) : l \in LabelFamilies, n \in Numbers(in)}
Returns(in) == {returnAddress(f, n) : f \in Callees(in), n \in Numbers(in)}
Own(in) == {OwnName(in, p) : p \in Declaring(in)}

(* The conjuncts of NamesApart, one by one.                                *)
LEMMA ApartFacts ==
    ASSUME NEW in, NamesApart(in)
    PROVE  /\ \A k, l \in LabelFamilies, m, n \in Numbers(in) :
                 numbered(k, m) = numbered(l, n) => k = l /\ m = n
           /\ \A f, g \in Callees(in), m, n \in Numbers(in) :
                 returnAddress(f, m) = returnAddress(g, n) => m = n
           /\ Comparisons(in) \cap Returns(in) = {}
           /\ Comparisons(in) \cap Own(in) = {} /\ Returns(in) \cap Own(in) = {}
           /\ Comparisons(in) \cap Locations(in) = {} /\ Returns(in) \cap Locations(in) = {}
           /\ Own(in) \cap Locations(in) = {}
<1>1. (Comparisons(in) \cup Returns(in)) \cap Own(in) = {}
  BY DEF NamesApart, Numbers, Comparisons, Returns, Own
<1>2. (Comparisons(in) \cup Returns(in) \cup Own(in)) \cap Locations(in) = {}
  BY DEF NamesApart, Numbers, Comparisons, Returns, Own
<1>3. Comparisons(in) \cap Returns(in) = {}
  BY DEF NamesApart, Numbers, Comparisons, Returns
<1>4. \A k, l \in LabelFamilies, m, n \in Numbers(in) :
                 numbered(k, m) = numbered(l, n) => k = l /\ m = n
  BY DEF NamesApart, Numbers
<1>5. \A f, g \in Callees(in), m, n \in Numbers(in) :
                 returnAddress(f, m) = returnAddress(g, n) => m = n
  BY DEF NamesApart, Numbers
<1> QED
  BY <1>1, <1>2, <1>3, <1>4, <1>5

(* The lines read are some of the lines of the input.                      *)
LEMMA ReachedFacts ==
    ASSUME TypeInv
    PROVE  /\ Cardinality(Positions(input)) \in Nat /\ Cardinality(Reached) \in Nat
           /\ Cardinality(Reached) <= Cardinality(Positions(input))
           /\ IsFiniteSet(Reached) /\ Reached \subseteq Positions(input)
<1>1. input \in Inputs
  BY DEF TypeInv, WellPlaced
<1>2. IsFiniteSet(Positions(input)) /\ Reached \subseteq Positions(input)
  BY <1>1, PositionFacts DEF Reached, Before
<1> QED
  BY <1>2, FS_Subset, FS_CardinalityType

\* While a line is left, the numbers given leave room for one more.
LEMMA Room ==
    ASSUME TypeInv, Counted, HasLine
    PROVE  eqs + gts + lts + rets + 2 <= Cardinality(Positions(input))
<1>1. WellPlaced(input, fileNo, lineNo) /\ lineNo <= Len(input.files[fileNo].commands)
  BY DEF TypeInv, HasLine, File
<1> DEFINE p == <<fileNo, lineNo>>
<1>2. p \in Positions(input) /\ p \notin Reached
  BY <1>1, BeforeNext DEF Reached
<1>3. Reached \cup {p} \subseteq Positions(input) /\ IsFiniteSet(Reached)
      /\ IsFiniteSet(Positions(input))
  <2>1. input \in Inputs
    BY <1>1 DEF WellPlaced
  <2> QED
    BY <1>2, <2>1, ReachedFacts, PositionFacts
<1> HIDE DEF p
<1>4. Cardinality(Reached \cup {p}) = Cardinality(Reached) + 1
      /\ Cardinality(Reached \cup {p}) <= Cardinality(Positions(input))
  BY <1>2, <1>3, FS_AddElement, FS_Subset
<1>5. status # "written"
  BY DEF HasLine
<1>6. eqs + gts + lts + rets + 1 <= Cardinality(Reached)
  BY <1>5, ReachedFacts DEF Counted
<1>7. eqs \in Int /\ gts \in Int /\ lts \in Int /\ rets \in Int
  BY DEF TypeInv
<1> QED
  BY <1>4, <1>6, <1>7, ReachedFacts

\* The numbers given are among those NamesApart speaks of.
LEMMA IntroducedFacts ==
    ASSUME TypeInv, Counted
    PROVE  /\ \A l \in LabelFamilies : lastNumber(l) \in Numbers(input)
           /\ 0..rets \subseteq Numbers(input)
           /\ ComparisonNames \subseteq Comparisons(input)
           /\ ReturnNames \subseteq Returns(input)
           /\ OwnNames \subseteq Own(input)
<1> DEFINE N == Cardinality(Positions(input))
<1>1. N \in Nat /\ eqs \in 0..N /\ gts \in 0..N /\ lts \in 0..N /\ rets \in -1..N
  <2>1. eqs + gts + lts <= Cardinality(Reached) /\ rets <= Cardinality(Reached)
        /\ Cardinality(Reached) <= N /\ Cardinality(Reached) \in Nat
    BY ReachedFacts DEF Counted
  <2>2. eqs \in Nat /\ gts \in Nat /\ lts \in Nat /\ rets \in Int /\ -1 <= rets /\ N \in Nat
    BY ReachedFacts DEF TypeInv
  <2> QED
    BY <2>1, <2>2
<1>2. \A l \in LabelFamilies : lastNumber(l) \in Numbers(input)
  BY <1>1 DEF lastNumber, Numbers
<1>3. 0..rets \subseteq Numbers(input)
  BY <1>1 DEF Numbers
<1>4. ComparisonNames \subseteq Comparisons(input)
  <2>1. \A l \in LabelFamilies : 1..lastNumber(l) \subseteq Numbers(input)
    BY <1>1, <1>2 DEF Numbers
  <2> QED
    BY <2>1 DEF ComparisonNames, Comparisons
<1>5. ReturnNames \subseteq Returns(input)
  BY <1>3 DEF ReturnNames, Returns
<1>6. OwnNames \subseteq Own(input)
  BY DEF OwnNames, Own
<1> QED
  BY <1>2, <1>3, <1>4, <1>5, <1>6

-----------------------------------------------------------------------------
(* What a line adds to the names.                                          *)

(* Concatenation is associative.                                           *)
LEMMA ConcatenationAssociative ==
    ASSUME NEW r, NEW s, NEW t, IsSequence(r), IsSequence(s), IsSequence(t)
    PROVE  (r \o s) \o t = r \o (s \o t)
<1>1. PICK R : r \in Seq(R)
  BY DEF IsSequence
<1>2. PICK S : s \in Seq(S)
  BY DEF IsSequence
<1>3. PICK T : t \in Seq(T)
  BY DEF IsSequence
<1> DEFINE V == R \cup S \cup T
<1>4. r \in Seq(V) /\ s \in Seq(V) /\ t \in Seq(V)
  BY <1>1, <1>2, <1>3, SequenceMonotonic
<1> HIDE DEF V
<1> QED
  BY <1>4, ConcatAssociative

(* No lines add nothing.                                                   *)
LEMMA ConcatenationEmpty ==
    ASSUME NEW s, IsSequence(s)
    PROVE  s \o <<>> = s
<1>1. PICK S : s \in Seq(S)
  BY DEF IsSequence
<1> QED
  BY <1>1, ConcatEmptySeq

\* The declared names of a program.
DeclaredNames(D) ==
    /\ D \subseteq Introduced /\ OwnNames \subseteq D
    /\ Block(Text, D, Locations(input) \cup Targets(input) \cup D)

\* Position to be read.
Here == <<fileNo, lineNo>>

(* The line to be read, and what reading it does to the lines read.        *)
LEMMA HereFacts ==
    ASSUME TypeInv, HasLine
    PROVE  /\ Here \in Positions(input) /\ Here \notin Reached
           /\ Before(input, fileNo, lineNo + 1) = Reached \cup {Here}
           /\ WellPlaced(input, fileNo, lineNo + 1)
           /\ Given(input, Here) = Current /\ IsCommand(Current)
           /\ Scope(input, <<fileNo, lineNo + 1>>) =
                 IF Current.op = "function" THEN Current.name ELSE Scope(input, Here)
           /\ status = "translating"
<1>1. WellPlaced(input, fileNo, lineNo) /\ lineNo <= Len(input.files[fileNo].commands)
  BY DEF TypeInv, HasLine, File
<1>2. Given(input, Here) = Current
  BY DEF Here, Given, Current, File
<1>3. IsCommand(Current)
  <2>1. input \in Inputs /\ fileNo \in DOMAIN input.files
        /\ lineNo \in DOMAIN input.files[fileNo].commands
    BY <1>1, InputFacts DEF WellPlaced
  <2> QED
    BY <2>1, InputFacts DEF Current, File
<1>4. Scope(input, <<fileNo, lineNo + 1>>) =
                 IF Current.op = "function" THEN Current.name ELSE Scope(input, Here)
  BY <1>1, <1>2, ScopeNext DEF Here
<1> QED
  BY <1>1, <1>2, <1>3, <1>4, BeforeNext DEF Here, Reached, HasLine

(* One number more, whichever counter gives it.                            *)
LEMMA Counting ==
    ASSUME NEW c \in Int, NEW e \in Int, NEW g \in Int, NEW l \in Int, NEW r \in Int,
           NEW e1 \in Int, NEW g1 \in Int, NEW l1 \in Int, NEW r1 \in Int,
           e <= e1, g <= g1, l <= l1, r <= r1, e1 + g1 + l1 + r1 <= e + g + l + r + 1,
           e + g + l + r + 1 <= c, e + g + l <= c, r <= c
    PROVE  e1 + g1 + l1 <= c + 1 /\ r1 <= c + 1 /\ e1 + g1 + l1 + r1 + 1 <= c + 1
OBVIOUS

\* What a line adds to the names, whichever command it is.
LEMMA LineRead ==
    ASSUME IInv, HasLine,
           input' = input, fileNo' = fileNo, lineNo' = lineNo + 1, status' = status,
           eqs' \in Nat, gts' \in Nat, lts' \in Nat, rets' \in Int, -1 <= rets',
           eqs <= eqs', gts <= gts', lts <= lts', rets <= rets',
           eqs' + gts' + lts' + rets' <= eqs + gts + lts + rets + 1,
           function' = IF Current.op = "function" THEN Current.name ELSE function,
           Named'
    PROVE  IInv'
<1> USE DEF IInv
<1>1. TypeInv'
  BY HereFacts DEF TypeInv
<1>2. ReadsAll'
  BY HereFacts DEF ReadsAll
<1>3. Scoped'
  BY HereFacts DEF Scoped, Here
<1>4. Counted'
  <2>1. Reached' = Reached \cup {Here}
    BY HereFacts DEF Reached
  <2>2. Cardinality(Reached') = Cardinality(Reached) + 1
    <3>1. Here \notin Reached /\ IsFiniteSet(Reached)
      BY HereFacts, ReachedFacts
    <3> QED
      BY <2>1, <3>1, FS_AddElement
  <2>3. status' # "written" /\ status # "written"
    BY HereFacts
  <2>4. eqs + gts + lts + rets + 1 <= Cardinality(Reached)
        /\ eqs + gts + lts <= Cardinality(Reached) /\ rets <= Cardinality(Reached)
    BY <2>3 DEF Counted
  <2>5. Cardinality(Reached) \in Nat /\ eqs \in Nat /\ gts \in Nat /\ lts \in Nat
        /\ rets \in Int /\ -1 <= rets
    BY ReachedFacts DEF TypeInv
  <2>6. /\ eqs' + gts' + lts' <= Cardinality(Reached) + 1
        /\ rets' <= Cardinality(Reached) + 1
        /\ eqs' + gts' + lts' + rets' + 1 <= Cardinality(Reached) + 1
    <3>2. /\ eqs \in Int /\ gts \in Int /\ lts \in Int /\ rets \in Int
          /\ eqs' \in Int /\ gts' \in Int /\ lts' \in Int /\ rets' \in Int
      BY <2>5
    <3>3. PICK e \in Int, g \in Int, l \in Int, r \in Int :
              e = eqs /\ g = gts /\ l = lts /\ r = rets
      BY <3>2
    <3>4. PICK e1 \in Int, g1 \in Int, l1 \in Int, r1 \in Int :
              e1 = eqs' /\ g1 = gts' /\ l1 = lts' /\ r1 = rets'
      BY <3>2
    <3>5. PICK c \in Nat : c = Cardinality(Reached)
      BY <2>5
    <3>6. /\ e <= e1 /\ g <= g1 /\ l <= l1 /\ r <= r1
          /\ e1 + g1 + l1 + r1 <= e + g + l + r + 1
          /\ e + g + l + r + 1 <= c /\ e + g + l <= c /\ r <= c
      BY <2>4, <3>3, <3>4, <3>5
    <3>7. e1 + g1 + l1 <= c + 1 /\ r1 <= c + 1 /\ e1 + g1 + l1 + r1 + 1 <= c + 1
      BY <3>6, Counting
    <3> QED
      BY <3>4, <3>5, <3>7
  <2> QED
    BY <2>2, <2>6 DEF Counted
<1> QED
  BY <1>1, <1>2, <1>3, <1>4

(* No name introduced is lost, and a declaring line adds its own.          *)
LEMMA IntroducedGrows ==
    ASSUME TypeInv, HasLine, input' = input, fileNo' = fileNo, lineNo' = lineNo + 1,
           eqs' \in Nat, gts' \in Nat, lts' \in Nat, rets' \in Int, -1 <= rets',
           eqs <= eqs', gts <= gts', lts <= lts', rets <= rets'
    PROVE  /\ Introduced \subseteq Introduced'
           /\ OwnNames' = OwnNames \cup (IF Here \in Declaring(input)
                                         THEN {OwnName(input, Here)} ELSE {})
<1>1. Reached' = Reached \cup {Here}
  BY HereFacts DEF Reached
<1>2. OwnNames' = {OwnName(input, p) : p \in Declaring(input) \cap (Reached \cup {Here})}
  BY <1>1 DEF OwnNames
<1>3. OwnNames' = OwnNames \cup (IF Here \in Declaring(input)
                                         THEN {OwnName(input, Here)} ELSE {})
  BY <1>2 DEF OwnNames
<1>4. ComparisonNames \subseteq ComparisonNames'
  <2>1. \A l \in LabelFamilies : lastNumber(l) \in Nat /\ lastNumber(l)' \in Nat
                                 /\ lastNumber(l) <= lastNumber(l)'
    BY DEF lastNumber, TypeInv
  <2>2. \A l \in LabelFamilies : 1..lastNumber(l) \subseteq 1..lastNumber(l)'
    BY <2>1
  <2> QED
    BY <2>2 DEF ComparisonNames
<1>5. ReturnNames \subseteq ReturnNames'
  <2>1. 0..rets \subseteq 0..rets'
    BY DEF TypeInv
  <2> QED
    BY <2>1 DEF ReturnNames
<1> QED
  BY <1>3, <1>4, <1>5 DEF Introduced

\* A block of lines whose names are new joins the output.
LEMMA BlockEmitted ==
    ASSUME IInv, HasLine, Linked(input), NamesApart(input),
           NEW lines, output' = output \o lines, allLines' = allLines, status' = status,
           input' = input, fileNo' = fileNo, lineNo' = lineNo + 1,
           eqs' \in Nat, gts' \in Nat, lts' \in Nat, rets' \in Int, -1 <= rets',
           eqs <= eqs', gts <= gts', lts <= lts', rets <= rets',
           NEW E, E \subseteq Introduced', E \cap Introduced = {},
           Block(lines, E, Locations(input) \cup Targets(input) \cup E),
           Here \in Declaring(input) => OwnName(input, Here) \in E
    PROVE  Named'
<1> DEFINE names == Locations(input) \cup Targets(input)
<1>1. IsSequence(allLines) /\ IsSequence(output) /\ IsSequence(lines)
  BY DEF IInv, Named, Block
<1>2. PICK D : D \subseteq Introduced /\ OwnNames \subseteq D /\ Block(Text, D, names \cup D)
  BY DEF IInv, Named
<1>3. Text = allLines \o output /\ Text' = allLines \o (output \o lines)
  BY HereFacts DEF Text, IInv
<1>4. Text' = Text \o lines
  <2>1. (allLines \o output) \o lines = allLines \o (output \o lines)
    BY ONLY <1>1, ConcatenationAssociative
  <2> QED
    BY ONLY <1>3, <2>1
<1>5. D \cap E = {}
  BY <1>2
<1> HIDE DEF names
<1>6. Block(Text \o lines, D \cup E, (names \cup D) \cup (names \cup E))
  BY <1>2, <1>5, BlockConcatenation DEF names
<1>7. (names \cup D) \cup (names \cup E) = names \cup (D \cup E)
  OBVIOUS
<1>8. D \cup E \subseteq Introduced' /\ OwnNames' \subseteq D \cup E
  BY <1>2, IntroducedGrows DEF IInv
<1>9. IsSequence(output \o lines)
  BY <1>1, Concatenation
<1>10. names' = names
  BY DEF names
<1>11. D \cup E \in SUBSET Introduced' /\ OwnNames' \subseteq D \cup E
       /\ Block(Text', D \cup E, names' \cup (D \cup E))
  BY <1>4, <1>6, <1>7, <1>8, <1>10
<1> QED
  BY <1>1, <1>9, <1>11 DEF Named, names

-----------------------------------------------------------------------------
(* The commands that take no number.                                       *)

\* A command is translated to a block whose names are new.
LEMMA LineTranslated ==
    ASSUME IInv, NEW lines, Emit(lines),
           eqs' \in Nat, gts' \in Nat, lts' \in Nat, rets' \in Int, -1 <= rets',
           eqs <= eqs', gts <= gts', lts <= lts', rets <= rets',
           eqs' + gts' + lts' + rets' <= eqs + gts + lts + rets + 1,
           function' = IF Current.op = "function" THEN Current.name ELSE function,
           NEW E,
           Linked(input) /\ NamesApart(input) =>
              /\ E \subseteq Introduced' /\ E \cap Introduced = {}
              /\ Block(lines, E, Locations(input) \cup Targets(input) \cup E)
              /\ Here \in Declaring(input) => OwnName(input, Here) \in E
    PROVE  IInv'
<1>1. /\ HasLine /\ output' = output \o lines /\ lineNo' = lineNo + 1
      /\ input' = input /\ fileNo' = fileNo /\ allLines' = allLines /\ status' = status
  BY DEF Emit
<1>2. Named'
  <2>1. CASE Linked(input) /\ NamesApart(input)
    BY <1>1, <2>1, BlockEmitted
  <2>2. CASE ~(Linked(input) /\ NamesApart(input))
    BY <1>1, <2>2 DEF Named
  <2> QED
    BY <2>1, <2>2
<1> QED
  BY <1>1, <1>2, LineRead

(* The counters are numbers.                                               *)
LEMMA CountersTyped ==
    ASSUME IInv
    PROVE  /\ eqs \in Nat /\ gts \in Nat /\ lts \in Nat /\ rets \in Int /\ -1 <= rets
           /\ eqs + gts + lts + rets <= eqs + gts + lts + rets + 1
BY DEF IInv, TypeInv

\* The same for a command that takes no number and declares nothing.
LEMMA PlainLineTranslated ==
    ASSUME IInv, NEW lines, Emit(lines), UNCHANGED <<function, counters>>,
           Current.op \notin {"label", "function"},
           Linked(input) /\ NamesApart(input) =>
              Block(lines, {}, Locations(input) \cup Targets(input))
    PROVE  IInv'
<1>1. UNCHANGED <<eqs, gts, lts, rets, function>>
  BY DEF counters
<1>2. HasLine
  BY DEF Emit
<1>3. Here \notin Declaring(input)
  BY <1>2, HereFacts DEF IInv, Declaring
<1> DEFINE E == {}
           U == Locations(input) \cup Targets(input)
<1>4. E \subseteq Introduced' /\ E \cap Introduced = {} /\ U \cup E = U
  OBVIOUS
<1>5. function' = IF Current.op = "function" THEN Current.name ELSE function
  BY <1>1
<1>6. Linked(input) /\ NamesApart(input) =>
              /\ E \subseteq Introduced' /\ E \cap Introduced = {}
              /\ Block(lines, E, U \cup E)
              /\ Here \in Declaring(input) => OwnName(input, Here) \in E
  BY <1>3, <1>4
<1>7. /\ eqs' \in Nat /\ gts' \in Nat /\ lts' \in Nat /\ rets' \in Int /\ -1 <= rets'
      /\ eqs <= eqs' /\ gts <= gts' /\ lts <= lts' /\ rets <= rets'
      /\ eqs' + gts' + lts' + rets' <= eqs + gts + lts + rets + 1
  BY <1>1, CountersTyped
<1> HIDE DEF E
<1> QED
  BY <1>5, <1>6, <1>7, LineTranslated

(* Registers are locations of the RAM.                                     *)
LEMMA RegistersLocated == \A in : Registers \subseteq Locations(in)
BY RegistersPredefined DEF Locations

(* push and pop keep the invariant.                                        *)
LEMMA SegmentStep ==
    ASSUME IInv, VisitMemorySegment
    PROVE  IInv'
<1> DEFINE U == Locations(input) \cup Targets(input)
<1>1. HasLine /\ Current.op \in {"push", "pop"} /\ Emit(memorySegment(Current, File.name))
      /\ UNCHANGED <<function, counters>>
  BY DEF VisitMemorySegment
<1>2. Current.segment \in SegmentNames
  BY <1>1, HereFacts DEF IInv, IsCommand
<1>3. Current.segment = "static" => staticName(File.name, Current.value) \in U
  <2>1. Here \in Positions(input) /\ Given(input, Here) = Current /\ Here[1] = fileNo
    BY <1>1, HereFacts DEF IInv, Here
  <2>2. Current.segment = "static" =>
          staticName(input.files[Here[1]].name, Given(input, Here).value) \in Locations(input)
    BY <1>1, <2>1 DEF Locations
  <2> QED
    BY <2>1, <2>2 DEF File
<1>4. Registers \subseteq U
  BY RegistersLocated
<1> HIDE DEF U
<1>5. Block(memorySegment(Current, File.name), {}, U)
  BY <1>1, <1>2, <1>3, <1>4, SegmentBlock
<1> QED
  BY <1>1, <1>5, PlainLineTranslated DEF U

(* The operations without labels keep it.                                  *)
LEMMA LogicStep ==
    ASSUME IInv, VisitArithmeticLogic
    PROVE  IInv'
<1> DEFINE U == Locations(input) \cup Targets(input)
<1>1. /\ Current.op \in {"add", "sub", "neg", "and", "or", "not"}
      /\ Emit(arithmeticLogic(Current.op, 0)) /\ UNCHANGED <<function, counters>>
  BY DEF VisitArithmeticLogic
<1>2. "SP" \in U
  BY RegistersLocated DEF Registers
<1> HIDE DEF U
<1>3. Block(arithmeticLogic(Current.op, 0), {}, U)
  BY <1>1, <1>2, LogicBlock
<1>4. Current.op \notin {"label", "function"}
  BY <1>1
<1> QED
  BY <1>1, <1>3, <1>4, PlainLineTranslated DEF U

(* A return keeps it.                                                      *)
LEMMA ReturnStep ==
    ASSUME IInv, VisitReturn
    PROVE  IInv'
<1> DEFINE U == Locations(input) \cup Targets(input)
<1>1. Current.op = "return" /\ Emit(returnCode) /\ UNCHANGED <<function, counters>>
  BY DEF VisitReturn
<1>2. Registers \subseteq U
  BY RegistersLocated
<1> HIDE DEF U
<1>3. Block(returnCode, {}, U)
  BY <1>2, ReturnBlock
<1>4. Current.op \notin {"label", "function"}
  BY <1>1
<1> QED
  BY <1>1, <1>3, <1>4, PlainLineTranslated DEF U

\* The label of a branch, told from the position and from the state.
LEMMA ScopedHere ==
    ASSUME IInv, HasLine
    PROVE  ScopedLabel(input, Here) = fullLabel(File.name, function, Current.label)
<1>1. function = Scope(input, Here) /\ Given(input, Here) = Current /\ Here[1] = fileNo
  BY HereFacts DEF IInv, Scoped, Here
<1> QED
  BY <1>1 DEF ScopedLabel, File

(* A branch to a label of its function keeps it.                           *)
LEMMA GotoStep ==
    ASSUME IInv, VisitBranching, Current.op \in {"goto", "if-goto"}
    PROVE  IInv'
<1> DEFINE U == Locations(input) \cup Targets(input)
           label == fullLabel(File.name, function, Current.label)
<1>1. HasLine /\ Emit(branching(Current.op, label)) /\ UNCHANGED <<function, counters>>
  BY DEF VisitBranching
<1>2. label \in U
  <2>1. Here \in Branching(input)
    BY <1>1, HereFacts DEF IInv, Branching
  <2> QED
    BY <1>1, <2>1, ScopedHere DEF Targets
<1>3. "SP" \in U
  BY RegistersLocated DEF Registers
<1> HIDE DEF U, label
<1>4. Block(branching(Current.op, label), {}, U)
  BY <1>2, <1>3, BranchBlock
<1>5. Current.op \notin {"label", "function"}
  OBVIOUS
<1> QED
  BY <1>1, <1>4, <1>5, PlainLineTranslated DEF U

\* The name a line declares is new: no line before it has the same one, and
\* no number makes it.
LEMMA OwnNameFresh ==
    ASSUME IInv, HasLine, Linked(input), NamesApart(input), Here \in Declaring(input)
    PROVE  OwnName(input, Here) \notin Introduced
<1> DEFINE s == OwnName(input, Here)
<1>1. s \in Own(input)
  BY DEF Own
<1>2. s \notin ComparisonNames /\ s \notin ReturnNames
  BY <1>1, ApartFacts, IntroducedFacts DEF IInv
<1>3. s \notin OwnNames
  <2>1. ASSUME NEW p \in Declaring(input) \cap Reached, s = OwnName(input, p)
        PROVE  FALSE
    <3>1. p = Here
      BY <2>1 DEF Linked
    <3> QED
      BY <2>1, <3>1, HereFacts DEF IInv
  <2> QED
    BY <2>1 DEF OwnNames
<1> QED
  BY <1>2, <1>3 DEF Introduced

\* A command that declares its own name, and takes no number.
LEMMA OwnNameEmitted ==
    ASSUME IInv, NEW lines, Emit(lines), UNCHANGED counters,
           function' = IF Current.op = "function" THEN Current.name ELSE function,
           Current.op \in {"label", "function"},
           NEW s, s = OwnName(input, Here), Block(lines, {s}, Locations(input))
    PROVE  IInv'
<1> DEFINE U == Locations(input) \cup Targets(input)
           E == {s}
<1>1. UNCHANGED <<eqs, gts, lts, rets>> /\ HasLine /\ input' = input /\ fileNo' = fileNo
      /\ lineNo' = lineNo + 1
  BY DEF counters, Emit
<1>2. Here \in Declaring(input)
  BY <1>1, HereFacts DEF IInv, Declaring
<1>3. /\ eqs' \in Nat /\ gts' \in Nat /\ lts' \in Nat /\ rets' \in Int /\ -1 <= rets'
      /\ eqs <= eqs' /\ gts <= gts' /\ lts <= lts' /\ rets <= rets'
      /\ eqs' + gts' + lts' + rets' <= eqs + gts + lts + rets + 1
  BY <1>1, CountersTyped
<1>4. E \subseteq Introduced'
  <2>1. s \in OwnNames'
    BY <1>1, <1>2, <1>3, IntroducedGrows DEF IInv
  <2> QED
    BY <2>1 DEF Introduced
<1>5. Linked(input) /\ NamesApart(input) => E \cap Introduced = {}
  BY <1>1, <1>2, OwnNameFresh
<1>6. Block(lines, E, U \cup E)
  BY BlockMonotonic
<1>7. Linked(input) /\ NamesApart(input) =>
              /\ E \subseteq Introduced' /\ E \cap Introduced = {}
              /\ Block(lines, E, U \cup E)
              /\ Here \in Declaring(input) => OwnName(input, Here) \in E
  BY <1>4, <1>5, <1>6
<1> HIDE DEF E
<1> QED
  BY <1>3, <1>7, LineTranslated

(* A label of the function keeps it.                                       *)
LEMMA LabelStep ==
    ASSUME IInv, VisitBranching, Current.op = "label"
    PROVE  IInv'
<1> DEFINE label == fullLabel(File.name, function, Current.label)
<1>1. HasLine /\ Emit(branching(Current.op, label)) /\ UNCHANGED counters
      /\ function' = function
  BY DEF VisitBranching
<1>2. label = OwnName(input, Here)
  BY <1>1, ScopedHere, HereFacts DEF IInv, OwnName
<1>3. branching(Current.op, label) = <<Label(label)>>
  BY DEF branching
<1> HIDE DEF label
<1>4. Block(branching(Current.op, label), {label}, Locations(input))
  BY <1>3, LabelBlock, BlockMonotonic
<1> QED
  BY <1>1, <1>2, <1>4, OwnNameEmitted

(* A function keeps it, and its name is the scope of the lines that follow.*)
LEMMA FunctionStep ==
    ASSUME IInv, VisitFunction
    PROVE  IInv'
<1> DEFINE f == Current.name
<1>1. /\ HasLine /\ Current.op = "function" /\ Emit(functionCode(f, Current.nVars))
      /\ function' = f /\ UNCHANGED counters
  BY DEF VisitFunction
<1>2. f = OwnName(input, Here)
  BY <1>1, HereFacts DEF IInv, OwnName
<1>3. Current.nVars \in Nat
  <2>1. IsCommand(Current) /\ IsValidCommand(Current)
    BY <1>1, HereFacts DEF IInv, Emit
  <2> QED
    BY <1>1, <2>1 DEF IsCommand, IsValidCommand
<1>4. "SP" \in Locations(input)
  BY RegistersLocated DEF Registers
<1>5. Block(functionCode(f, Current.nVars), {f}, Locations(input))
  BY <1>3, <1>4, FunctionBlock
<1>6. function' = IF Current.op = "function" THEN Current.name ELSE function
  BY <1>1
<1> HIDE DEF f
<1> QED
  BY <1>1, <1>2, <1>5, <1>6, OwnNameEmitted

-----------------------------------------------------------------------------
(* The commands that take a number.                                        *)

(* A comparison keeps it: its number was given to none of its kind before. *)
LEMMA ComparisonStep ==
    ASSUME IInv, VisitComparison
    PROVE  IInv'
<1> DEFINE U == Locations(input) \cup Targets(input)
           op == Current.op
           n == CASE op = "eq" -> eqs' [] op = "gt" -> gts' [] OTHER -> lts'
           t == numbered(takenFamily(op), n)
           d == numbered(doneFamily(op), n)
           E == {t, d}
           Apart == Linked(input) /\ NamesApart(input)
<1>1. /\ HasLine /\ op \in {"eq", "gt", "lt"} /\ Emit(arithmeticLogic(op, n))
      /\ eqs' = IF op = "eq" THEN eqs + 1 ELSE eqs
      /\ gts' = IF op = "gt" THEN gts + 1 ELSE gts
      /\ lts' = IF op = "lt" THEN lts + 1 ELSE lts
      /\ function' = function /\ rets' = rets
  BY DEF VisitComparison
<1>2. eqs \in Nat /\ gts \in Nat /\ lts \in Nat /\ rets \in Int /\ -1 <= rets
  BY CountersTyped
<1>3. /\ eqs' \in Nat /\ gts' \in Nat /\ lts' \in Nat /\ rets' \in Int /\ -1 <= rets'
      /\ eqs <= eqs' /\ gts <= gts' /\ lts <= lts' /\ rets <= rets'
      /\ eqs' + gts' + lts' + rets' <= eqs + gts + lts + rets + 1
  <2>1. CASE op = "eq"
    <3>1. eqs' = eqs + 1 /\ gts' = gts /\ lts' = lts /\ rets' = rets
      BY <1>1, <2>1
    <3> HIDE DEF op
    <3> QED
      BY ONLY <1>2, <3>1
  <2>2. CASE op = "gt"
    <3>1. eqs' = eqs /\ gts' = gts + 1 /\ lts' = lts /\ rets' = rets
      BY <1>1, <2>2
    <3> HIDE DEF op
    <3> QED
      BY ONLY <1>2, <3>1
  <2>3. CASE op = "lt"
    <3>1. eqs' = eqs /\ gts' = gts /\ lts' = lts + 1 /\ rets' = rets
      BY <1>1, <2>3
    <3> HIDE DEF op
    <3> QED
      BY ONLY <1>2, <3>1
  <2> QED
    BY <1>1, <2>1, <2>2, <2>3
\* Both families of a comparison are numbered by its counter.
<1>4. ASSUME NEW family \in {takenFamily(op), doneFamily(op)}
      PROVE  /\ family \in LabelFamilies
             /\ lastNumber(family)' = n /\ lastNumber(family) = n - 1
  <2>1. CASE op = "eq"
    <3>1. family \in {"EQ_NOT_EQUAL", "EQ_DONE"} /\ n = eqs'
      BY <2>1 DEF takenFamily, doneFamily
    <3>2. eqs' = eqs + 1
      BY <1>1, <2>1
    <3> HIDE DEF n, op
    <3> QED
      BY <1>2, <3>1, <3>2 DEF lastNumber, LabelFamilies
  <2>2. CASE op = "gt"
    <3>1. family \in {"GT_THAN_ZERO", "GT_DONE"} /\ n = gts'
      BY <2>2 DEF takenFamily, doneFamily
    <3>2. gts' = gts + 1
      BY <1>1, <2>2
    <3> HIDE DEF n, op
    <3> QED
      BY <1>2, <3>1, <3>2 DEF lastNumber, LabelFamilies
  <2>3. CASE op = "lt"
    <3>1. family \in {"LT_THAN_ZERO", "LT_DONE"} /\ n = lts'
      BY <2>3 DEF takenFamily, doneFamily
    <3>2. lts' = lts + 1
      BY <1>1, <2>3
    <3> HIDE DEF n, op
    <3> QED
      BY <1>2, <3>1, <3>2 DEF lastNumber, LabelFamilies
  <2> QED
    BY <1>1, <2>1, <2>2, <2>3
<1>5. n \in Nat \ {0} /\ n <= eqs + gts + lts + 1
  <2>1. n \in {eqs + 1, gts + 1, lts + 1}
    BY <1>1
  <2> HIDE DEF n
  <2> QED
    BY <1>2, <2>1
<1>6. n \in Numbers(input)
  <2>1. eqs + gts + lts + rets + 2 <= Cardinality(Positions(input))
    BY <1>1, Room DEF IInv
  <2>2. Cardinality(Positions(input)) \in Nat
    BY ReachedFacts DEF IInv
  <2> HIDE DEF n
  <2>3. n <= Cardinality(Positions(input))
    BY <1>2, <1>5, <2>1, <2>2
  <2> QED
    BY <1>5, <2>2, <2>3 DEF Numbers
<1>7. takenFamily(op) # doneFamily(op)
  BY <1>1 DEF takenFamily, doneFamily
<1>8. E \subseteq Introduced'
  <2>1. \A family \in {takenFamily(op), doneFamily(op)} :
            numbered(family, n) \in ComparisonNames'
    <3> HIDE DEF n, op
    <3>1. n \in 1..n
      BY <1>5
    <3> QED
      BY <1>4, <3>1 DEF ComparisonNames
  <2> QED
    BY <2>1 DEF Introduced
<1> HIDE DEF n, op
<1>9. ASSUME Apart
      PROVE  E \cap Introduced = {}
  <2> SUFFICES ASSUME NEW family \in {takenFamily(op), doneFamily(op)},
                      numbered(family, n) \in Introduced
               PROVE  FALSE
    OBVIOUS
  <2>1. numbered(family, n) \in Comparisons(input)
    BY <1>4, <1>6 DEF Comparisons
  <2>2. numbered(family, n) \notin ReturnNames /\ numbered(family, n) \notin OwnNames
    BY <1>9, <2>1, ApartFacts, IntroducedFacts DEF IInv
  <2>3. PICK l \in LabelFamilies : \E m \in 1..lastNumber(l) : numbered(family, n) = numbered(l, m)
    BY <2>2 DEF Introduced, ComparisonNames
  <2>4. PICK m \in 1..lastNumber(l) : numbered(family, n) = numbered(l, m)
    BY <2>3
  <2>5. lastNumber(l) \in Nat /\ lastNumber(l) \in Numbers(input)
    <3>1. lastNumber(l) \in Numbers(input)
      BY IntroducedFacts DEF IInv
    <3> QED
      BY <3>1 DEF Numbers
  <2>6. m \in Numbers(input)
    <3>1. Cardinality(Positions(input)) \in Nat
      BY ReachedFacts DEF IInv
    <3> QED
      BY <2>5, <3>1 DEF Numbers
  <2>7. family = l /\ n = m
    <3>1. \A k1, l1 \in LabelFamilies, m1, n1 \in Numbers(input) :
              numbered(k1, m1) = numbered(l1, n1) => k1 = l1 /\ m1 = n1
      BY <1>9, ApartFacts
    <3> QED
      BY <1>4, <1>6, <2>4, <2>6, <3>1
  <2>8. lastNumber(l) = n - 1
    BY <1>4, <2>7
  <2> QED
    BY <1>5, <2>4, <2>5, <2>7, <2>8
<1>10. ASSUME Apart
       PROVE  Block(arithmeticLogic(op, n), E, U \cup E)
  <2>1. \A k1, l1 \in LabelFamilies, m1, n1 \in Numbers(input) :
              numbered(k1, m1) = numbered(l1, n1) => k1 = l1 /\ m1 = n1
    BY <1>10, ApartFacts
  <2>2. t # d
    BY <1>4, <1>6, <1>7, <2>1
  <2>3. "SP" \in U
    BY RegistersLocated DEF Registers
  <2>4. op \in {"eq", "gt", "lt"}
    BY <1>1
  <2> HIDE DEF U
  <2> QED
    BY <2>2, <2>3, <2>4, ComparisonBlock
<1>11. Here \notin Declaring(input)
  BY <1>1, HereFacts DEF IInv, Declaring, op
<1>12. function' = IF Current.op = "function" THEN Current.name ELSE function
  BY <1>1 DEF op
<1>13. Apart =>
              /\ E \subseteq Introduced' /\ E \cap Introduced = {}
              /\ Block(arithmeticLogic(op, n), E, U \cup E)
              /\ Here \in Declaring(input) => OwnName(input, Here) \in E
  BY <1>8, <1>9, <1>10, <1>11
<1> HIDE DEF E
<1> QED
  BY <1>1, <1>3, <1>12, <1>13, LineTranslated

\* A number not yet given makes a new return address.
LEMMA ReturnFresh ==
    ASSUME TypeInv, Counted, NamesApart(input), rets + 1 \in Numbers(input),
           NEW f \in Callees(input)
    PROVE  /\ returnAddress(f, rets + 1) \notin Introduced
           /\ returnAddress(f, rets + 1) \in Returns(input)
<1> DEFINE s == returnAddress(f, rets + 1)
<1>1. s \in Returns(input)
  BY DEF Returns
<1>2. s \notin ComparisonNames /\ s \notin OwnNames
  BY <1>1, ApartFacts, IntroducedFacts
<1>3. s \notin ReturnNames
  <2>1. ASSUME NEW g \in Callees(input), NEW m \in 0..rets, s = returnAddress(g, m)
        PROVE  FALSE
    <3>1. m \in Numbers(input)
      BY IntroducedFacts
    <3>2. \A f1, g1 \in Callees(input), m1, n1 \in Numbers(input) :
              returnAddress(f1, m1) = returnAddress(g1, n1) => m1 = n1
      BY ApartFacts
    <3>3. rets + 1 = m
      BY <2>1, <3>1, <3>2
    <3> QED
      BY <2>1, <3>3 DEF TypeInv
  <2> QED
    BY <2>1 DEF ReturnNames
<1> QED
  BY <1>1, <1>2, <1>3 DEF Introduced

(* A call keeps it: no call of any file before has its number.             *)
LEMMA CallStep ==
    ASSUME IInv, VisitCall
    PROVE  IInv'
<1> DEFINE U == Locations(input) \cup Targets(input)
           f == Current.name
           lines == callCode(f, Current.nArgs, rets')
           s == returnAddress(f, rets')
           E == {s}
           Apart == Linked(input) /\ NamesApart(input)
<1>1. /\ HasLine /\ Current.op = "call" /\ rets' = rets + 1 /\ Emit(lines)
      /\ function' = function /\ eqs' = eqs /\ gts' = gts /\ lts' = lts
  BY DEF VisitCall
<1>2. eqs \in Nat /\ gts \in Nat /\ lts \in Nat /\ rets \in Int /\ -1 <= rets
  BY CountersTyped
<1>3. /\ eqs' \in Nat /\ gts' \in Nat /\ lts' \in Nat /\ rets' \in Int /\ -1 <= rets'
      /\ eqs <= eqs' /\ gts <= gts' /\ lts <= lts' /\ rets <= rets'
      /\ eqs' + gts' + lts' + rets' <= eqs + gts + lts + rets + 1
  <2>1. rets' = rets + 1 /\ eqs' = eqs /\ gts' = gts /\ lts' = lts
    BY <1>1
  <2> QED
    BY ONLY <1>2, <2>1
<1>4. f \in Callees(input)
  <2>1. Here \in Calling(input)
    BY <1>1, HereFacts DEF IInv, Calling
  <2> QED
    BY <1>1, <2>1, HereFacts DEF IInv, Callees
<1>5. rets + 1 \in Numbers(input)
  <2>1. eqs + gts + lts + rets + 2 <= Cardinality(Positions(input))
    BY <1>1, Room DEF IInv
  <2>2. Cardinality(Positions(input)) \in Nat
    BY ReachedFacts DEF IInv
  <2> QED
    BY <1>2, <2>1, <2>2 DEF Numbers
<1>6. s \in Introduced'
  <2>1. input' = input
    BY <1>1 DEF Emit
  <2>2. rets' \in 0..rets' /\ f \in Callees(input)'
    BY <1>1, <1>2, <1>4, <2>1
  <2>3. s \in ReturnNames'
    BY <2>1, <2>2 DEF ReturnNames
  <2> QED
    BY <2>3 DEF Introduced
<1>7. ASSUME Apart PROVE E \cap Introduced = {}
  BY <1>1, <1>4, <1>5, <1>7, ReturnFresh DEF IInv
<1>8. Block(lines, E, U \cup E)
  <2>1. Registers \subseteq U \cup E
    BY RegistersLocated
  <2>2. f \in U \cup E /\ s \in U \cup E
    BY <1>4 DEF Targets
  <2> HIDE DEF U
  <2> QED
    BY <2>1, <2>2, CallBlock
<1>9. Here \notin Declaring(input)
  BY <1>1, HereFacts DEF IInv, Declaring
<1>10. function' = IF Current.op = "function" THEN Current.name ELSE function
  BY <1>1
<1>11. Apart =>
              /\ E \subseteq Introduced' /\ E \cap Introduced = {}
              /\ Block(lines, E, U \cup E)
              /\ Here \in Declaring(input) => OwnName(input, Here) \in E
  BY <1>6, <1>7, <1>8, <1>9
<1> HIDE DEF E, lines
<1> QED
  BY <1>1, <1>3, <1>10, <1>11, LineTranslated

-----------------------------------------------------------------------------
(* The invariant, and what follows.                                        *)

(* Blank lines keep it.                                                    *)
LEMMA SkipStep ==
    ASSUME IInv, SkipLine
    PROVE  IInv'
<1>1. /\ HasLine /\ Current.op = "none" /\ lineNo' = lineNo + 1
      /\ UNCHANGED <<input, fileNo, function, eqs, gts, lts, rets, output, allLines, status>>
  BY DEF SkipLine, NoCommand, counters
<1>2. /\ eqs \in Nat /\ gts \in Nat /\ lts \in Nat /\ rets \in Int /\ -1 <= rets
      /\ eqs + gts + lts + rets <= eqs + gts + lts + rets + 1
  BY CountersTyped
<1>3. /\ eqs' \in Nat /\ gts' \in Nat /\ lts' \in Nat /\ rets' \in Int /\ -1 <= rets'
      /\ eqs <= eqs' /\ gts <= gts' /\ lts <= lts' /\ rets <= rets'
      /\ eqs' + gts' + lts' + rets' <= eqs + gts + lts + rets + 1
  BY <1>1, <1>2
<1>4. function' = IF Current.op = "function" THEN Current.name ELSE function
  BY <1>1
<1>5. Here \notin Declaring(input)
  BY <1>1, HereFacts DEF IInv, Declaring
<1>6. Introduced \subseteq Introduced' /\ OwnNames' = OwnNames
  BY <1>1, <1>3, <1>5, IntroducedGrows DEF IInv
<1>7. Named'
  <2>1. Text' = Text
    BY <1>1 DEF Text
  <2> QED
    BY <1>1, <1>6, <2>1 DEF IInv, Named
<1> QED
  BY <1>1, <1>3, <1>4, <1>7, LineRead

(* A refused line leaves what was written.                                 *)
LEMMA RejectStep ==
    ASSUME IInv, RejectLine
    PROVE  IInv'
<1>1. /\ HasLine /\ status' = "refused" /\ status = "translating"
      /\ UNCHANGED <<input, fileNo, lineNo, function, eqs, gts, lts, rets, output, allLines>>
  BY DEF RejectLine, counters, HasLine
<1>2. TypeInv' /\ ReadsAll' /\ Scoped'
  BY <1>1 DEF IInv, TypeInv, ReadsAll, Scoped
<1>3. Reached' = Reached /\ Introduced' = Introduced /\ OwnNames' = OwnNames /\ Text' = Text
  BY <1>1 DEF Reached, Introduced, OwnNames, ComparisonNames, ReturnNames, lastNumber, Text
<1>4. Counted'
  BY <1>1, <1>3 DEF IInv, Counted
<1>5. Named'
  BY <1>1, <1>3 DEF IInv, Named
<1> QED
  BY <1>2, <1>4, <1>5 DEF IInv

(* The end of a file keeps it: the counters go on in the next one.         *)
LEMMA NextFileStep ==
    ASSUME IInv, NextFile
    PROVE  IInv'
<1>1. /\ status = "translating" /\ lineNo > Len(input.files[fileNo].commands)
      /\ allLines' = allLines \o output
      /\ UNCHANGED <<input, eqs, gts, lts, rets>>
      /\ WellPlaced(input, fileNo, lineNo)
  BY DEF NextFile, counters, File, IInv, TypeInv
<1>2. \/ /\ fileNo < Len(input.files) /\ fileNo' = fileNo + 1 /\ lineNo' = 1
         /\ function' = Scope(input, <<fileNo + 1, 1>>) /\ output' = <<>> /\ status' = status
      \/ /\ fileNo = Len(input.files)
         /\ status' = "joined" /\ UNCHANGED <<fileNo, lineNo, function, output>>
  <2>1. fileNo \in 1..Len(input.files) /\ Len(input.files) \in Nat
    BY <1>1, InputFacts DEF WellPlaced
  <2>2. CASE fileNo < Len(input.files)
    <3>1. /\ fileNo' = fileNo + 1 /\ lineNo' = 1 /\ output' = <<>> /\ status' = status
          /\ function' = ""
      BY <2>2, Zenon DEF NextFile
    <3> QED
      BY <2>2, <3>1, ScopeFirst, Zenon
  <2>3. CASE ~(fileNo < Len(input.files))
    <3>1. status' = "joined" /\ UNCHANGED <<fileNo, lineNo, function, output>>
      BY <2>3, Zenon DEF NextFile
    <3>2. fileNo = Len(input.files)
      BY <2>1, <2>3
    <3> QED
      BY <3>1, <3>2
  <2> QED
    BY <2>2, <2>3
<1>3. Reached' = Reached /\ WellPlaced(input, fileNo', lineNo')
  BY <1>1, <1>2, BeforeNextFile DEF Reached
<1>4. TypeInv'
  BY <1>1, <1>2, <1>3 DEF IInv, TypeInv
<1>5. ReadsAll'
  BY <1>1, <1>2 DEF ReadsAll, File
<1>6. Counted'
  BY <1>1, <1>2, <1>3 DEF IInv, Counted
<1>7. Scoped'
  BY <1>1, <1>2 DEF Scoped
<1>8. Introduced' = Introduced /\ OwnNames' = OwnNames
  BY <1>1, <1>3 DEF Introduced, OwnNames, ComparisonNames, ReturnNames, lastNumber
<1>9. Named'
  <2> SUFFICES ASSUME Linked(input), NamesApart(input)
               PROVE  /\ IsSequence(allLines') /\ IsSequence(output') /\ Text' = Text
    BY <1>1, <1>8 DEF IInv, Named
  <2>1. IsSequence(allLines) /\ IsSequence(output)
    BY DEF IInv, Named
  <2>2. IsSequence(allLines')
    BY <1>1, <2>1, Concatenation
  <2>3. Text = allLines \o output
    BY <1>1 DEF Text
  <2>4. CASE output' = <<>> /\ status' = status
    <3>1. IsSequence(<<>>)
      <4>1. <<>> \in Seq({})
        OBVIOUS
      <4> QED
        BY <4>1 DEF IsSequence
    <3>2. Text' = allLines' \o <<>>
      BY <1>1, <2>4 DEF Text
    <3> QED
      BY <1>1, <2>2, <2>3, <2>4, <3>1, <3>2, ConcatenationEmpty
  <2>5. CASE output' = output /\ status' = "joined"
    <3>1. Text' = allLines'
      BY <2>5 DEF Text
    <3> QED
      BY <1>1, <2>1, <2>2, <2>3, <2>5, <3>1
  <2> QED
    BY <1>2, <2>4, <2>5
<1> QED
  BY <1>4, <1>5, <1>6, <1>7, <1>9 DEF IInv

(* The bootstrap code keeps it: its call takes the number after the last.  *)
LEMMA WriteStep ==
    ASSUME IInv, WriteToFile
    PROVE  IInv'
<1>1. /\ status = "joined" /\ status' = "written"
      /\ UNCHANGED <<input, fileNo, lineNo, function, eqs, gts, lts, output>>
      /\ \/ /\ input.directory /\ rets' = rets + 1
            /\ allLines' = bootstrapCode(rets') \o allLines
         \/ UNCHANGED <<rets, allLines>>
  BY DEF WriteToFile
<1>2. TypeInv' /\ ReadsAll' /\ Scoped'
  BY <1>1 DEF IInv, TypeInv, ReadsAll, Scoped, File
<1>3. Reached' = Reached /\ OwnNames' = OwnNames
  BY <1>1 DEF Reached, OwnNames
<1>4. Counted'
  <2>1. /\ eqs + gts + lts <= Cardinality(Reached)
        /\ eqs + gts + lts + rets + 1 <= Cardinality(Reached)
        /\ rets <= Cardinality(Reached)
    BY <1>1 DEF IInv, Counted
  <2>2. Cardinality(Reached) \in Nat /\ eqs \in Nat /\ gts \in Nat /\ lts \in Nat /\ rets \in Int
    BY ReachedFacts DEF IInv, TypeInv
  <2>3. rets + 1 <= Cardinality(Reached)
    BY <2>1, <2>2
  <2> QED
    BY <1>1, <1>3, <2>1, <2>3 DEF Counted
<1>5. ComparisonNames' = ComparisonNames
  BY <1>1 DEF ComparisonNames, lastNumber
<1>6. Named'
  <2> SUFFICES ASSUME Linked(input), NamesApart(input)
               PROVE  Named'
    BY <1>1 DEF Named
  <2> DEFINE names == Locations(input) \cup Targets(input)
  <2>1. IsSequence(allLines) /\ IsSequence(output)
    BY DEF IInv, Named
  <2>2. PICK D : D \subseteq Introduced /\ OwnNames \subseteq D /\ Block(Text, D, names \cup D)
    BY DEF IInv, Named
  <2>3. Text = allLines /\ Text' = allLines'
    BY <1>1 DEF Text
  <2>4. CASE UNCHANGED <<rets, allLines>>
    <3>1. Introduced' = Introduced
      BY <1>1, <1>3, <1>5, <2>4 DEF Introduced, ReturnNames
    <3> QED
      BY <1>1, <1>3, <2>1, <2>2, <2>3, <2>4, <3>1 DEF Named
  <2>5. CASE input.directory /\ rets' = rets + 1 /\ allLines' = bootstrapCode(rets') \o allLines
    <3> DEFINE s == returnAddress("Sys.init", rets')
               E == {s}
    <3>1. "Sys.init" \in Callees(input)
      BY <2>5 DEF Callees
    <3>2. rets + 1 \in Numbers(input)
      <4>1. rets + 1 <= Cardinality(Reached) /\ Cardinality(Reached) <= Cardinality(Positions(input))
        <5>1. eqs + gts + lts + rets + 1 <= Cardinality(Reached)
          BY <1>1 DEF IInv, Counted
        <5>2. Cardinality(Reached) \in Nat /\ eqs \in Nat /\ gts \in Nat /\ lts \in Nat /\ rets \in Int
          BY ReachedFacts DEF IInv, TypeInv
        <5> QED
          BY <5>1, <5>2, ReachedFacts DEF IInv
      <4>2. rets \in Int /\ -1 <= rets /\ Cardinality(Positions(input)) \in Nat
            /\ Cardinality(Reached) \in Nat
        BY ReachedFacts DEF IInv, TypeInv
      <4> QED
        BY <4>1, <4>2 DEF Numbers
    <3>3. E \cap Introduced = {}
      BY <2>5, <3>1, <3>2, ReturnFresh DEF IInv
    <3>4. Introduced \subseteq Introduced' /\ s \in Introduced'
      <4>1. rets \in Int /\ -1 <= rets
        BY DEF IInv, TypeInv
      <4>2. 0..rets \subseteq 0..rets' /\ rets' \in 0..rets'
        BY <2>5, <4>1
      <4>3. input' = input
        BY <1>1
      <4>4. ReturnNames \subseteq ReturnNames' /\ s \in ReturnNames'
        BY <3>1, <4>2, <4>3 DEF ReturnNames
      <4> QED
        BY <1>3, <1>5, <4>4 DEF Introduced
    <3>5. Block(bootstrapCode(rets'), E, names \cup E)
      <4>1. Registers \subseteq names \cup E
        BY RegistersLocated
      <4>2. "Sys.init" \in names \cup E /\ s \in names \cup E
        BY <3>1 DEF Targets
      <4> HIDE DEF names
      <4> QED
        BY <4>1, <4>2, BootstrapBlock
    <3>6. IsSequence(bootstrapCode(rets')) /\ E \cap D = {}
      BY <2>2, <3>3, <3>5 DEF Block
    <3> HIDE DEF names, E
    <3>7. Block(bootstrapCode(rets') \o allLines, E \cup D, (names \cup E) \cup (names \cup D))
      BY <2>2, <2>3, <3>5, <3>6, BlockConcatenation
    <3>8. (names \cup E) \cup (names \cup D) = names \cup (E \cup D)
      OBVIOUS
    <3>9. /\ E \cup D \in SUBSET Introduced' /\ OwnNames' \subseteq E \cup D
          /\ Block(Text', E \cup D, names \cup (E \cup D))
      BY <1>3, <2>2, <2>3, <2>5, <3>4, <3>7, <3>8 DEF E
    <3>10. IsSequence(allLines') /\ IsSequence(output')
      BY <1>1, <2>1, <2>5, <3>6, Concatenation
    <3>11. names' = names
      BY <1>1 DEF names
    <3> QED
      BY <3>9, <3>10, <3>11 DEF Named, names
  <2> QED
    BY <1>1, <2>4, <2>5
<1> QED
  BY <1>2, <1>4, <1>6 DEF IInv

(* The invariant holds before the first line.                              *)
LEMMA InitInv == Init => IInv
<1> HAVE Init
<1>1. /\ input \in Inputs /\ fileNo = 1 /\ lineNo = 1
      /\ eqs = 0 /\ gts = 0 /\ lts = 0 /\ rets = -1
      /\ output = <<>> /\ allLines = <<>> /\ status = "translating"
  BY DEF Init
<1>2. WellPlaced(input, fileNo, lineNo)
  <2>1. 1 \in DOMAIN input.files
    BY <1>1, InputFacts
  <2>2. Len(input.files[1].commands) \in Nat
    BY <1>1, <2>1, InputFacts
  <2> QED
    BY <1>1, <2>1, <2>2 DEF WellPlaced
<1>3. TypeInv /\ ReadsAll
  BY <1>1, <1>2 DEF TypeInv, ReadsAll
<1>4. Scoped
  <2>1. function = "" /\ fileNo = 1 /\ lineNo = 1
    BY DEF Init
  <2> QED
    BY <2>1, ScopeFirst, Zenon DEF Scoped
<1>5. Counted
  <2>1. Cardinality(Reached) \in Nat
    BY <1>3, ReachedFacts
  <2> QED
    BY <1>1, <2>1 DEF Counted
<1>6. Reached = {}
  <2>1. \A p \in Positions(input) : p[1] \in Nat /\ p[2] \in Nat /\ p[1] >= 1 /\ p[2] >= 1
    <3> TAKE p \in Positions(input)
    <3>1. p = <<p[1], p[2]>> /\ p[1] \in Nat /\ p[2] \in Nat
      BY <1>1, PositionFacts
    <3>2. p[1] \in DOMAIN input.files /\ p[2] \in DOMAIN input.files[p[1]].commands
      BY <1>1, <3>1, PositionFacts
    <3> QED
      BY <1>1, <3>1, <3>2, InputFacts
  <2> QED
    BY <1>1, <2>1 DEF Reached, Before
<1>7. Named
  <2>1. OwnNames = {}
    BY <1>6 DEF OwnNames
  <2>2. Text = <<>>
    BY <1>1 DEF Text
  <2>3. IsSequence(<<>>) /\ DOMAIN <<>> = {}
    <3>1. <<>> \in Seq({}) /\ DOMAIN <<>> = {}
      OBVIOUS
    <3> QED
      BY <3>1 DEF IsSequence
  <2>4. Block(<<>>, {}, Locations(input) \cup Targets(input) \cup {})
    BY <2>3, QuietBlock
  <2> QED
    BY <1>1, <2>1, <2>2, <2>3, <2>4 DEF Named
<1> QED
  BY <1>3, <1>4, <1>5, <1>7 DEF IInv

(* Every step keeps it.                                                    *)
LEMMA NextInv == IInv /\ [Translating]_translatorVars => IInv'
<1> SUFFICES ASSUME IInv, [Translating]_translatorVars PROVE IInv'
  OBVIOUS
<1>1. CASE RejectLine
  BY <1>1, RejectStep
<1>2. CASE SkipLine
  BY <1>2, SkipStep
<1>3. CASE VisitMemorySegment
  BY <1>3, SegmentStep
<1>4. CASE VisitComparison
  BY <1>4, ComparisonStep
<1>5. CASE VisitArithmeticLogic
  BY <1>5, LogicStep
<1>6. CASE VisitBranching
  BY <1>6, LabelStep, GotoStep DEF VisitBranching
<1>7. CASE VisitFunction
  BY <1>7, FunctionStep
<1>8. CASE VisitReturn
  BY <1>8, ReturnStep
<1>9. CASE VisitCall
  BY <1>9, CallStep
<1>10. CASE NextFile
  BY <1>10, NextFileStep
<1>11. CASE WriteToFile
  BY <1>11, WriteStep
<1>12. CASE UNCHANGED translatorVars
  <2>1. UNCHANGED <<input, fileNo, lineNo, function, eqs, gts, lts, rets, output, allLines, status>>
    BY <1>12 DEF translatorVars
  <2>2. TypeInv' /\ ReadsAll' /\ Scoped'
    BY <2>1 DEF IInv, TypeInv, ReadsAll, Scoped, File
  <2>3. Reached' = Reached /\ Introduced' = Introduced /\ OwnNames' = OwnNames /\ Text' = Text
    BY <2>1 DEF Reached, Introduced, OwnNames, ComparisonNames, ReturnNames, lastNumber, Text
  <2>4. Counted'
    BY <2>1, <2>3 DEF IInv, Counted
  <2>5. Named'
    BY <2>1, <2>3 DEF IInv, Named
  <2> QED
    BY <2>2, <2>4, <2>5 DEF IInv
<1> QED
  BY <1>1, <1>2, <1>3, <1>4, <1>5, <1>6, <1>7, <1>8, <1>9, <1>10, <1>11, <1>12 DEF Translating

(* The invariant implies the property.                                     *)
LEMMA ResolvesOnce == IInv => JumpsResolveOnce
<1> SUFFICES ASSUME IInv, status = "written", Linked(input), NamesApart(input),
                    NEW i \in DOMAIN allLines, allLines[i].op = "symbol"
             PROVE  Cardinality({j \in DOMAIN allLines : allLines[j] = Label(allLines[i].name)})
                        = IF allLines[i].name \in Locations(input) THEN 0 ELSE 1
  BY DEF JumpsResolveOnce
<1> DEFINE s == allLines[i].name
           declarations == {j \in DOMAIN allLines : allLines[j] = Label(s)}
<1>1. PICK D : /\ D \subseteq Introduced /\ OwnNames \subseteq D
               /\ Block(allLines, D, Locations(input) \cup Targets(input) \cup D)
  BY DEF IInv, Named, Text
<1>2. OwnNames = Own(input)
  <2>1. Reached = Positions(input)
    BY BeforeEnd DEF IInv, TypeInv, ReadsAll, Reached, File
  <2> QED
    BY <2>1 DEF OwnNames, Own, Declaring
<1>3. Targets(input) \subseteq D
  BY <1>1, <1>2 DEF Linked, Own
<1>4. D \cap Locations(input) = {}
  <2>1. Introduced \subseteq Comparisons(input) \cup Returns(input) \cup Own(input)
    BY IntroducedFacts DEF IInv, Introduced
  <2> QED
    BY <1>1, <2>1, ApartFacts
<1>5. s \in Locations(input) \/ s \in D
  <2>1. Uses(allLines, s)
    BY <1>1 DEF Block, Tidy, Uses
  <2> QED
    BY <1>1, <1>3, <2>1 DEF Block
<1>6. CASE s \in Locations(input)
  <2>1. declarations = {}
    BY <1>1, <1>4, <1>6 DEF Block, Declares
  <2> QED
    BY <1>6, <2>1, FS_EmptySet
<1>7. CASE s \in D
  <2>1. PICK j \in DOMAIN allLines : allLines[j] = Label(s)
    BY <1>1, <1>7 DEF Block, Declares
  <2>2. \A k \in declarations : k = j
    <3>1. Label(s).op = "label"
      BY DEF Label
    <3> QED
      BY <1>1, <2>1, <3>1 DEF Block, Once
  <2>3. declarations = {j}
    BY <2>1, <2>2
  <2> QED
    BY <1>4, <1>7, <2>3, FS_Singleton
<1> QED
  BY <1>5, <1>6, <1>7

(* In a written program whose functions and labels are declared, every     *)
(* symbol that is no location of the RAM is declared by exactly one line,  *)
(* and no location by any: the numbers the static counters give, the scope *)
(* of the builder and the bootstrap code never make two labels of one name.*)
THEOREM JumpsResolve == TranslatorSpec => []JumpsResolveOnce
<1>1. Init => IInv
  BY InitInv
<1>2. IInv /\ [Translating]_translatorVars => IInv'
  BY NextInv
<1>3. IInv => JumpsResolveOnce
  BY ResolvesOnce
<1> QED
  BY <1>1, <1>2, <1>3, PTL DEF TranslatorSpec
=============================================================================
