------------------------ MODULE HackAssembler_proofs ------------------------
(***************************************************************************)
(* Proofs about the assembler, for every set of symbols, every set of      *)
(* inputs and every size of the ROM and of the window of variables.        *)
(***************************************************************************)
EXTENDS HackAssembler, FiniteSetTheorems, NaturalLemmas, TLAPS

(* A file is a sequence of lines.                                          *)
LEMMA FileType ==
    ASSUME files \in Seq(Seq(Line)), crtFile \in DOMAIN files
    PROVE  files[crtFile] \in Seq(Line)
  OBVIOUS

(* The line processLines is at is a line, whichever list it reads.         *)
LEMMA CurrentType ==
    ASSUME ReaderType, ListType, HasLine
    PROVE  Current \in Line
  BY FileType DEF ReaderType, ListType, HasLine, Current, Lines

(* What the kind of a line says of its fields.                             *)
LEMMA LineFields ==
    ASSUME NEW line \in Line
    PROVE  /\ line.op \in {"symbol", "label"} => line.name \in Symbol
           /\ line.op = "label" => line = Label(line.name)
           /\ line.op = "symbol" => line = SymbolicA(line.name)
           /\ line.op = "number" => line.value \in Nat
  BY DEF Line, Blank, Malformed, Label, SymbolicA

(* Binding a symbol to a number leaves a table of numbers.                 *)
LEMMA BindType ==
    ASSUME TableType, NEW s \in Symbol, NEW address \in Nat,
           symbolsTable' = Bind(symbolsTable, s, address)
    PROVE  TableType'
  BY DEF Bind, TableType

LEMMA EmptyList == << >> \in Seq(Line)
  OBVIOUS

LEMMA InitType == Init => TypeOK
  <1> SUFFICES ASSUME Init PROVE TypeOK
    OBVIOUS
  <1>1. ReaderType
    BY InputsAssumption, FileType DEF Init, ReaderType, Reading, Lines
  <1>2. CounterType
    BY BoundsAssumption DEF Init, CounterType
  <1>3. TableType
    <2>1. \A s \in DOMAIN PredefinedSymbols : PredefinedSymbols[s] \in Nat
      BY BoundsAssumption DEF PredefinedSymbols
    <2> QED
      BY <2>1, SymbolAssumption DEF Init, TableType
  <1>4. ListType
    BY DEF Init, ListType
  <1> QED
    BY <1>1, <1>2, <1>3, <1>4 DEF TypeOK

(* The reader stays inside the list it reads.                              *)
LEMMA NextReader == TypeOK /\ [Next]_vars => ReaderType'
  <1> SUFFICES ASSUME ReaderType, ListType, [Next]_vars PROVE ReaderType'
    BY DEF TypeOK
  <1> USE FileType DEF ReaderType, ListType, Reading, SymbolPass, HasLine, Lines
  <1>1. CASE SkipBlank
    BY <1>1 DEF SkipBlank, Advance, symbolVars
  <1>2. CASE RejectLine
    BY <1>2 DEF RejectLine, Throw
  <1>3. CASE VisitLabel
    BY <1>3 DEF VisitLabel, Advance
  <1>4. CASE CountInstruction
    BY <1>4 DEF CountInstruction, Throw, Advance
  <1>5. CASE CopyInstruction
    BY <1>5 DEF CopyInstruction, Advance
  <1>6. CASE ReplaceKnown
    BY <1>6 DEF ReplaceKnown, Advance
  <1>7. CASE AllocateVariable
    BY <1>7 DEF AllocateVariable, Throw, Advance
  <1>8. CASE EndOfPass
    <2>1. UNCHANGED <<files, crtFile, output>> /\ pos' = 1
      BY <1>8 DEF EndOfPass, symbolVars
    <2>2. stage' = IF stage = "first" THEN "second" ELSE "binary"
      BY <1>8 DEF EndOfPass
    <2>3. firstPass' \in BOOLEAN
      BY <1>8 DEF EndOfPass
    <2> QED
      BY <2>1, <2>2, <2>3
  <1>9. CASE Encode
    BY <1>9 DEF Encode, Advance, symbolVars
  <1>10. CASE NextFile
    BY <1>10 DEF NextFile
  <1>11. CASE WriteToFile
    BY <1>11 DEF WriteToFile
  <1>12. CASE UNCHANGED vars
    BY <1>12 DEF vars
  <1> QED
    BY <1>1, <1>2, <1>3, <1>4, <1>5, <1>6, <1>7, <1>8, <1>9, <1>10, <1>11, <1>12
    DEF Next

(* Only an increment that throws takes a counter to its limit.             *)
LEMMA NextCounter == TypeOK /\ [Next]_vars => CounterType'
  <1> SUFFICES ASSUME ReaderType, CounterType, [Next]_vars PROVE CounterType'
    BY DEF TypeOK
  <1> USE BoundsAssumption DEF ReaderType, CounterType, Reading, SymbolPass
  <1>1. CASE CountInstruction
    BY <1>1 DEF CountInstruction, Throw, Advance
  <1>2. CASE AllocateVariable
    BY <1>2 DEF AllocateVariable, Throw, Advance
  <1>3. CASE EndOfPass \/ NextFile \/ WriteToFile
    BY <1>3 DEF EndOfPass, NextFile, WriteToFile, symbolVars
  <1>4. CASE VisitLabel \/ CopyInstruction \/ ReplaceKnown
    BY <1>4 DEF VisitLabel, CopyInstruction, ReplaceKnown, Advance
  <1>5. CASE SkipBlank \/ RejectLine \/ Encode
    BY <1>5 DEF SkipBlank, RejectLine, Encode, Advance, Throw, symbolVars
  <1>6. CASE UNCHANGED vars
    BY <1>6 DEF vars
  <1> QED
    BY <1>1, <1>2, <1>3, <1>4, <1>5, <1>6 DEF Next

(* Only a label of the first pass and a new variable change the table.     *)
LEMMA TableUnchanged ==
    [Next]_vars /\ ~VisitLabel /\ ~AllocateVariable => UNCHANGED symbolsTable
  BY DEF Next, vars, symbolVars, SkipBlank, RejectLine, CountInstruction,
         CopyInstruction, ReplaceKnown, EndOfPass, Encode, NextFile, WriteToFile

LEMMA NextTable == TypeOK /\ [Next]_vars => TableType'
  <1> SUFFICES ASSUME TypeOK, [Next]_vars PROVE TableType'
    OBVIOUS
  <1> USE DEF TypeOK
  <1>1. CASE VisitLabel
    <2>1. Current.name \in Symbol /\ crtInstructionNo \in Nat
      BY <1>1, CurrentType, LineFields, BoundsAssumption
      DEF VisitLabel, CounterType
    <2>2. \/ symbolsTable' = symbolsTable
          \/ symbolsTable' = Bind(symbolsTable, Current.name, crtInstructionNo)
      BY <1>1 DEF VisitLabel
    <2> QED
      BY <2>1, <2>2, BindType DEF TableType
  <1>2. CASE AllocateVariable
    <2>1. Current.name \in Symbol /\ crtVariableNo \in Nat
      BY <1>2, CurrentType, LineFields, BoundsAssumption
      DEF AllocateVariable, CounterType
    <2>2. symbolsTable' = Bind(symbolsTable, Current.name, crtVariableNo)
      BY <1>2 DEF AllocateVariable
    <2> QED
      BY <2>1, <2>2, BindType
  <1>3. CASE ~VisitLabel /\ ~AllocateVariable
    BY <1>3, TableUnchanged DEF TableType
  <1> QED
    BY <1>1, <1>2, <1>3

LEMMA NextLists == TypeOK /\ [Next]_vars => ListType'
  <1> SUFFICES ASSUME TypeOK, [Next]_vars PROVE ListType'
    OBVIOUS
  <1> USE EmptyList DEF TypeOK, ListType
  <1>1. CASE CopyInstruction \/ Encode
    <2>1. Current \in Line
      BY <1>1, CurrentType DEF CopyInstruction, Encode
    <2>3. Append(output, Current) \in Seq(Line) /\ Append(binary, Current) \in Seq(Line)
      BY <2>1
    <2>2. /\ (output' = output \/ output' = Append(output, Current))
          /\ (binary' = binary \/ binary' = Append(binary, Current))
          /\ UNCHANGED <<allLines, hackFile>>
      BY <1>1 DEF CopyInstruction, Encode, symbolVars, resultVars
    <2> QED
      BY <2>2, <2>3
  <1>2. CASE ReplaceKnown
    <2>1. NumericA(symbolsTable[Current.name]) \in Line
      BY <1>2 DEF ReplaceKnown, NumericA, Line, TableType
    <2> QED
      BY <1>2, <2>1 DEF ReplaceKnown, resultVars
  <1>3. CASE AllocateVariable
    <2>1. NumericA(crtVariableNo) \in Line
      BY BoundsAssumption DEF NumericA, Line, CounterType
    <2>3. Append(output, NumericA(crtVariableNo)) \in Seq(Line)
      BY <2>1
    <2>2. /\ (output' = output \/ output' = Append(output, NumericA(crtVariableNo)))
          /\ UNCHANGED <<binary, allLines, hackFile>>
      BY <1>3 DEF AllocateVariable, resultVars
    <2> QED
      BY <2>2, <2>3
  <1>4. CASE NextFile \/ WriteToFile
    <2>1. allLines \o Append(binary, Blank) \in Seq(Line)
      <3>1. Append(binary, Blank) \in Seq(Line)
        BY DEF Line
      <3> QED
        BY <3>1
    <2>2. /\ (output' = output \/ output' = << >>)
          /\ allLines' = allLines \o Append(binary, Blank)
          /\ (hackFile' = hackFile \/ hackFile' = allLines')
          /\ UNCHANGED binary
      BY <1>4 DEF NextFile, WriteToFile, symbolVars
    <2> QED
      BY <2>1, <2>2
  <1>5. CASE VisitLabel \/ CountInstruction
    BY <1>5 DEF VisitLabel, CountInstruction, resultVars
  <1>6. CASE SkipBlank \/ RejectLine \/ EndOfPass
    <2>1. UNCHANGED <<output, allLines, hackFile>> /\ binary' \in {binary, << >>}
      BY <1>6 DEF SkipBlank, RejectLine, EndOfPass, symbolVars, resultVars
    <2> QED
      BY <2>1
  <1>7. CASE UNCHANGED vars
    BY <1>7 DEF vars
  <1> QED
    BY <1>1, <1>2, <1>3, <1>4, <1>5, <1>6, <1>7 DEF Next

(* Type correctness: a counter passes its limit only with the increment    *)
(* that throws, and no list ever holds anything but lines.                 *)
THEOREM TypeCorrect == Spec => []TypeOK
  <1>1. TypeOK /\ [Next]_vars => TypeOK'
    BY NextReader, NextCounter, NextTable, NextLists DEF TypeOK
  <1> QED
    BY <1>1, InitType, PTL DEF Spec

-----------------------------------------------------------------------------
(* Labels: the invariant is that the first pass counts instructions as it  *)
(* goes (FirstPassOnce) and has bound the declarations it has met.         *)

LEMMA RomAddressStep ==
    ASSUME NEW lines, NEW i \in Nat \ {0}
    PROVE  /\ RomAddress(lines, 1) = 0
           /\ RomAddress(lines, i) \in Nat
           /\ IsInstruction(lines[i]) =>
                 RomAddress(lines, i + 1) = RomAddress(lines, i) + 1
           /\ ~IsInstruction(lines[i]) =>
                 RomAddress(lines, i + 1) = RomAddress(lines, i)
  <1> DEFINE Before(k) == {j \in 1..(k - 1) : IsInstruction(lines[j])}
  <1>1. RomAddress(lines, 1) = 0
    <2>1. Before(1) = {}
      OBVIOUS
    <2> QED
      BY <2>1, FS_EmptySet DEF RomAddress
  <1>2. IsFiniteSet(Before(i)) /\ Cardinality(Before(i)) \in Nat
    <2>1. IsFiniteSet(1..(i - 1))
      BY FS_Interval
    <2> QED
      BY <2>1, FS_Subset, FS_CardinalityType
  <1>3. CASE IsInstruction(lines[i])
    <2>1. Before(i + 1) = Before(i) \cup {i} /\ i \notin Before(i)
      BY <1>3
    <2> QED
      BY <1>1, <1>2, <1>3, <2>1, FS_AddElement DEF RomAddress
  <1>4. CASE ~IsInstruction(lines[i])
    <2>1. Before(i + 1) = Before(i)
      BY <1>4
    <2> QED
      BY <1>1, <1>2, <1>4, <2>1 DEF RomAddress
  <1> QED
    BY <1>3, <1>4

(* A declaration that counts among n + 1 lines is line n + 1, or counts     *)
(* among the first n and is not repeated by line n + 1.                     *)
LEMMA DeclaresStep ==
    ASSUME NEW lines, NEW n \in Nat, NEW i, NEW s, DeclaresLast(lines, n + 1, i, s)
    PROVE  \/ i = n + 1 /\ lines[n + 1] = Label(s)
           \/ DeclaresLast(lines, n, i, s) /\ lines[n + 1] # Label(s)
  BY DEF DeclaresLast

(* How a step that reads a line of the first pass moves on.                *)
LEMMA FirstPassReads ==
    ASSUME TypeOK, FirstPassOnce, [Next]_vars, crtFile = 1, stage = "first",
           crtFile' = 1, stage' = "first"
    PROVE  \/ /\ pos' = pos + 1 /\ HasLine
              /\ UNCHANGED files /\ firstPass'
              /\ \/ /\ Current.op = "label"
                    /\ symbolsTable' = Bind(symbolsTable, Current.name, crtInstructionNo)
                    /\ UNCHANGED crtInstructionNo
                 \/ /\ IsInstruction(Current)
                    /\ UNCHANGED symbolsTable
                    /\ crtInstructionNo' = crtInstructionNo + 1
                 \/ /\ Current = Blank
                    /\ UNCHANGED <<symbolsTable, crtInstructionNo>>
           \/ UNCHANGED vars
  <1>1. firstPass
    BY DEF FirstPassOnce
  <1>2. CASE SkipBlank
    BY <1>1, <1>2 DEF SkipBlank, Advance, symbolVars
  <1>3. CASE VisitLabel
    BY <1>1, <1>3 DEF VisitLabel, Advance
  <1>4. CASE CountInstruction
    BY <1>1, <1>4 DEF CountInstruction, Advance, Throw
  <1>5. CASE RejectLine \/ EndOfPass \/ Encode \/ NextFile \/ WriteToFile
    BY <1>5 DEF RejectLine, EndOfPass, Encode, NextFile, WriteToFile, Throw
  <1>6. CASE CopyInstruction \/ ReplaceKnown \/ AllocateVariable
    BY <1>1, <1>6 DEF CopyInstruction, ReplaceKnown, AllocateVariable
  <1> QED
    BY <1>2, <1>3, <1>4, <1>5, <1>6 DEF Next

LEMMA InitFirstPass == Init => FirstPassOnce
  BY RomAddressStep DEF Init, FirstPassOnce

\* Steps that leave the first pass, or do not read a line of it.
LEMMA NextFirstPass == TypeOK /\ FirstPassOnce /\ [Next]_vars => FirstPassOnce'
  <1> SUFFICES ASSUME TypeOK, FirstPassOnce, [Next]_vars PROVE FirstPassOnce'
    OBVIOUS
  <1>1. crtFile \in Nat /\ crtFile >= 1 /\ files[1] \in Seq(Line) /\ pos \in Nat \ {0}
    BY FileType DEF TypeOK, ReaderType
  <1>2. firstPass' => firstPass /\ crtFile' = 1 /\ stage' \in {"first", "failed"}
    BY DEF FirstPassOnce, Next, vars, SkipBlank, RejectLine, VisitLabel, CountInstruction,
           CopyInstruction, ReplaceKnown, AllocateVariable, EndOfPass, Encode, NextFile,
           WriteToFile, Advance, Throw, SymbolPass, Reading
  <1>3. crtFile' = 1 /\ stage' = "first" => crtFile = 1 /\ stage = "first"
    BY <1>1 DEF Next, vars, SkipBlank, RejectLine, VisitLabel, CountInstruction,
           CopyInstruction, ReplaceKnown, AllocateVariable, EndOfPass, Encode, NextFile,
           WriteToFile, Advance, Throw
  <1>4. ASSUME crtFile' = 1, stage' = "first"
        PROVE  firstPass' /\ crtInstructionNo' = RomAddress(files'[1], pos')
    <2>1. crtFile = 1 /\ stage = "first" /\ firstPass
          /\ crtInstructionNo = RomAddress(files[1], pos) /\ Current = files[1][pos]
      BY <1>3, <1>4 DEF FirstPassOnce, Current, Lines
    <2>2. CASE UNCHANGED vars
      BY <2>1, <2>2 DEF vars
    <2>3. CASE Current.op = "label" \/ Current = Blank
      <3>1. ~IsInstruction(files[1][pos])
        BY <2>1, <2>3 DEF IsInstruction, Blank
      <3>2. RomAddress(files[1], pos + 1) = RomAddress(files[1], pos)
        BY <1>1, <3>1, RomAddressStep
      <3> QED
        BY <1>4, <2>1, <2>3, <3>1, <3>2, FirstPassReads DEF vars
    <2>4. CASE IsInstruction(Current)
      <3>1. RomAddress(files[1], pos + 1) = RomAddress(files[1], pos) + 1
        BY <1>1, <2>1, <2>4, RomAddressStep
      <3>2. Current.op # "label" /\ Current # Blank
        BY <2>4 DEF IsInstruction, Blank
      <3> QED
        BY <1>4, <2>1, <2>4, <3>1, <3>2, FirstPassReads DEF vars
    <2> QED
      BY <1>4, <2>1, <2>2, <2>3, <2>4, FirstPassReads
  <1> QED
    BY <1>2, <1>4 DEF FirstPassOnce

(* After the first pass no step binds a symbol of the table again.         *)
LEMMA StableStep ==
    ASSUME TypeOK, [Next]_vars, ~firstPass
    PROVE  \A s \in DOMAIN symbolsTable :
              s \in DOMAIN symbolsTable' /\ symbolsTable'[s] = symbolsTable[s]
  <1>1. CASE AllocateVariable
    <2>1. /\ symbolsTable' = Bind(symbolsTable, Current.name, crtVariableNo)
          /\ Current.name \notin DOMAIN symbolsTable
      BY <1>1 DEF AllocateVariable
    <2> QED
      BY <2>1 DEF Bind
  <1>2. CASE VisitLabel
    BY <1>2 DEF VisitLabel
  <1>3. CASE ~VisitLabel /\ ~AllocateVariable
    BY <1>3, TableUnchanged
  <1> QED
    BY <1>1, <1>2, <1>3

LEMMA NextLabels ==
    TypeOK /\ FirstPassOnce /\ LabelsBound /\ [Next]_vars => LabelsBound'
  <1> SUFFICES ASSUME TypeOK, FirstPassOnce, LabelsBound, [Next]_vars,
                      crtFile' = 1, SymbolPass',
                      NEW s \in Symbol, NEW i \in DOMAIN files'[1],
                      DeclaresLast(files'[1], IF firstPass' THEN pos' - 1
                                              ELSE Len(files'[1]), i, s)
               PROVE  s \in DOMAIN symbolsTable'
                      /\ symbolsTable'[s] = RomAddress(files'[1], i)
    BY DEF LabelsBound
  <1>1. /\ crtFile \in Nat /\ crtFile >= 1 /\ files[1] \in Seq(Line)
        /\ pos \in Nat \ {0} /\ UNCHANGED files
    BY FileType DEF TypeOK, ReaderType, Next, vars, SkipBlank, RejectLine, VisitLabel,
           CountInstruction, CopyInstruction, ReplaceKnown, AllocateVariable, EndOfPass,
           Encode, NextFile, WriteToFile
  <1>2. crtFile = 1
    BY <1>1 DEF Next, vars, SkipBlank, RejectLine, VisitLabel, CountInstruction,
           CopyInstruction, ReplaceKnown, AllocateVariable, EndOfPass, Encode, NextFile,
           WriteToFile
  <1>3. CASE ~firstPass
    <2>1. ~firstPass' /\ stage # "first"
      BY <1>2, <1>3 DEF FirstPassOnce, Next, vars, SkipBlank, RejectLine, VisitLabel,
           CountInstruction, CopyInstruction, ReplaceKnown, AllocateVariable, EndOfPass,
           Encode, NextFile, WriteToFile
    <2>2. SymbolPass
      BY <1>1, <1>2, <2>1 DEF Next, vars, SkipBlank, RejectLine, VisitLabel,
           CountInstruction, CopyInstruction, ReplaceKnown, AllocateVariable, EndOfPass,
           Encode, NextFile, WriteToFile, SymbolPass, Advance, Throw
    <2>3. s \in DOMAIN symbolsTable /\ symbolsTable[s] = RomAddress(files[1], i)
      BY <1>1, <1>2, <1>3, <2>1, <2>2 DEF LabelsBound
    <2> QED
      BY <1>1, <1>3, <2>3, StableStep
  <1>4. CASE firstPass /\ stage' = "second"
    <2>1. EndOfPass /\ stage = "first"
      BY <1>1, <1>2, <1>4 DEF FirstPassOnce, Next, vars, SkipBlank, RejectLine, VisitLabel,
           CountInstruction, CopyInstruction, ReplaceKnown, AllocateVariable, EndOfPass,
           Encode, NextFile, WriteToFile, SymbolPass, Advance, Throw
    <2>2. ~firstPass' /\ UNCHANGED symbolsTable
      BY <2>1 DEF EndOfPass, symbolVars
    <2>3. pos - 1 = Len(files[1])
      BY <1>1, <1>2, <2>1 DEF EndOfPass, HasLine, Lines, TypeOK, ReaderType, Reading
    <2> QED
      BY <1>1, <1>2, <1>4, <2>1, <2>2, <2>3 DEF LabelsBound, SymbolPass
  <1>5. CASE firstPass /\ stage' = "first"
    <2>1. /\ stage = "first" /\ SymbolPass
          /\ crtInstructionNo = RomAddress(files[1], pos)
          /\ Current = files[1][pos]
      BY <1>1, <1>2, <1>5 DEF FirstPassOnce, Current, Lines, Next, vars, SkipBlank,
           RejectLine, VisitLabel, CountInstruction, CopyInstruction, ReplaceKnown,
           AllocateVariable, EndOfPass, Encode, NextFile, WriteToFile, SymbolPass,
           Advance, Throw
    <2>2. CASE UNCHANGED vars
      BY <1>2, <1>5, <2>1, <2>2 DEF vars, LabelsBound
    <2>3. CASE ~UNCHANGED vars
      <3>1. /\ pos' = pos + 1 /\ firstPass' /\ HasLine
            /\ \/ /\ Current.op = "label"
                  /\ symbolsTable' = Bind(symbolsTable, Current.name, crtInstructionNo)
               \/ /\ Current.op # "label"
                  /\ UNCHANGED symbolsTable
        BY <1>2, <1>5, <2>1, <2>3, FirstPassReads DEF IsInstruction, Blank
      <3>2. \/ i = pos /\ files[1][pos] = Label(s)
            \/ DeclaresLast(files[1], pos - 1, i, s) /\ files[1][pos] # Label(s)
        <4>1. pos - 1 \in Nat /\ (pos - 1) + 1 = pos
          BY <1>1
        <4>2. DeclaresLast(files[1], (pos - 1) + 1, i, s)
          BY <1>1, <3>1, <4>1
        <4> QED
          BY <4>1, <4>2, DeclaresStep
      <3>3. CASE i = pos /\ files[1][pos] = Label(s)
        <4>1. Current.op = "label" /\ Current.name = s
          BY <2>1, <3>3 DEF Label
        <4>2. symbolsTable' = Bind(symbolsTable, s, RomAddress(files[1], i))
          BY <2>1, <3>1, <3>3, <4>1
        <4> QED
          BY <1>1, <4>2 DEF Bind
      <3>4. CASE DeclaresLast(files[1], pos - 1, i, s) /\ files[1][pos] # Label(s)
        <4>1. s \in DOMAIN symbolsTable /\ symbolsTable[s] = RomAddress(files[1], i)
          BY <1>1, <1>2, <1>5, <2>1, <3>4 DEF LabelsBound
        <4>2. Current.op = "label" => Current.name # s
          BY <2>1, <3>1, <3>4, CurrentType, LineFields DEF TypeOK
        <4> QED
          BY <1>1, <3>1, <4>1, <4>2 DEF Bind
      <3> QED
        BY <3>2, <3>3, <3>4
    <2> QED
      BY <2>2, <2>3
  <1> QED
    BY <1>3, <1>4, <1>5 DEF SymbolPass

(* Labels: when the second pass replaces symbols, every label of the file  *)
(* stands for the ROM address of the instruction after its last            *)
(* declaration, however long the file is.                                  *)
THEOREM LabelsCorrect == Spec => []LabelsBound
  <1>1. Init => LabelsBound
    BY DEF Init, LabelsBound, DeclaresLast
  <1> QED
    BY <1>1, InitFirstPass, NextFirstPass, NextLabels, TypeCorrect, PTL DEF Spec

-----------------------------------------------------------------------------
(* Variables.  The invariant is VariablesApart itself, with FirstPassOnce: *)
(* what the first pass binds is a label of the first file.                 *)

LEMMA NextVariables ==
    TypeOK /\ FirstPassOnce /\ VariablesApart /\ [Next]_vars => VariablesApart'
  <1> SUFFICES ASSUME TypeOK, FirstPassOnce, VariablesApart, [Next]_vars
               PROVE  VariablesApart'
    OBVIOUS
  <1>1. UNCHANGED files
    BY DEF Next, vars, SkipBlank, RejectLine, VisitLabel, CountInstruction,
           CopyInstruction, ReplaceKnown, AllocateVariable, EndOfPass, Encode, NextFile,
           WriteToFile
  <1>2. CASE AllocateVariable
    <2>1. /\ symbolsTable' = Bind(symbolsTable, Current.name, crtVariableNo)
          /\ crtVariableNo' = crtVariableNo + 1
          /\ Current.name \notin DOMAIN symbolsTable
      BY <1>2 DEF AllocateVariable
    <2>2. Allocated' \subseteq Allocated \cup {Current.name}
      BY <1>1, <2>1 DEF Allocated, Bind
    <2>3. \A s \in Allocated : symbolsTable'[s] = symbolsTable[s]
      BY <2>1 DEF Allocated, Bind
    <2>4. symbolsTable'[Current.name] = crtVariableNo
      BY <2>1 DEF Bind
    <2>5. VARIABLE_START \in Int /\ crtVariableNo \in Int /\ VARIABLE_START <= crtVariableNo
      BY BoundsAssumption DEF TypeOK, CounterType
    <2>6. \A s \in Allocated :
             symbolsTable'[s] \in VARIABLE_START..(crtVariableNo - 1)
      BY <2>3 DEF VariablesApart
    <2>7. \A s, t \in Allocated : symbolsTable'[s] = symbolsTable'[t] => s = t
      BY <2>3 DEF VariablesApart
    <2> QED
      BY <2>1, <2>2, <2>4, <2>5, <2>6, <2>7 DEF VariablesApart
  <1>3. CASE VisitLabel
    <2>1. crtVariableNo' = crtVariableNo
      BY <1>3 DEF VisitLabel
    <2>2. CASE firstPass
      <3>1. Current \in Line /\ Current = files[1][pos] /\ pos \in DOMAIN files[1]
        BY <1>3, <2>2, CurrentType, FileType
        DEF VisitLabel, FirstPassOnce, TypeOK, ReaderType, Current, HasLine, Lines
      <3>2. Current.name \in Declared(files[1])
        BY <1>3, <3>1, LineFields DEF VisitLabel, Declared
      <3>3. symbolsTable' = Bind(symbolsTable, Current.name, crtInstructionNo)
        BY <1>3, <2>2 DEF VisitLabel
      <3>4. Allocated' = Allocated
            /\ \A s \in Allocated : symbolsTable'[s] = symbolsTable[s]
        BY <1>1, <3>2, <3>3 DEF Allocated, Bind
      <3> QED
        BY <2>1, <3>4 DEF VariablesApart
    <2>3. CASE ~firstPass
      BY <1>1, <1>3, <2>1, <2>3 DEF VisitLabel, VariablesApart, Allocated
    <2> QED
      BY <2>2, <2>3
  <1>4. CASE ~VisitLabel /\ ~AllocateVariable
    <2>1. UNCHANGED <<symbolsTable, crtVariableNo>>
      BY <1>4 DEF Next, vars, symbolVars, SkipBlank, RejectLine, CountInstruction,
           CopyInstruction, ReplaceKnown, EndOfPass, Encode, NextFile, WriteToFile
    <2> QED
      BY <1>1, <2>1 DEF VariablesApart, Allocated
  <1> QED
    BY <1>2, <1>3, <1>4

(* Variables: however many symbols and files are read, no two variables    *)
(* have the same RAM address, and none is outside the window the counter   *)
(* has gone through.                                                       *)
THEOREM VariablesCorrect == Spec => []VariablesApart
  <1>1. Init => VariablesApart
    BY DEF Init, VariablesApart, Allocated
  <1> QED
    BY <1>1, InitFirstPass, NextFirstPass, NextVariables, TypeCorrect, PTL DEF Spec

(* Once the first pass is over, no step changes the address of a symbol.   *)
THEOREM BindingsCorrect == Spec => BindingsStable
  <1>1. TypeOK /\ [Next]_vars
          => [~firstPass => \A s \in DOMAIN symbolsTable :
                s \in DOMAIN symbolsTable' /\ symbolsTable'[s] = symbolsTable[s]]_vars
    BY StableStep
  <1> QED
    BY <1>1, TypeCorrect, PTL DEF Spec, BindingsStable

-----------------------------------------------------------------------------
(* The refinement of AssemblerSpec.  First, what the reference definitions *)
(* of AsmProgram do from one line of a file to the next one.               *)

(* The addresses of later lines are not less.                              *)
LEMMA RomGrows ==
    ASSUME NEW lines, NEW i \in Nat, NEW j \in Nat, i <= j
    PROVE  RomAddress(lines, i) <= RomAddress(lines, j)
<1> DEFINE Before(k) == {n \in 1..(k - 1) : IsInstruction(lines[n])}
<1>1. IsFiniteSet(Before(j))
  <2>1. IsFiniteSet(1..(j - 1))
    BY FS_Interval
  <2> QED
    BY <2>1, FS_Subset
<1>2. Before(i) \in SUBSET Before(j)
  OBVIOUS
<1>3. Cardinality(Before(i)) <= Cardinality(Before(j))
  <2> HIDE DEF Before
  <2> QED
    BY <1>1, <1>2, FS_Subset
<1> QED
  BY <1>3 DEF RomAddress

\* The code of the instructions among the first n lines.
CodeTo(lines, n) ==
    [i \in 1..RomAddress(lines, n + 1) |-> Resolve(lines, lines[InstructionAt(lines, i - 1)])]

(* An instruction is found by its address.                                 *)
LEMMA InstructionAtIs ==
    ASSUME NEW lines \in Seq(Line), NEW n \in 1..Len(lines), IsInstruction(lines[n])
    PROVE  InstructionAt(lines, RomAddress(lines, n)) = n
<1>1. ASSUME NEW i \in DOMAIN lines, NEW j \in DOMAIN lines, i < j, IsInstruction(lines[i])
      PROVE  RomAddress(lines, i) # RomAddress(lines, j)
  <2>1. i \in Nat \ {0} /\ j \in Nat \ {0} /\ i + 1 \in Nat /\ i + 1 <= j
    BY <1>1
  <2>2. RomAddress(lines, i + 1) = RomAddress(lines, i) + 1 /\ RomAddress(lines, i) \in Nat
    BY <1>1, <2>1, RomAddressStep
  <2>3. RomAddress(lines, i + 1) <= RomAddress(lines, j) /\ RomAddress(lines, j) \in Nat
    BY <2>1, RomGrows, RomAddressStep
  <2> QED
    BY <2>2, <2>3
<1>2. \A i \in DOMAIN lines :
         IsInstruction(lines[i]) /\ RomAddress(lines, i) = RomAddress(lines, n) => i = n
  <2> TAKE i \in DOMAIN lines
  <2>1. i \in Nat /\ n \in Nat /\ n \in DOMAIN lines
    OBVIOUS
  <2> QED
    BY <1>1, <2>1
<1>3. n \in DOMAIN lines
  OBVIOUS
<1> QED
  BY <1>2, <1>3 DEF InstructionAt

\* The code of one line more.
LEMMA CodeSteps ==
    ASSUME NEW lines \in Seq(Line)
    PROVE  /\ CodeTo(lines, 0) = << >>
           /\ CodeTo(lines, Len(lines)) = Code(lines)
           /\ \A n \in 1..Len(lines) :
                 CodeTo(lines, n) = IF IsInstruction(lines[n])
                                    THEN Append(CodeTo(lines, n - 1), Resolve(lines, lines[n]))
                                    ELSE CodeTo(lines, n - 1)
<1>1. CodeTo(lines, 0) = << >>
  <2>1. RomAddress(lines, 1) = 0
    BY RomAddressStep
  <2> QED
    BY <2>1 DEF CodeTo
<1>2. CodeTo(lines, Len(lines)) = Code(lines)
  BY DEF Code, CodeTo, Instructions
<1>3. ASSUME NEW n \in 1..Len(lines)
      PROVE  CodeTo(lines, n) = IF IsInstruction(lines[n])
                                THEN Append(CodeTo(lines, n - 1), Resolve(lines, lines[n]))
                                ELSE CodeTo(lines, n - 1)
  <2>1. n \in Nat \ {0} /\ (n - 1) + 1 = n
    OBVIOUS
  <2>2. PICK k \in Nat : k = RomAddress(lines, n)
    BY <2>1, RomAddressStep
  <2> DEFINE Coded(i) == Resolve(lines, lines[InstructionAt(lines, i - 1)])
  <2>3. CodeTo(lines, n - 1) = [i \in 1..k |-> Coded(i)]
    BY <2>1, <2>2 DEF CodeTo
  <2>4. CASE IsInstruction(lines[n])
    <3>1. RomAddress(lines, n + 1) = k + 1
      BY <2>1, <2>2, <2>4, RomAddressStep
    <3>2. CodeTo(lines, n) = [i \in 1..(k + 1) |-> Coded(i)]
      BY <3>1 DEF CodeTo
    <3>3. Coded(k + 1) = Resolve(lines, lines[n])
      <4>1. (k + 1) - 1 = k
        OBVIOUS
      <4> QED
        BY <2>2, <2>4, <4>1, InstructionAtIs
    <3>4. PICK c : c = CodeTo(lines, n - 1)
      OBVIOUS
    <3> DEFINE R == {Coded(i) : i \in 1..(k + 1)}
    <3>5. c = [i \in 1..k |-> Coded(i)] /\ \A i \in 1..(k + 1) : Coded(i) \in R
      BY <2>3, <3>4
    <3> HIDE DEF Coded, R
    <3>6. c \in Seq(R) /\ Len(c) = k /\ Coded(k + 1) \in R
      BY <3>5
    <3>7. Append(c, Coded(k + 1)) = [i \in 1..(k + 1) |-> Coded(i)]
      BY <3>5, <3>6
    <3> QED
      BY <2>4, <3>2, <3>3, <3>4, <3>7
  <2>5. CASE ~IsInstruction(lines[n])
    <3>1. RomAddress(lines, n + 1) = RomAddress(lines, n)
      BY <2>1, <2>5, RomAddressStep
    <3> QED
      BY <2>1, <2>5, <3>1 DEF CodeTo
  <2> QED
    BY <2>4, <2>5
<1> QED
  BY <1>1, <1>2, <1>3

LEMMA FirstUseIs ==
    ASSUME NEW lines \in Seq(Line), NEW s \in Variables(lines)
    PROVE  /\ FirstUse(lines, s) \in 1..Len(lines)
           /\ lines[FirstUse(lines, s)] = SymbolicA(s)
           /\ \A j \in 1..Len(lines) : lines[j] = SymbolicA(s) => FirstUse(lines, s) <= j
<1> DEFINE Uses == {i \in 1..Len(lines) : lines[i] = SymbolicA(s)}
<1>1. Uses \in SUBSET Nat /\ Uses # {}
  BY DEF Variables
<1>2. PICK i \in Uses : \A j \in Uses : i <= j
  <2> HIDE DEF Uses
  <2> QED
    BY <1>1, LeastNatural
<1>3. /\ i \in DOMAIN lines /\ lines[i] = SymbolicA(s)
      /\ \A j \in 1..(i - 1) : lines[j] # SymbolicA(s)
  <2>1. \A j \in 1..(i - 1) : j \in 1..Len(lines) /\ ~(i <= j)
    BY <1>2
  <2> QED
    BY <1>2, <2>1
<1>4. PICK k : k = FirstUse(lines, s)
  OBVIOUS
<1>5. /\ k \in DOMAIN lines /\ lines[k] = SymbolicA(s)
      /\ \A j \in 1..(k - 1) : lines[j] # SymbolicA(s)
  BY <1>3, <1>4 DEF FirstUse
<1>6. \A j \in 1..Len(lines) : lines[j] = SymbolicA(s) => k <= j
  <2>1. \A j \in 1..Len(lines) : j < k => j \in 1..(k - 1)
    BY <1>5
  <2> QED
    BY <1>5, <2>1
<1> QED
  BY <1>4, <1>5, <1>6

\* The variables met in the first n lines.
Seen(lines, n) == {s \in Variables(lines) : FirstUse(lines, s) <= n}

LEMMA SeenFinite ==
    ASSUME NEW lines \in Seq(Line), NEW n
    PROVE  /\ IsFiniteSet(Seen(lines, n)) /\ Cardinality(Seen(lines, n)) \in Nat
           /\ Cardinality(Variables(lines)) \in Nat
           /\ Cardinality(Seen(lines, n)) <= Cardinality(Variables(lines))
<1> DEFINE f == [s \in Variables(lines) |-> FirstUse(lines, s)]
<1>1. f \in Injection(Variables(lines), 1..Len(lines))
  <2>1. f \in [Variables(lines) -> 1..Len(lines)]
    BY FirstUseIs
  <2>2. ASSUME NEW s \in Variables(lines), NEW t \in Variables(lines), f[s] = f[t]
        PROVE  s = t
    <3>1. SymbolicA(s) = SymbolicA(t)
      BY <2>2, FirstUseIs
    <3> QED
      BY <3>1 DEF SymbolicA
  <2> QED
    BY <2>1, <2>2 DEF Injection, IsInjective
<1>2. IsFiniteSet(1..Len(lines))
  <2>1. Len(lines) \in Int
    OBVIOUS
  <2> QED
    BY <2>1, FS_Interval
<1>3. IsFiniteSet(Variables(lines))
  <2> HIDE DEF f
  <2> QED
    BY <1>1, <1>2, FS_Injection
<1>4. Seen(lines, n) \in SUBSET Variables(lines)
  BY DEF Seen
<1> QED
  BY <1>3, <1>4, FS_Subset, FS_CardinalityType

\* One line more: it is the first use of a variable, or of none.
LEMMA SeenSteps ==
    ASSUME NEW lines \in Seq(Line), NEW n \in 1..Len(lines)
    PROVE  /\ \A s \in Variables(lines) \ Seen(lines, n - 1) : lines[n] = SymbolicA(s) =>
                 /\ Seen(lines, n) = Seen(lines, n - 1) \cup {s}
                 /\ Cardinality(Seen(lines, n)) = Cardinality(Seen(lines, n - 1)) + 1
                 /\ VariableAddress(lines, s)
                        = VARIABLE_START + Cardinality(Seen(lines, n - 1))
           /\ (\A s \in Variables(lines) \ Seen(lines, n - 1) : lines[n] # SymbolicA(s))
                 => Seen(lines, n) = Seen(lines, n - 1)
<1>1. \A a \in 1..Len(lines) : (a <= n <=> a <= n - 1 \/ a = n) /\ (a < n <=> a <= n - 1)
  OBVIOUS
<1>2. \A s \in Variables(lines) :
         /\ FirstUse(lines, s) \in 1..Len(lines)
         /\ lines[FirstUse(lines, s)] = SymbolicA(s)
         /\ \A j \in 1..Len(lines) : lines[j] = SymbolicA(s) => FirstUse(lines, s) <= j
  BY FirstUseIs
<1>3. ASSUME NEW s \in Variables(lines), s \notin Seen(lines, n - 1), lines[n] = SymbolicA(s)
      PROVE  /\ Seen(lines, n) = Seen(lines, n - 1) \cup {s}
             /\ Cardinality(Seen(lines, n)) = Cardinality(Seen(lines, n - 1)) + 1
             /\ VariableAddress(lines, s) = VARIABLE_START + Cardinality(Seen(lines, n - 1))
  <2>1. FirstUse(lines, s) = n
    BY <1>1, <1>2, <1>3 DEF Seen
  <2>2. ASSUME NEW t \in Variables(lines), FirstUse(lines, t) = n
        PROVE  t = s
    <3>1. SymbolicA(t) = SymbolicA(s)
      BY <1>2, <1>3, <2>2
    <3> QED
      BY <3>1 DEF SymbolicA
  <2>3. Seen(lines, n) = Seen(lines, n - 1) \cup {s}
    BY <1>1, <1>2, <2>1, <2>2 DEF Seen
  <2>4. {t \in Variables(lines) : FirstUse(lines, t) < FirstUse(lines, s)} = Seen(lines, n - 1)
    BY <1>1, <1>2, <2>1 DEF Seen
  <2>5. Cardinality(Seen(lines, n)) = Cardinality(Seen(lines, n - 1)) + 1
    <3>1. IsFiniteSet(Seen(lines, n - 1))
      BY SeenFinite
    <3> QED
      BY <1>3, <2>3, <3>1, FS_AddElement
  <2> QED
    BY <2>3, <2>4, <2>5 DEF VariableAddress
<1>4. ASSUME \A s \in Variables(lines) \ Seen(lines, n - 1) : lines[n] # SymbolicA(s)
      PROVE  Seen(lines, n) = Seen(lines, n - 1)
  <2>1. \A s \in Variables(lines) : FirstUse(lines, s) = n => FirstUse(lines, s) <= n - 1
    BY <1>2, <1>4 DEF Seen
  <2> QED
    BY <1>1, <1>2, <2>1 DEF Seen
<1> QED
  BY <1>3, <1>4

LEMMA SeenEnds ==
    ASSUME NEW lines \in Seq(Line)
    PROVE  /\ Seen(lines, 0) = {} /\ Cardinality(Seen(lines, 0)) = 0
           /\ Seen(lines, Len(lines)) = Variables(lines)
<1>1. \A s \in Variables(lines) : FirstUse(lines, s) \in 1..Len(lines)
  BY FirstUseIs
<1>2. \A a \in 1..Len(lines) : ~(a <= 0) /\ a <= Len(lines)
  OBVIOUS
<1> QED
  BY <1>1, <1>2, FS_EmptySet DEF Seen

\* A declared label has a last declaration.
LEMMA LastDeclaration ==
    ASSUME NEW lines \in Seq(Line), NEW s \in Declared(lines)
    PROVE  \E i \in DOMAIN lines : /\ DeclaresLast(lines, Len(lines), i, s)
                                   /\ LabelAddress(lines, s) = RomAddress(lines, i)
<1> DEFINE After == {k \in 0..Len(lines) : k < Len(lines) /\ lines[Len(lines) - k] = Label(s)}
<1>1. After \in SUBSET Nat /\ After # {}
  <2>1. PICK i \in DOMAIN lines : lines[i] = Label(s)
    BY DEF Declared
  <2>2. Len(lines) - i \in 0..Len(lines) /\ Len(lines) - i < Len(lines)
        /\ Len(lines) - (Len(lines) - i) = i
    BY <2>1
  <2>3. Len(lines) - i \in After
    BY <2>1, <2>2
  <2> QED
    BY <2>3
<1>2. PICK k \in After : \A j \in After : k <= j
  <2> HIDE DEF After
  <2> QED
    BY <1>1, LeastNatural
<1>3. DeclaresLast(lines, Len(lines), Len(lines) - k, s)
  <2>1. ASSUME NEW j \in ((Len(lines) - k) + 1)..Len(lines), lines[j] = Label(s)
        PROVE  FALSE
    <3>1. Len(lines) - j \in 0..Len(lines) /\ Len(lines) - j < Len(lines)
          /\ Len(lines) - (Len(lines) - j) = j /\ ~(k <= Len(lines) - j)
      BY <1>2
    <3>2. Len(lines) - j \in After
      BY <2>1, <3>1
    <3> QED
      BY <1>2, <3>1, <3>2
  <2>2. Len(lines) - k \in 1..Len(lines) /\ lines[Len(lines) - k] = Label(s)
    BY <1>2
  <2> QED
    BY <2>1, <2>2 DEF DeclaresLast
<1>4. \E i \in DOMAIN lines : DeclaresLast(lines, Len(lines), i, s)
  BY <1>3 DEF DeclaresLast
<1> QED
  BY <1>4 DEF LabelAddress

-----------------------------------------------------------------------------
(* The invariant: what each pass has made of the first file so far.        *)

First == files[1]

\* The first pass has bound the labels it met, over a predefined name too.
BindingInv ==
    crtFile = 1 /\ stage = "first" =>
        /\ \A j \in 1..(pos - 1) : IsValid(First[j])
        /\ DOMAIN symbolsTable =
              DOMAIN PredefinedSymbols
                  \cup {s \in Symbol : \E i \in 1..(pos - 1) : First[i] = Label(s)}
        /\ \A s \in DOMAIN PredefinedSymbols :
              (\A i \in 1..(pos - 1) : First[i] # Label(s))
                  => symbolsTable[s] = PredefinedSymbols[s]
        /\ crtVariableNo = VARIABLE_START /\ output = << >>

\* What the next builder reads is code, and the encoding takes it.
Encodable == \A i \in DOMAIN output : IsInstruction(output[i]) /\ IsValid(output[i])

\* The second pass has the labels (LabelsBound says where they are), and the
\* variables of the lines it has read; its output is their code.
ReplacingInv ==
    crtFile = 1 /\ stage = "second" =>
        /\ AllValid(First) /\ FitsInRom(First)
        /\ DOMAIN symbolsTable =
              DOMAIN PredefinedSymbols \cup Declared(First) \cup Seen(First, pos - 1)
        /\ \A s \in DOMAIN symbolsTable \ Declared(First) :
              symbolsTable[s] = Address(First, s)
        /\ crtVariableNo = VARIABLE_START + Cardinality(Seen(First, pos - 1))
        /\ output = CodeTo(First, pos - 1) /\ Encodable

\* The encoding copies the code of a file that is accepted.
EncodingInv ==
    crtFile = 1 /\ stage = "binary" =>
        /\ Promised!Acceptable /\ VariablesAdmitted(First)
        /\ output = Code(First) /\ Encodable
        /\ Len(binary) = pos - 1 /\ \A i \in 1..(pos - 1) : binary[i] = output[i]

\* The lines gathered begin with the code of the first file, whose variables
\* leave an address of the window.
Gathered ==
    /\ VariablesAdmitted(First)
    /\ \E n \in DOMAIN allLines :
        /\ allLines[n] = Blank /\ \A j \in 1..(n - 1) : allLines[j] # Blank
        /\ SubSeq(allLines, 1, n - 1) = Code(First)

\* The file has no code in the documented window, or it fills that window.
Refusable == ~Promised!Acceptable \/ FillsWindow(First)

\* Lines are gathered at the end of an accepted file, and a failure before
\* that is one of the first file.
ResultInv ==
    /\ allLines = << >> => /\ crtFile = 1 /\ stage # "written"
                           /\ stage = "failed" => Refusable
    /\ allLines # << >> => /\ crtFile # 1 \/ stage = "written"
                           /\ Gathered

CodeInv ==
    /\ files \in Inputs
    /\ BindingInv /\ ReplacingInv /\ EncodingInv /\ ResultInv

\* AssemblerSpec reads the definitions of AsmProgram by names of its own.
LEMMA SameLines ==
    /\ \A x : /\ Promised!SymbolicA(x) = SymbolicA(x) /\ Promised!Label(x) = Label(x)
              /\ Promised!NumericA(x) = NumericA(x)
              /\ Promised!IsInstruction(x) <=> IsInstruction(x)
              /\ Promised!IsValid(x) <=> IsValid(x)
    /\ Promised!PredefinedSymbols = PredefinedSymbols
  BY DEF Promised!SymbolicA, SymbolicA, Promised!Label, Label, Promised!NumericA, NumericA,
         Promised!IsInstruction, IsInstruction, Promised!IsValid, IsValid,
         Promised!PredefinedSymbols, PredefinedSymbols

LEMMA SameCardinality == \A S : Promised!Cardinality(S) = Cardinality(S)
  BY DEF Promised!Cardinality, Cardinality

LEMMA SameSymbols ==
    /\ \A i : Promised!RomAddress(First, i) = RomAddress(First, i)
    /\ Promised!Declared(First) = Declared(First)
    /\ Promised!Variables(First) = Variables(First)
<1>1. ASSUME NEW i
      PROVE  Promised!RomAddress(First, i) = RomAddress(First, i)
  <2>1. {j \in 1..(i - 1) : Promised!IsInstruction(First[j])}
          = {j \in 1..(i - 1) : IsInstruction(First[j])}
    BY SameLines
  <2> QED
    BY <2>1, SameCardinality DEF Promised!RomAddress, RomAddress
<1>2. Promised!Declared(First) = Declared(First)
  BY SameLines DEF Promised!Declared, Declared
<1>3. Promised!Variables(First) = Variables(First)
  BY <1>2, SameLines DEF Promised!Variables, Variables
<1> QED
  BY <1>1, <1>2, <1>3

LEMMA AcceptableIs ==
    Promised!Acceptable <=> AllValid(First) /\ FitsInRom(First) /\ VariablesFit(First)
<1>1. Promised!AllValid(First) <=> AllValid(First)
  BY SameLines DEF Promised!AllValid, AllValid
<1>2. Promised!FitsInRom(First) <=> FitsInRom(First)
  BY SameSymbols DEF Promised!FitsInRom, FitsInRom
<1>3. Promised!VariablesFit(First) <=> VariablesFit(First)
  BY SameSymbols, SameCardinality DEF Promised!VariablesFit, VariablesFit
<1> QED
  BY <1>1, <1>2, <1>3 DEF Promised!Acceptable, First

LEMMA CodeIs == Promised!Code(First) = Code(First)
<1>1. Promised!Instructions(First) = Instructions(First)
  <2>1. \A k : Promised!InstructionAt(First, k) = InstructionAt(First, k)
    BY SameLines, SameSymbols DEF Promised!InstructionAt, InstructionAt
  <2> QED
    BY <2>1, SameSymbols DEF Promised!Instructions, Instructions
<1>2. \A s : Promised!LabelAddress(First, s) = LabelAddress(First, s)
  <2>1. \A n, i, s : Promised!DeclaresLast(First, n, i, s) <=> DeclaresLast(First, n, i, s)
    BY SameLines DEF Promised!DeclaresLast, DeclaresLast
  <2>2. ASSUME NEW s
        PROVE  Promised!LabelAddress(First, s) = LabelAddress(First, s)
    <3>1. (CHOOSE i \in DOMAIN First : Promised!DeclaresLast(First, Len(First), i, s))
            = (CHOOSE i \in DOMAIN First : DeclaresLast(First, Len(First), i, s))
      BY <2>1
    <3> QED
      BY <3>1, SameSymbols DEF Promised!LabelAddress, LabelAddress
  <2> QED
    BY <2>2
<1>3. \A s : Promised!VariableAddress(First, s) = VariableAddress(First, s)
  <2>1. \A s : Promised!FirstUse(First, s) = FirstUse(First, s)
    BY DEF Promised!FirstUse, FirstUse, Promised!SymbolicA, SymbolicA
  <2>2. ASSUME NEW s
        PROVE  Promised!VariableAddress(First, s) = VariableAddress(First, s)
    <3>1. {t \in Promised!Variables(First) :
              Promised!FirstUse(First, t) < Promised!FirstUse(First, s)}
            = {t \in Variables(First) : FirstUse(First, t) < FirstUse(First, s)}
      BY <2>1, SameSymbols
    <3> QED
      BY <3>1, SameCardinality DEF Promised!VariableAddress, VariableAddress
  <2> QED
    BY <2>2
<1>4. \A line : Promised!Resolve(First, line) = Resolve(First, line)
  <2>1. \A s : Promised!Address(First, s) = Address(First, s)
    BY <1>2, <1>3, SameSymbols, SameLines DEF Promised!Address, Address
  <2> QED
    BY <2>1, SameLines DEF Promised!Resolve, Resolve
<1> QED
  BY <1>1, <1>4 DEF Promised!Code, Code

LEMMA InputFacts ==
    ASSUME TypeOK, CodeInv
    PROVE  /\ First \in Seq(Line)
           /\ \A i \in DOMAIN First :
                 First[i].op = "symbol" /\ First[i].name \in DOMAIN PredefinedSymbols
                     => PredefinedSymbols[First[i].name] <= MAX_INT
<1>1. files \in Inputs
  BY DEF CodeInv
<1>2. files \in Seq(Seq(Line)) /\ files # << >>
  BY <1>1, InputsAssumption
<1>3. 1 \in DOMAIN files
  BY <1>2
<1>4. First \in Seq(Line)
  BY <1>2, <1>3 DEF First
<1> QED
  BY <1>1, <1>3, <1>4, AddressAssumption DEF First

\* The line a symbol pass of the first file is at.
LEMMA AtLine ==
    ASSUME TypeOK, CodeInv, crtFile = 1, SymbolPass, HasLine
    PROVE  /\ Current = First[pos] /\ Current \in Line
           /\ pos \in 1..Len(First) /\ pos - 1 \in 0..Len(First) /\ (pos + 1) - 1 = pos
<1>1. First \in Seq(Line)
  BY InputFacts
<1>2. Lines = First
  BY DEF SymbolPass, Lines, First
<1>3. pos \in 1..Len(First)
  BY <1>1, <1>2 DEF HasLine, TypeOK, ReaderType
<1> QED
  BY <1>1, <1>2, <1>3 DEF Current

LEMMA Labelled ==
    ASSUME TypeOK, CodeInv
    PROVE  Declared(First) = {s \in Symbol : \E i \in 1..Len(First) : First[i] = Label(s)}
  BY InputFacts DEF Declared

\* A line read by the first pass.
LEMMA FirstReads ==
    ASSUME TypeOK, CodeInv, crtFile = 1, stage = "first", HasLine, IsValid(Current),
           UNCHANGED <<files, crtFile, stage, crtVariableNo, output>>, pos' = pos + 1,
           symbolsTable' = IF Current.op = "label"
                           THEN Bind(symbolsTable, Current.name, crtInstructionNo)
                           ELSE symbolsTable
    PROVE  BindingInv'
<1>1. /\ Current = First[pos] /\ Current \in Line /\ pos \in 1..Len(First)
      /\ pos' - 1 = pos /\ First' = First
  BY AtLine DEF SymbolPass, First
<1>2. \A i \in 1..pos : i \in 1..(pos - 1) \/ i = pos
  BY <1>1
<1>3. \A j \in 1..pos : IsValid(First[j])
  BY <1>1, <1>2 DEF CodeInv, BindingInv
<1>4. \A s \in Symbol : (\E i \in 1..pos : First[i] = Label(s))
                          <=> (\E i \in 1..(pos - 1) : First[i] = Label(s)) \/ Current = Label(s)
  <2>1. \A i \in 1..(pos - 1) : i \in 1..pos
    BY <1>1
  <2>2. pos \in 1..pos
    BY <1>1
  <2> QED
    BY <1>1, <1>2, <2>1, <2>2
<1>5. /\ DOMAIN symbolsTable = DOMAIN PredefinedSymbols
            \cup {s \in Symbol : \E i \in 1..(pos - 1) : First[i] = Label(s)}
      /\ \A s \in DOMAIN PredefinedSymbols :
            (\A i \in 1..(pos - 1) : First[i] # Label(s))
                => symbolsTable[s] = PredefinedSymbols[s]
      /\ crtVariableNo = VARIABLE_START /\ output = << >>
  BY DEF CodeInv, BindingInv
<1>6. CASE Current.op = "label"
  <2>1. Current = Label(Current.name) /\ Current.name \in Symbol
    BY <1>1, <1>6, LineFields
  <2>2. \A s \in Symbol : Current = Label(s) <=> s = Current.name
    BY <2>1 DEF Label
  <2>3. symbolsTable' = Bind(symbolsTable, Current.name, crtInstructionNo)
    BY <1>6
  <2>4. DOMAIN symbolsTable' = DOMAIN symbolsTable \cup {Current.name}
    BY <2>3 DEF Bind
  <2>5. DOMAIN symbolsTable' = DOMAIN PredefinedSymbols
            \cup {s \in Symbol : \E i \in 1..pos : First[i] = Label(s)}
    BY <1>4, <1>5, <2>1, <2>2, <2>4
  <2>6. ASSUME NEW s \in DOMAIN PredefinedSymbols, \A i \in 1..pos : First[i] # Label(s)
        PROVE  symbolsTable'[s] = PredefinedSymbols[s]
    <3>1. s # Current.name /\ \A i \in 1..(pos - 1) : First[i] # Label(s)
      BY <1>1, <1>4, <2>1, <2>6, SymbolAssumption
    <3>2. s \in DOMAIN symbolsTable /\ symbolsTable[s] = PredefinedSymbols[s]
      BY <1>5, <3>1
    <3> QED
      BY <2>3, <3>1, <3>2 DEF Bind
  <2> QED
    BY <1>1, <1>3, <1>5, <2>5, <2>6 DEF BindingInv
<1>7. CASE Current.op # "label"
  <2>1. \A s : Current # Label(s)
    BY <1>7 DEF Label
  <2>2. \A s \in DOMAIN PredefinedSymbols :
           (\A i \in 1..pos : First[i] # Label(s))
               => \A i \in 1..(pos - 1) : First[i] # Label(s)
    BY <1>1
  <2>3. DOMAIN symbolsTable' = DOMAIN PredefinedSymbols
            \cup {s \in Symbol : \E i \in 1..pos : First[i] = Label(s)}
    BY <1>4, <1>5, <1>7, <2>1
  <2> QED
    BY <1>1, <1>3, <1>5, <1>7, <2>2, <2>3 DEF BindingInv
<1> QED
  BY <1>6, <1>7

\* The addresses of the symbols of the table while the second pass reads.
LEMMA TableMeans ==
    ASSUME TypeOK, FirstPassOnce, LabelsBound, CodeInv, crtFile = 1, stage = "second"
    PROVE  \A s \in DOMAIN symbolsTable : symbolsTable[s] = Address(First, s)
<1>1. First \in Seq(Line) /\ ~firstPass /\ SymbolPass
  BY InputFacts DEF FirstPassOnce, SymbolPass
<1>2. \A s \in DOMAIN symbolsTable \ Declared(First) : symbolsTable[s] = Address(First, s)
  BY DEF CodeInv, ReplacingInv
<1>3. ASSUME NEW s \in Declared(First)
      PROVE  symbolsTable[s] = Address(First, s)
  <2>1. PICK i \in DOMAIN First : /\ DeclaresLast(First, Len(First), i, s)
                                  /\ LabelAddress(First, s) = RomAddress(First, i)
    BY <1>1, LastDeclaration
  <2>2. s \in Symbol
    BY DEF Declared
  <2>3. symbolsTable[s] = RomAddress(First, i)
    BY <1>1, <2>1, <2>2 DEF LabelsBound, First
  <2> QED
    BY <2>1, <2>3 DEF Address
<1> QED
  BY <1>2, <1>3

\* The variables met when no new one is named.
LEMMA NothingNew ==
    ASSUME TypeOK, CodeInv, crtFile = 1, stage = "second", HasLine,
           Current.op = "symbol" => Current.name \in DOMAIN symbolsTable
    PROVE  Seen(First, pos) = Seen(First, pos - 1)
<1>1. First \in Seq(Line) /\ Current = First[pos] /\ pos \in 1..Len(First)
  BY InputFacts, AtLine DEF SymbolPass
<1>2. ASSUME NEW s \in Variables(First) \ Seen(First, pos - 1), First[pos] = SymbolicA(s)
      PROVE  FALSE
  <2>1. Current.op = "symbol" /\ Current.name = s
    BY <1>1, <1>2 DEF SymbolicA
  <2>2. s \in DOMAIN PredefinedSymbols \cup Declared(First)
    BY <1>2, <2>1 DEF CodeInv, ReplacingInv
  <2> QED
    BY <1>2, <2>2 DEF Variables
<1> QED
  BY <1>1, <1>2, SeenSteps

\* The code when the second pass has read one line more.
LEMMA CodeGrows ==
    ASSUME TypeOK, CodeInv, crtFile = 1, stage = "second", HasLine
    PROVE  CodeTo(First, pos) = IF IsInstruction(Current)
                                THEN Append(output, Resolve(First, Current)) ELSE output
<1>1. First \in Seq(Line) /\ Current = First[pos] /\ pos \in 1..Len(First)
  BY InputFacts, AtLine DEF SymbolPass
<1>2. output = CodeTo(First, pos - 1)
  BY DEF CodeInv, ReplacingInv
<1> QED
  BY <1>1, <1>2, CodeSteps

LEMMA EncodableGrows ==
    ASSUME TypeOK, Encodable, NEW line \in Line, IsInstruction(line), IsValid(line),
           output' = Append(output, line)
    PROVE  Encodable'
<1>1. output \in Seq(Line)
  BY DEF TypeOK, ListType
<1>2. \A i \in DOMAIN output' : i = Len(output) + 1 \/ i \in DOMAIN output
  BY <1>1
<1>3. output'[Len(output) + 1] = line /\ \A i \in DOMAIN output : output'[i] = output[i]
  BY <1>1
<1> QED
  BY <1>2, <1>3 DEF Encodable

\* A line read by the second pass that allocates nothing.
LEMMA SecondReads ==
    ASSUME TypeOK, CodeInv, crtFile = 1, stage = "second", HasLine,
           UNCHANGED <<files, crtFile, stage, crtVariableNo, symbolsTable>>, pos' = pos + 1,
           Current.op = "symbol" => Current.name \in DOMAIN symbolsTable,
           output' = IF IsInstruction(Current) THEN Append(output, Resolve(First, Current))
                     ELSE output,
           Encodable'
    PROVE  ReplacingInv'
<1>1. First' = First /\ pos' - 1 = pos
  BY AtLine DEF SymbolPass, First
<1>2. Seen(First, pos) = Seen(First, pos - 1)
  BY NothingNew
<1>3. output' = CodeTo(First, pos)
  BY CodeGrows
<1>4. /\ AllValid(First) /\ FitsInRom(First)
      /\ DOMAIN symbolsTable =
            DOMAIN PredefinedSymbols \cup Declared(First) \cup Seen(First, pos)
      /\ \A s \in DOMAIN symbolsTable \ Declared(First) : symbolsTable[s] = Address(First, s)
      /\ crtVariableNo = VARIABLE_START + Cardinality(Seen(First, pos))
  BY <1>2 DEF CodeInv, ReplacingInv
<1> QED
  BY <1>1, <1>3, <1>4 DEF ReplacingInv

\* A new symbol is a variable, and the counter its address.
LEMMA NewVariable ==
    ASSUME TypeOK, CodeInv, crtFile = 1, stage = "second", HasLine,
           Current.op = "symbol", Current.name \notin DOMAIN symbolsTable
    PROVE  /\ Current.name \in Variables(First) \ (Declared(First) \cup DOMAIN PredefinedSymbols)
           /\ Seen(First, pos) = Seen(First, pos - 1) \cup {Current.name}
           /\ Cardinality(Seen(First, pos)) = Cardinality(Seen(First, pos - 1)) + 1
           /\ crtVariableNo = VARIABLE_START + Cardinality(Seen(First, pos - 1))
           /\ Address(First, Current.name) = crtVariableNo
           /\ Cardinality(Seen(First, pos - 1)) \in Nat
<1>1. First \in Seq(Line) /\ Current = First[pos] /\ pos \in 1..Len(First) /\ Current \in Line
  BY InputFacts, AtLine DEF SymbolPass
<1>2. /\ DOMAIN symbolsTable =
            DOMAIN PredefinedSymbols \cup Declared(First) \cup Seen(First, pos - 1)
      /\ crtVariableNo = VARIABLE_START + Cardinality(Seen(First, pos - 1))
  BY DEF CodeInv, ReplacingInv
<1>3. Current.name \in Symbol /\ First[pos] = SymbolicA(Current.name)
  BY <1>1, LineFields
<1>4. /\ Current.name \in Variables(First) \ Seen(First, pos - 1)
      /\ Current.name \notin Declared(First) \cup DOMAIN PredefinedSymbols
  <2>1. Current.name \notin DOMAIN PredefinedSymbols \cup Declared(First) \cup Seen(First, pos - 1)
    BY <1>2
  <2>2. pos \in DOMAIN First
    BY <1>1
  <2>3. Current.name \in Variables(First)
    BY <1>3, <2>1, <2>2 DEF Variables
  <2> QED
    BY <2>1, <2>3
<1>5. /\ Seen(First, pos) = Seen(First, pos - 1) \cup {Current.name}
      /\ Cardinality(Seen(First, pos)) = Cardinality(Seen(First, pos - 1)) + 1
      /\ VariableAddress(First, Current.name) = crtVariableNo
  BY <1>1, <1>2, <1>3, <1>4, SeenSteps
<1> QED
  BY <1>1, <1>2, <1>4, <1>5, SeenFinite DEF Address

LEMMA Allocates ==
    ASSUME TypeOK, CodeInv, crtFile = 1, stage = "second", AllocateVariable, stage' = "second"
    PROVE  ReplacingInv'
<1>1. /\ HasLine /\ Current.op = "symbol" /\ Current.name \notin DOMAIN symbolsTable
      /\ symbolsTable' = Bind(symbolsTable, Current.name, crtVariableNo)
      /\ crtVariableNo' = crtVariableNo + 1 /\ crtVariableNo' < VARIABLE_END
      /\ output' = Append(output, NumericA(crtVariableNo)) /\ pos' = pos + 1
      /\ UNCHANGED <<files, crtFile>>
  BY BoundsAssumption DEF AllocateVariable, Throw, Advance, TypeOK, CounterType
<1>2. First' = First /\ pos' - 1 = pos
  BY <1>1, AtLine DEF SymbolPass, First
<1>3. /\ Current.name \in Variables(First) \ (Declared(First) \cup DOMAIN PredefinedSymbols)
      /\ Seen(First, pos) = Seen(First, pos - 1) \cup {Current.name}
      /\ Cardinality(Seen(First, pos)) = Cardinality(Seen(First, pos - 1)) + 1
      /\ crtVariableNo = VARIABLE_START + Cardinality(Seen(First, pos - 1))
      /\ Address(First, Current.name) = crtVariableNo
      /\ Cardinality(Seen(First, pos - 1)) \in Nat
  BY <1>1, NewVariable
<1>4. /\ AllValid(First) /\ FitsInRom(First) /\ Encodable
      /\ DOMAIN symbolsTable =
            DOMAIN PredefinedSymbols \cup Declared(First) \cup Seen(First, pos - 1)
      /\ \A s \in DOMAIN symbolsTable \ Declared(First) : symbolsTable[s] = Address(First, s)
  BY DEF CodeInv, ReplacingInv
<1>5. DOMAIN symbolsTable' =
          DOMAIN PredefinedSymbols \cup Declared(First) \cup Seen(First, pos)
  BY <1>1, <1>3, <1>4 DEF Bind
<1>6. \A s \in DOMAIN symbolsTable' \ Declared(First) : symbolsTable'[s] = Address(First, s)
  BY <1>1, <1>3, <1>4 DEF Bind
<1>7. crtVariableNo' = VARIABLE_START + Cardinality(Seen(First, pos))
  BY <1>1, <1>3, BoundsAssumption
<1>8. output' = CodeTo(First, pos)
  <2>1. Resolve(First, Current) = NumericA(crtVariableNo)
    BY <1>1, <1>3 DEF Resolve
  <2> QED
    BY <1>1, <2>1, CodeGrows DEF IsInstruction
<1>9. Encodable'
  <2>1. crtVariableNo \in Nat /\ crtVariableNo <= MAX_INT
    BY <1>1, BoundsAssumption, AddressAssumption DEF TypeOK, CounterType
  <2>2. /\ NumericA(crtVariableNo) \in Line /\ IsInstruction(NumericA(crtVariableNo))
        /\ IsValid(NumericA(crtVariableNo))
    BY <2>1 DEF NumericA, Line, IsInstruction, IsValid
  <2> QED
    BY <1>1, <1>4, <2>2, EncodableGrows
<1> QED
  BY <1>1, <1>2, <1>4, <1>5, <1>6, <1>7, <1>8, <1>9 DEF ReplacingInv

\* A known symbol is replaced by its address, which fits in the instruction.
LEMMA Replaces ==
    ASSUME TypeOK, FirstPassOnce, LabelsBound, VariablesApart, CodeInv,
           crtFile = 1, stage = "second", ReplaceKnown
    PROVE  ReplacingInv'
<1>1. /\ HasLine /\ Current.op = "symbol" /\ Current.name \in DOMAIN symbolsTable
      /\ output' = Append(output, NumericA(symbolsTable[Current.name])) /\ pos' = pos + 1
      /\ UNCHANGED <<files, crtFile, stage, crtVariableNo, symbolsTable>>
  BY DEF ReplaceKnown, Advance
<1>2. First \in Seq(Line) /\ Current = First[pos] /\ pos \in 1..Len(First)
  BY <1>1, InputFacts, AtLine DEF SymbolPass
<1>3. Resolve(First, Current) = NumericA(symbolsTable[Current.name])
  BY <1>1, TableMeans DEF Resolve
<1>4. symbolsTable[Current.name] \in Nat
  BY <1>1 DEF TypeOK, TableType
<1>5. symbolsTable[Current.name] <= MAX_INT
  <2>1. CASE Current.name \in Declared(First)
    <3>1. PICK i \in DOMAIN First : LabelAddress(First, Current.name) = RomAddress(First, i)
      BY <1>2, <2>1, LastDeclaration
    <3>2. symbolsTable[Current.name] = RomAddress(First, i)
      BY <1>1, <2>1, <3>1, TableMeans DEF Address
    <3>3. RomAddress(First, i) <= RomAddress(First, Len(First) + 1)
      <4>1. i \in Nat /\ Len(First) + 1 \in Nat /\ i <= Len(First) + 1
        BY <1>2, <3>1
      <4> QED
        BY <4>1, RomGrows
    <3>4. RomAddress(First, Len(First) + 1) <= MAX_INT
      BY DEF CodeInv, ReplacingInv, FitsInRom
    <3>5. RomAddress(First, i) \in Nat /\ RomAddress(First, Len(First) + 1) \in Nat
      <4>1. i \in Nat \ {0} /\ Len(First) + 1 \in Nat \ {0}
        BY <1>2, <3>1
      <4> QED
        BY <4>1, RomAddressStep
    <3> QED
      BY <3>2, <3>3, <3>4, <3>5, BoundsAssumption
  <2>2. CASE Current.name \in DOMAIN PredefinedSymbols \ Declared(First)
    <3>1. symbolsTable[Current.name] = PredefinedSymbols[Current.name]
      BY <1>1, <2>2, TableMeans DEF Address
    <3> QED
      BY <1>1, <1>2, <2>2, <3>1, InputFacts
  <2>3. CASE Current.name \notin DOMAIN PredefinedSymbols \cup Declared(First)
    <3>1. Current.name \in Allocated
      BY <1>1, <2>3 DEF Allocated, First
    <3>2. symbolsTable[Current.name] \in VARIABLE_START..(crtVariableNo - 1)
      BY <3>1 DEF VariablesApart
    <3>3. crtVariableNo \in Nat /\ crtVariableNo < VARIABLE_END
      BY BoundsAssumption DEF TypeOK, CounterType, Reading
    <3> QED
      BY <1>4, <3>2, <3>3, BoundsAssumption, AddressAssumption
  <2> QED
    BY <2>1, <2>2, <2>3
<1>6. Encodable'
  <2>1. PICK v : v = symbolsTable[Current.name]
    OBVIOUS
  <2>2. NumericA(v) \in Line /\ IsInstruction(NumericA(v)) /\ IsValid(NumericA(v))
    BY <1>4, <1>5, <2>1 DEF NumericA, Line, IsInstruction, IsValid
  <2>3. Encodable
    BY DEF CodeInv, ReplacingInv
  <2> QED
    BY <1>1, <2>1, <2>2, <2>3, EncodableGrows
<1>7. IsInstruction(Current)
  BY <1>1 DEF IsInstruction
<1> QED
  BY <1>1, <1>3, <1>6, <1>7, SecondReads

-----------------------------------------------------------------------------
(* The invariant is kept, an action at a time.                             *)

\* A step that gathers nothing.
LEMMA ResultKept ==
    ASSUME CodeInv, Reading, UNCHANGED <<files, crtFile, allLines>>, stage' # "written",
           crtFile = 1 /\ stage' = "failed" => Refusable
    PROVE  ResultInv' /\ files' \in Inputs
<1>1. CASE allLines = << >>
  <2>1. crtFile = 1
    BY <1>1 DEF CodeInv, ResultInv
  <2>2. Refusable' = Refusable
    BY DEF Refusable, Promised!Acceptable, First
  <2> QED
    BY <1>1, <2>1, <2>2 DEF CodeInv, ResultInv
<1>2. CASE allLines # << >>
  <2>1. crtFile # 1 /\ Gathered
    BY <1>2 DEF CodeInv, ResultInv, Reading
  <2>2. Gathered'
    BY <2>1 DEF Gathered, First
  <2> QED
    BY <1>2, <2>1, <2>2 DEF CodeInv, ResultInv
<1> QED
  BY <1>1, <1>2

\* The invariant speaks of the first file, while it is read.
LEMMA NotTheFirst ==
    ASSUME crtFile' # 1 \/ stage' \in {"failed", "written"}
    PROVE  BindingInv' /\ ReplacingInv' /\ EncodingInv'
  BY DEF BindingInv, ReplacingInv, EncodingInv

LEMMA SkipKeeps ==
    ASSUME TypeOK, FirstPassOnce, CodeInv, SkipBlank
    PROVE  CodeInv'
<1>1. /\ Reading /\ HasLine /\ Current = Blank /\ pos' = pos + 1
      /\ UNCHANGED <<files, crtFile, stage, crtVariableNo, symbolsTable, output, binary,
                     allLines>>
  BY DEF SkipBlank, Advance, symbolVars, resultVars
<1>2. /\ IsValid(Current) /\ ~IsInstruction(Current)
      /\ Current.op \notin {"label", "symbol"}
  BY <1>1 DEF Blank, IsValid, IsInstruction
<1>3. stage' # "written" /\ stage' # "failed"
  BY <1>1 DEF Reading
<1>4. ResultInv' /\ files' \in Inputs
  BY <1>1, <1>3, ResultKept
<1>5. CASE crtFile # 1
  BY <1>1, <1>4, <1>5, NotTheFirst DEF CodeInv
<1>6. CASE crtFile = 1 /\ stage = "first"
  <2>1. BindingInv'
    BY <1>1, <1>2, <1>6, FirstReads
  <2> QED
    BY <1>1, <1>4, <1>6, <2>1 DEF CodeInv, ReplacingInv, EncodingInv
<1>7. CASE crtFile = 1 /\ stage = "second"
  <2>1. Encodable'
    BY <1>1, <1>7 DEF CodeInv, ReplacingInv, Encodable
  <2>2. ReplacingInv'
    BY <1>1, <1>2, <1>7, <2>1, SecondReads
  <2> QED
    BY <1>1, <1>4, <1>7, <2>2 DEF CodeInv, BindingInv, EncodingInv
<1>8. CASE crtFile = 1 /\ stage = "binary"
  <2>1. Current = output[pos] /\ pos \in DOMAIN output
    BY <1>1, <1>8 DEF Current, HasLine, Lines, TypeOK, ReaderType, ListType
  <2> QED
    BY <1>2, <1>8, <2>1 DEF CodeInv, EncodingInv, Encodable
<1> QED
  BY <1>1, <1>5, <1>6, <1>7, <1>8 DEF Reading

\* A malformed line of the first file is met before its code is encoded.
LEMMA RejectKeeps ==
    ASSUME TypeOK, CodeInv, RejectLine
    PROVE  CodeInv' /\ (crtFile = 1 => Refusable)
<1>1. /\ Reading /\ HasLine /\ ~IsValid(Current) /\ stage' = "failed"
      /\ UNCHANGED <<files, crtFile, allLines>>
  BY DEF RejectLine, Throw, resultVars
<1>2. ASSUME crtFile = 1
      PROVE  ~Promised!Acceptable
  <2>1. CASE SymbolPass
    <3>1. Current = First[pos] /\ pos \in DOMAIN First
      BY <1>1, <1>2, <2>1, AtLine, InputFacts
    <3> QED
      BY <1>1, <3>1, AcceptableIs DEF AllValid
  <2>2. CASE stage = "binary"
    <3>1. Current = output[pos] /\ pos \in DOMAIN output
      BY <1>1, <2>2 DEF Current, HasLine, Lines, TypeOK, ReaderType, ListType
    <3> QED
      BY <1>1, <1>2, <2>2, <3>1 DEF CodeInv, EncodingInv, Encodable
  <2> QED
    BY <1>1, <2>1, <2>2 DEF Reading, SymbolPass
<1>3. ResultInv' /\ files' \in Inputs
  BY <1>1, <1>2, ResultKept DEF Refusable
<1> QED
  BY <1>1, <1>2, <1>3, NotTheFirst DEF CodeInv, Refusable

LEMMA LabelKeeps ==
    ASSUME TypeOK, FirstPassOnce, CodeInv, VisitLabel
    PROVE  CodeInv'
<1>1. /\ SymbolPass /\ HasLine /\ Current.op = "label" /\ pos' = pos + 1
      /\ UNCHANGED <<files, crtFile, stage, crtVariableNo, output, allLines>>
      /\ symbolsTable' = IF firstPass THEN Bind(symbolsTable, Current.name, crtInstructionNo)
                         ELSE symbolsTable
  BY DEF VisitLabel, Advance, resultVars
<1>2. IsValid(Current) /\ ~IsInstruction(Current) /\ Current.op # "symbol"
  BY <1>1 DEF IsValid, IsInstruction
<1>3. stage' # "written" /\ stage' # "failed" /\ Reading
  BY <1>1 DEF Reading, SymbolPass
<1>4. ResultInv' /\ files' \in Inputs
  BY <1>1, <1>3, ResultKept
<1>5. CASE crtFile # 1
  BY <1>1, <1>4, <1>5, NotTheFirst DEF CodeInv
<1>6. CASE crtFile = 1 /\ stage = "first"
  <2>1. firstPass
    BY <1>6 DEF FirstPassOnce
  <2>2. BindingInv'
    BY <1>1, <1>2, <1>6, <2>1, FirstReads
  <2> QED
    BY <1>1, <1>4, <1>6, <2>2 DEF CodeInv, ReplacingInv, EncodingInv
<1>7. CASE crtFile = 1 /\ stage = "second"
  <2>1. ~firstPass
    BY <1>7 DEF FirstPassOnce
  <2>2. Encodable'
    BY <1>1, <1>7 DEF CodeInv, ReplacingInv, Encodable
  <2>3. ReplacingInv'
    BY <1>1, <1>2, <1>7, <2>1, <2>2, SecondReads
  <2> QED
    BY <1>1, <1>4, <1>7, <2>3 DEF CodeInv, BindingInv, EncodingInv
<1> QED
  BY <1>1, <1>5, <1>6, <1>7 DEF SymbolPass

\* The limit is passed by an instruction of the first file.
LEMMA CountKeeps ==
    ASSUME TypeOK, FirstPassOnce, CodeInv, CountInstruction
    PROVE  CodeInv' /\ (stage' = "failed" => Refusable)
<1>1. /\ SymbolPass /\ HasLine /\ IsInstruction(Current) /\ IsValid(Current)
      /\ crtFile = 1 /\ stage = "first" /\ crtInstructionNo = RomAddress(First, pos)
      /\ crtInstructionNo' = crtInstructionNo + 1
      /\ UNCHANGED <<files, crtFile, crtVariableNo, symbolsTable, output, allLines>>
  BY DEF CountInstruction, FirstPassOnce, SymbolPass, resultVars, First
<1>2. /\ First \in Seq(Line) /\ Current = First[pos] /\ pos \in 1..Len(First)
  BY <1>1, InputFacts, AtLine
<1>3. CASE stage' = "failed"
  <2>1. crtInstructionNo + 1 > MAX_INT
    BY <1>1, <1>3 DEF CountInstruction, Advance
  <2>2. RomAddress(First, pos + 1) = crtInstructionNo + 1
    <3>1. pos \in Nat \ {0}
      BY <1>2
    <3> QED
      BY <1>1, <1>2, <3>1, RomAddressStep
  <2>3. RomAddress(First, pos + 1) <= RomAddress(First, Len(First) + 1)
    <3>1. pos + 1 \in Nat /\ Len(First) + 1 \in Nat /\ pos + 1 <= Len(First) + 1
      BY <1>2
    <3> QED
      BY <3>1, RomGrows
  <2>4. RomAddress(First, Len(First) + 1) \in Nat /\ crtInstructionNo \in Nat
    <3>1. Len(First) + 1 \in Nat \ {0}
      BY <1>2
    <3> QED
      BY <3>1, RomAddressStep, BoundsAssumption DEF TypeOK, CounterType
  <2>5. ~FitsInRom(First)
    BY <2>1, <2>2, <2>3, <2>4, BoundsAssumption DEF FitsInRom
  <2>6. Refusable
    BY <2>5, AcceptableIs DEF Refusable
  <2>7. ResultInv' /\ files' \in Inputs
    BY <1>1, <1>3, <2>6, ResultKept DEF Reading, SymbolPass
  <2> QED
    BY <1>3, <2>6, <2>7, NotTheFirst DEF CodeInv
<1>4. CASE stage' # "failed"
  <2>1. pos' = pos + 1 /\ stage' = stage
    BY <1>4 DEF CountInstruction, Advance, Throw
  <2>2. Current.op # "label"
    BY <1>1 DEF IsInstruction
  <2>3. BindingInv'
    BY <1>1, <2>1, <2>2, FirstReads
  <2>4. ResultInv' /\ files' \in Inputs
    BY <1>1, <1>4, <2>1, ResultKept DEF Reading, SymbolPass
  <2> QED
    BY <1>1, <1>4, <2>1, <2>3, <2>4 DEF CodeInv, ReplacingInv, EncodingInv
<1> QED
  BY <1>3, <1>4

LEMMA CopyKeeps ==
    ASSUME TypeOK, FirstPassOnce, CodeInv, CopyInstruction
    PROVE  CodeInv'
<1>1. /\ SymbolPass /\ ~firstPass /\ HasLine /\ IsValid(Current)
      /\ Current.op \in {"number", "C"}
      /\ output' = Append(output, Current) /\ pos' = pos + 1
      /\ UNCHANGED <<files, crtFile, stage, crtVariableNo, symbolsTable, allLines>>
  BY DEF CopyInstruction, Advance, resultVars
<1>2. stage' # "written" /\ stage' # "failed" /\ Reading
  BY <1>1 DEF Reading, SymbolPass
<1>3. ResultInv' /\ files' \in Inputs
  BY <1>1, <1>2, ResultKept
<1>4. CASE crtFile # 1
  BY <1>1, <1>3, <1>4, NotTheFirst DEF CodeInv
<1>5. CASE crtFile = 1
  <2>1. stage = "second"
    BY <1>1, <1>5 DEF FirstPassOnce, SymbolPass
  <2>2. Current \in Line /\ IsInstruction(Current) /\ Resolve(First, Current) = Current
    BY <1>1, <1>5, AtLine DEF IsInstruction, Resolve
  <2>3. Encodable'
    BY <1>1, <1>5, <2>1, <2>2, EncodableGrows DEF CodeInv, ReplacingInv
  <2>4. ReplacingInv'
    BY <1>1, <1>5, <2>1, <2>2, <2>3, SecondReads
  <2> QED
    BY <1>1, <1>3, <2>1, <2>4 DEF CodeInv, BindingInv, EncodingInv
<1> QED
  BY <1>4, <1>5

LEMMA ReplaceKeeps ==
    ASSUME TypeOK, FirstPassOnce, LabelsBound, VariablesApart, CodeInv, ReplaceKnown
    PROVE  CodeInv'
<1>1. /\ SymbolPass /\ ~firstPass /\ UNCHANGED <<files, crtFile, stage, allLines>>
  BY DEF ReplaceKnown, Advance, resultVars
<1>2. stage' # "written" /\ stage' # "failed" /\ Reading
  BY <1>1 DEF Reading, SymbolPass
<1>3. ResultInv' /\ files' \in Inputs
  BY <1>1, <1>2, ResultKept
<1>4. CASE crtFile # 1
  BY <1>1, <1>3, <1>4, NotTheFirst DEF CodeInv
<1>5. CASE crtFile = 1
  <2>1. stage = "second"
    BY <1>1, <1>5 DEF FirstPassOnce, SymbolPass
  <2>2. ReplacingInv'
    BY <1>5, <2>1, Replaces
  <2> QED
    BY <1>1, <1>3, <2>1, <2>2 DEF CodeInv, BindingInv, EncodingInv
<1> QED
  BY <1>4, <1>5

\* The window is used up by the variables of the first file.
LEMMA AllocateKeeps ==
    ASSUME TypeOK, FirstPassOnce, CodeInv, AllocateVariable
    PROVE  CodeInv' /\ (crtFile = 1 /\ stage' = "failed" => Refusable)
<1>1. /\ SymbolPass /\ ~firstPass /\ HasLine /\ UNCHANGED <<files, crtFile, allLines>>
      /\ Current.op = "symbol" /\ Current.name \notin DOMAIN symbolsTable
      /\ crtVariableNo' = crtVariableNo + 1
      /\ stage' = stage \/ (stage' = "failed" /\ crtVariableNo' >= VARIABLE_END)
  BY DEF AllocateVariable, Advance, Throw, resultVars
<1>2. crtFile = 1 => stage = "second"
  BY <1>1 DEF FirstPassOnce, SymbolPass
<1>3. ASSUME crtFile = 1, stage' = "failed"
      PROVE  Refusable
  <2>1. crtVariableNo + 1 >= VARIABLE_END
    BY <1>1, <1>2, <1>3
  <2>2. /\ Cardinality(Seen(First, pos)) = Cardinality(Seen(First, pos - 1)) + 1
        /\ crtVariableNo = VARIABLE_START + Cardinality(Seen(First, pos - 1))
        /\ Cardinality(Seen(First, pos - 1)) \in Nat
    BY <1>1, <1>2, <1>3, NewVariable
  <2>3. /\ Cardinality(Seen(First, pos)) <= Cardinality(Variables(First))
        /\ Cardinality(Variables(First)) \in Nat
    BY InputFacts, SeenFinite
  <2>4. ~VariablesAdmitted(First)
    BY <2>1, <2>2, <2>3, BoundsAssumption DEF VariablesAdmitted
  <2> QED
    BY <2>4, AcceptableIs DEF Refusable, FillsWindow
<1>4. ResultInv' /\ files' \in Inputs
  BY <1>1, <1>3, ResultKept DEF Reading, SymbolPass
<1>5. CASE crtFile # 1 \/ stage' = "failed"
  BY <1>1, <1>3, <1>4, <1>5, NotTheFirst DEF CodeInv
<1>6. CASE crtFile = 1 /\ stage' # "failed"
  <2>1. stage = "second" /\ stage' = "second"
    BY <1>1, <1>2, <1>6
  <2>2. ReplacingInv'
    BY <1>6, <2>1, Allocates
  <2> QED
    BY <1>4, <1>6, <2>1, <2>2 DEF CodeInv, BindingInv, EncodingInv
<1> QED
  BY <1>3, <1>5, <1>6

LEMMA EndKeeps ==
    ASSUME TypeOK, FirstPassOnce, LabelsBound, CodeInv, EndOfPass
    PROVE  CodeInv'
<1>1. /\ SymbolPass /\ ~HasLine /\ pos' = 1
      /\ stage' = IF stage = "first" THEN "second" ELSE "binary"
      /\ binary' = IF stage = "first" THEN binary ELSE << >>
      /\ UNCHANGED <<files, crtFile, crtInstructionNo, crtVariableNo, symbolsTable, output,
                     allLines>>
  BY DEF EndOfPass, symbolVars
<1>2. ResultInv' /\ files' \in Inputs
  BY <1>1, ResultKept DEF Reading, SymbolPass
<1>3. CASE crtFile # 1
  BY <1>1, <1>2, <1>3, NotTheFirst DEF CodeInv
<1>4. CASE crtFile = 1
  <2>1. First \in Seq(Line) /\ First' = First /\ Lines = First
    BY <1>1, <1>4, InputFacts DEF First, Lines, SymbolPass
  <2>2. pos = Len(First) + 1 /\ pos - 1 = Len(First) /\ Len(First) \in Nat
    BY <1>1, <2>1 DEF HasLine, TypeOK, ReaderType, Reading, SymbolPass
  <2>3. CASE stage = "first"
    <3>1. /\ \A j \in 1..Len(First) : IsValid(First[j])
          /\ DOMAIN symbolsTable = DOMAIN PredefinedSymbols
                \cup {s \in Symbol : \E i \in 1..Len(First) : First[i] = Label(s)}
          /\ \A s \in DOMAIN PredefinedSymbols :
                (\A i \in 1..Len(First) : First[i] # Label(s))
                    => symbolsTable[s] = PredefinedSymbols[s]
          /\ crtVariableNo = VARIABLE_START /\ output = << >>
      BY <1>4, <2>2, <2>3 DEF CodeInv, BindingInv
    <3>2. AllValid(First)
      BY <2>1, <3>1 DEF AllValid
    <3>3. FitsInRom(First)
      <4>1. crtInstructionNo = RomAddress(First, Len(First) + 1)
        BY <1>4, <2>2, <2>3 DEF FirstPassOnce, First
      <4> QED
        BY <2>3, <4>1 DEF FitsInRom, TypeOK, CounterType, Reading
    <3>4. DOMAIN symbolsTable = DOMAIN PredefinedSymbols \cup Declared(First) \cup Seen(First, 0)
      BY <2>1, <3>1, Labelled, SeenEnds
    <3>5. ASSUME NEW s \in DOMAIN symbolsTable \ Declared(First)
          PROVE  symbolsTable[s] = Address(First, s)
      <4>1. s \in DOMAIN PredefinedSymbols /\ s \in Symbol
        BY <3>1, <3>5, Labelled, SymbolAssumption
      <4>2. \A i \in 1..Len(First) : First[i] # Label(s)
        BY <3>5, <4>1, Labelled
      <4> QED
        BY <3>1, <3>5, <4>1, <4>2 DEF Address
    <3>6. crtVariableNo = VARIABLE_START + Cardinality(Seen(First, 0))
      BY <2>1, <3>1, SeenEnds, BoundsAssumption
    <3>7. output = CodeTo(First, 0) /\ Encodable
      BY <2>1, <3>1, CodeSteps DEF Encodable
    <3>8. Encodable'
      BY <1>1, <3>7 DEF Encodable
    <3>9. stage' = "second" /\ pos' - 1 = 0
      BY <1>1, <2>3
    <3>10. ReplacingInv'
      BY <1>1, <2>1, <3>2, <3>3, <3>4, <3>5, <3>6, <3>7, <3>8, <3>9 DEF ReplacingInv
    <3> QED
      BY <1>2, <3>9, <3>10 DEF CodeInv, BindingInv, EncodingInv
  <2>4. CASE stage = "second"
    <3>1. /\ AllValid(First) /\ FitsInRom(First) /\ Encodable
          /\ crtVariableNo = VARIABLE_START + Cardinality(Seen(First, Len(First)))
          /\ output = CodeTo(First, Len(First))
      BY <1>4, <2>2, <2>4 DEF CodeInv, ReplacingInv
    <3>2. VariablesFit(First) /\ VariablesAdmitted(First)
      <4>1. Cardinality(Variables(First)) \in Nat
        BY <2>1, SeenFinite
      <4>2. crtVariableNo = VARIABLE_START + Cardinality(Variables(First))
        BY <2>1, <3>1, SeenEnds
      <4>3. crtVariableNo < VARIABLE_END
        BY <2>4 DEF TypeOK, CounterType, Reading
      <4> QED
        BY <4>1, <4>2, <4>3, BoundsAssumption DEF VariablesFit, VariablesAdmitted
    <3>3. Promised!Acceptable /\ Promised!Acceptable' = Promised!Acceptable
      <4>1. Promised!Acceptable
        BY <3>1, <3>2, AcceptableIs
      <4> QED
        BY <1>1, <4>1 DEF Promised!Acceptable
    <3>4. output = Code(First)
      BY <2>1, <3>1, CodeSteps
    <3>5. Encodable'
      BY <1>1, <3>1 DEF Encodable
    <3>6. stage' = "binary" /\ binary' = << >> /\ pos' - 1 = 0
      BY <1>1, <2>4
    <3>7. EncodingInv'
      BY <1>1, <2>1, <3>2, <3>3, <3>4, <3>5, <3>6 DEF EncodingInv
    <3> QED
      BY <1>2, <3>6, <3>7 DEF CodeInv, BindingInv, ReplacingInv
  <2> QED
    BY <1>1, <2>3, <2>4 DEF SymbolPass
<1> QED
  BY <1>3, <1>4

LEMMA EncodeKeeps ==
    ASSUME TypeOK, CodeInv, Encode
    PROVE  CodeInv'
<1>1. /\ stage = "binary" /\ HasLine /\ binary' = Append(binary, Current) /\ pos' = pos + 1
      /\ UNCHANGED <<files, crtFile, stage, output, allLines>>
  BY DEF Encode, Advance, symbolVars
<1>2. ResultInv' /\ files' \in Inputs
  BY <1>1, ResultKept DEF Reading
<1>3. CASE crtFile # 1
  BY <1>1, <1>2, <1>3, NotTheFirst DEF CodeInv
<1>4. CASE crtFile = 1
  <2>1. /\ Promised!Acceptable /\ VariablesAdmitted(First)
        /\ output = Code(First) /\ Encodable
        /\ Len(binary) = pos - 1 /\ \A i \in 1..(pos - 1) : binary[i] = output[i]
    BY <1>1, <1>4 DEF CodeInv, EncodingInv
  <2>2. /\ Current = output[pos] /\ pos \in Nat \ {0} /\ binary \in Seq(Line)
        /\ Current \in Line
    BY <1>1, CurrentType DEF Current, Lines, HasLine, TypeOK, ReaderType, ListType
  <2>3. Len(binary') = pos /\ \A i \in 1..pos : binary'[i] = output[i]
    <3>1. Len(binary') = pos
      BY <1>1, <2>1, <2>2
    <3>2. \A i \in 1..pos : i \in 1..(pos - 1) \/ i = pos
      BY <2>2
    <3>3. binary'[pos] = Current /\ \A i \in 1..(pos - 1) : binary'[i] = binary[i]
      BY <1>1, <2>1, <2>2
    <3> QED
      BY <2>1, <2>2, <3>1, <3>2, <3>3
  <2>4. Promised!Acceptable' = Promised!Acceptable /\ Encodable' /\ Code(First)' = Code(First)
        /\ First' = First
    BY <1>1, <2>1 DEF Promised!Acceptable, Encodable, First
  <2>5. pos' - 1 = pos
    BY <1>1, <2>2
  <2>6. EncodingInv'
    BY <1>1, <2>1, <2>3, <2>4, <2>5 DEF EncodingInv
  <2> QED
    BY <1>1, <1>2, <2>6 DEF CodeInv, BindingInv, ReplacingInv
<1> QED
  BY <1>3, <1>4

\* The code of the first file is what precedes the first empty line.
LEMMA FirstCodeIs ==
    ASSUME Gathered, allLines \in Seq(Line)
    PROVE  FirstCode = Code(First)
<1> DEFINE Ends(n) == allLines[n] = Blank /\ \A j \in 1..(n - 1) : allLines[j] # Blank
<1>1. PICK n \in DOMAIN allLines : Ends(n) /\ SubSeq(allLines, 1, n - 1) = Code(First)
  BY DEF Gathered
<1>2. PICK m : m = CHOOSE i \in DOMAIN allLines : Ends(i)
  OBVIOUS
<1>3. m \in DOMAIN allLines /\ Ends(m)
  BY <1>1, <1>2
<1>4. m = n
  <2>1. ~(m < n) /\ ~(n < m)
    BY <1>1, <1>3
  <2> QED
    BY <1>1, <1>3, <2>1
<1> QED
  BY <1>1, <1>2, <1>4 DEF FirstCode

LEMMA GatherKeeps ==
    ASSUME TypeOK, CodeInv, NextFile \/ WriteToFile
    PROVE  /\ CodeInv' /\ Gathered' /\ allLines' # << >>
           /\ allLines = << >> => crtFile = 1 /\ Promised!Acceptable
<1>1. /\ stage = "binary" /\ ~HasLine /\ allLines' = allLines \o Append(binary, Blank)
      /\ UNCHANGED files /\ (crtFile' # 1 \/ stage' = "written")
      /\ allLines \in Seq(Line) /\ binary \in Seq(Line) /\ Blank \in Line
  <2>1. crtFile \in Nat \ {0}
    BY DEF TypeOK, ReaderType
  <2>2. allLines \in Seq(Line) /\ binary \in Seq(Line) /\ Blank \in Line
    BY DEF TypeOK, ListType, Line
  <2>3. CASE NextFile
    <3>1. crtFile' = crtFile + 1
      BY <2>3 DEF NextFile
    <3>2. crtFile' # 1
      BY ONLY <2>1, <3>1
    <3> QED
      BY ONLY <2>2, <2>3, <3>2 DEF NextFile
  <2>4. CASE WriteToFile
    BY ONLY <2>2, <2>4 DEF WriteToFile
  <2> QED
    BY ONLY <2>3, <2>4, NextFile \/ WriteToFile
<1>2. Append(binary, Blank) \in Seq(Line) /\ Append(binary, Blank) # << >>
  BY <1>1
<1>3. /\ allLines' \in Seq(Line) /\ Len(allLines') = Len(allLines) + Len(binary) + 1
      /\ allLines' # << >>
  BY <1>1, <1>2
<1>4. First' = First
  BY <1>1 DEF First
<1>5. CASE allLines = << >>
  <2>1. crtFile = 1
    BY <1>5 DEF CodeInv, ResultInv
  <2>2. /\ Promised!Acceptable /\ VariablesAdmitted(First)
        /\ output = Code(First) /\ Encodable
        /\ Len(binary) = pos - 1 /\ \A i \in 1..(pos - 1) : binary[i] = output[i]
    BY <1>1, <2>1 DEF CodeInv, EncodingInv
  <2>3. pos - 1 = Len(output) /\ output \in Seq(Line)
    BY <1>1 DEF HasLine, Lines, TypeOK, ReaderType, ListType, Reading
  <2>4. binary = output
    BY <1>1, <2>2, <2>3
  <2>5. allLines' = Append(binary, Blank)
    BY <1>1, <1>2, <1>5
  <2> DEFINE n == Len(binary) + 1
  <2>6. n \in DOMAIN allLines' /\ allLines'[n] = Blank /\ n - 1 = Len(binary)
    BY <1>1, <2>5
  <2>7. \A j \in 1..Len(binary) : allLines'[j] = binary[j]
    BY <1>1, <2>5
  <2>8. \A j \in 1..Len(binary) : binary[j] # Blank
    BY <2>2, <2>4 DEF Encodable, IsInstruction, Blank
  <2>9. SubSeq(allLines', 1, Len(binary)) = binary
    BY <1>1, <1>3, <2>6, <2>7
  <2>10. Gathered'
    <3>1. SubSeq(allLines', 1, n - 1) = Code(First')
      BY <1>4, <2>2, <2>4, <2>6, <2>9
    <3>2. \A j \in 1..(n - 1) : allLines'[j] # Blank
      BY <2>6, <2>7, <2>8
    <3> HIDE DEF n
    <3> QED
      BY <1>4, <2>2, <2>6, <3>1, <3>2 DEF Gathered
  <2> QED
    BY <1>1, <1>3, <2>1, <2>2, <2>10, NotTheFirst DEF CodeInv, ResultInv
<1>6. CASE allLines # << >>
  <2>0. VariablesAdmitted(First)
    BY <1>6 DEF CodeInv, ResultInv, Gathered
  <2>1. PICK n \in DOMAIN allLines :
           /\ allLines[n] = Blank /\ \A j \in 1..(n - 1) : allLines[j] # Blank
           /\ SubSeq(allLines, 1, n - 1) = Code(First)
    BY <1>6 DEF CodeInv, ResultInv, Gathered
  <2>2. \A j \in 1..n : allLines'[j] = allLines[j]
    BY <1>1, <1>2, <2>1
  <2>3. n \in DOMAIN allLines' /\ n \in 1..n /\ \A j \in 1..(n - 1) : j \in 1..n
    BY <1>1, <1>3, <2>1
  <2>4. SubSeq(allLines', 1, n - 1) = SubSeq(allLines, 1, n - 1)
    <3>1. SubSeq(allLines', 1, n - 1) = [j \in 1..(n - 1) |-> allLines'[j]]
      BY <1>3, <2>1, <2>3
    <3>2. SubSeq(allLines, 1, n - 1) = [j \in 1..(n - 1) |-> allLines[j]]
      BY <1>1, <2>1
    <3> QED
      BY <2>2, <2>3, <3>1, <3>2
  <2>5. Gathered'
    BY <1>4, <2>1, <2>2, <2>3, <2>4, <2>0 DEF Gathered
  <2> QED
    BY <1>1, <1>3, <1>6, <2>5, NotTheFirst DEF CodeInv, ResultInv
<1> QED
  BY <1>5, <1>6

LEMMA StutterKeeps ==
    ASSUME CodeInv, UNCHANGED vars
    PROVE  CodeInv'
  BY DEF CodeInv, vars, BindingInv, ReplacingInv, EncodingInv, ResultInv, Encodable, Gathered,
         First, Refusable, Promised!Acceptable

LEMMA CodeInvKept ==
    TypeOK /\ FirstPassOnce /\ LabelsBound /\ VariablesApart /\ CodeInv /\ [Next]_vars
        => CodeInv'
  BY SkipKeeps, RejectKeeps, LabelKeeps, CountKeeps, CopyKeeps, ReplaceKeeps, AllocateKeeps,
     EndKeeps, EncodeKeeps, GatherKeeps, StutterKeeps DEF Next

LEMMA CodeInvStarts == Init => CodeInv
<1> SUFFICES ASSUME Init PROVE CodeInv
  OBVIOUS
<1>1. /\ files \in Inputs /\ crtFile = 1 /\ stage = "first" /\ pos = 1
      /\ crtVariableNo = VARIABLE_START /\ symbolsTable = PredefinedSymbols
      /\ output = << >> /\ allLines = << >>
  BY DEF Init
<1>2. \A j : j \notin 1..(pos - 1)
  BY <1>1
<1>3. BindingInv
  BY <1>1, <1>2 DEF BindingInv
<1> QED
  BY <1>1, <1>3 DEF CodeInv, ReplacingInv, EncodingInv, ResultInv

-----------------------------------------------------------------------------
(* Every step is one of AssemblerSpec, or changes nothing it sees.         *)

\* What AssemblerSpec sees of the assembler's input.
Source == files[1]

LEMMA StepImplements ==
    ASSUME TypeOK, FirstPassOnce, CodeInv, CodeInv', allLines' \in Seq(Line), [Next]_vars
    PROVE  [Promised!Next \/ RefusesFullWindow]_<<Source, FirstResult>>
<1>1. CASE NextFile \/ WriteToFile
  <2>1. Gathered' /\ allLines' # << >> /\ Source' = Source
    BY <1>1, GatherKeeps DEF NextFile, WriteToFile, Source
  <2>2. FirstCode' = Code(First)
    <3>1. (Gathered /\ allLines \in Seq(Line) => FirstCode = Code(First))'
      BY FirstCodeIs, PTL
    <3>2. Code(First)' = Code(First)
      BY <2>1 DEF First, Source
    <3> QED
      BY <2>1, <3>1, <3>2
  <2>3. FirstResult' = [status |-> "assembled", code |-> Code(First)]
    BY <2>1, <2>2 DEF FirstResult
  <2>4. CASE allLines = << >>
    <3>1. Promised!Acceptable
      BY <1>1, <2>4, GatherKeeps
    <3>2. FirstResult = [status |-> "pending"]
      BY <1>1, <2>4 DEF FirstResult, NextFile, WriteToFile
    <3>3. Promised!Assemble
      BY <2>3, <3>1, <3>2, CodeIs
      DEF Promised!Assemble, Promised!Pending, Promised!Assembled, FirstResult, First
    <3> QED
      BY <2>1, <3>3 DEF Promised!Next, Source
  <2>5. CASE allLines # << >>
    <3>1. Gathered /\ allLines \in Seq(Line)
      BY <2>5 DEF CodeInv, ResultInv, TypeOK, ListType
    <3>2. FirstResult = FirstResult'
      BY <2>3, <2>5, <3>1, FirstCodeIs DEF FirstResult
    <3> QED
      BY <2>1, <3>2
  <2> QED
    BY <2>4, <2>5
<1>2. CASE Next /\ ~NextFile /\ ~WriteToFile
  <2>1. UNCHANGED <<files, crtFile, allLines>> /\ stage # "failed"
    BY <1>2 DEF Next, SkipBlank, RejectLine, VisitLabel, CountInstruction, CopyInstruction,
       ReplaceKnown, AllocateVariable, EndOfPass, Encode, Reading, SymbolPass, resultVars
  <2>2. Source' = Source /\ FirstCode' = FirstCode
    BY <2>1 DEF Source, FirstCode
  <2>3. CASE allLines # << >> \/ stage' # "failed"
    BY <2>1, <2>2, <2>3 DEF FirstResult
  <2>4. CASE allLines = << >> /\ stage' = "failed"
    <3>1. crtFile = 1
      BY <2>4 DEF CodeInv, ResultInv
    <3>2. Refusable' = Refusable
      BY <2>1 DEF Refusable, Promised!Acceptable, First
    <3>3. Refusable
      BY <2>1, <2>4, <3>2 DEF CodeInv, ResultInv
    <3>4. FirstResult = Promised!Pending /\ FirstResult' = Promised!Refused
      BY <2>1, <2>4 DEF FirstResult, Promised!Pending, Promised!Refused
    <3>5. CASE ~Promised!Acceptable
      <4>1. Promised!Refuse
        BY <3>4, <3>5 DEF Promised!Refuse
      <4> QED
        BY <2>2, <4>1 DEF Promised!Next, Source
    <3>6. CASE FillsWindow(First)
      BY <2>1, <3>4, <3>6 DEF RefusesFullWindow, First
    <3> QED
      BY <3>3, <3>5, <3>6 DEF Refusable
  <2> QED
    BY <2>3, <2>4
<1>3. CASE UNCHANGED vars
  BY <1>3 DEF vars, Source, FirstResult, FirstCode
<1> QED
  BY <1>1, <1>2, <1>3

LEMMA CodeInvAlways == Spec => [](TypeOK /\ FirstPassOnce /\ CodeInv)
<1>1. Spec => []VariablesApart /\ []LabelsBound /\ []TypeOK
  BY VariablesCorrect, LabelsCorrect, TypeCorrect
<1> QED
  BY <1>1, CodeInvKept, CodeInvStarts, InitFirstPass, NextFirstPass, PTL DEF Spec

LEMMA PromiseStarts == Init => Promised!Init
  BY DEF Init, Promised!Init, Promised!Pending, FirstResult

(* The first file is assembled into its code, every symbol replaced by the *)
(* address it stands for, or refused for a malformed line, too many        *)
(* instructions or more variables than addresses, and for nothing else,    *)
(* but for a file whose variables are as many as the addresses of the      *)
(* window: that one may be refused (asm/builder.cpp:138).                  *)
THEOREM AssemblesOrRefuses == Spec => KeepsPromise
<1>1. TypeOK /\ TypeOK' /\ FirstPassOnce /\ CodeInv /\ CodeInv' /\ [Next]_vars
          => [Promised!Next \/ RefusesFullWindow]_<<Source, FirstResult>>
  BY StepImplements DEF TypeOK, ListType
<1>2. [][Promised!Next \/ RefusesFullWindow]_<<Source, FirstResult>> /\ Promised!Init
          => KeepsPromise
  BY PTL DEF KeepsPromise, Source
<1> QED
  BY <1>1, <1>2, PromiseStarts, CodeInvAlways, PTL DEF Spec

(* Where no file has exactly as many variables as the documented window    *)
(* has addresses, the assembler implements AssemblerSpec: the last address *)
(* of the window is the only thing it refuses against the documentation.   *)
THEOREM AssemblesAsDocumented ==
    ASSUME \A program \in Inputs : ~FillsWindow(program[1])
    PROVE  Spec => ImplementsPromise
<1>1. CodeInv => ~RefusesFullWindow
  BY DEF CodeInv, RefusesFullWindow
<1>2. TypeOK /\ TypeOK' /\ FirstPassOnce /\ CodeInv /\ CodeInv' /\ [Next]_vars
          => [Promised!Next]_<<Source, FirstResult>>
  BY <1>1, StepImplements DEF TypeOK, ListType
<1>3. [][Promised!Next]_<<Source, FirstResult>> /\ Promised!Init => ImplementsPromise
  BY PTL DEF ImplementsPromise, Promised!Spec, Source
<1> QED
  BY <1>2, <1>3, PromiseStarts, CodeInvAlways, PTL DEF Spec

(* A file whose variables take every address of the documented window is   *)
(* never assembled, though it has a code: with Terminates, it is refused,  *)
(* because incrementVariableNo tests the limit after the increment.        *)
THEOREM FullWindowRefused ==
    Spec => [](FillsWindow(files[1]) => FirstResult.status # "assembled")
<1>1. CodeInv => (FillsWindow(files[1]) => FirstResult.status # "assembled")
  <2> SUFFICES ASSUME CodeInv, FillsWindow(files[1])
               PROVE  FirstResult.status # "assembled"
    OBVIOUS
  <2>1. allLines = << >>
    BY DEF CodeInv, ResultInv, Gathered, FillsWindow, First
  <2> QED
    BY <2>1 DEF FirstResult
<1> QED
  BY <1>1, CodeInvAlways, PTL
=============================================================================
