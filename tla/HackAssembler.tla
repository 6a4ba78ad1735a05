---------------------------- MODULE HackAssembler ----------------------------
(***************************************************************************)
(* The assembler, AsmHack: HackTranslator::translate runs, for each input  *)
(* file, the chain of the two builders of AsmHackTranslator.               *)
(* HackSymbolTranslator reads the file twice (the first pass binds labels, *)
(* the second one allocates variables and replaces symbols by addresses),  *)
(* HackBinaryTranslator encodes what the second pass wrote.                *)
(*                                                                         *)
(* One step is one line of one pass.  Two files in a run happen only when  *)
(* the assembler is given a directory whose name has a dot in it, since    *)
(* the constructor replaces the extension of the path.                     *)
(***************************************************************************)
EXTENDS AsmProgram

CONSTANT Inputs       \* the inputs considered: each a sequence of files

ASSUME InputsAssumption == Inputs \subseteq Seq(Seq(Line)) \ {<< >>}

\* Every address a symbol is replaced by fits in an A-instruction: those of the
\* memory maps that a file names, and those of the variables (the last address
\* of their window is never used).  The code's bounds are 24576 and 256, and
\* the largest value is 32767.
ASSUME AddressAssumption ==
    /\ VARIABLE_END - 2 <= MAX_INT
    /\ \A program \in Inputs : \A n \in DOMAIN program : \A i \in DOMAIN program[n] :
          LET line == program[n][i]
          IN  line.op = "symbol" /\ line.name \in DOMAIN PredefinedSymbols
                  => PredefinedSymbols[line.name] <= MAX_INT

-----------------------------------------------------------------------------
VARIABLES
    files,               \* getInputFiles(): the lines of each file
    crtFile,             \* the file translate() is at
    stage,               \* "first", "second": the calls of processLines by
                         \* HackSymbolTranslator; "binary"; "written", "failed"
    pos,                 \* the line processLines is at
    firstPass,           \* _firstPass
    crtInstructionNo,    \* _crtInstructionNo
    crtVariableNo,       \* _crtVariableNo
    symbolsTable,        \* _symbolsTable
    output,              \* output of HackSymbolTranslator
    binary,              \* output of HackBinaryTranslator
    allLines,            \* the lines translate() has gathered
    hackFile             \* the file written, << >> before

vars == <<files, crtFile, stage, pos, firstPass, crtInstructionNo,
          crtVariableNo, symbolsTable, output, binary, allLines, hackFile>>

symbolVars == <<crtInstructionNo, crtVariableNo, symbolsTable, output>>
resultVars == <<binary, allLines, hackFile>>

\* The constructor: the builders are made once, for every file.
Init ==
    /\ files \in Inputs
    /\ crtFile = 1
    /\ stage = "first"
    /\ pos = 1
    /\ firstPass = TRUE
    /\ crtInstructionNo = 0
    /\ crtVariableNo = VARIABLE_START
    /\ symbolsTable = PredefinedSymbols
    /\ output = << >>
    /\ binary = << >>
    /\ allLines = << >>
    /\ hackFile = << >>

\* The list processLines goes through, and the line it is at.
Lines == IF stage = "binary" THEN output ELSE files[crtFile]

HasLine == pos <= Len(Lines)
Current == Lines[pos]

SymbolPass == stage \in {"first", "second"}
Reading == stage \in {"first", "second", "binary"}

\* A runtime_error reaches main: it prints the message and writes no file.
Throw ==
    /\ stage' = "failed"
    /\ UNCHANGED pos

Advance ==
    /\ pos' = pos + 1
    /\ UNCHANGED stage

\* Mutant of SkipBlank: the line number is only advanced past instructions.
SkipBlank_Stays ==
    /\ Reading
    /\ HasLine /\ Current = Blank
    /\ UNCHANGED vars

\* A line that parses to no instruction is skipped.
SkipBlank ==
    /\ Reading
    /\ HasLine /\ Current = Blank
    /\ Advance
    /\ UNCHANGED <<files, crtFile, firstPass, symbolVars, resultVars>>

\* "Error parsing line".
RejectLine ==
    /\ Reading
    /\ HasLine /\ ~IsValid(Current)
    /\ Throw
    /\ UNCHANGED <<files, crtFile, firstPass, symbolVars, resultVars>>

\* _symbolsTable[s] = address
Bind(table, s, address) ==
    [t \in DOMAIN table \cup {s} |-> IF t = s THEN address ELSE table[t]]

\* Mutants of VisitLabel: the line number is bound; the label is bound in both
\* passes; the first declaration of a name is kept.
VisitLabel_LineNumber ==
    /\ SymbolPass
    /\ HasLine /\ Current.op = "label"
    /\ symbolsTable' = IF firstPass THEN Bind(symbolsTable, Current.name, pos - 1)
                       ELSE symbolsTable
    /\ Advance
    /\ UNCHANGED <<files, crtFile, firstPass, crtInstructionNo, crtVariableNo,
                   output, resultVars>>

VisitLabel_BothPasses ==
    /\ SymbolPass
    /\ HasLine /\ Current.op = "label"
    /\ symbolsTable' = Bind(symbolsTable, Current.name, crtInstructionNo)
    /\ Advance
    /\ UNCHANGED <<files, crtFile, firstPass, crtInstructionNo, crtVariableNo,
                   output, resultVars>>

VisitLabel_FirstWins ==
    /\ SymbolPass
    /\ HasLine /\ Current.op = "label"
    /\ symbolsTable' = IF firstPass /\ Current.name \notin DOMAIN symbolsTable
                       THEN Bind(symbolsTable, Current.name, crtInstructionNo)
                       ELSE symbolsTable
    /\ Advance
    /\ UNCHANGED <<files, crtFile, firstPass, crtInstructionNo, crtVariableNo,
                   output, resultVars>>

\* visit(Label): the first pass binds the label to the address of the next
\* instruction, over whatever the name was bound to.
VisitLabel ==
    /\ SymbolPass
    /\ HasLine /\ Current.op = "label"
    /\ symbolsTable' = IF firstPass
                       THEN Bind(symbolsTable, Current.name, crtInstructionNo)
                       ELSE symbolsTable
    /\ Advance
    /\ UNCHANGED <<files, crtFile, firstPass, crtInstructionNo, crtVariableNo,
                   output, resultVars>>

\* Mutant of CountInstruction: the limit is checked before the increment.
CountInstruction_Late ==
    /\ SymbolPass /\ firstPass
    /\ HasLine /\ IsInstruction(Current) /\ IsValid(Current)
    /\ crtInstructionNo' = crtInstructionNo + 1
    /\ IF crtInstructionNo > MAX_INT THEN Throw ELSE Advance
    /\ UNCHANGED <<files, crtFile, firstPass, crtVariableNo, symbolsTable,
                   output, resultVars>>

\* visit(AInstruction), visit(CInstruction) of the first pass, with
\* incrementInstructionNo.
CountInstruction ==
    /\ SymbolPass /\ firstPass
    /\ HasLine /\ IsInstruction(Current) /\ IsValid(Current)
    /\ crtInstructionNo' = crtInstructionNo + 1
    /\ IF crtInstructionNo' > MAX_INT THEN Throw ELSE Advance
    /\ UNCHANGED <<files, crtFile, firstPass, crtVariableNo, symbolsTable,
                   output, resultVars>>

\* The second pass copies a C-instruction and a numeric A-instruction.
CopyInstruction ==
    /\ SymbolPass /\ ~firstPass
    /\ HasLine /\ IsValid(Current)
    /\ Current.op \in {"number", "C"}
    /\ output' = Append(output, Current)
    /\ Advance
    /\ UNCHANGED <<files, crtFile, firstPass, crtInstructionNo, crtVariableNo,
                   symbolsTable, resultVars>>

\* visit(AInstruction) of a symbol the table holds.
ReplaceKnown ==
    /\ SymbolPass /\ ~firstPass
    /\ HasLine /\ Current.op = "symbol"
    /\ Current.name \in DOMAIN symbolsTable
    /\ output' = Append(output, NumericA(symbolsTable[Current.name]))
    /\ Advance
    /\ UNCHANGED <<files, crtFile, firstPass, crtInstructionNo, crtVariableNo,
                   symbolsTable, resultVars>>

\* Mutant of AllocateVariable: the counter is incremented before it is used.
AllocateVariable_PreIncrement ==
    /\ SymbolPass /\ ~firstPass
    /\ HasLine /\ Current.op = "symbol"
    /\ Current.name \notin DOMAIN symbolsTable
    /\ crtVariableNo' = crtVariableNo + 1
    /\ symbolsTable' = Bind(symbolsTable, Current.name, crtVariableNo')
    /\ IF crtVariableNo' >= VARIABLE_END
       THEN Throw /\ UNCHANGED output
       ELSE Advance /\ output' = Append(output, NumericA(crtVariableNo'))
    /\ UNCHANGED <<files, crtFile, firstPass, crtInstructionNo, resultVars>>

\* visit(AInstruction) of a new symbol: it becomes a variable.
\* incrementVariableNo throws before the instruction is written.
AllocateVariable ==
    /\ SymbolPass /\ ~firstPass
    /\ HasLine /\ Current.op = "symbol"
    /\ Current.name \notin DOMAIN symbolsTable
    /\ symbolsTable' = Bind(symbolsTable, Current.name, crtVariableNo)
    /\ crtVariableNo' = crtVariableNo + 1
    /\ IF crtVariableNo' >= VARIABLE_END
       THEN Throw /\ UNCHANGED output
       ELSE Advance /\ output' = Append(output, NumericA(crtVariableNo))
    /\ UNCHANGED <<files, crtFile, firstPass, crtInstructionNo, resultVars>>

\* getResult: after the first processLines, the second one; after it the next
\* builder reads the output of this one.  reset() has cleared binary.
EndOfPass ==
    /\ SymbolPass
    /\ ~HasLine
    /\ pos' = 1
    /\ stage' = IF stage = "first" THEN "second" ELSE "binary"
    /\ firstPass' = FALSE
    /\ binary' = IF stage = "first" THEN binary ELSE << >>
    /\ UNCHANGED <<files, crtFile, symbolVars, allLines, hackFile>>

\* HackBinaryTranslator::visit.  The encoding keeps the instruction.
Encode ==
    /\ stage = "binary"
    /\ HasLine /\ IsValid(Current)
    /\ binary' = Append(binary, Current)
    /\ Advance
    /\ UNCHANGED <<files, crtFile, firstPass, symbolVars, allLines, hackFile>>

\* translate(): gathers the lines of a file and an empty one, and goes to the
\* next file, for which reset() clears the output and nothing else.
NextFile ==
    /\ stage = "binary"
    /\ ~HasLine
    /\ crtFile < Len(files)
    /\ allLines' = allLines \o Append(binary, Blank)
    /\ crtFile' = crtFile + 1
    /\ stage' = "first"
    /\ pos' = 1
    /\ output' = << >>
    /\ UNCHANGED <<files, firstPass, crtInstructionNo, crtVariableNo,
                   symbolsTable, binary, hackFile>>

\* After the last file the gathered lines are written.
WriteToFile ==
    /\ stage = "binary"
    /\ ~HasLine
    /\ crtFile = Len(files)
    /\ allLines' = allLines \o Append(binary, Blank)
    /\ hackFile' = allLines'
    /\ stage' = "written"
    /\ UNCHANGED <<files, crtFile, pos, firstPass, symbolVars, binary>>

Next ==
    \/ SkipBlank \/ RejectLine
    \/ VisitLabel \/ CountInstruction \/ CopyInstruction
    \/ ReplaceKnown \/ AllocateVariable
    \/ EndOfPass \/ Encode \/ NextFile \/ WriteToFile

Spec == Init /\ [][Next]_vars /\ WF_vars(Next)

-----------------------------------------------------------------------------
(* Properties.                                                             *)

ReaderType ==
    /\ files \in Seq(Seq(Line)) /\ crtFile \in DOMAIN files
    /\ stage \in {"first", "second", "binary", "written", "failed"}
    /\ pos \in Nat \ {0}
    /\ Reading => pos <= Len(Lines) + 1
    /\ firstPass \in BOOLEAN

CounterType ==
    /\ crtInstructionNo \in 0..(MAX_INT + 1)
    /\ crtVariableNo \in VARIABLE_START..VARIABLE_END
    /\ Reading => crtInstructionNo <= MAX_INT /\ crtVariableNo < VARIABLE_END

TableType ==
    /\ DOMAIN PredefinedSymbols \subseteq DOMAIN symbolsTable
    /\ DOMAIN symbolsTable \subseteq Symbol
    /\ \A s \in DOMAIN symbolsTable : symbolsTable[s] \in Nat

ListType ==
    /\ output \in Seq(Line) /\ binary \in Seq(Line)
    /\ allLines \in Seq(Line) /\ hackFile \in Seq(Line)

\* The counters pass their limits only with the increment that throws.
TypeOK == ReaderType /\ CounterType /\ TableType /\ ListType

(* A label stands for the ROM address of the instruction that follows its  *)
(* last declaration: while the first file is read, every declaration the   *)
(* first pass has met and no later one has replaced is bound to the number *)
(* of instructions before it, and the second pass leaves it so.            *)
LabelsBound ==
    crtFile = 1 /\ SymbolPass =>
        \A s \in Symbol, i \in DOMAIN files[1] :
            DeclaresLast(files[1],
                         IF firstPass THEN pos - 1 ELSE Len(files[1]), i, s)
                => s \in DOMAIN symbolsTable
                   /\ symbolsTable[s] = RomAddress(files[1], i)

\* The names that got a RAM address from the second pass: neither a label of
\* the first file nor predefined.
Allocated ==
    DOMAIN symbolsTable \ (Declared(files[1]) \cup DOMAIN PredefinedSymbols)

\* The first pass happens once, in the first file, and counts instructions.
FirstPassOnce ==
    /\ firstPass => crtFile = 1 /\ stage \in {"first", "failed"}
    /\ crtFile = 1 /\ stage = "first" =>
          firstPass /\ crtInstructionNo = RomAddress(files[1], pos)

(* No two variables share an address, and a variable's address is in the   *)
(* window the counter has gone through, for as many files as are read.     *)
VariablesApart ==
    /\ \A s \in Allocated : symbolsTable[s] \in VARIABLE_START..(crtVariableNo - 1)
    /\ \A s, t \in Allocated : symbolsTable[s] = symbolsTable[t] => s = t

(* Once the first pass is over a symbol never changes its address: two     *)
(* references to a name can not be given different ones.                   *)
BindingsStable ==
    [][~firstPass => \A s \in DOMAIN symbolsTable :
           s \in DOMAIN symbolsTable' /\ symbolsTable'[s] = symbolsTable[s]]_vars

(* The assembler stops on every input, with a file written or not.         *)
Terminates == <>(stage \in {"written", "failed"})

\* The code of the first file, in the lines gathered so far.
FirstCode ==
    LET n == CHOOSE i \in DOMAIN allLines :
                 allLines[i] = Blank /\ \A j \in 1..(i - 1) : allLines[j] # Blank
    IN  SubSeq(allLines, 1, n - 1)

\* What has become of the first file.
FirstResult ==
    IF allLines # << >> THEN [status |-> "assembled", code |-> FirstCode]
    ELSE [status |-> IF stage = "failed" THEN "refused" ELSE "pending"]

Promised == INSTANCE AssemblerSpec WITH source <- files[1], result <- FirstResult

(* The first file given to the assembler is assembled into its code, every *)
(* symbol replaced by its address, or refused for a malformed line, too    *)
(* many instructions, or more variables than addresses in the documented   *)
(* window [start,end) of asm/builder.h:52.                                 *)
ImplementsPromise == Promised!Spec

\* The file's variables take every address of the window.
FillsWindow(lines) == VariablesFit(lines) /\ ~VariablesAdmitted(lines)

\* The one step the promise does not allow: a file that fills the window is
\* refused, since incrementVariableNo tests the limit after the increment.
RefusesFullWindow ==
    /\ FillsWindow(files[1])
    /\ FirstResult = Promised!Pending /\ FirstResult' = Promised!Refused
    /\ UNCHANGED files

(* The first file is assembled into its code or refused for the promise's  *)
(* reasons, but for a file with exactly as many variables as the window    *)
(* has addresses, which may be refused though its code exists              *)
(* (asm/builder.cpp:138).                                                  *)
KeepsPromise ==
    Promised!Init /\ [][Promised!Next \/ RefusesFullWindow]_<<files[1], FirstResult>>
=============================================================================
