---------------------------- MODULE VMTranslator ----------------------------
(***************************************************************************)
(* The VM translator: HackBuilderVMTranslator reads the files of a         *)
(* directory line by line, and VMHackTranslator joins what it makes of     *)
(* them and puts the bootstrap code in front.  The counters that number    *)
(* labels are static variables of the translating functions: they live as  *)
(* long as the process.                                                    *)
(***************************************************************************)
EXTENDS VMCommands

CONSTANT Inputs     \* what the translator may be given: a file, or the files of a directory

ASSUME InputsAssumption ==
    \A in \in Inputs :
        /\ in.directory \in BOOLEAN
        /\ Len(in.files) \in Nat \ {0} /\ DOMAIN in.files = 1..Len(in.files)
        /\ \A f \in DOMAIN in.files :
              LET commands == in.files[f].commands
              IN  /\ Len(commands) \in Nat /\ DOMAIN commands = 1..Len(commands)
                  /\ \A n \in DOMAIN commands : IsCommand(commands[n])

VARIABLES
    input,          \* [directory : BOOLEAN, files : Seq([name, commands])]
    fileNo, lineNo, \* the line to be read
    function,       \* Builder::_function
    eqs, gts, lts,  \* the last number given to a comparison of each kind
    rets,           \* the last number given to a return address
    output,         \* the lines of the file, translated
    allLines,       \* those of the files before
    status

translatorVars ==
    <<input, fileNo, lineNo, function, eqs, gts, lts, rets, output, allLines, status>>

counters == <<eqs, gts, lts, rets>>

\* The bounds of the input are those of the runs.
Init ==
    /\ input \in Inputs
    /\ fileNo = 1 /\ lineNo = 1
    /\ function = ""
    /\ eqs = 0 /\ gts = 0 /\ lts = 0 /\ rets = -1
    /\ output = <<>> /\ allLines = <<>>
    /\ status = "translating"

File == input.files[fileNo]
HasLine == status = "translating" /\ lineNo <= Len(File.commands)
Current == File.commands[lineNo]

\* std::runtime_error, caught in main: nothing is written.
RejectLine ==
    /\ HasLine
    /\ ~IsValidCommand(Current)
    /\ status' = "refused"
    /\ UNCHANGED <<input, fileNo, lineNo, function, counters, output, allLines>>

SkipLine ==
    /\ HasLine
    /\ Current = NoCommand
    /\ lineNo' = lineNo + 1
    /\ UNCHANGED <<input, fileNo, function, counters, output, allLines, status>>

Emit(lines) ==
    /\ HasLine
    /\ IsValidCommand(Current)
    /\ output' = output \o lines
    /\ lineNo' = lineNo + 1
    /\ UNCHANGED <<input, fileNo, allLines, status>>

VisitMemorySegment ==
    /\ HasLine /\ Current.op \in {"push", "pop"}
    /\ Emit(memorySegment(Current, File.name))
    /\ UNCHANGED <<function, counters>>

VisitComparison ==
    /\ HasLine /\ Current.op \in {"eq", "gt", "lt"}
    /\ eqs' = IF Current.op = "eq" THEN eqs + 1 ELSE eqs
    /\ gts' = IF Current.op = "gt" THEN gts + 1 ELSE gts
    /\ lts' = IF Current.op = "lt" THEN lts + 1 ELSE lts
    /\ Emit(arithmeticLogic(Current.op,
                CASE Current.op = "eq" -> eqs' [] Current.op = "gt" -> gts' [] OTHER -> lts'))
    /\ UNCHANGED <<function, rets>>

VisitArithmeticLogic ==
    /\ HasLine /\ Current.op \in {"add", "sub", "neg", "and", "or", "not"}
    /\ Emit(arithmeticLogic(Current.op, 0))
    /\ UNCHANGED <<function, counters>>

VisitBranching ==
    /\ HasLine /\ Current.op \in {"label", "goto", "if-goto"}
    /\ Emit(branching(Current.op, fullLabel(File.name, function, Current.label)))
    /\ UNCHANGED <<function, counters>>

VisitFunction ==
    /\ HasLine /\ Current.op = "function"
    /\ Emit(functionCode(Current.name, Current.nVars))
    /\ function' = Current.name
    /\ UNCHANGED counters

VisitReturn ==
    /\ HasLine /\ Current.op = "return"
    /\ Emit(returnCode)
    /\ UNCHANGED <<function, counters>>

VisitCall ==
    /\ HasLine /\ Current.op = "call"
    /\ rets' = rets + 1
    /\ Emit(callCode(Current.name, Current.nArgs, rets'))
    /\ UNCHANGED <<function, eqs, gts, lts>>

\* Mutant of NextFile: the numbers of the labels belong to the builder.
NextFile_ResetsNumbers ==
    /\ status = "translating" /\ lineNo > Len(File.commands)
    /\ allLines' = allLines \o output
    /\ IF fileNo < Len(input.files)
       THEN /\ fileNo' = fileNo + 1 /\ lineNo' = 1
            /\ function' = "" /\ output' = <<>>
            /\ UNCHANGED status
       ELSE /\ status' = "joined"
            /\ UNCHANGED <<fileNo, lineNo, function, output>>
    /\ eqs' = 0 /\ gts' = 0 /\ lts' = 0 /\ rets' = -1
    /\ UNCHANGED input

\* The output of the file joins the others, and the builder is reset.
NextFile ==
    /\ status = "translating" /\ lineNo > Len(File.commands)
    /\ allLines' = allLines \o output
    /\ IF fileNo < Len(input.files)
       THEN /\ fileNo' = fileNo + 1 /\ lineNo' = 1
            /\ function' = "" /\ output' = <<>>
            /\ UNCHANGED status
       ELSE /\ status' = "joined"
            /\ UNCHANGED <<fileNo, lineNo, function, output>>
    /\ UNCHANGED <<input, counters>>

\* beforeWriteToFile and writeToFile: a directory gets the bootstrap code.
WriteToFile ==
    /\ status = "joined"
    /\ IF input.directory
       THEN /\ rets' = rets + 1
            /\ allLines' = bootstrapCode(rets') \o allLines
       ELSE UNCHANGED <<rets, allLines>>
    /\ status' = "written"
    /\ UNCHANGED <<input, fileNo, lineNo, function, eqs, gts, lts, output>>

Translating ==
    \/ RejectLine \/ SkipLine
    \/ VisitMemorySegment \/ VisitComparison \/ VisitArithmeticLogic \/ VisitBranching
    \/ VisitFunction \/ VisitReturn \/ VisitCall
    \/ NextFile \/ WriteToFile

TranslatorSpec == Init /\ [][Translating]_translatorVars

-----------------------------------------------------------------------------
(* The names of a program, told from its commands alone.                   *)

\* The lines, each given by the number of its file and its own in the file.
Positions(in) ==
    UNION {{f} \X DOMAIN in.files[f].commands : f \in DOMAIN in.files}

Given(in, p) == in.files[p[1]].commands[p[2]]

\* The function a line stands in, "" before the first one of its file.
Scope(in, p) ==
    LET before == {n \in 1..(p[2] - 1) : Given(in, <<p[1], n>>).op = "function"}
    IN  IF before = {} THEN ""
        ELSE Given(in, <<p[1], CHOOSE n \in before : \A m \in before : m <= n>>).name

Declaring(in) == {p \in Positions(in) : Given(in, p).op \in {"label", "function"}}
Branching(in) == {p \in Positions(in) : Given(in, p).op \in {"goto", "if-goto"}}
Calling(in)   == {p \in Positions(in) : Given(in, p).op = "call"}

ScopedLabel(in, p) == fullLabel(in.files[p[1]].name, Scope(in, p), Given(in, p).label)
OwnName(in, p) ==
    IF Given(in, p).op = "function" THEN Given(in, p).name ELSE ScopedLabel(in, p)

Callees(in) ==
    {Given(in, p).name : p \in Calling(in)} \cup (IF in.directory THEN {"Sys.init"} ELSE {})
Targets(in) == {ScopedLabel(in, p) : p \in Branching(in)} \cup Callees(in)

\* Symbols that are addresses of the RAM.
Locations(in) ==
    DOMAIN PredefinedSymbols
    \cup {staticName(in.files[p[1]].name, Given(in, p).value) :
             p \in {q \in Positions(in) : /\ Given(in, q).op \in {"push", "pop"}
                                          /\ Given(in, q).segment = "static"}}

LabelFamilies ==
    {"EQ_NOT_EQUAL", "EQ_DONE", "GT_THAN_ZERO", "GT_DONE", "LT_THAN_ZERO", "LT_DONE"}
numbered(family, n) == family \o ToString(n)

\* Names made of different things differ.  The first two conjuncts hold of
\* all strings; the others say that the program does not use, say, EQ_DONE1
\* as the name of a function.
NamesApart(in) ==
    LET numbers == 0..Cardinality(Positions(in))
        comparisons == {numbered(l, n) : l \in LabelFamilies, n \in numbers}
        returns == {returnAddress(f, n) : f \in Callees(in), n \in numbers}
        own == {OwnName(in, p) : p \in Declaring(in)}
    IN  /\ \A k, l \in LabelFamilies, m, n \in numbers :
              numbered(k, m) = numbered(l, n) => k = l /\ m = n
        /\ \A f, g \in Callees(in), m, n \in numbers :
              returnAddress(f, m) = returnAddress(g, n) => m = n
        /\ comparisons \cap returns = {}
        /\ (comparisons \cup returns) \cap own = {}
        /\ (comparisons \cup returns \cup own) \cap Locations(in) = {}

\* No function and no label of a function is declared twice, and those that
\* are called or gone to are declared: what the translator does not check.
Linked(in) ==
    /\ \A p, q \in Declaring(in) : OwnName(in, p) = OwnName(in, q) => p = q
    /\ Targets(in) \subseteq {OwnName(in, p) : p \in Declaring(in)}

-----------------------------------------------------------------------------
(* Every symbol the code jumps to or saves as a return address is declared *)
(* by exactly one line, although files, functions and comparisons number   *)
(* and name their labels separately, and no symbol of a variable by any:   *)
(* no jump goes to a variable, and no variable is in the ROM.              *)
JumpsResolveOnce ==
    status = "written" /\ Linked(input) /\ NamesApart(input) =>
        \A i \in DOMAIN allLines :
            allLines[i].op = "symbol" =>
                Cardinality({j \in DOMAIN allLines : allLines[j] = Label(allLines[i].name)})
                    = IF allLines[i].name \in Locations(input) THEN 0 ELSE 1
=============================================================================
