--------------------------- MODULE JackSymbolTable ---------------------------
(***************************************************************************)
(* The symbol table of the Jack compiler and the order it is used in: for  *)
(* each class ClassElement::toVMCode goes through the subroutines, and     *)
(* init() fills the table with what one of them sees before its code is    *)
(* made.  One step is one definition.                                      *)
(***************************************************************************)
EXTENDS Integers, Sequences, FiniteSets

CONSTANTS
    Identifier,     \* names of variables, subroutines, classes and types
    Bodies,         \* the statements of a subroutine, which no symbol depends on
    Inputs          \* what the compiler may be given: sequences of classes

ClassVariable == [name : Identifier, type : Identifier, kind : {"static", "field"}]
LocalVariable == [name : Identifier, type : Identifier]

Subroutine ==
    [kind : {"constructor", "function", "method"}, name : Identifier,
     parameters : Seq(LocalVariable), vars : Seq(LocalVariable), body : Bodies]

Class == [name : Identifier, vars : Seq(ClassVariable), subroutines : Seq(Subroutine)]

ASSUME InputsAssumption ==
    /\ "this" \in Identifier
    /\ Inputs \subseteq Seq(Class)

\* SymbolKind.
Kinds == {"static", "field", "local", "argument"}

VARIABLES
    classes,             \* the files of the directory
    crtClass,            \* the file translate() is at
    crtSubroutine,       \* the subroutine its code is made for
    stage,               \* "class": the file is not opened yet; "subroutine":
                         \* between two of them; "defining": in init() or after
                         \* it; "done"; "failed"
    pos,                 \* the next definition of init()
    classSymbols,        \* _classSymbols
    subroutineSymbols,   \* _subroutineSymbols
    indices              \* _indices

tables == <<classSymbols, subroutineSymbols, indices>>
tableVars == <<classes, crtClass, crtSubroutine, stage, pos, tables>>

NoSymbols == [name \in {} |-> 0]
NoIndices == [kind \in Kinds |-> 0]

Init ==
    /\ classes \in Inputs
    /\ crtClass = 1 /\ crtSubroutine = 1
    /\ stage = IF classes = << >> THEN "done" ELSE "class"
    /\ pos = 1
    /\ classSymbols = NoSymbols /\ subroutineSymbols = NoSymbols
    /\ indices = NoIndices

CurrentClass == classes[crtClass]
CurrentSubroutine == CurrentClass.subroutines[crtSubroutine]

-----------------------------------------------------------------------------
OfKind(kind, variables) ==
    [n \in DOMAIN variables |->
        [name |-> variables[n].name, type |-> variables[n].type, kind |-> kind]]

This(class) == [name |-> "this", type |-> class.name, kind |-> "argument"]

Receiver(class, subroutine) ==
    IF subroutine.kind = "method" THEN <<This(class)>> ELSE << >>

\* What init() defines in the scope of the subroutine, after the variables of
\* the class.
Locals(class, subroutine) ==
    Receiver(class, subroutine)
    \o OfKind("argument", subroutine.parameters) \o OfKind("local", subroutine.vars)

InClass == pos <= Len(CurrentClass.vars)

\* The next definition.
Current ==
    IF InClass THEN CurrentClass.vars[pos]
    ELSE Locals(CurrentClass, CurrentSubroutine)[pos - Len(CurrentClass.vars)]

Defining ==
    /\ stage = "defining"
    /\ pos <= Len(CurrentClass.vars) + Len(Locals(CurrentClass, CurrentSubroutine))

\* A function has no fields.
Hidden == Current.kind = "field" /\ CurrentSubroutine.kind = "function"

\* Mutant of Scope: nothing may hide a variable of the class.
Scope_All == DOMAIN classSymbols \cup DOMAIN subroutineSymbols

\* The names of the scope the definition belongs to.
Scope == IF InClass THEN DOMAIN classSymbols ELSE DOMAIN subroutineSymbols

With(table, name, symbol) ==
    [n \in DOMAIN table \cup {name} |-> IF n = name THEN symbol ELSE table[n]]

\* get(): the subroutine's names hide those of the class.
Known(name) == name \in DOMAIN subroutineSymbols \cup DOMAIN classSymbols

get(name) ==
    IF name \in DOMAIN subroutineSymbols THEN subroutineSymbols[name] ELSE classSymbols[name]

OfThisKind(table, kind) == {name \in DOMAIN table : table[name].kind = kind}

\* Mutant of count: the variables of the class are forgotten.
count_Subroutine(kind) == Cardinality(OfThisKind(subroutineSymbols, kind))

count(kind) ==
    Cardinality(OfThisKind(classSymbols, kind)) + Cardinality(OfThisKind(subroutineSymbols, kind))

-----------------------------------------------------------------------------
\* build() opens the output of the next class, with a table of its own.
OpenOutput ==
    /\ stage = "class"
    /\ stage' = "subroutine"
    /\ crtSubroutine' = 1
    /\ classSymbols' = NoSymbols /\ subroutineSymbols' = NoSymbols /\ indices' = NoIndices
    /\ UNCHANGED <<classes, crtClass, pos>>

\* What is read is no class: the output is not opened.
RefuseText ==
    /\ stage = "class"
    /\ stage' = "failed"
    /\ UNCHANGED <<classes, crtClass, crtSubroutine, pos, tables>>

\* Mutant of InitTable: reset() forgets the indices.
InitTable_KeepsIndices ==
    /\ stage = "subroutine"
    /\ crtSubroutine <= Len(CurrentClass.subroutines)
    /\ stage' = "defining"
    /\ pos' = 1
    /\ classSymbols' = NoSymbols /\ subroutineSymbols' = NoSymbols
    /\ UNCHANGED <<classes, crtClass, crtSubroutine, indices>>

\* init() begins with reset().
InitTable ==
    /\ stage = "subroutine"
    /\ crtSubroutine <= Len(CurrentClass.subroutines)
    /\ stage' = "defining"
    /\ pos' = 1
    /\ classSymbols' = NoSymbols /\ subroutineSymbols' = NoSymbols /\ indices' = NoIndices
    /\ UNCHANGED <<classes, crtClass, crtSubroutine>>

SkipField ==
    /\ Defining
    /\ Hidden
    /\ pos' = pos + 1
    /\ UNCHANGED <<classes, crtClass, crtSubroutine, stage, tables>>

Define ==
    /\ Defining
    /\ ~Hidden /\ Current.name \notin Scope
    /\ LET symbol == [type |-> Current.type, kind |-> Current.kind,
                      index |-> indices[Current.kind]]
       IN  IF InClass
           THEN /\ classSymbols' = With(classSymbols, Current.name, symbol)
                /\ UNCHANGED subroutineSymbols
           ELSE /\ subroutineSymbols' = With(subroutineSymbols, Current.name, symbol)
                /\ UNCHANGED classSymbols
    /\ indices' = [indices EXCEPT ![Current.kind] = @ + 1]
    /\ pos' = pos + 1
    /\ UNCHANGED <<classes, crtClass, crtSubroutine, stage>>

\* "Redefinition of symbol".
Redefine ==
    /\ Defining
    /\ ~Hidden /\ Current.name \in Scope
    /\ stage' = "failed"
    /\ UNCHANGED <<classes, crtClass, crtSubroutine, pos, tables>>

\* The table is filled: the code of the subroutine is made, or making it
\* throws.
Filled == stage = "defining" /\ ~Defining

Translated ==
    /\ Filled
    /\ stage' = "subroutine"
    /\ crtSubroutine' = crtSubroutine + 1
    /\ UNCHANGED <<classes, crtClass, pos, tables>>

Raised ==
    /\ Filled
    /\ stage' = "failed"
    /\ UNCHANGED <<classes, crtClass, crtSubroutine, pos, tables>>

\* Mutant of CloseOutput: one class too many.
CloseOutput_OffByOne ==
    /\ stage = "subroutine"
    /\ crtSubroutine > Len(CurrentClass.subroutines)
    /\ IF crtClass <= Len(classes)
       THEN stage' = "class" /\ crtClass' = crtClass + 1
       ELSE stage' = "done" /\ UNCHANGED crtClass
    /\ UNCHANGED <<classes, crtSubroutine, pos, tables>>

CloseOutput ==
    /\ stage = "subroutine"
    /\ crtSubroutine > Len(CurrentClass.subroutines)
    /\ IF crtClass < Len(classes)
       THEN stage' = "class" /\ crtClass' = crtClass + 1
       ELSE stage' = "done" /\ UNCHANGED crtClass
    /\ UNCHANGED <<classes, crtSubroutine, pos, tables>>

Next ==
    \/ OpenOutput \/ RefuseText \/ InitTable \/ SkipField \/ Define \/ Redefine
    \/ Translated \/ Raised \/ CloseOutput

Spec == Init /\ [][Next]_tableVars

-----------------------------------------------------------------------------
(* Properties.                                                             *)

Symbol == [type : Identifier, kind : Kinds, index : Nat]

IsTable(table, kinds) ==
    /\ DOMAIN table \subseteq Identifier
    /\ IsFiniteSet(DOMAIN table)
    /\ \A name \in DOMAIN table : table[name] \in Symbol /\ table[name].kind \in kinds

\* The position of the compiler, and what the tables hold.
TypeOK ==
    /\ classes \in Seq(Class)
    /\ stage \in {"class", "subroutine", "defining", "done", "failed"}
    /\ stage \in {"class", "subroutine", "defining"} => crtClass \in DOMAIN classes
    /\ crtSubroutine \in Nat \ {0} /\ pos \in Nat \ {0}
    /\ stage = "defining" => crtSubroutine \in DOMAIN CurrentClass.subroutines
    /\ IsTable(classSymbols, {"static", "field"})
    /\ IsTable(subroutineSymbols, {"local", "argument"})
    /\ indices \in [Kinds -> Nat]

(* No two variables share a slot of a segment, and the counts a function   *)
(* and an object are given room by are the numbers of slots in use: no     *)
(* variable lies outside of what is allocated for it.                      *)
SlotsSound ==
    /\ \A m, n \in DOMAIN classSymbols : classSymbols[m].kind = classSymbols[n].kind
           /\ classSymbols[m].index = classSymbols[n].index => m = n
    /\ \A m, n \in DOMAIN subroutineSymbols : subroutineSymbols[m].kind = subroutineSymbols[n].kind
           /\ subroutineSymbols[m].index = subroutineSymbols[n].index => m = n
    /\ \A n \in DOMAIN classSymbols :
           classSymbols[n].index < count(classSymbols[n].kind)
    /\ \A n \in DOMAIN subroutineSymbols :
           subroutineSymbols[n].index < count(subroutineSymbols[n].kind)

\* The slot of the i-th variable of the class among those of its kind.
Slot(i) ==
    Cardinality({n \in 1..(i - 1) : CurrentClass.vars[n].kind = CurrentClass.vars[i].kind})

(* A field or a static variable has the same slot in every subroutine that *)
(* sees it, the one its declaration says, although each of them has its    *)
(* table filled anew: objects and statics have one layout.                 *)
LayoutAgrees ==
    stage \in {"subroutine", "defining"} =>
        \A name \in DOMAIN classSymbols :
            \E i \in DOMAIN CurrentClass.vars :
                /\ CurrentClass.vars[i].name = name
                /\ classSymbols[name].kind = CurrentClass.vars[i].kind
                /\ classSymbols[name].index = Slot(i)
=============================================================================
