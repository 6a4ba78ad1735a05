------------------------ MODULE JackSymbolTable_proofs ------------------------
(***************************************************************************)
(* The symbol table of the Jack compiler keeps its variables apart, for    *)
(* any classes.                                                            *)
(***************************************************************************)
EXTENDS JackSymbolTable, FiniteSetTheorems, TLAPS

ClassKinds == {"static", "field"}
LocalKinds == {"local", "argument"}
LocalDefinition == [name : Identifier, type : Identifier, kind : LocalKinds]

-----------------------------------------------------------------------------
(* What the declarations are.                                              *)

LEMMA ClassTyped ==
    ASSUME NEW class \in Class
    PROVE  /\ class.name \in Identifier
           /\ class.vars \in Seq(ClassVariable)
           /\ class.subroutines \in Seq(Subroutine)
           /\ Len(class.vars) \in Nat /\ Len(class.subroutines) \in Nat
           /\ \A i \in DOMAIN class.vars : class.vars[i] \in ClassVariable
           /\ \A s \in DOMAIN class.subroutines : class.subroutines[s] \in Subroutine
  <1>1. class.name \in Identifier /\ class.vars \in Seq(ClassVariable)
        /\ class.subroutines \in Seq(Subroutine)
    BY DEF Class
  <1>2. QED
    BY <1>1

LEMMA SubroutineTyped ==
    ASSUME NEW s \in Subroutine
    PROVE  /\ s.parameters \in Seq(LocalVariable) /\ s.vars \in Seq(LocalVariable)
           /\ s.kind \in {"constructor", "function", "method"}
  BY DEF Subroutine

\* The variables of a list become definitions of one kind.
LEMMA OfKindTyped ==
    ASSUME NEW kind \in LocalKinds, NEW variables \in Seq(LocalVariable)
    PROVE  OfKind(kind, variables) \in Seq(LocalDefinition)
  <1>1. DOMAIN variables = 1..Len(variables) /\ Len(variables) \in Nat
    OBVIOUS
  <1>2. \A n \in 1..Len(variables) :
            [name |-> variables[n].name, type |-> variables[n].type, kind |-> kind]
                \in LocalDefinition
    <2>1. TAKE n \in 1..Len(variables)
    <2>2. variables[n] \in LocalVariable
      BY <1>1
    <2>3. QED
      BY <2>2 DEF LocalVariable, LocalDefinition
  <1>3. OfKind(kind, variables) \in [1..Len(variables) -> LocalDefinition]
    BY <1>1, <1>2 DEF OfKind
  <1>4. QED
    BY <1>1, <1>3

\* What init() defines for a subroutine is a list of arguments and locals.
LEMMA LocalsTyped ==
    ASSUME NEW class \in Class, NEW subroutine \in Subroutine
    PROVE  Locals(class, subroutine) \in Seq(LocalDefinition)
  <1>1. OfKind("argument", subroutine.parameters) \in Seq(LocalDefinition)
        /\ OfKind("local", subroutine.vars) \in Seq(LocalDefinition)
    BY SubroutineTyped, OfKindTyped DEF LocalKinds
  <1>2. This(class) \in LocalDefinition
    BY ClassTyped, InputsAssumption DEF This, LocalDefinition, LocalKinds
  <1>3. Receiver(class, subroutine) \in Seq(LocalDefinition)
    BY <1>2 DEF Receiver
  <1>4. QED
    BY <1>1, <1>3 DEF Locals

-----------------------------------------------------------------------------
(* What a definition does to a table.                                      *)

LEMMA WithTable ==
    ASSUME NEW table, NEW kinds, IsTable(table, kinds),
           NEW name \in Identifier, NEW symbol \in Symbol, symbol.kind \in kinds
    PROVE  IsTable(With(table, name, symbol), kinds)
  <1>1. DOMAIN With(table, name, symbol) = DOMAIN table \cup {name}
    BY DEF With
  <1>2. IsFiniteSet(DOMAIN table \cup {name})
    BY FS_AddElement DEF IsTable
  <1>3. \A n \in DOMAIN table \cup {name} :
            With(table, name, symbol)[n] = IF n = name THEN symbol ELSE table[n]
    BY DEF With
  <1>4. QED
    BY <1>1, <1>2, <1>3 DEF IsTable

\* The indices given so far lie below the counters, and differ.
Below(table, counters) == \A n \in DOMAIN table : table[n].index < counters[table[n].kind]
Apart(table) ==
    \A m, n \in DOMAIN table :
        table[m].kind = table[n].kind /\ table[m].index = table[n].index => m = n

LEMMA WithApart ==
    ASSUME NEW table, NEW kinds, IsTable(table, kinds), NEW counters \in [Kinds -> Nat],
           NEW name, name \notin DOMAIN table, NEW symbol \in Symbol,
           symbol.index = counters[symbol.kind], Below(table, counters), Apart(table)
    PROVE  LET counted == [counters EXCEPT ![symbol.kind] = @ + 1]
           IN  Below(With(table, name, symbol), counted) /\ Apart(With(table, name, symbol))
  <1> DEFINE counted == [counters EXCEPT ![symbol.kind] = @ + 1]
             after == With(table, name, symbol)
  <1>1. DOMAIN after = DOMAIN table \cup {name}
    BY DEF With
  <1>2. after[name] = symbol /\ \A n \in DOMAIN table : after[n] = table[n]
    BY DEF With
  <1>3. symbol.kind \in Kinds /\ symbol.index \in Nat
    BY DEF Symbol
  <1>4. \A kind \in Kinds : counters[kind] \in Nat /\ counted[kind] \in Nat
                            /\ counters[kind] <= counted[kind]
    BY <1>3
  <1>5. counted[symbol.kind] = symbol.index + 1
    BY <1>3
  <1>6. \A n \in DOMAIN table : table[n].kind \in Kinds /\ table[n].index \in Nat
    BY DEF IsTable, Symbol
  <1> HIDE DEF counted, after
  <1>7. Below(after, counted)
    <2>1. SUFFICES ASSUME NEW n \in DOMAIN after
                   PROVE  after[n].index < counted[after[n].kind]
      BY DEF Below
    <2>2. CASE n = name
      BY <2>2, <1>2, <1>3, <1>5
    <2>3. CASE n \in DOMAIN table
      <3>1. table[n].index < counters[table[n].kind]
        BY <2>3 DEF Below
      <3>2. table[n].kind \in Kinds /\ table[n].index \in Nat
        BY <2>3, <1>6
      <3>3. QED
        BY <3>1, <3>2, <2>3, <1>2, <1>4
    <2>4. QED
      BY <2>2, <2>3, <1>1
  <1>8. Apart(after)
    <2>1. SUFFICES ASSUME NEW m \in DOMAIN after, NEW n \in DOMAIN after,
                          after[m].kind = after[n].kind, after[m].index = after[n].index
                   PROVE  m = n
      BY DEF Apart
    <2>2. \A k \in DOMAIN table : ~(table[k].kind = symbol.kind /\ table[k].index = symbol.index)
      <3>1. TAKE k \in DOMAIN table
      <3>2. table[k].index < counters[table[k].kind]
        BY DEF Below
      <3>3. QED
        BY <3>2, <1>3, <1>4, <1>6
    <2>3. CASE m \in DOMAIN table /\ n \in DOMAIN table
      BY <2>1, <2>3, <1>2 DEF Apart
    <2>4. CASE m = name \/ n = name
      BY <2>1, <2>2, <2>4, <1>1, <1>2
    <2>5. QED
      BY <2>3, <2>4, <1>1
  <1>9. QED
    BY <1>7, <1>8 DEF counted, after

\* A definition makes one more variable of its kind.
LEMMA WithCount ==
    ASSUME NEW table, IsFiniteSet(DOMAIN table), NEW name, name \notin DOMAIN table,
           NEW symbol, NEW kind
    PROVE  /\ Cardinality(OfThisKind(table, kind)) \in Nat
           /\ Cardinality(OfThisKind(With(table, name, symbol), kind))
                = Cardinality(OfThisKind(table, kind)) + (IF symbol.kind = kind THEN 1 ELSE 0)
  <1> DEFINE before == OfThisKind(table, kind)
             after == OfThisKind(With(table, name, symbol), kind)
  <1>1. IsFiniteSet(before)
    BY FS_Subset DEF OfThisKind
  <1>2. Cardinality(before) \in Nat
    BY <1>1, FS_CardinalityType
  <1>3. name \notin before
    BY DEF OfThisKind
  <1>4. after = IF symbol.kind = kind THEN before \cup {name} ELSE before
    BY DEF OfThisKind, With
  <1>5. Cardinality(before \cup {name}) = Cardinality(before) + 1
    BY <1>1, <1>3, FS_AddElement
  <1> HIDE DEF before, after
  <1>6. Cardinality(after) = Cardinality(before) + (IF symbol.kind = kind THEN 1 ELSE 0)
    BY <1>2, <1>4, <1>5
  <1>7. QED
    BY <1>2, <1>6 DEF before, after

-----------------------------------------------------------------------------
(* The type invariant.                                                     *)

\* The definition the compiler is at is one of the class or of the scope.
LEMMA CurrentTyped ==
    ASSUME TypeOK, Defining
    PROVE  /\ crtClass \in DOMAIN classes /\ CurrentClass \in Class
           /\ crtSubroutine \in DOMAIN CurrentClass.subroutines
           /\ CurrentSubroutine \in Subroutine
           /\ Current.name \in Identifier /\ Current.type \in Identifier
           /\ InClass => Current.kind \in ClassKinds
           /\ ~InClass => Current.kind \in LocalKinds
           /\ Current.kind \in Kinds
  <1>1. crtClass \in DOMAIN classes /\ classes \in Seq(Class)
    BY DEF TypeOK, Defining
  <1>2. CurrentClass \in Class
    BY <1>1 DEF CurrentClass
  <1>3. crtSubroutine \in DOMAIN CurrentClass.subroutines
    BY DEF TypeOK, Defining
  <1>4. CurrentSubroutine \in Subroutine
    BY <1>2, <1>3, ClassTyped DEF CurrentSubroutine
  <1> DEFINE n == Len(CurrentClass.vars)
             locals == Locals(CurrentClass, CurrentSubroutine)
  <1>5. n \in Nat /\ pos \in Nat \ {0} /\ pos <= n + Len(locals)
    BY <1>2, ClassTyped DEF TypeOK, Defining
  <1>6. locals \in Seq(LocalDefinition)
    BY <1>2, <1>4, LocalsTyped
  <1> HIDE DEF locals
  <1>7. CASE InClass
    <2>1. CurrentClass.vars \in Seq(ClassVariable) /\ pos \in 1..n
      BY <1>2, <1>5, <1>7, ClassTyped DEF InClass
    <2>2. Current \in ClassVariable
      BY <1>7, <2>1 DEF Current
    <2>3. QED
      BY <1>1, <1>2, <1>3, <1>4, <1>7, <2>2 DEF ClassVariable, ClassKinds, Kinds
  <1>8. CASE ~InClass
    <2>1. pos - n \in 1..Len(locals)
      BY <1>5, <1>6, <1>8 DEF InClass
    <2>2. locals[pos - n] \in LocalDefinition
      BY <1>6, <2>1
    <2>3. Current \in LocalDefinition
      BY <1>8, <2>2 DEF Current, locals
    <2>4. QED
      BY <1>1, <1>2, <1>3, <1>4, <1>8, <2>3 DEF LocalDefinition, LocalKinds, Kinds
  <1>9. QED
    BY <1>7, <1>8

LEMMA NoSymbolsTyped ==
    ASSUME NEW kinds
    PROVE  IsTable(NoSymbols, kinds)
  BY FS_EmptySet DEF IsTable, NoSymbols

LEMMA InitTypeOK == Init => TypeOK
  <1>1. SUFFICES ASSUME Init PROVE TypeOK
    OBVIOUS
  <1>2. classes \in Seq(Class)
    BY <1>1, InputsAssumption DEF Init
  <1>3. stage \in {"class", "done"} /\ (stage = "class" => crtClass \in DOMAIN classes)
    BY <1>1, <1>2 DEF Init
  <1>4. IsTable(classSymbols, ClassKinds) /\ IsTable(subroutineSymbols, LocalKinds)
    BY <1>1, NoSymbolsTyped DEF Init
  <1>5. indices \in [Kinds -> Nat]
    BY <1>1 DEF Init, NoIndices
  <1>6. QED
    BY <1>1, <1>2, <1>3, <1>4, <1>5 DEF Init, TypeOK, ClassKinds, LocalKinds

\* The symbol of the next definition.
CurrentSymbol == [type |-> Current.type, kind |-> Current.kind, index |-> indices[Current.kind]]

LEMMA CurrentSymbolTyped ==
    ASSUME TypeOK, Defining
    PROVE  CurrentSymbol \in Symbol /\ CurrentSymbol.kind = Current.kind
           /\ CurrentSymbol.index = indices[Current.kind] /\ indices[Current.kind] \in Nat
  BY CurrentTyped DEF TypeOK, CurrentSymbol, Symbol

LEMMA NextTypeOK == TypeOK /\ [Next]_tableVars => TypeOK'
  <1>1. SUFFICES ASSUME TypeOK, [Next]_tableVars PROVE TypeOK'
    OBVIOUS
  <1> USE DEF TypeOK, tables
  <1>2. CASE OpenOutput
    <2>1. IsTable(classSymbols', ClassKinds) /\ IsTable(subroutineSymbols', LocalKinds)
      BY <1>2, NoSymbolsTyped DEF OpenOutput
    <2>2. indices' \in [Kinds -> Nat]
      BY <1>2 DEF OpenOutput, NoIndices
    <2>3. QED
      BY <1>1, <1>2, <2>1, <2>2 DEF OpenOutput, ClassKinds, LocalKinds
  <1>3. CASE InitTable
    <2>1. IsTable(classSymbols', ClassKinds) /\ IsTable(subroutineSymbols', LocalKinds)
      BY <1>3, NoSymbolsTyped DEF InitTable
    <2>2. indices' \in [Kinds -> Nat]
      BY <1>3 DEF InitTable, NoIndices
    <2>3. CurrentClass \in Class
      BY <1>1, <1>3 DEF InitTable, CurrentClass
    <2>4. crtSubroutine' \in DOMAIN CurrentClass'.subroutines
      <3>1. CurrentClass' = CurrentClass /\ crtSubroutine' = crtSubroutine
        BY <1>3 DEF InitTable, CurrentClass
      <3>2. crtSubroutine \in 1..Len(CurrentClass.subroutines)
        BY <1>1, <1>3, <2>3, ClassTyped DEF InitTable
      <3>3. CurrentClass.subroutines \in Seq(Subroutine)
        BY <2>3, ClassTyped
      <3>4. QED
        BY <3>1, <3>2, <3>3
    <2>5. QED
      BY <1>1, <1>3, <2>1, <2>2, <2>4 DEF InitTable, ClassKinds, LocalKinds
  <1>4. CASE SkipField
    BY <1>1, <1>4 DEF SkipField, CurrentClass
  <1>5. CASE Define
    <2>1. Defining /\ Current.name \in Identifier
      BY <1>1, <1>5, CurrentTyped DEF Define
    <2>2. CurrentSymbol \in Symbol /\ CurrentSymbol.kind = Current.kind
      BY <1>1, <2>1, CurrentSymbolTyped
    <2>3. IsTable(classSymbols', ClassKinds) /\ IsTable(subroutineSymbols', LocalKinds)
      <3>1. CASE InClass
        <4>1. classSymbols' = With(classSymbols, Current.name, CurrentSymbol)
              /\ subroutineSymbols' = subroutineSymbols
          BY <1>5, <3>1 DEF Define, CurrentSymbol
        <4>2. Current.kind \in ClassKinds
          BY <1>1, <2>1, <3>1, CurrentTyped
        <4>3. IsTable(With(classSymbols, Current.name, CurrentSymbol), ClassKinds)
          BY <1>1, <2>1, <2>2, <4>2, WithTable DEF ClassKinds
        <4>4. QED
          BY <1>1, <4>1, <4>3 DEF LocalKinds
      <3>2. CASE ~InClass
        <4>1. subroutineSymbols' = With(subroutineSymbols, Current.name, CurrentSymbol)
              /\ classSymbols' = classSymbols
          BY <1>5, <3>2 DEF Define, CurrentSymbol
        <4>2. Current.kind \in LocalKinds
          BY <1>1, <2>1, <3>2, CurrentTyped
        <4>3. IsTable(With(subroutineSymbols, Current.name, CurrentSymbol), LocalKinds)
          BY <1>1, <2>1, <2>2, <4>2, WithTable DEF LocalKinds
        <4>4. QED
          BY <1>1, <4>1, <4>3 DEF ClassKinds
      <3>3. QED
        BY <3>1, <3>2
    <2>4. indices' \in [Kinds -> Nat]
      BY <1>1, <1>5, <2>1, CurrentTyped DEF Define
    <2>5. QED
      BY <1>1, <1>5, <2>3, <2>4 DEF Define, CurrentClass, ClassKinds, LocalKinds
  <1>6. CASE Redefine
    BY <1>1, <1>6 DEF Redefine
  <1>7. CASE Translated
    BY <1>1, <1>7 DEF Translated, Filled
  <1>8. CASE Raised \/ RefuseText
    BY <1>1, <1>8 DEF Raised, RefuseText
  <1>9. CASE CloseOutput
    BY <1>1, <1>9 DEF CloseOutput
  <1>10. CASE UNCHANGED tableVars
    BY <1>1, <1>10 DEF tableVars, CurrentClass
  <1>11. QED
    BY <1>1, <1>2, <1>3, <1>4, <1>5, <1>6, <1>7, <1>8, <1>9, <1>10 DEF Next

(* TypeOK holds in every behaviour, whatever the classes are.              *)
THEOREM TableTyped == Spec => []TypeOK
  BY InitTypeOK, NextTypeOK, PTL DEF Spec

-----------------------------------------------------------------------------
(* SlotsSound is not inductive: that the next index is free, and that the  *)
(* counts cover the indices, follows from the counters, which both count   *)
(* the variables of their kind and bound their indices.                    *)

Slots ==
    /\ \A kind \in Kinds : indices[kind] = count(kind)
    /\ Below(classSymbols, indices) /\ Below(subroutineSymbols, indices)
    /\ Apart(classSymbols) /\ Apart(subroutineSymbols)

LEMMA EmptyTables ==
    ASSUME classSymbols = NoSymbols, subroutineSymbols = NoSymbols, indices = NoIndices
    PROVE  Slots
  <1>1. \A kind \in Kinds : OfThisKind(NoSymbols, kind) = {}
    BY DEF OfThisKind, NoSymbols
  <1>2. Cardinality({}) = 0
    BY FS_EmptySet
  <1>3. \A kind \in Kinds : indices[kind] = count(kind)
    BY <1>1, <1>2 DEF count, NoIndices
  <1>4. QED
    BY <1>3 DEF Slots, Below, Apart, NoSymbols

LEMMA DefineSlots == TypeOK /\ Slots /\ Define => Slots'
  <1>1. SUFFICES ASSUME TypeOK, Slots, Define PROVE Slots'
    OBVIOUS
  <1>2. Defining /\ Current.name \notin Scope /\ Current.kind \in Kinds
    BY <1>1, CurrentTyped DEF Define
  <1>3. CurrentSymbol \in Symbol /\ CurrentSymbol.kind = Current.kind
        /\ CurrentSymbol.index = indices[Current.kind] /\ indices[Current.kind] \in Nat
    BY <1>1, <1>2, CurrentSymbolTyped
  <1>4. indices' = [indices EXCEPT ![CurrentSymbol.kind] = @ + 1] /\ indices \in [Kinds -> Nat]
    BY <1>1, <1>3 DEF Define, TypeOK
  <1>5. IsTable(classSymbols, ClassKinds) /\ IsTable(subroutineSymbols, LocalKinds)
    BY <1>1 DEF TypeOK, ClassKinds, LocalKinds
  <1> DEFINE nc(kind) == Cardinality(OfThisKind(classSymbols, kind))
             ns(kind) == Cardinality(OfThisKind(subroutineSymbols, kind))
  <1>6. \A kind : nc(kind) \in Nat /\ ns(kind) \in Nat
    <2>1. \A kind : IsFiniteSet(OfThisKind(classSymbols, kind))
                    /\ IsFiniteSet(OfThisKind(subroutineSymbols, kind))
      BY <1>5, FS_Subset DEF IsTable, OfThisKind
    <2>2. QED
      BY <2>1, FS_CardinalityType
  <1>7. \A kind \in Kinds : indices[kind] = nc(kind) + ns(kind)
    BY <1>1 DEF Slots, count
  <1>8. CASE InClass
    <2>1. classSymbols' = With(classSymbols, Current.name, CurrentSymbol)
          /\ subroutineSymbols' = subroutineSymbols
      BY <1>1, <1>8 DEF Define, CurrentSymbol
    <2>2. Current.name \notin DOMAIN classSymbols
      BY <1>2, <1>8 DEF Scope
    <2>3. Below(classSymbols', indices') /\ Apart(classSymbols')
      BY <1>1, <1>3, <1>4, <1>5, <2>1, <2>2, WithApart DEF Slots
    <2>4. Below(subroutineSymbols', indices') /\ Apart(subroutineSymbols')
      <3>1. \A kind \in Kinds : indices[kind] \in Nat /\ indices'[kind] \in Nat
                                /\ indices[kind] <= indices'[kind]
        BY <1>3, <1>4
      <3>2. \A n \in DOMAIN subroutineSymbols :
                subroutineSymbols[n].kind \in Kinds /\ subroutineSymbols[n].index \in Nat
        BY <1>5 DEF IsTable, Symbol
      <3>3. QED
        BY <1>1, <2>1, <3>1, <3>2 DEF Slots, Below
    <2>5. \A kind \in Kinds : indices'[kind] = count(kind)'
      <3>1. TAKE kind \in Kinds
      <3>2. Cardinality(OfThisKind(classSymbols', kind))
              = nc(kind) + (IF CurrentSymbol.kind = kind THEN 1 ELSE 0)
        BY <1>5, <2>1, <2>2, WithCount DEF IsTable
      <3>3. indices'[kind] = indices[kind] + (IF CurrentSymbol.kind = kind THEN 1 ELSE 0)
        BY <1>3, <1>4
      <3>4. QED
        BY <1>6, <1>7, <2>1, <3>2, <3>3 DEF count
    <2>6. QED
      BY <2>3, <2>4, <2>5 DEF Slots
  <1>9. CASE ~InClass
    <2>1. subroutineSymbols' = With(subroutineSymbols, Current.name, CurrentSymbol)
          /\ classSymbols' = classSymbols
      BY <1>1, <1>9 DEF Define, CurrentSymbol
    <2>2. Current.name \notin DOMAIN subroutineSymbols
      BY <1>2, <1>9 DEF Scope
    <2>3. Below(subroutineSymbols', indices') /\ Apart(subroutineSymbols')
      BY <1>1, <1>3, <1>4, <1>5, <2>1, <2>2, WithApart DEF Slots
    <2>4. Below(classSymbols', indices') /\ Apart(classSymbols')
      <3>1. \A kind \in Kinds : indices[kind] \in Nat /\ indices'[kind] \in Nat
                                /\ indices[kind] <= indices'[kind]
        BY <1>3, <1>4
      <3>2. \A n \in DOMAIN classSymbols :
                classSymbols[n].kind \in Kinds /\ classSymbols[n].index \in Nat
        BY <1>5 DEF IsTable, Symbol
      <3>3. QED
        BY <1>1, <2>1, <3>1, <3>2 DEF Slots, Below
    <2>5. \A kind \in Kinds : indices'[kind] = count(kind)'
      <3>1. TAKE kind \in Kinds
      <3>2. Cardinality(OfThisKind(subroutineSymbols', kind))
              = ns(kind) + (IF CurrentSymbol.kind = kind THEN 1 ELSE 0)
        BY <1>5, <2>1, <2>2, WithCount DEF IsTable
      <3>3. indices'[kind] = indices[kind] + (IF CurrentSymbol.kind = kind THEN 1 ELSE 0)
        BY <1>3, <1>4
      <3>4. QED
        BY <1>6, <1>7, <2>1, <3>2, <3>3 DEF count
    <2>6. QED
      BY <2>3, <2>4, <2>5 DEF Slots
  <1>10. QED
    BY <1>8, <1>9

LEMMA NextSlots == TypeOK /\ Slots /\ [Next]_tableVars => Slots'
  <1>1. SUFFICES ASSUME TypeOK, Slots, [Next]_tableVars PROVE Slots'
    OBVIOUS
  <1>2. CASE OpenOutput \/ InitTable
    <2>1. (classSymbols = NoSymbols)' /\ (subroutineSymbols = NoSymbols)'
          /\ (indices = NoIndices)'
      BY <1>2 DEF OpenOutput, InitTable, NoSymbols, NoIndices, Kinds
    <2>2. QED
      BY <2>1, EmptyTables, PTL
  <1>3. CASE Define
    BY <1>1, <1>3, DefineSlots
  <1>4. CASE UNCHANGED tables
    BY <1>1, <1>4 DEF Slots, tables, count
  <1>5. QED
    BY <1>1, <1>2, <1>3, <1>4
       DEF Next, tableVars, RefuseText, SkipField, Redefine, Translated, Raised, CloseOutput

LEMMA SlotsImply == TypeOK /\ Slots => SlotsSound
  <1>1. SUFFICES ASSUME TypeOK, Slots PROVE SlotsSound
    OBVIOUS
  <1>2. \A n \in DOMAIN classSymbols : classSymbols[n].kind \in Kinds
    BY <1>1 DEF TypeOK, IsTable, Symbol
  <1>3. \A n \in DOMAIN subroutineSymbols : subroutineSymbols[n].kind \in Kinds
    BY <1>1 DEF TypeOK, IsTable, Symbol
  <1>4. QED
    BY <1>1, <1>2, <1>3 DEF Slots, Below, Apart, SlotsSound

(* No two variables share a slot, and none lies outside of the room made   *)
(* for its kind, whatever the classes declare and hide.                    *)
THEOREM SlotsHold == Spec => []SlotsSound
  <1>1. Init => Slots
    BY EmptyTables DEF Init
  <1>2. QED
    BY <1>1, InitTypeOK, NextTypeOK, NextSlots, SlotsImply, PTL DEF Spec

-----------------------------------------------------------------------------
(* LayoutAgrees needs that the counters of the class have come as far as   *)
(* the declarations have.                                                  *)

\* The variables of a kind declared before position p.
Declared(p, kind) ==
    {n \in 1..(p - 1) : n <= Len(CurrentClass.vars) /\ CurrentClass.vars[n].kind = kind}

Seen(kind) == ~(kind = "field" /\ CurrentSubroutine.kind = "function")

CountersPlaced ==
    stage = "defining" =>
        \A kind \in ClassKinds :
            indices[kind] = IF Seen(kind) THEN Cardinality(Declared(pos, kind)) ELSE 0

LEMMA DeclaredFinite ==
    ASSUME NEW p \in Nat \ {0}, NEW kind
    PROVE  IsFiniteSet(Declared(p, kind)) /\ Cardinality(Declared(p, kind)) \in Nat
  <1>1. IsFiniteSet(1..(p - 1))
    BY FS_Interval
  <1>2. QED
    BY <1>1, FS_Subset, FS_CardinalityType DEF Declared

\* A step past a definition declares it.
LEMMA DeclaredNext ==
    ASSUME TypeOK, Defining, NEW kind
    PROVE  Cardinality(Declared(pos + 1, kind))
             = Cardinality(Declared(pos, kind))
               + (IF InClass /\ Current.kind = kind THEN 1 ELSE 0)
  <1>1. pos \in Nat \ {0} /\ Len(CurrentClass.vars) \in Nat
    BY CurrentTyped, ClassTyped DEF TypeOK
  <1>2. InClass => Current = CurrentClass.vars[pos]
    BY DEF Current
  <1>3. Declared(pos + 1, kind)
          = IF InClass /\ Current.kind = kind THEN Declared(pos, kind) \cup {pos}
            ELSE Declared(pos, kind)
    BY <1>1, <1>2 DEF Declared, InClass
  <1>4. pos \notin Declared(pos, kind)
    BY <1>1 DEF Declared
  <1>5. QED
    BY <1>1, <1>3, <1>4, DeclaredFinite, FS_AddElement

\* The slot of a declaration is the number of those before it.
LEMMA SlotDeclared ==
    ASSUME TypeOK, Defining, InClass
    PROVE  pos \in DOMAIN CurrentClass.vars /\ Current = CurrentClass.vars[pos]
           /\ Slot(pos) = Cardinality(Declared(pos, Current.kind))
  <1>1. pos \in Nat \ {0} /\ Len(CurrentClass.vars) \in Nat
        /\ CurrentClass.vars \in Seq(ClassVariable)
    BY CurrentTyped, ClassTyped DEF TypeOK
  <1>2. Current = CurrentClass.vars[pos] /\ pos <= Len(CurrentClass.vars)
    BY DEF Current, InClass
  <1>3. {n \in 1..(pos - 1) : CurrentClass.vars[n].kind = CurrentClass.vars[pos].kind}
          = Declared(pos, Current.kind)
    BY <1>1, <1>2 DEF Declared
  <1>4. pos \in DOMAIN CurrentClass.vars
    BY <1>1, <1>2
  <1>5. Slot(pos) = Cardinality(Declared(pos, Current.kind))
    BY <1>3 DEF Slot
  <1>6. QED
    BY <1>2, <1>4, <1>5

\* What both parts say of a step that leaves the class and the subroutine.
LEMMA SamePlace ==
    ASSUME UNCHANGED <<classes, crtClass, crtSubroutine>>
    PROVE  /\ CurrentClass' = CurrentClass
           /\ \A kind : Seen(kind)' <=> Seen(kind)
           /\ \A i : Slot(i)' = Slot(i)
  BY DEF CurrentClass, CurrentSubroutine, Seen, Slot

LEMMA DefineLayout ==
    TypeOK /\ LayoutAgrees /\ CountersPlaced /\ Define => LayoutAgrees' /\ CountersPlaced'
  <1>1. SUFFICES ASSUME TypeOK, LayoutAgrees, CountersPlaced, Define
                 PROVE  LayoutAgrees' /\ CountersPlaced'
    OBVIOUS
  <1>2. Defining /\ ~Hidden /\ stage = "defining" /\ stage' = "defining" /\ pos' = pos + 1
        /\ UNCHANGED <<classes, crtClass, crtSubroutine>>
    BY <1>1 DEF Define, Defining
  <1>3. CurrentClass' = CurrentClass /\ (\A kind : Seen(kind)' <=> Seen(kind))
        /\ (\A i : Slot(i)' = Slot(i))
    BY <1>2, SamePlace
  <1>4. Current.kind \in Kinds /\ (InClass => Current.kind \in ClassKinds)
        /\ (~InClass => Current.kind \in LocalKinds)
    BY <1>1, <1>2, CurrentTyped
  <1>5. Seen(Current.kind)
    BY <1>2 DEF Hidden, Seen
  <1>6. \A kind \in ClassKinds :
            indices[kind] = IF Seen(kind) THEN Cardinality(Declared(pos, kind)) ELSE 0
    BY <1>1, <1>2 DEF CountersPlaced
  <1>7. indices' = [indices EXCEPT ![Current.kind] = @ + 1] /\ indices \in [Kinds -> Nat]
    BY <1>1 DEF Define, TypeOK
  <1>8. CountersPlaced'
    <2>1. \A kind \in ClassKinds : Declared(pos, kind)' = Declared(pos + 1, kind)
      BY <1>2, <1>3 DEF Declared
    <2>2. \A kind \in ClassKinds :
              indices'[kind] = IF Seen(kind) THEN Cardinality(Declared(pos + 1, kind)) ELSE 0
      <3>1. TAKE kind \in ClassKinds
      <3>2. kind \in Kinds /\ kind \notin LocalKinds
        BY DEF ClassKinds, LocalKinds, Kinds
      <3>3. Cardinality(Declared(pos + 1, kind))
              = Cardinality(Declared(pos, kind))
                + (IF InClass /\ Current.kind = kind THEN 1 ELSE 0)
        BY <1>1, <1>2, DeclaredNext
      <3>4. indices'[kind] = indices[kind] + (IF Current.kind = kind THEN 1 ELSE 0)
        BY <1>4, <1>7, <3>2
      <3>5. Current.kind = kind => InClass
        BY <1>4, <3>2
      <3>6. Cardinality(Declared(pos, kind)) \in Nat
        BY <1>1, DeclaredFinite DEF TypeOK
      <3>7. QED
        BY <1>5, <1>6, <3>3, <3>4, <3>5, <3>6
    <2>3. QED
      BY <1>2, <1>3, <2>1, <2>2 DEF CountersPlaced
  <1>9. LayoutAgrees'
    <2>1. SUFFICES ASSUME NEW name \in DOMAIN classSymbols'
                   PROVE  \E i \in DOMAIN CurrentClass.vars :
                              /\ CurrentClass.vars[i].name = name
                              /\ classSymbols'[name].kind = CurrentClass.vars[i].kind
                              /\ classSymbols'[name].index = Slot(i)
      BY <1>3 DEF LayoutAgrees
    <2>2. CASE name \in DOMAIN classSymbols /\ classSymbols'[name] = classSymbols[name]
      BY <1>1, <1>2, <2>2 DEF LayoutAgrees
    <2>3. CASE InClass /\ name = Current.name
                /\ classSymbols' = With(classSymbols, Current.name, CurrentSymbol)
      <3>1. classSymbols'[name] = CurrentSymbol
        BY <2>3 DEF With
      <3>2. CurrentSymbol.kind = Current.kind /\ CurrentSymbol.index = indices[Current.kind]
        BY <1>1, <1>2, CurrentSymbolTyped
      <3>3. pos \in DOMAIN CurrentClass.vars /\ Current = CurrentClass.vars[pos]
            /\ Slot(pos) = Cardinality(Declared(pos, Current.kind))
        BY <1>1, <1>2, <2>3, SlotDeclared
      <3>4. indices[Current.kind] = Cardinality(Declared(pos, Current.kind))
        BY <1>4, <1>5, <1>6, <2>3
      <3>5. QED
        BY <2>3, <3>1, <3>2, <3>3, <3>4
    <2>4. CASE ~InClass
      <3>1. classSymbols' = classSymbols
        BY <1>1, <2>4 DEF Define
      <3>2. QED
        BY <2>1, <2>2, <3>1
    <2>5. CASE InClass
      <3>1. classSymbols' = With(classSymbols, Current.name, CurrentSymbol)
        BY <1>1, <2>5 DEF Define, CurrentSymbol
      <3>2. name = Current.name
            \/ (name \in DOMAIN classSymbols /\ classSymbols'[name] = classSymbols[name])
        BY <2>1, <3>1 DEF With
      <3>3. QED
        BY <2>2, <2>3, <2>5, <3>1, <3>2
    <2>6. QED
      BY <2>4, <2>5
  <1>10. QED
    BY <1>8, <1>9

LEMMA SkipLayout ==
    TypeOK /\ LayoutAgrees /\ CountersPlaced /\ SkipField => LayoutAgrees' /\ CountersPlaced'
  <1>1. SUFFICES ASSUME TypeOK, LayoutAgrees, CountersPlaced, SkipField
                 PROVE  LayoutAgrees' /\ CountersPlaced'
    OBVIOUS
  <1>2. Defining /\ Hidden /\ stage = "defining" /\ stage' = "defining" /\ pos' = pos + 1
        /\ UNCHANGED <<classes, crtClass, crtSubroutine, classSymbols, indices>>
    BY <1>1 DEF SkipField, Defining, tables
  <1>3. CurrentClass' = CurrentClass /\ (\A kind : Seen(kind)' <=> Seen(kind))
        /\ (\A i : Slot(i)' = Slot(i))
    BY <1>2, SamePlace
  <1>4. LayoutAgrees'
    BY <1>1, <1>2, <1>3 DEF LayoutAgrees
  <1>5. \A kind \in ClassKinds : Seen(kind) =>
            Cardinality(Declared(pos + 1, kind)) = Cardinality(Declared(pos, kind))
    <2>1. TAKE kind \in ClassKinds
    <2>2. HAVE Seen(kind)
    <2>3. Current.kind # kind
      BY <1>2, <2>2 DEF Hidden, Seen
    <2>4. Cardinality(Declared(pos, kind)) \in Nat
      BY <1>1, DeclaredFinite DEF TypeOK
    <2>5. QED
      BY <1>1, <1>2, <2>3, <2>4, DeclaredNext
  <1>6. \A kind \in ClassKinds : Declared(pos, kind)' = Declared(pos + 1, kind)
    BY <1>2, <1>3 DEF Declared
  <1>7. CountersPlaced'
    BY <1>1, <1>2, <1>3, <1>5, <1>6 DEF CountersPlaced
  <1>8. QED
    BY <1>4, <1>7

LEMMA NextLayout ==
    TypeOK /\ LayoutAgrees /\ CountersPlaced /\ [Next]_tableVars
        => LayoutAgrees' /\ CountersPlaced'
  <1>1. SUFFICES ASSUME TypeOK, LayoutAgrees, CountersPlaced, [Next]_tableVars
                 PROVE  LayoutAgrees' /\ CountersPlaced'
    OBVIOUS
  <1>2. CASE OpenOutput
    BY <1>2 DEF OpenOutput, LayoutAgrees, CountersPlaced, NoSymbols
  <1>3. CASE InitTable
    <2>1. LayoutAgrees'
      BY <1>3 DEF InitTable, LayoutAgrees, NoSymbols
    <2>2. \A kind \in ClassKinds : Declared(pos, kind)' = {}
      BY <1>3 DEF InitTable, Declared
    <2>3. \A kind \in ClassKinds : indices'[kind] = 0
      BY <1>3 DEF InitTable, NoIndices, ClassKinds, Kinds
    <2>4. CountersPlaced'
      BY <2>2, <2>3, FS_EmptySet DEF CountersPlaced
    <2>5. QED
      BY <2>1, <2>4
  <1>4. CASE SkipField
    BY <1>1, <1>4, SkipLayout
  <1>5. CASE Define
    BY <1>1, <1>5, DefineLayout
  <1>6. CASE RefuseText \/ Redefine \/ Raised \/ CloseOutput
    BY <1>6 DEF RefuseText, Redefine, Raised, CloseOutput, LayoutAgrees, CountersPlaced
  <1>7. CASE Translated
    <2>1. stage = "defining" /\ stage' = "subroutine"
          /\ UNCHANGED <<classes, crtClass, classSymbols>>
      BY <1>7 DEF Translated, Filled, tables
    <2>2. CurrentClass' = CurrentClass /\ \A i : Slot(i)' = Slot(i)
      BY <2>1 DEF CurrentClass, Slot
    <2>3. QED
      BY <1>1, <2>1, <2>2 DEF LayoutAgrees, CountersPlaced
  <1>8. CASE UNCHANGED tableVars
    <2>1. UNCHANGED <<classes, crtClass, crtSubroutine, stage, pos, classSymbols, indices>>
      BY <1>8 DEF tableVars, tables
    <2>2. CurrentClass' = CurrentClass /\ (\A kind : Seen(kind)' <=> Seen(kind))
          /\ (\A i : Slot(i)' = Slot(i))
      BY <2>1, SamePlace
    <2>3. \A kind : Declared(pos, kind)' = Declared(pos, kind)
      BY <2>1, <2>2 DEF Declared
    <2>4. QED
      BY <1>1, <2>1, <2>2, <2>3 DEF LayoutAgrees, CountersPlaced
  <1>9. QED
    BY <1>1, <1>2, <1>3, <1>4, <1>5, <1>6, <1>7, <1>8 DEF Next

(* Every subroutine sees a field or a static variable in the slot of its   *)
(* declaration: objects and statics have one layout, in any program.       *)
THEOREM LayoutHolds == Spec => []LayoutAgrees
  <1>1. Init => LayoutAgrees /\ CountersPlaced
    BY DEF Init, LayoutAgrees, CountersPlaced
  <1>2. QED
    BY <1>1, InitTypeOK, NextTypeOK, NextLayout, PTL DEF Spec
=============================================================================
