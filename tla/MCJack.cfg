CONSTANTS
    Texts <- MCTexts
    Characters <- MCCharacters
    Identifier <- MCIdentifier
    Bodies <- MCBodies
    Inputs <- MCInputs
    WordSize = 8
    Heap <- MCHeap
    FirstObject <- MCFirstObject
    ShownAt <- MCShownAt
    Library <- MCLibrary
SPECIFICATION JackSpec
INVARIANTS
    TypeOK
    SlotsSound
    LayoutAgrees
    LabelsOnce
    RefusesIllFormed
    PrintsTheText
    FilesWhole
    PrintsAsWritten
PROPERTY Finishes
CHECK_DEADLOCK FALSE
