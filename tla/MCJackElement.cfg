CONSTANTS
    Texts <- MCElementTexts
    Characters <- MCCharacters
    Identifier <- MCIdentifier
    Bodies <- MCBodies
    Inputs <- MCElementInputs
    WordSize = 8
    Heap <- MCHeap
    FirstObject <- MCFirstObject
    ShownAt <- MCShownAt
    Library <- MCLibrary
SPECIFICATION JackSpec
INVARIANT PrintsAsWritten
CHECK_DEADLOCK FALSE
