CONSTANTS
    WordSize = 16
    Symbol <- MCSymbol
    CFields <- CInstruction
    Inputs <- MCInputs
    SCREEN = 16384
    KBD = 24576
    VARIABLE_START = 16
    VARIABLE_END = 20
    MAX_INT = 32767
    StackBase = 20
    Heap = {70, 71, 72, 73, 74}
    RAMEnd = 75
SPECIFICATION Spec
INVARIANT JumpsResolveOnce
PROPERTY ImplementsStackVM
CHECK_DEADLOCK FALSE
