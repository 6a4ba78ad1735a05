CONSTANTS
    WordSize = 7
    Programs <- MCPrograms
    Keys <- MCKeys
    Resets = {TRUE, FALSE}
    Symbol <- MCSymbol
    CFields <- CInstruction
    SCREEN = 32
    KBD = 48
    VARIABLE_START = 16
    VARIABLE_END = 32
    MAX_INT = 63
SPECIFICATION Spec
INVARIANT ColorTellsScreen
