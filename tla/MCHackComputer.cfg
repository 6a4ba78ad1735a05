CONSTANTS
    WordSize = 5
    Keys <- MCKeys
    Resets = {TRUE, FALSE}
    Programs <- MCPrograms
SPECIFICATION Spec
PROPERTY ImplementsISA
