CONSTANTS
    Symbol <- MCSymbol
    Inputs <- MCInputs
    CFields = {"compute", "jump"}
    SCREEN = 16384
    KBD = 24576
    VARIABLE_START = 2
    VARIABLE_END = 5
    MAX_INT = 4
SPECIFICATION Spec
INVARIANTS
    TypeOK
    LabelsBound
    VariablesApart
PROPERTIES
    BindingsStable
    KeepsPromise
    Terminates
CHECK_DEADLOCK FALSE
