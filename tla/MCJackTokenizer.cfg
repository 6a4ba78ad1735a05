CONSTANTS
    KEYWORDS = {"class"}
    Names = {"x"}
    Numbers = {"7"}
    SYMBOLS = {"/", "*", ";"}
    Files <- MCFiles
SPECIFICATION Spec
INVARIANT ReadsAsWritten
CHECK_DEADLOCK FALSE
