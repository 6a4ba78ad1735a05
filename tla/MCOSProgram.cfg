CONSTANTS
    WordSize = 6
    X = 16
    Y = 9
    word = 4
    WIDTH = 2
    HEIGHT = 2
    Letter = Letter
    Arrow = Arrow
    SQUARE = SQUARE
    NEWLINE = NEWLINE
    BACKSPACE = BACKSPACE
    NOKEY = NOKEY
    Printable <- MCPrintable
    Glyph <- MCGlyph
    Keys <- MCKeys
    MAX_LINE_LENGTH = 4
    Codes = {45, 48, 51, 57, 97}
    MaxText = 3
    MaxRadius = 4
    Messages <- MCMessages
    Margin = 4
SPECIFICATION Spec
INVARIANTS
    CalculatesRight
    NumeralsSurvive
    LineFits
    EchoInStep
    ReturnsTheEcho
PROPERTIES
    DrawsItsShape
    OneCharacterPerStroke
CHECK_DEADLOCK FALSE
