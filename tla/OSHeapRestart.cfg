\* A heap of a few words: three or four blocks live at a time, of sizes that
\* force exact fits, carving, splitting and merging.
CONSTANTS
    heapBase = 4
    heapSize = 13
    Sizes = {1, 2}
    MaxLive = 2
SPECIFICATION SpecWithRestart
INVARIANT FreeListSound
CHECK_DEADLOCK FALSE
