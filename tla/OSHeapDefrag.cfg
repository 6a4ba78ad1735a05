\* A heap of a few words: three or four blocks live at a time, of sizes that
\* force exact fits, carving, splitting and merging.
CONSTANTS
    heapBase = 4
    heapSize = 16
    Sizes = {1}
    MaxLive = 4
SPECIFICATION Spec
INVARIANT FreeListSound
