\* A heap of a few words: three or four blocks live at a time, of sizes that
\* force exact fits, carving, splitting and merging.
CONSTANTS
    heapBase = 4
    heapSize = 13
    Sizes = {1, 2}
    MaxLive = 3
SPECIFICATION SpecUntilStale
INVARIANTS
    TypeOK
    FreeListSound
    DefragMerges
PROPERTIES
    LiveIntact
    FailsOnlyWhenFull
    CallsReturn
    ImplementsHeap
CHECK_DEADLOCK FALSE
