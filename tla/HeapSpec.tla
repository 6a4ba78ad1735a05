------------------------------ MODULE HeapSpec ------------------------------
(***************************************************************************)
(* What the heap promises its clients: a set of blocks that never overlap. *)
(* alloc returns a block of the size asked for that lies in the heap, with *)
(* room for two words before it, and away from every live block; it may    *)
(* also return -1.  Nothing about free lists, headers or defragmentation.  *)
(***************************************************************************)
EXTENDS Integers, FiniteSets

CONSTANTS heapBase,   \* first word of the heap (2048)
          heapSize,   \* number of words (14336)
          Sizes       \* the sizes clients ask for

VARIABLES live,       \* the blocks clients own
          result      \* what the last alloc returned

\* A block: the address its owner was given, and its size.  One of no words
\* may have the address behind the heap.
Block == [addr : heapBase..(heapBase + heapSize), size : Sizes]

\* The words of a block, the two of its header included.
Extent(b) == (b.addr - 2)..(b.addr + b.size - 1)

HeapWords == heapBase..(heapBase + heapSize - 1)

Init == live = {} /\ result = -1

Alloc ==
    \E b \in Block :
        /\ Extent(b) \subseteq HeapWords
        /\ \A c \in live : Extent(b) \cap Extent(c) = {}
        /\ live' = live \cup {b}
        /\ result' = b.addr

AllocFails == result' = -1 /\ UNCHANGED live

DeAlloc ==
    /\ \E b \in live : live' = live \ {b}
    /\ UNCHANGED result

Next == Alloc \/ AllocFails \/ DeAlloc

Spec == Init /\ [][Next]_<<live, result>>

-----------------------------------------------------------------------------
(* No word of the heap belongs to two live blocks.                         *)
BlocksDisjoint ==
    /\ \A b \in live : Extent(b) \subseteq HeapWords
    /\ \A b, c \in live : b # c => Extent(b) \cap Extent(c) = {}
=============================================================================
