------------------------------- MODULE OSHeap -------------------------------
(***************************************************************************)
(* The heap of the operating system, OS/Memory.jack: alloc, deAlloc and    *)
(* defrag over the words of the RAM.  A free segment starts with the       *)
(* address of the next one (0 for the last) and its size; the first        *)
(* segment of the list, at heapBase, is never given away.  alloc takes the *)
(* best fit, carves the block from the high end of a segment or unlinks a  *)
(* segment of the exact size, and runs defrag and a second search when     *)
(* nothing fits.                                                           *)
(*                                                                         *)
(* A loop of the code takes one step per iteration.  The computer runs one *)
(* program: a call ends before the next one starts.                        *)
(***************************************************************************)
EXTENDS Integers, Sequences, FiniteSets

CONSTANTS
    heapBase,      \* first word of the heap (2048)
    heapSize,      \* number of words (14336)
    Sizes,         \* sizes the clients ask for
    MaxLive        \* bound: blocks live at a time

ASSUME HeapAssumption ==
    /\ heapBase \in Nat \ {0} /\ heapSize \in Nat /\ heapSize >= 2
    /\ Sizes \subseteq Nat
    /\ MaxLive \in Nat

NULL == 0
Words == heapBase..(heapBase + heapSize - 1)
freeList == heapBase      \* never assigned after init

VARIABLES
    ram,              \* the words of the heap
    freeListTail,
    mightNeedDefrag,
    live,             \* the blocks clients own, in the order of allocation
    pc,               \* the loop the running call is in; "idle" between calls
    caller,           \* who called defrag: "alloc" or the program
    size,             \* the argument of alloc
    i, prev_i, j, prev_j,
    bestBlock, bestSize,
    result            \* what the last alloc returned

statics == <<freeListTail, mightNeedDefrag>>
locals == <<i, prev_i, j, prev_j, bestBlock, bestSize>>
clients == <<live, result>>
vars == <<ram, statics, clients, pc, caller, size, locals>>

peek(a) == ram[a]
poke(r, a, value) == [r EXCEPT ![a] = value]

\* Memory.init, over a RAM of zeros.
Init ==
    /\ ram = [a \in Words |-> IF a = heapBase + 1 THEN heapSize - 2 ELSE 0]
    /\ freeListTail = heapBase
    /\ mightNeedDefrag = FALSE
    /\ live = << >>
    /\ pc = "idle"
    /\ caller = "program"
    /\ size = 0
    /\ i = NULL /\ prev_i = NULL /\ j = NULL /\ prev_j = NULL
    /\ bestBlock = 0 /\ bestSize = 0
    /\ result = -1

ClearLocals ==
    /\ i' = NULL /\ prev_i' = NULL /\ j' = NULL /\ prev_j' = NULL
    /\ bestBlock' = 0 /\ bestSize' = 0

-----------------------------------------------------------------------------
(* alloc.                                                                  *)

StartSearch ==
    /\ pc' = "search"
    /\ i' = freeList /\ prev_i' = freeList
    /\ bestBlock' = 0 /\ bestSize' = 0

CallAlloc ==
    /\ pc = "idle"
    /\ Len(live) < MaxLive
    /\ size' \in Sizes
    /\ StartSearch
    /\ UNCHANGED <<ram, statics, clients, caller, j, prev_j>>

Return(address) ==
    /\ pc' = "idle"
    /\ live' = IF address = -1 THEN live
               ELSE Append(live, [addr |-> address, size |-> size])
    /\ result' = address
    /\ size' = 0
    /\ ClearLocals
    /\ UNCHANGED caller

\* Mutant of Fits: a segment with no room for the new header.
Fits_NoHeader(segment) == peek(segment + 1) - size > 0

\* A segment but the first may be given away whole.
Exact == peek(i + 1) = size /\ i # freeList
Fits(segment) == peek(segment + 1) - size > 1

\* Mutant of TakeExact: the tail is not moved when the last segment is taken.
TakeExact_KeepsTail ==
    /\ pc = "search" /\ i # NULL
    /\ Exact
    /\ ram' = poke(ram, prev_i, peek(i))
    /\ Return(i + 2)
    /\ UNCHANGED statics

\* doAllocExactBlock: unlinks the segment.
TakeExact ==
    /\ pc = "search" /\ i # NULL
    /\ Exact
    /\ freeListTail' = IF freeListTail = i THEN prev_i ELSE freeListTail
    /\ ram' = poke(ram, prev_i, peek(i))
    /\ Return(i + 2)
    /\ UNCHANGED mightNeedDefrag

\* The best fit so far, and the next segment.
ConsiderSegment ==
    /\ pc = "search" /\ i # NULL
    /\ ~Exact
    /\ IF Fits(i) /\ (bestSize = 0 \/ peek(i + 1) < bestSize)
       THEN bestBlock' = i /\ bestSize' = peek(i + 1)
       ELSE UNCHANGED <<bestBlock, bestSize>>
    /\ prev_i' = i
    /\ i' = peek(i)
    /\ UNCHANGED <<ram, statics, clients, pc, caller, size, j, prev_j>>

SearchEnded == pc = "search" /\ i = NULL

\* Mutant of CarveBlock: the block starts one word too high.
CarveBlock_OffByOne ==
    /\ SearchEnded
    /\ bestBlock \in Words /\ Fits(bestBlock)
    /\ LET blockSize == peek(bestBlock + 1)
           block == bestBlock + (blockSize - size) + 1
           shrunk == poke(ram, bestBlock + 1, blockSize - (size + 2))
       IN  /\ ram' = poke(poke(shrunk, block, NULL), block + 1, size)
           /\ Return(block + 2)
    /\ UNCHANGED statics

\* doAllocPartFromBlock: the block is the high end of the segment.
CarveBlock ==
    /\ SearchEnded
    /\ bestBlock \in Words /\ Fits(bestBlock)
    /\ LET blockSize == peek(bestBlock + 1)
           block == bestBlock + (blockSize - size)
           shrunk == poke(ram, bestBlock + 1, blockSize - (size + 2))
       IN  /\ ram' = poke(poke(shrunk, block, NULL), block + 1, size)
           /\ Return(block + 2)
    /\ UNCHANGED statics

NothingFits == SearchEnded /\ ~(bestBlock \in Words /\ Fits(bestBlock))

StartDefrag ==
    /\ pc' = "outer"
    /\ i' = freeList /\ prev_i' = freeList

DefragAndRetry ==
    /\ NothingFits
    /\ mightNeedDefrag
    /\ StartDefrag
    /\ caller' = "alloc"
    /\ UNCHANGED <<ram, statics, clients, size, j, prev_j, bestBlock, bestSize>>

AllocFails ==
    /\ NothingFits
    /\ ~mightNeedDefrag
    /\ Return(-1)
    /\ UNCHANGED <<ram, statics>>

-----------------------------------------------------------------------------
(* deAlloc.                                                                *)

Without(k) == [n \in 1..(Len(live) - 1) |-> live[IF n < k THEN n ELSE n + 1]]

\* Mutant of CallDeAlloc: a later failure does not run defrag.
CallDeAlloc_NoDefrag ==
    /\ pc = "idle"
    /\ \E k \in DOMAIN live :
          LET segment == live[k].addr - 2
          IN  /\ ram' = poke(poke(ram, freeListTail, segment), segment, NULL)
              /\ freeListTail' = segment
              /\ live' = Without(k)
    /\ UNCHANGED <<mightNeedDefrag, result, pc, caller, size, locals>>

\* The block becomes the tail of the free list.
CallDeAlloc ==
    /\ pc = "idle"
    /\ \E k \in DOMAIN live :
          LET segment == live[k].addr - 2
          IN  /\ ram' = poke(poke(ram, freeListTail, segment), segment, NULL)
              /\ freeListTail' = segment
              /\ live' = Without(k)
    /\ mightNeedDefrag' = TRUE
    /\ UNCHANGED <<result, pc, caller, size, locals>>

-----------------------------------------------------------------------------
(* defrag, called by alloc or by the program itself.                       *)

CallDefrag ==
    /\ pc = "idle"
    /\ StartDefrag
    /\ caller' = "program"
    /\ UNCHANGED <<ram, statics, clients, size, j, prev_j, bestBlock, bestSize>>

OuterStep ==
    /\ pc = "outer" /\ i # NULL
    /\ pc' = "inner"
    /\ j' = peek(i) /\ prev_j' = i
    /\ UNCHANGED <<ram, statics, clients, caller, size, i, prev_i, bestBlock, bestSize>>

\* Mutant of areContiguousSegments: the header of s is forgotten.
areContiguousSegments_NoHeader(s, t) == s + peek(s + 1) = t

areContiguousSegments(s, t) == (s + 2) + peek(s + 1) = t

\* Mutant of Join: the header of t is lost.
Join_LosesHeader(r, s, t) == poke(poke(r, s + 1, r[s + 1] + r[t + 1]), t, NULL)

\* joinSegments: the size of s grows by segment t.
Join(r, s, t) == poke(poke(r, s + 1, r[s + 1] + r[t + 1] + 2), t, NULL)

\* j follows i in memory: it is unlinked and added to i.
JoinNext ==
    /\ pc = "inner" /\ j # NULL
    /\ areContiguousSegments(i, j)
    /\ freeListTail' = IF j = freeListTail THEN prev_j ELSE freeListTail
    /\ ram' = Join(poke(ram, prev_j, peek(j)), i, j)
    /\ j' = ram'[i] /\ prev_j' = i
    /\ UNCHANGED <<mightNeedDefrag, clients, pc, caller, size, i, prev_i, bestBlock, bestSize>>

\* i follows j in memory: it is unlinked and added to j, and the segment after
\* it in the list becomes i.  prev_j keeps its value.
JoinPrevious ==
    /\ pc = "inner" /\ j # NULL
    /\ ~areContiguousSegments(i, j) /\ areContiguousSegments(j, i)
    /\ ram' = Join(poke(ram, prev_i, peek(i)), j, i)
    /\ i' = ram'[prev_i]
    /\ j' = IF i' # NULL THEN ram'[i'] ELSE NULL
    /\ UNCHANGED <<statics, clients, pc, caller, size, prev_i, prev_j, bestBlock, bestSize>>

NextSegment ==
    /\ pc = "inner" /\ j # NULL
    /\ ~areContiguousSegments(i, j) /\ ~areContiguousSegments(j, i)
    /\ prev_j' = j /\ j' = peek(j)
    /\ UNCHANGED <<ram, statics, clients, pc, caller, size, i, prev_i, bestBlock, bestSize>>

InnerEnd ==
    /\ pc = "inner" /\ j = NULL
    /\ pc' = "outer"
    /\ prev_i' = i /\ i' = peek(i)
    /\ UNCHANGED <<ram, statics, clients, caller, size, j, prev_j, bestBlock, bestSize>>

\* Mutant of DefragEnd: alloc may run defrag again and again.
DefragEnd_KeepsFlag ==
    /\ pc = "outer" /\ i = NULL
    /\ j' = NULL /\ prev_j' = NULL
    /\ IF caller = "alloc"
       THEN StartSearch
       ELSE /\ pc' = "idle"
            /\ i' = NULL /\ prev_i' = NULL
            /\ UNCHANGED <<bestBlock, bestSize>>
    /\ caller' = "program"
    /\ UNCHANGED <<ram, statics, clients, size>>

\* After defrag, alloc searches once more.
DefragEnd ==
    /\ pc = "outer" /\ i = NULL
    /\ mightNeedDefrag' = FALSE
    /\ j' = NULL /\ prev_j' = NULL
    /\ IF caller = "alloc"
       THEN StartSearch
       ELSE /\ pc' = "idle"
            /\ i' = NULL /\ prev_i' = NULL
            /\ UNCHANGED <<bestBlock, bestSize>>
    /\ caller' = "program"
    /\ UNCHANGED <<ram, freeListTail, clients, size>>

-----------------------------------------------------------------------------
Running ==
    \/ TakeExact \/ ConsiderSegment \/ CarveBlock \/ DefragAndRetry \/ AllocFails
    \/ OuterStep \/ JoinNext \/ JoinPrevious \/ NextSegment \/ InnerEnd \/ DefragEnd

Next == CallAlloc \/ CallDeAlloc \/ CallDefrag \/ Running

\* A call that has started runs to its end.
Spec == Init /\ [][Next]_vars /\ WF_vars(Running)

\* defrag is about to unlink j through a prev_j that is not its predecessor:
\* JoinPrevious has moved i and j and left prev_j behind.
StaleJoin ==
    /\ pc = "inner" /\ j # NULL
    /\ areContiguousSegments(i, j)
    /\ peek(prev_j) # j

\* The behaviours of Spec up to the first such step.
RunningUntilStale ==
    \/ TakeExact \/ ConsiderSegment \/ CarveBlock \/ DefragAndRetry \/ AllocFails
    \/ OuterStep \/ JoinPrevious \/ NextSegment \/ InnerEnd \/ DefragEnd
    \/ JoinNext /\ ~StaleJoin

NextUntilStale == CallAlloc \/ CallDeAlloc \/ CallDefrag \/ RunningUntilStale

SpecUntilStale == Init /\ [][NextUntilStale]_vars /\ WF_vars(RunningUntilStale)

\* The reset input of the computer restarts the program: Memory.init runs over
\* the RAM as it is.
Restart ==
    /\ ram' = poke(ram, heapBase + 1, heapSize - 2)
    /\ freeListTail' = heapBase
    /\ mightNeedDefrag' = FALSE
    /\ live' = << >> /\ result' = -1
    /\ pc' = "idle" /\ caller' = "program" /\ size' = 0
    /\ ClearLocals

SpecWithRestart == Init /\ [][NextUntilStale \/ Restart]_vars

-----------------------------------------------------------------------------
(* Properties.                                                             *)

Segments == {NULL} \cup Words

\* What alloc may return: a block of no words may lie at the very end.
Addresses == heapBase..(heapBase + heapSize)

TypeOK ==
    /\ ram \in [Words -> 0..(heapBase + heapSize)]
    /\ freeListTail \in Words /\ mightNeedDefrag \in BOOLEAN
    /\ live \in Seq([addr : Addresses, size : Sizes]) /\ Len(live) <= MaxLive
    /\ pc \in {"idle", "search", "outer", "inner"}
    /\ caller \in {"program", "alloc"}
    /\ size \in Sizes \cup {0}
    /\ i \in Segments /\ prev_i \in Segments /\ j \in Segments /\ prev_j \in Segments
    /\ bestBlock \in Segments /\ bestSize \in 0..heapSize
    /\ result \in Addresses \cup {-1}

\* The free list: FreeSegment[n] is its n-th segment, NULL after the last.
FreeSegment[n \in 0..heapSize] ==
    IF n = 0 THEN freeList
    ELSE IF FreeSegment[n - 1] \in Words THEN ram[FreeSegment[n - 1]] ELSE NULL

FreeSegments == {FreeSegment[n] : n \in 0..heapSize} \ {NULL}

SegmentWords(s) == s..(s + 1 + ram[s + 1])
BlockWords(b) == (b.addr - 2)..(b.addr + b.size - 1)

Owners(w) ==
    {s \in FreeSegments : w \in SegmentWords(s)}
        \cup {b \in {live[k] : k \in DOMAIN live} : w \in BlockWords(b)}

(* Between calls the free list ends, its last segment is the recorded      *)
(* tail, and each word of the heap is in exactly one free segment or one   *)
(* live block: nothing is lost and nothing can be given twice.             *)
FreeListSound ==
    pc = "idle" =>
        /\ FreeSegment[heapSize] = NULL
        /\ FreeSegments \subseteq Words
        /\ freeListTail \in FreeSegments /\ ram[freeListTail] = NULL
        /\ \A s \in FreeSegments : SegmentWords(s) \subseteq Words
        /\ \A w \in Words : Cardinality(Owners(w)) = 1

(* The allocator never writes into a block a client still owns, nor into   *)
(* its header.                                                             *)
LiveIntact ==
    [][\A k \in DOMAIN live :
          (\E n \in DOMAIN live' : live'[n] = live[k])
              => \A w \in BlockWords(live[k]) : ram'[w] = ram[w]]_vars

(* When defrag ends, no free segment is followed in memory by another one. *)
DefragMerges ==
    pc = "outer" /\ i = NULL =>
        \A s, t \in FreeSegments : s + 2 + ram[s + 1] # t

LiveWords == UNION {BlockWords(live[k]) : k \in DOMAIN live}

\* Words g to h are all the words between two live blocks or heap ends.
Gap(g, h) ==
    /\ g..h \cap LiveWords = {}
    /\ g - 1 \notin Words \ LiveWords
    /\ h + 1 \notin Words \ LiveWords

Room(g, h, n) ==
    LET available == h - g - 1      \* a header is needed
    IN  available - n > 1 \/ (available = n /\ g # heapBase)

(* alloc gives up only when no gap between live blocks has room for the    *)
(* request: whatever the order of the frees, fragmentation of the free     *)
(* list alone never makes it fail.                                         *)
FailsOnlyWhenFull ==
    [][pc = "search" /\ pc' = "idle" /\ result' = -1 =>
          \A g, h \in Words : g <= h /\ Gap(g, h) => ~Room(g, h, size)]_vars

(* Every call returns: the searches and the loops of defrag end.           *)
CallsReturn == pc # "idle" ~> pc = "idle" \/ StaleJoin

Promised == INSTANCE HeapSpec WITH live <- {live[k] : k \in DOMAIN live}

(* A call's effect on the blocks is the one HeapSpec allows.               *)
ImplementsHeap == Promised!Spec
=============================================================================
