---------------------------- MODULE OSHeap_proofs ----------------------------
(***************************************************************************)
(* Proofs about the heap, for every place and length of it and every set   *)
(* of sizes, up to the first stale unlink of defrag.                       *)
(*                                                                         *)
(* The free list is described without recursion: by the set of its         *)
(* segments and a rank that grows along it.  Free segments and live blocks *)
(* together are the heads of a partition of the heap, and what an          *)
(* operation does to it is to split a part, to join two or to change their *)
(* side.                                                                   *)
(*                                                                         *)
(* What the heap promises follows from that: the free list is whole,       *)
(* defrag leaves no two segments touching, a live block is never written,  *)
(* alloc fails only when no gap has room, and every step is one that       *)
(* HeapSpec allows.                                                        *)
(***************************************************************************)
EXTENDS OSHeap, FiniteSetTheorems, NaturalLemmas, TLAPS

Last == heapBase + heapSize - 1

\* The last word of the segment or block whose header is at h.
End(r, h) == h + 1 + r[h + 1]

\* The heap is cut into parts, each with its length in its second word.
Partition(r, heads) ==
    /\ heads \subseteq Words
    /\ \A h \in heads : r[h + 1] \in Nat /\ End(r, h) <= Last
    /\ \A g, h \in heads : g < h => End(r, g) < h
    /\ \A w \in Words : \E h \in heads : h <= w /\ w <= End(r, h)

\* The first words of the free segments link them, from freeList on, in the
\* order of their ranks.
Linked(r, free, rank) ==
    /\ \A s, t \in free : rank[s] = rank[t] => s = t
    /\ freeList \in free
    /\ \A s \in free : rank[freeList] <= rank[s]
    /\ \A s \in free : r[s] = NULL => \A t \in free : rank[t] <= rank[s]
    /\ \A s \in free : r[s] # NULL =>
          /\ r[s] \in free /\ rank[s] < rank[r[s]]
          /\ \A t \in free : rank[t] <= rank[s] \/ rank[r[s]] <= rank[t]

\* Segment t begins where s ends.
Touches(r, s, t) == End(r, s) + 1 = t

Apart(r, s, t) == ~Touches(r, s, t) /\ ~Touches(r, t, s)

-----------------------------------------------------------------------------
(* The inductive invariant.                                                *)

Used == {live[k].addr - 2 : k \in DOMAIN live}

FreeInv(free, rank) ==
    /\ Linked(ram, free, rank)
    /\ Partition(ram, free \cup Used)
    /\ free \cap Used = {}
    /\ freeListTail \in free /\ ram[freeListTail] = NULL

\* A live block is as long as its owner asked for, and has one owner.
LiveInv ==
    /\ \A k \in DOMAIN live : ram[live[k].addr - 2 + 1] = live[k].size
    /\ \A k, n \in DOMAIN live : live[k].addr = live[n].addr => k = n

\* s is reached from p.
Follows(free, p, s) == p \in free /\ IF s = freeList THEN p = freeList ELSE ram[p] = s

\* The segments in front of i in the list.
Before(free, rank, s) == {a \in free : s = NULL \/ rank[a] < rank[s]}

AllocInv ==
    /\ pc = "search" \/ caller = "alloc" => size \in Sizes /\ Len(live) < MaxLive
    /\ pc \in {"idle", "search"} => caller = "program"

\* The segments searched so far: none of the exact size, and the best is one
\* with room if there is one.
SearchInv(free, rank) ==
    pc = "search" =>
        /\ i # NULL => i \in free /\ Follows(free, prev_i, i)
        /\ \A s \in Before(free, rank, i) : ~(ram[s + 1] = size /\ s # freeList)
        /\ \/ /\ bestSize = 0 /\ bestBlock = 0
              /\ \A s \in Before(free, rank, i) : ram[s + 1] - size <= 1
           \/ /\ bestBlock \in free /\ bestSize = ram[bestBlock + 1]
              /\ bestSize - size > 1

\* The segments that defrag has passed touch no other.
MergedBefore(free, rank, s) ==
    \A a \in Before(free, rank, s), b \in free : a # b => Apart(ram, a, b)

OuterInv(free, rank) ==
    pc = "outer" =>
        /\ i # NULL => i \in free /\ Follows(free, prev_i, i)
        /\ MergedBefore(free, rank, i)

\* A word in the body of a free segment that was the first of another.
Swallowed(free, w) ==
    ram[w] = NULL /\ \E s \in free : s + 2 <= w /\ w <= End(ram, s)

InnerInv(free, rank) ==
    pc = "inner" =>
        /\ i \in free /\ Follows(free, prev_i, i)
        /\ j # NULL => j \in free /\ rank[i] < rank[j]
        /\ prev_j \in Words
        /\ prev_j \in free \/ Swallowed(free, prev_j)
        /\ MergedBefore(free, rank, i)
        /\ \A b \in free : rank[i] < rank[b] /\ b \in Before(free, rank, j)
                              => Apart(ram, i, b)

\* No two free segments touch, unless a block has been freed.
MergedInv(free) ==
    ~mightNeedDefrag /\ pc \in {"idle", "search"} =>
        \A a, b \in free : a # b => Apart(ram, a, b)

Sound(free, rank) ==
    /\ FreeInv(free, rank) /\ LiveInv /\ AllocInv
    /\ SearchInv(free, rank) /\ OuterInv(free, rank) /\ InnerInv(free, rank)
    /\ MergedInv(free)

HeapInv ==
    /\ TypeOK
    /\ \E free \in SUBSET Words, rank \in [Words -> Nat] : Sound(free, rank)

-----------------------------------------------------------------------------
(* Partitions of the heap.                                                 *)

LEMMA BaseFacts ==
    /\ heapBase \in Nat \ {0} /\ heapSize \in Nat /\ heapSize >= 2 /\ MaxLive \in Nat
    /\ Words \subseteq Nat \ {0} /\ NULL \notin Words /\ Last \in Nat
    /\ \A w : w \in Words <=> w \in Int /\ heapBase <= w /\ w <= Last
    /\ heapBase \in Words /\ Segments = {0} \cup Words /\ Sizes \subseteq Nat
    /\ 0 \in Segments /\ 0 \in 0..heapSize
  BY HeapAssumption DEF Words, NULL, Last, Segments

\* Headers do not overlap, and no part begins inside another.
LEMMA HeadsApart ==
    ASSUME NEW r, NEW heads, Partition(r, heads), NEW g \in heads, NEW h \in heads
    PROVE  /\ g \in Words /\ g + 1 \in Words /\ r[g + 1] \in Nat
           /\ g + 1 <= End(r, g) /\ End(r, g) \in Int /\ End(r, g) <= Last
           /\ g # h + 1
           /\ g # h => End(r, g) < h \/ End(r, h) < g
<1>1. g \in Words /\ h \in Words /\ g \in Nat /\ h \in Nat
  BY BaseFacts DEF Partition
<1>2. \A x \in heads : x \in Nat /\ r[x + 1] \in Nat /\ End(r, x) <= Last
  BY BaseFacts DEF Partition
<1>3. \A x, n \in Nat : x + 1 <= x + 1 + n /\ x + 1 + n \in Int
  OBVIOUS
<1>4. \A x \in heads : x + 1 <= End(r, x) /\ End(r, x) \in Int
  BY <1>2, <1>3 DEF End
<1>5. g < h => End(r, g) < h
  BY DEF Partition
<1>6. h < g => End(r, h) < g
  BY DEF Partition
<1>7. g # h + 1
  <2>1. SUFFICES ASSUME g = h + 1 PROVE FALSE
    OBVIOUS
  <2>2. End(r, h) < h + 1
    BY <1>1, <1>6, <2>1
  <2> QED
    BY <1>1, <1>4, <2>2
<1>8. g # h => End(r, g) < h \/ End(r, h) < g
  BY <1>1, <1>5, <1>6
<1>9. g + 1 \in Words
  <2>1. g + 1 <= End(r, g) /\ End(r, g) <= Last /\ End(r, g) \in Int
    BY <1>2, <1>4
  <2>2. g + 1 \in Int /\ heapBase <= g + 1 /\ g + 1 <= Last
    BY <1>1, <2>1, BaseFacts
  <2> QED
    BY <2>2, BaseFacts
<1> QED
  BY <1>1, <1>2, <1>4, <1>7, <1>8, <1>9

LEMMA HeadersApart ==
    ASSUME NEW r, NEW heads, Partition(r, heads)
    PROVE  \A g, h \in heads : h \in Words /\ h + 1 \in Words /\ g # h + 1
  BY HeadsApart

\* A partition is known by the lengths of its parts.
LEMMA SameLengths ==
    ASSUME NEW r, NEW q, NEW heads, Partition(r, heads),
           \A h \in heads : q[h + 1] = r[h + 1]
    PROVE  Partition(q, heads)
  BY DEF Partition, End

\* Where the end of part b is to become a part of its own, of n words and a header.
LEMMA SplitPlace ==
    ASSUME NEW r, NEW heads, Partition(r, heads),
           NEW b \in heads, NEW n \in Nat, r[b + 1] - n > 1,
           NEW c, c = b + (r[b + 1] - n)
    PROVE  /\ b \in Words /\ b \in Int /\ b + 1 \in Words /\ r[b + 1] \in Nat
           /\ c \in Words /\ c \in Int /\ c + 1 \in Words /\ b + 1 < c
           /\ c + 1 + n = End(r, b) /\ End(r, b) <= Last
           /\ \A h \in heads : h # c /\ h # c + 1 /\ h + 1 # c
<1>1. /\ b \in Words /\ b \in Int /\ b + 1 \in Words /\ r[b + 1] \in Nat
      /\ c \in Int /\ c > b + 1
      /\ c + 1 + n = End(r, b) /\ End(r, b) <= Last
  BY BaseFacts, HeadsApart DEF End
<1>2. c \in Words /\ c + 1 \in Words
  BY <1>1, BaseFacts
<1>3. \A h \in heads : h # b => End(r, h) < b \/ End(r, b) < h
  BY HeadsApart
<1>4. \A h \in heads : h \in Int /\ h + 1 <= End(r, h) /\ End(r, h) \in Int
  BY HeadsApart, BaseFacts
<1>5. \A h \in heads : h # c /\ h # c + 1 /\ h + 1 # c
  BY <1>1, <1>3, <1>4
<1> QED
  BY <1>1, <1>2, <1>5

LEMMA Split ==
    ASSUME NEW r, NEW q, NEW heads, Partition(r, heads),
           NEW b \in heads, NEW n \in Nat, r[b + 1] - n > 1,
           NEW c, c = b + (r[b + 1] - n),
           q[b + 1] = r[b + 1] - (n + 2), q[c + 1] = n,
           \A h \in heads \ {b} : q[h + 1] = r[h + 1]
    PROVE  /\ Partition(q, heads \cup {c})
           /\ End(q, b) = c - 1 /\ \A h \in heads \ {b} : End(q, h) = End(r, h)
<1>1. /\ b \in Words /\ b \in Int /\ r[b + 1] \in Nat /\ c \in Int /\ c > b + 1
      /\ c + 1 + n = End(r, b) /\ End(r, b) <= Last /\ c \in Words
      /\ \A h \in heads : h # c
  BY SplitPlace
<1>3. \A h \in heads : h # b => End(r, h) < b \/ End(r, b) < h
  BY HeadsApart
<1>4. \A h \in heads : h \in Int /\ h + 1 <= End(r, h) /\ End(r, h) \in Int
  BY HeadsApart, BaseFacts
<1>6. /\ End(q, b) = c - 1 /\ End(q, c) = End(r, b)
      /\ \A h \in heads \ {b} : End(q, h) = End(r, h)
  BY <1>1 DEF End
<1>7. \A h \in heads \cup {c} : q[h + 1] \in Nat /\ End(q, h) <= Last
  <2>1. q[b + 1] \in Nat /\ q[c + 1] \in Nat /\ End(q, b) <= Last /\ End(q, c) <= Last
    BY <1>1, <1>6, BaseFacts
  <2>2. \A h \in heads : r[h + 1] \in Nat /\ End(r, h) <= Last
    BY DEF Partition
  <2> QED
    BY <1>6, <2>1, <2>2
<1>8. ASSUME NEW g \in heads \cup {c}, NEW h \in heads \cup {c}, g < h
      PROVE  End(q, g) < h
  <2>1. CASE g \in heads /\ h \in heads
    <3>1. End(r, g) < h
      BY <1>8, <2>1 DEF Partition
    <3> QED
      BY <1>1, <1>4, <1>6, <2>1, <3>1
  <2>2. CASE g = c /\ h \in heads
    BY <1>1, <1>3, <1>4, <1>6, <1>8, <2>2
  <2>3. CASE g \in heads /\ h = c
    BY <1>1, <1>3, <1>4, <1>6, <1>8, <2>3
  <2> QED
    BY <1>8, <1>1, <2>1, <2>2, <2>3
<1>9. ASSUME NEW w \in Words
      PROVE  \E h \in heads \cup {c} : h <= w /\ w <= End(q, h)
  <2>1. PICK h \in heads : h <= w /\ w <= End(r, h)
    BY DEF Partition
  <2>2. CASE h # b
    BY <1>6, <2>1, <2>2
  <2>3. CASE h = b /\ w < c
    BY <1>1, <1>6, <2>1, <2>3, BaseFacts
  <2>4. CASE h = b /\ c <= w
    BY <1>1, <1>6, <2>1, <2>4
  <2> QED
    BY <2>2, <2>3, <2>4, <1>1, BaseFacts
<1> QED
  BY <1>1, <1>6, <1>7, <1>8, <1>9 DEF Partition

\* Part t, which begins where s ends, becomes the end of s.
LEMMA Merge ==
    ASSUME NEW r, NEW q, NEW heads, Partition(r, heads),
           NEW s \in heads, NEW t \in heads, Touches(r, s, t),
           q[s + 1] = r[s + 1] + r[t + 1] + 2,
           \A h \in heads \ {s, t} : q[h + 1] = r[h + 1]
    PROVE  /\ Partition(q, heads \ {t})
           /\ s + 1 < t /\ End(q, s) = End(r, t)
           /\ \A h \in heads \ {s, t} : End(q, h) = End(r, h)
<1>1. /\ s \in Int /\ t \in Int /\ r[s + 1] \in Nat /\ r[t + 1] \in Nat
      /\ End(r, s) \in Int /\ End(r, s) + 1 = t /\ s + 1 < t
  BY HeadsApart, BaseFacts DEF Touches
<1>2. /\ End(q, s) = End(r, t) /\ End(r, t) \in Int /\ t + 1 <= End(r, t)
      /\ \A h \in heads \ {s, t} : End(q, h) = End(r, h)
  BY <1>1, HeadsApart DEF End
<1>3. \A h \in heads : h \in Int /\ h + 1 <= End(r, h) /\ End(r, h) \in Int
  BY HeadsApart, BaseFacts
<1>4. \A h \in heads \ {t} : q[h + 1] \in Nat /\ End(q, h) <= Last
  BY <1>1, <1>2, HeadsApart
<1>5. ASSUME NEW g \in heads \ {t}, NEW h \in heads \ {t}, g < h
      PROVE  End(q, g) < h
  <2>1. g # h /\ (End(r, g) < h \/ End(r, h) < g) /\ (h = t \/ End(r, t) < h \/ End(r, h) < t)
    BY <1>3, <1>5, HeadsApart
  <2> QED
    BY <1>1, <1>2, <1>3, <1>5, <2>1
<1>6. ASSUME NEW w \in Words
      PROVE  \E h \in heads \ {t} : h <= w /\ w <= End(q, h)
  <2>1. PICK h \in heads : h <= w /\ w <= End(r, h)
    BY DEF Partition
  <2>2. w \in Int
    BY BaseFacts
  <2>3. CASE h \in {s, t}
    <3>1. s <= w /\ w <= End(q, s)
      BY <1>1, <1>2, <2>1, <2>2, <2>3
    <3> QED
      BY <1>1, <3>1
  <2>4. CASE h \notin {s, t}
    BY <1>2, <2>1, <2>4
  <2> QED
    BY <2>3, <2>4
<1> QED
  BY <1>1, <1>2, <1>4, <1>5, <1>6 DEF Partition

-----------------------------------------------------------------------------
(* The list.                                                               *)

LEMMA SameLinks ==
    ASSUME NEW r, NEW q, NEW free, NEW rank, Linked(r, free, rank),
           \A s \in free : q[s] = r[s]
    PROVE  Linked(q, free, rank)
  BY DEF Linked

\* Segment s is taken out of the list.
LEMMA Unlink ==
    ASSUME NEW r, NEW q, NEW free \in SUBSET Words, NEW rank \in [Words -> Nat],
           Linked(r, free, rank), NEW p \in free, NEW s \in free, r[p] = s,
           q[p] = r[s], \A x \in free \ {p, s} : q[x] = r[x]
    PROVE  /\ Linked(q, free \ {s}, rank)
           /\ p # s /\ s # freeList
<1>1. \A x \in free : rank[x] \in Nat /\ x # NULL
  BY BaseFacts
<1>2. rank[p] < rank[s] /\ p # s /\ s # freeList
  BY <1>1 DEF Linked
<1>3. \A x \in free \ {s} : r[x] = s => x = p
  BY <1>1 DEF Linked
<1>4. ASSUME NEW x \in free \ {s}, q[x] = NULL, NEW t \in free \ {s}
      PROVE  rank[t] <= rank[x]
  BY <1>1, <1>2, <1>4 DEF Linked
<1>5. ASSUME NEW x \in free \ {s}, q[x] # NULL
      PROVE  /\ q[x] \in free \ {s} /\ rank[x] < rank[q[x]]
             /\ \A t \in free \ {s} : rank[t] <= rank[x] \/ rank[q[x]] <= rank[t]
  <2>1. CASE x = p
    BY <1>1, <1>2, <1>5, <2>1 DEF Linked
  <2>2. CASE x # p
    <3>1. q[x] = r[x] /\ r[x] # s
      BY <1>3, <2>2
    <3> QED
      BY <1>5, <3>1 DEF Linked
  <2> QED
    BY <2>1, <2>2
<1> QED
  BY <1>2, <1>4, <1>5 DEF Linked

\* Segment u comes behind the last.
LEMMA Extend ==
    ASSUME NEW r, NEW q, NEW free \in SUBSET Words, NEW rank \in [Words -> Nat],
           Linked(r, free, rank), NEW t \in free, r[t] = NULL,
           NEW u \in Words \ free,
           q[t] = u, q[u] = NULL, \A x \in free \ {t} : q[x] = r[x],
           NEW rank2 \in [Words -> Nat], rank2[u] = rank[t] + 1,
           \A x \in free : rank2[x] = rank[x]
    PROVE  Linked(q, free \cup {u}, rank2)
<1>1. \A x \in free : rank[x] \in Nat /\ rank[x] <= rank[t] /\ x # NULL
  BY BaseFacts DEF Linked
<1>2. rank2[u] = rank[t] + 1 /\ \A x \in free : rank2[x] = rank[x]
  OBVIOUS
<1>3. u # NULL
  BY BaseFacts
<1>4. \A x, y \in free \cup {u} : rank2[x] = rank2[y] => x = y
  BY <1>1, <1>2 DEF Linked
<1>5. freeList \in free /\ \A x \in free \cup {u} : rank2[freeList] <= rank2[x]
  BY <1>1, <1>2 DEF Linked
<1>6. ASSUME NEW x \in free \cup {u}, q[x] = NULL, NEW y \in free \cup {u}
      PROVE  rank2[y] <= rank2[x]
  <2>1. CASE x = u
    BY <1>1, <1>2, <2>1
  <2>2. CASE x \in free
    <3>1. x # t /\ r[x] = NULL
      BY <1>3, <1>6, <2>2
    <3>2. rank[x] = rank[t]
      BY <1>1, <2>2, <3>1 DEF Linked
    <3> QED
      BY <2>2, <3>1, <3>2 DEF Linked
  <2> QED
    BY <2>1, <2>2
<1>7. ASSUME NEW x \in free \cup {u}, q[x] # NULL
      PROVE  /\ q[x] \in free \cup {u} /\ rank2[x] < rank2[q[x]]
             /\ \A y \in free \cup {u} : rank2[y] <= rank2[x] \/ rank2[q[x]] <= rank2[y]
  <2>1. CASE x = t
    BY <1>1, <1>2, <2>1
  <2>2. CASE x \in free \ {t}
    <3>1. q[x] = r[x] /\ r[x] \in free
      BY <1>7, <2>2 DEF Linked
    <3> QED
      BY <1>1, <1>2, <1>7, <2>2, <3>1 DEF Linked
  <2> QED
    BY <1>7, <2>1, <2>2
<1> QED
  BY <1>2, <1>4, <1>5, <1>6, <1>7 DEF Linked

\* The segments in front of the next one are those in front of this one, and it.
LEMMA Advance ==
    ASSUME NEW r, NEW free \in SUBSET Words, NEW rank \in [Words -> Nat],
           Linked(r, free, rank), NEW s \in free
    PROVE  /\ r[s] # NULL => r[s] \in free /\ rank[s] < rank[r[s]] /\ r[s] # freeList
           /\ Before(free, rank, r[s]) = Before(free, rank, s) \cup {s}
           /\ Before(free, rank, freeList) = {}
<1>1. \A x \in free : rank[x] \in Nat /\ x # NULL
  BY BaseFacts
<1>2. r[s] # NULL => r[s] \in free /\ rank[s] < rank[r[s]] /\ r[s] # freeList
  BY <1>1 DEF Linked
<1>3. Before(free, rank, freeList) = {}
  BY <1>1 DEF Linked, Before
<1>4. ASSUME NEW x \in free
      PROVE  x \in Before(free, rank, r[s]) <=> x \in Before(free, rank, s) \/ x = s
  <2>1. x \in Before(free, rank, s) \/ x = s <=> rank[x] <= rank[s]
    BY <1>1 DEF Linked, Before
  <2>2. CASE r[s] = NULL
    BY <2>1, <2>2 DEF Linked, Before
  <2>3. CASE r[s] # NULL
    BY <1>1, <1>2, <2>1, <2>3 DEF Linked, Before
  <2> QED
    BY <2>2, <2>3
<1> QED
  BY <1>2, <1>3, <1>4 DEF Before

LEMMA FreeFacts ==
    ASSUME TypeOK, NEW free \in SUBSET Words, NEW rank \in [Words -> Nat],
           FreeInv(free, rank), NEW s \in free
    PROVE  /\ s \in Words /\ s \in Int /\ s # NULL /\ s + 1 \in Words /\ rank[s] \in Nat
           /\ ram[s + 1] \in Nat /\ ram[s + 1] <= heapSize
           /\ ram[s] # NULL => ram[s] \in free /\ rank[s] < rank[ram[s]] /\ ram[s] # freeList
           /\ ram[s] \in Segments
           /\ Before(free, rank, ram[s]) = Before(free, rank, s) \cup {s}
<1>1. s \in Words /\ s \in Int /\ s # NULL /\ rank[s] \in Nat
  BY BaseFacts
<1>2. s + 1 \in Words /\ ram[s + 1] \in Nat /\ End(ram, s) <= Last
  BY HeadsApart DEF FreeInv
<1>3. ram[s + 1] <= heapSize
  BY <1>1, <1>2, BaseFacts DEF End, Last
<1>4. /\ ram[s] # NULL => ram[s] \in free /\ rank[s] < rank[ram[s]] /\ ram[s] # freeList
      /\ Before(free, rank, ram[s]) = Before(free, rank, s) \cup {s}
  BY Advance DEF FreeInv
<1> QED
  BY <1>1, <1>2, <1>3, <1>4 DEF Segments

\* A step that writes no word and gives no block.
LEMMA SameHeap ==
    ASSUME NEW free, NEW rank, FreeInv(free, rank), LiveInv,
           UNCHANGED <<ram, freeListTail, live>>
    PROVE  FreeInv(free, rank)' /\ LiveInv'
  BY DEF FreeInv, LiveInv, Linked, Partition, Used, End

-----------------------------------------------------------------------------
(* The steps that only read the heap.                                      *)

LEMMA CallAllocKeeps == HeapInv /\ CallAlloc => HeapInv'
<1> SUFFICES ASSUME HeapInv, CallAlloc PROVE HeapInv'
  OBVIOUS
<1>1. PICK free \in SUBSET Words, rank \in [Words -> Nat] : Sound(free, rank)
  BY DEF HeapInv
<1>2. TypeOK'
  <2>1. freeList \in Segments /\ NULL \in Segments
    BY BaseFacts DEF NULL, freeList
  <2> QED
    BY <2>1, BaseFacts DEF HeapInv, TypeOK, CallAlloc, StartSearch, statics, clients
<1>3. FreeInv(free, rank)' /\ LiveInv'
  BY <1>1, SameHeap DEF Sound, CallAlloc, statics, clients
<1>4. freeList \in free /\ Before(free, rank, freeList) = {}
  BY <1>1, Advance DEF Sound, FreeInv, Linked
<1>5. AllocInv'
  BY <1>1 DEF Sound, AllocInv, CallAlloc, clients
<1>6. SearchInv(free, rank)'
  BY <1>4 DEF SearchInv, Follows, CallAlloc, StartSearch, freeList
<1>7. OuterInv(free, rank)' /\ InnerInv(free, rank)'
  BY DEF OuterInv, InnerInv, CallAlloc, StartSearch
<1>8. MergedInv(free)'
  BY <1>1 DEF Sound, MergedInv, Apart, Touches, End, CallAlloc, StartSearch, statics
<1> QED
  BY <1>2, <1>3, <1>5, <1>6, <1>7, <1>8 DEF HeapInv, Sound

LEMMA ConsiderSegmentKeeps == HeapInv /\ ConsiderSegment => HeapInv'
<1> SUFFICES ASSUME HeapInv, ConsiderSegment PROVE HeapInv'
  OBVIOUS
<1>1. PICK free \in SUBSET Words, rank \in [Words -> Nat] : Sound(free, rank)
  BY DEF HeapInv
<1>2. FreeInv(free, rank)' /\ LiveInv'
  BY <1>1, SameHeap DEF Sound, ConsiderSegment, statics, clients
<1>3. /\ pc = "search" /\ i \in free /\ ram' = ram /\ size' = size
      /\ i' = ram[i] /\ prev_i' = i
  BY <1>1 DEF Sound, SearchInv, ConsiderSegment, peek
<1>4. /\ i \in Segments /\ ram[i] \in Segments /\ ram[i + 1] \in Nat /\ ram[i + 1] <= heapSize
      /\ ram[i] # NULL => ram[i] \in free /\ ram[i] # freeList
      /\ Before(free, rank, ram[i]) = Before(free, rank, i) \cup {i}
  BY <1>1, <1>3, FreeFacts, Advance DEF HeapInv, Sound, FreeInv, Segments
<1>5. bestBlock' \in Segments /\ bestSize' \in 0..heapSize
  <2>1. ram[i + 1] \in 0..heapSize
    BY <1>4, BaseFacts
  <2>2. \/ bestBlock' = i /\ bestSize' = ram[i + 1]
        \/ bestBlock' = bestBlock /\ bestSize' = bestSize
    BY DEF ConsiderSegment, peek
  <2>3. bestBlock \in Segments /\ bestSize \in 0..heapSize
    BY DEF HeapInv, TypeOK
  <2> QED
    BY <1>4, <2>1, <2>2, <2>3
<1>6. TypeOK'
  BY <1>3, <1>4, <1>5 DEF HeapInv, TypeOK, ConsiderSegment, statics, clients
<1>7. AllocInv' /\ OuterInv(free, rank)' /\ InnerInv(free, rank)'
  BY <1>1, <1>3 DEF Sound, AllocInv, OuterInv, InnerInv, ConsiderSegment, clients
<1>8. SearchInv(free, rank)'
  <2>1. i' # NULL => i' \in free /\ Follows(free, prev_i, i)'
    BY <1>3, <1>4 DEF Follows
  <2>2. \A s \in Before(free, rank, i') : ~(ram'[s + 1] = size' /\ s # freeList)
    BY <1>1, <1>3, <1>4 DEF Sound, SearchInv, ConsiderSegment, Exact, peek
  <2>3. size \in Nat /\ bestSize \in Nat
    BY HeapAssumption, BaseFacts DEF HeapInv, TypeOK
  <2>4. \/ /\ bestSize' = 0 /\ bestBlock' = 0
           /\ \A s \in Before(free, rank, i') : ram'[s + 1] - size' <= 1
        \/ /\ bestBlock' \in free /\ bestSize' = ram'[bestBlock' + 1]
           /\ bestSize' - size' > 1
    <3>1. CASE Fits(i) /\ (bestSize = 0 \/ peek(i + 1) < bestSize)
      BY <1>3, <3>1 DEF ConsiderSegment, Fits, peek
    <3>2. CASE ~(Fits(i) /\ (bestSize = 0 \/ peek(i + 1) < bestSize))
      <4>1. bestBlock' = bestBlock /\ bestSize' = bestSize
        BY <3>2 DEF ConsiderSegment
      <4>2. CASE bestBlock \in free /\ bestSize = ram[bestBlock + 1] /\ bestSize - size > 1
        BY <1>3, <4>1, <4>2
      <4>3. CASE /\ bestSize = 0 /\ bestBlock = 0
                 /\ \A s \in Before(free, rank, i) : ram[s + 1] - size <= 1
        <5>1. ram[i + 1] - size <= 1
          BY <1>4, <2>3, <3>2, <4>3 DEF Fits, peek
        <5> QED
          BY <1>3, <1>4, <4>1, <4>3, <5>1
      <4> QED
        BY <1>1, <1>3, <4>2, <4>3 DEF Sound, SearchInv
    <3> QED
      BY <3>1, <3>2
  <2> QED
    BY <2>1, <2>2, <2>4 DEF SearchInv
<1>9. MergedInv(free)'
  BY <1>1, <1>3 DEF Sound, MergedInv, Apart, Touches, End, ConsiderSegment, statics
<1> QED
  BY <1>2, <1>6, <1>7, <1>8, <1>9 DEF HeapInv, Sound

LEMMA StartDefragKeeps == HeapInv /\ (DefragAndRetry \/ CallDefrag) => HeapInv'
<1> SUFFICES ASSUME HeapInv, DefragAndRetry \/ CallDefrag PROVE HeapInv'
  OBVIOUS
<1>1. PICK free \in SUBSET Words, rank \in [Words -> Nat] : Sound(free, rank)
  BY DEF HeapInv
<1>2. /\ StartDefrag /\ caller' \in {"program", "alloc"}
      /\ UNCHANGED <<ram, statics, clients, size, j, prev_j, bestBlock, bestSize>>
  BY DEF DefragAndRetry, CallDefrag
<1>3. FreeInv(free, rank)' /\ LiveInv'
  BY <1>1, <1>2, SameHeap DEF Sound, statics, clients
<1>4. freeList \in free /\ Before(free, rank, freeList) = {}
  BY <1>1, Advance DEF Sound, FreeInv, Linked
<1>5. TypeOK'
  <2>1. freeList \in Segments
    BY BaseFacts DEF NULL, freeList
  <2> QED
    BY <1>2, <2>1 DEF HeapInv, TypeOK, StartDefrag, statics, clients
<1>6. AllocInv'
  BY <1>1, <1>2 DEF Sound, AllocInv, DefragAndRetry, CallDefrag, NothingFits, SearchEnded,
                    StartDefrag, clients
<1>7. OuterInv(free, rank)'
  BY <1>2, <1>4 DEF OuterInv, MergedBefore, Follows, StartDefrag
<1>8. SearchInv(free, rank)' /\ InnerInv(free, rank)' /\ MergedInv(free)'
  BY <1>2 DEF SearchInv, InnerInv, MergedInv, StartDefrag
<1> QED
  BY <1>3, <1>5, <1>6, <1>7, <1>8 DEF HeapInv, Sound

LEMMA AllocFailsKeeps == HeapInv /\ AllocFails => HeapInv'
<1> SUFFICES ASSUME HeapInv, AllocFails PROVE HeapInv'
  OBVIOUS
<1>1. PICK free \in SUBSET Words, rank \in [Words -> Nat] : Sound(free, rank)
  BY DEF HeapInv
<1>2. /\ pc = "search" /\ pc' = "idle" /\ live' = live /\ result' = -1 /\ size' = 0
      /\ ClearLocals /\ UNCHANGED <<caller, ram, freeListTail, mightNeedDefrag>>
  BY DEF AllocFails, NothingFits, SearchEnded, Return, statics
<1>3. FreeInv(free, rank)' /\ LiveInv'
  BY <1>1, <1>2, SameHeap DEF Sound
<1>4. TypeOK'
  BY <1>2, BaseFacts DEF HeapInv, TypeOK, ClearLocals, Segments, NULL
<1>5. AllocInv'
  BY <1>1, <1>2 DEF Sound, AllocInv
<1>6. SearchInv(free, rank)' /\ OuterInv(free, rank)' /\ InnerInv(free, rank)'
  BY <1>2 DEF SearchInv, OuterInv, InnerInv
<1>7. MergedInv(free)'
  BY <1>1, <1>2 DEF Sound, MergedInv, Apart, Touches, End
<1> QED
  BY <1>3, <1>4, <1>5, <1>6, <1>7 DEF HeapInv, Sound

LEMMA OuterStepKeeps == HeapInv /\ OuterStep => HeapInv'
<1> SUFFICES ASSUME HeapInv, OuterStep PROVE HeapInv'
  OBVIOUS
<1>1. PICK free \in SUBSET Words, rank \in [Words -> Nat] : Sound(free, rank)
  BY DEF HeapInv
<1>2. /\ pc = "outer" /\ pc' = "inner" /\ i \in free
      /\ j' = ram[i] /\ prev_j' = i
      /\ UNCHANGED <<ram, statics, clients, caller, size, i, prev_i, bestBlock, bestSize>>
  BY <1>1 DEF Sound, OuterInv, OuterStep, peek
<1>3. FreeInv(free, rank)' /\ LiveInv'
  BY <1>1, <1>2, SameHeap DEF Sound, statics, clients
<1>4. /\ i \in Words /\ ram[i] \in Segments
      /\ ram[i] # NULL => ram[i] \in free /\ rank[i] < rank[ram[i]]
      /\ Before(free, rank, ram[i]) = Before(free, rank, i) \cup {i}
  <2>1. TypeOK /\ FreeInv(free, rank) /\ i \in free
    BY <1>1, <1>2 DEF HeapInv, Sound
  <2> QED
    BY <2>1, FreeFacts
<1>5. TypeOK'
  BY <1>2, <1>4, BaseFacts DEF HeapInv, TypeOK, statics, clients
<1>6. AllocInv'
  BY <1>1, <1>2 DEF Sound, AllocInv, clients
<1>7. InnerInv(free, rank)'
  <2>1. /\ i # NULL /\ Follows(free, prev_i, i)'
        /\ MergedBefore(free, rank, i)'
    BY <1>1, <1>2 DEF Sound, OuterInv, OuterStep, Follows, MergedBefore, Apart, Touches, End
  <2>2. \A b \in free : ~(rank[i] < rank[b] /\ b \in Before(free, rank, j'))
    BY <1>1, <1>2, <1>4, BaseFacts DEF Before
  <2> QED
    BY <1>2, <1>4, <2>1, <2>2 DEF InnerInv
<1>8. SearchInv(free, rank)' /\ OuterInv(free, rank)' /\ MergedInv(free)'
  BY <1>2 DEF SearchInv, OuterInv, MergedInv
<1> QED
  BY <1>3, <1>5, <1>6, <1>7, <1>8 DEF HeapInv, Sound

\* What the comparison of the code says of the words of two segments.
LEMMA Contiguous ==
    ASSUME TypeOK, NEW free \in SUBSET Words, NEW rank \in [Words -> Nat],
           FreeInv(free, rank), NEW s \in free, NEW t
    PROVE  areContiguousSegments(s, t) <=> Touches(ram, s, t)
<1>1. s \in Int /\ ram[s + 1] \in Int
  BY FreeFacts
<1>2. \A a, b \in Int : (a + 2) + b = (a + 1 + b) + 1
  OBVIOUS
<1> QED
  BY <1>1, <1>2 DEF areContiguousSegments, Touches, End, peek

LEMMA NextSegmentKeeps == HeapInv /\ NextSegment => HeapInv'
<1> SUFFICES ASSUME HeapInv, NextSegment PROVE HeapInv'
  OBVIOUS
<1>1. PICK free \in SUBSET Words, rank \in [Words -> Nat] : Sound(free, rank)
  BY DEF HeapInv
<1>2. /\ pc = "inner" /\ i \in free /\ j \in free
      /\ j' = ram[j] /\ prev_j' = j
      /\ UNCHANGED <<ram, statics, clients, pc, caller, size, i, prev_i, bestBlock, bestSize>>
  BY <1>1 DEF Sound, InnerInv, NextSegment, peek
<1>3. FreeInv(free, rank)' /\ LiveInv'
  BY <1>1, <1>2, SameHeap DEF Sound, statics, clients
<1>4. /\ j \in Words /\ ram[j] \in Segments
      /\ ram[j] # NULL => ram[j] \in free /\ rank[j] < rank[ram[j]]
      /\ Before(free, rank, ram[j]) = Before(free, rank, j) \cup {j}
  <2>1. TypeOK /\ FreeInv(free, rank) /\ j \in free
    BY <1>1, <1>2 DEF HeapInv, Sound
  <2> QED
    BY <2>1, FreeFacts
<1>5. TypeOK'
  BY <1>2, <1>4, BaseFacts DEF HeapInv, TypeOK, statics, clients
<1>6. AllocInv'
  BY <1>1, <1>2 DEF Sound, AllocInv, clients
<1>7. InnerInv(free, rank)'
  <2>1. Follows(free, prev_i, i)' /\ MergedBefore(free, rank, i)'
    BY <1>1, <1>2 DEF Sound, InnerInv, Follows, MergedBefore, Apart, Touches, End
  <2>2. rank[i] < rank[j] /\ \A x \in free : rank[x] \in Nat
    BY <1>1, <1>2, BaseFacts DEF Sound, InnerInv, NextSegment
  <2>3. j' # NULL => j' \in free /\ rank[i] < rank[j']
    BY <1>2, <1>4, <2>2
  <2>4. Apart(ram, i, j)
    BY <1>1, <1>2, Contiguous DEF NextSegment, Apart, HeapInv, Sound
  <2>5. \A b \in free : rank[i] < rank[b] /\ b \in Before(free, rank, j')
                            => Apart(ram, i, b)
    BY <1>1, <1>2, <1>4, <2>4 DEF Sound, InnerInv
  <2>6. \A b \in free : Apart(ram, i, b) => Apart(ram', i, b)
    BY <1>2
  <2> QED
    BY <1>2, <1>4, <2>1, <2>3, <2>5, <2>6 DEF InnerInv
<1>8. SearchInv(free, rank)' /\ OuterInv(free, rank)' /\ MergedInv(free)'
  BY <1>2 DEF SearchInv, OuterInv, MergedInv
<1> QED
  BY <1>3, <1>5, <1>6, <1>7, <1>8 DEF HeapInv, Sound

LEMMA InnerEndKeeps == HeapInv /\ InnerEnd => HeapInv'
<1> SUFFICES ASSUME HeapInv, InnerEnd PROVE HeapInv'
  OBVIOUS
<1>1. PICK free \in SUBSET Words, rank \in [Words -> Nat] : Sound(free, rank)
  BY DEF HeapInv
<1>2. /\ pc = "inner" /\ pc' = "outer" /\ i \in free /\ j = NULL
      /\ i' = ram[i] /\ prev_i' = i
      /\ UNCHANGED <<ram, statics, clients, caller, size, j, prev_j, bestBlock, bestSize>>
  BY <1>1 DEF Sound, InnerInv, InnerEnd, peek
<1>3. FreeInv(free, rank)' /\ LiveInv'
  BY <1>1, <1>2, SameHeap DEF Sound, statics, clients
<1>4. /\ i \in Words /\ ram[i] \in Segments
      /\ ram[i] # NULL => ram[i] \in free /\ ram[i] # freeList
      /\ Before(free, rank, ram[i]) = Before(free, rank, i) \cup {i}
  <2>1. TypeOK /\ FreeInv(free, rank) /\ i \in free
    BY <1>1, <1>2 DEF HeapInv, Sound
  <2> QED
    BY <2>1, FreeFacts
<1>5. TypeOK'
  BY <1>2, <1>4, BaseFacts DEF HeapInv, TypeOK, statics, clients
<1>6. AllocInv'
  BY <1>1, <1>2 DEF Sound, AllocInv, clients
<1>7. ASSUME NEW b \in free, i # b
      PROVE  Apart(ram, i, b)
  <2>1. CASE rank[i] < rank[b]
    BY <1>1, <1>2, <2>1 DEF Sound, InnerInv, Before
  <2>2. CASE rank[b] < rank[i]
    <3>1. b \in Before(free, rank, i)
      BY <2>2 DEF Before
    <3>2. Apart(ram, b, i)
      BY <1>1, <1>2, <1>7, <3>1 DEF Sound, InnerInv, MergedBefore
    <3> QED
      BY <3>2 DEF Apart
  <2>3. rank[i] # rank[b] /\ rank[i] \in Nat /\ rank[b] \in Nat
    BY <1>1, <1>2, <1>7 DEF Sound, FreeInv, Linked
  <2> QED
    BY <2>1, <2>2, <2>3
<1>8. OuterInv(free, rank)'
  <2>1. i' # NULL => i' \in free /\ Follows(free, prev_i, i)'
    BY <1>2, <1>4 DEF Follows
  <2>2. MergedBefore(free, rank, i')
    BY <1>1, <1>2, <1>4, <1>7 DEF Sound, InnerInv, MergedBefore
  <2>3. MergedBefore(free, rank, i)'
    BY <1>2, <2>2 DEF MergedBefore
  <2> QED
    BY <2>1, <2>3 DEF OuterInv
<1>9. SearchInv(free, rank)' /\ InnerInv(free, rank)' /\ MergedInv(free)'
  BY <1>2 DEF SearchInv, InnerInv, MergedInv
<1> QED
  BY <1>3, <1>5, <1>6, <1>8, <1>9 DEF HeapInv, Sound

LEMMA DefragEndKeeps == HeapInv /\ DefragEnd => HeapInv'
<1> SUFFICES ASSUME HeapInv, DefragEnd PROVE HeapInv'
  OBVIOUS
<1>1. PICK free \in SUBSET Words, rank \in [Words -> Nat] : Sound(free, rank)
  BY DEF HeapInv
<1>2. /\ pc = "outer" /\ pc' \in {"idle", "search"} /\ i = NULL
      /\ mightNeedDefrag' = FALSE /\ caller' = "program"
      /\ UNCHANGED <<ram, freeListTail, clients, size>>
      /\ pc' = "search" => caller = "alloc" /\ StartSearch
  BY DEF DefragEnd, StartSearch
<1>3. FreeInv(free, rank)' /\ LiveInv'
  BY <1>1, <1>2, SameHeap DEF Sound, clients
<1>4. freeList \in free /\ Before(free, rank, freeList) = {}
  BY <1>1, Advance DEF Sound, FreeInv, Linked
<1>5. TypeOK'
  <2>1. /\ i' \in {NULL, freeList} /\ prev_i' \in {NULL, freeList}
        /\ bestBlock' \in {0, bestBlock} /\ bestSize' \in {0, bestSize}
        /\ j' = NULL /\ prev_j' = NULL
    BY DEF DefragEnd, StartSearch
  <2> QED
    BY <1>2, <1>4, <2>1, BaseFacts DEF HeapInv, TypeOK, clients, NULL
<1>6. AllocInv'
  BY <1>1, <1>2 DEF Sound, AllocInv, clients
<1>7. SearchInv(free, rank)'
  BY <1>2, <1>4 DEF SearchInv, Follows, StartSearch, freeList
<1>8. MergedInv(free)'
  BY <1>1, <1>2 DEF Sound, OuterInv, MergedBefore, Before, MergedInv, Apart, Touches, End
<1>9. OuterInv(free, rank)' /\ InnerInv(free, rank)'
  BY <1>2 DEF OuterInv, InnerInv
<1> QED
  BY <1>3, <1>5, <1>6, <1>7, <1>8, <1>9 DEF HeapInv, Sound

-----------------------------------------------------------------------------
(* The steps that write the heap.                                          *)

\* What a word of the heap may hold.
Value == 0..(heapBase + heapSize)

LEMMA Values ==
    /\ Segments \subseteq Value /\ 0 \in Value
    /\ \A n \in Nat : n <= heapSize => n \in Value
    /\ TypeOK => ram \in [Words -> Value]
  BY BaseFacts DEF Words, Value, TypeOK

LEMMA PokeFacts ==
    ASSUME NEW r \in [Words -> Value], NEW a \in Words, NEW v \in Value
    PROVE  /\ poke(r, a, v) \in [Words -> Value] /\ poke(r, a, v)[a] = v
           /\ \A x \in Words \ {a} : poke(r, a, v)[x] = r[x]
  BY DEF poke

LEMMA LiveBlocks ==
    ASSUME TypeOK, NEW k \in DOMAIN live
    PROVE  /\ live[k].addr \in Int /\ live[k].addr - 2 \in Used
           /\ live[k].size \in Nat /\ live[k].size \in Sizes /\ live[k].addr \in Addresses
           /\ live[k] = [addr |-> live[k].addr, size |-> live[k].size]
<1> DEFINE Blocks == [addr : Addresses, size : Sizes]
<1>1. live \in Seq(Blocks)
  BY DEF TypeOK
<1>2. live[k] \in Blocks
  <2> HIDE DEF Blocks
  <2> QED
    BY <1>1
<1>3. live[k].addr \in Addresses /\ live[k].size \in Sizes
  BY <1>2
<1>4. live[k] = [addr |-> live[k].addr, size |-> live[k].size]
  BY <1>2
<1>5. live[k].addr - 2 \in Used
  BY DEF Used
<1> HIDE DEF Blocks
<1>6. live[k].addr \in Int
  BY <1>3, BaseFacts DEF Addresses
<1>7. live[k].size \in Nat
  BY <1>3, BaseFacts
<1> QED
  BY <1>3, <1>4, <1>5, <1>6, <1>7

\* The block with its header at b goes to its owner.
LEMMA Give ==
    ASSUME TypeOK, AllocInv, LiveInv, pc = "search",
           NEW b \in Words \ Used, b + 1 \in Words, Return(b + 2),
           ram'[b + 1] = size, \A u \in Used : ram'[u + 1] = ram[u + 1]
    PROVE  /\ live' \in Seq([addr : Addresses, size : Sizes]) /\ Len(live') <= MaxLive
           /\ result' \in Addresses /\ Used' = Used \cup {b} /\ LiveInv' /\ AllocInv'
           /\ pc' = "idle" /\ caller' = caller /\ size' = 0 /\ ClearLocals
<1> DEFINE block == [addr |-> b + 2, size |-> size]
<1>1. b \in Nat /\ b + 2 \in Addresses /\ b + 2 # -1 /\ (b + 2) - 2 = b
  BY BaseFacts DEF Addresses, Last
<1>2. /\ size \in Sizes /\ Len(live) < MaxLive
      /\ live \in Seq([addr : Addresses, size : Sizes])
  BY DEF AllocInv, TypeOK
<1>3. /\ live' = Append(live, block) /\ result' = b + 2
      /\ pc' = "idle" /\ caller' = caller /\ size' = 0 /\ ClearLocals
  BY <1>1 DEF Return
<1>4. /\ live' \in Seq([addr : Addresses, size : Sizes]) /\ Len(live') = Len(live) + 1
      /\ live'[Len(live) + 1] = block /\ Len(live) \in Nat
      /\ \A k \in 1..Len(live) : live'[k] = live[k]
      /\ DOMAIN live' = 1..(Len(live) + 1) /\ DOMAIN live = 1..Len(live)
  BY <1>1, <1>2, <1>3
<1>5. /\ DOMAIN live' = DOMAIN live \cup {Len(live) + 1}
      /\ \A k \in DOMAIN live : live'[k] = live[k] /\ k # Len(live) + 1
  BY <1>4
<1>6. Len(live') <= MaxLive
  BY <1>2, <1>4, BaseFacts
<1>7. block.addr = b + 2 /\ block.size = size
  OBVIOUS
<1> HIDE DEF block
<1>8. Used' = Used \cup {b}
  BY <1>1, <1>4, <1>5, <1>7 DEF Used
<1>9. \A k \in DOMAIN live : live[k].addr \in Int /\ live[k].addr - 2 \in Used
  BY LiveBlocks
<1>10. LiveInv'
  <2>1. ASSUME NEW k \in DOMAIN live'
        PROVE  ram'[live'[k].addr - 2 + 1] = live'[k].size
    BY <1>1, <1>4, <1>5, <1>7, <1>9 DEF LiveInv
  <2>2. ASSUME NEW k \in DOMAIN live', NEW n \in DOMAIN live', live'[k].addr = live'[n].addr
        PROVE  k = n
    <3>1. \A x \in DOMAIN live : live[x].addr # b + 2
      BY <1>1, <1>9
    <3> QED
      BY <1>4, <1>5, <1>7, <2>2, <3>1 DEF LiveInv
  <2> QED
    BY <2>1, <2>2 DEF LiveInv
<1>11. AllocInv'
  BY <1>3 DEF AllocInv
<1> QED
  BY <1>1, <1>3, <1>4, <1>6, <1>8, <1>10, <1>11

LEMMA TakeExactKeeps == HeapInv /\ TakeExact => HeapInv'
<1> SUFFICES ASSUME HeapInv, TakeExact PROVE HeapInv'
  OBVIOUS
<1>1. PICK free \in SUBSET Words, rank \in [Words -> Nat] : Sound(free, rank)
  BY DEF HeapInv
<1>2. /\ TypeOK /\ FreeInv(free, rank) /\ LiveInv /\ AllocInv
      /\ Linked(ram, free, rank) /\ Partition(ram, free \cup Used) /\ free \cap Used = {}
      /\ freeListTail \in free /\ ram[freeListTail] = NULL
  BY <1>1 DEF HeapInv, Sound, FreeInv
<1>3. /\ pc = "search" /\ i \in free /\ ram[i + 1] = size
      /\ prev_i \in free /\ ram[prev_i] = i
      /\ ram' = poke(ram, prev_i, ram[i]) /\ Return(i + 2)
      /\ freeListTail' = IF freeListTail = i THEN prev_i ELSE freeListTail
      /\ mightNeedDefrag' = mightNeedDefrag
  BY <1>1 DEF Sound, SearchInv, Follows, TakeExact, Exact, peek
<1>4. /\ ram' \in [Words -> Value]
      /\ ram'[prev_i] = ram[i] /\ \A x \in Words \ {prev_i} : ram'[x] = ram[x]
  <2>1. prev_i \in Words /\ ram[i] \in Segments
    BY <1>2, <1>3, FreeFacts
  <2>2. ram \in [Words -> Value] /\ ram[i] \in Value
    BY <1>2, <2>1, Values
  <2>3. ram' = poke(ram, prev_i, ram[i])
    BY <1>3
  <2> QED
    BY <2>1, <2>2, <2>3, PokeFacts
<1>5. \A h \in free \cup Used : h + 1 \in Words /\ ram'[h + 1] = ram[h + 1]
  <2>1. \A h \in free \cup Used : h + 1 \in Words /\ prev_i # h + 1
    BY <1>2, <1>3, HeadersApart
  <2> QED
    BY <1>4, <2>1
<1> DEFINE f2 == free \ {i}
<1>6. Linked(ram', f2, rank) /\ prev_i # i /\ i # freeList
  BY <1>2, <1>3, <1>4, Unlink
<1>7. /\ live' \in Seq([addr : Addresses, size : Sizes]) /\ Len(live') <= MaxLive
      /\ result' \in Addresses /\ Used' = Used \cup {i} /\ LiveInv' /\ AllocInv'
      /\ pc' = "idle" /\ caller' = caller /\ size' = 0 /\ ClearLocals
  <2>1. i \in Words \ Used /\ i + 1 \in Words
    BY <1>2, <1>3, FreeFacts
  <2>2. ram'[i + 1] = size /\ \A u \in Used : ram'[u + 1] = ram[u + 1]
    BY <1>3, <1>5
  <2> QED
    BY <1>2, <1>3, <2>1, <2>2, Give
<1>8. freeListTail' \in f2 /\ ram'[freeListTail'] = NULL
  <2>1. freeListTail # i => freeListTail # prev_i
    BY <1>2, <1>3, FreeFacts
  <2> QED
    BY <1>2, <1>3, <1>4, <1>6, <2>1
<1>9. TypeOK'
  BY <1>2, <1>3, <1>4, <1>7, <1>8, BaseFacts DEF TypeOK, ClearLocals, NULL, Value
<1>10. Partition(ram', f2 \cup Used')
  <2>1. Partition(ram', free \cup Used)
    BY <1>2, <1>5, SameLengths
  <2>2. f2 \cup Used' = free \cup Used
    BY <1>3, <1>7
  <2> QED
    BY <2>1, <2>2
<1>11. f2 \cap Used' = {}
  BY <1>2, <1>7
<1>12. PICK f \in SUBSET Words : f = f2
  OBVIOUS
<1>13. FreeInv(f, rank)'
  BY <1>6, <1>8, <1>10, <1>11, <1>12 DEF FreeInv
<1>14. MergedInv(f)'
  <2>1. ~mightNeedDefrag => \A a, b \in free : a # b => Apart(ram, a, b)
    BY <1>1, <1>3 DEF Sound, MergedInv
  <2>2. \A a, b \in free : Apart(ram, a, b) => Apart(ram', a, b)
    BY <1>5 DEF Apart, Touches, End
  <2>3. \A a, b \in f : a \in free /\ b \in free
    BY <1>12
  <2> QED
    BY <1>3, <2>1, <2>2, <2>3 DEF MergedInv
<1>15. SearchInv(f, rank)' /\ OuterInv(f, rank)' /\ InnerInv(f, rank)'
  BY <1>7 DEF SearchInv, OuterInv, InnerInv
<1> QED
  BY <1>7, <1>9, <1>13, <1>14, <1>15 DEF HeapInv, Sound

LEMMA CarveBlockKeeps == HeapInv /\ CarveBlock => HeapInv'
<1> SUFFICES ASSUME HeapInv, CarveBlock PROVE HeapInv'
  OBVIOUS
<1>1. PICK free \in SUBSET Words, rank \in [Words -> Nat] : Sound(free, rank)
  BY DEF HeapInv
<1>2. /\ TypeOK /\ FreeInv(free, rank) /\ LiveInv /\ AllocInv
      /\ Linked(ram, free, rank) /\ Partition(ram, free \cup Used) /\ free \cap Used = {}
      /\ freeListTail \in free /\ ram[freeListTail] = NULL
  BY <1>1 DEF HeapInv, Sound, FreeInv
<1> DEFINE b == bestBlock
           c == b + (ram[b + 1] - size)
           heads == free \cup Used
<1>3. /\ pc = "search" /\ b \in free /\ ram[b + 1] - size > 1
      /\ ram' = poke(poke(poke(ram, b + 1, ram[b + 1] - (size + 2)), c, NULL), c + 1, size)
      /\ Return(c + 2) /\ UNCHANGED statics
  <2>1. b # 0
    BY BaseFacts DEF CarveBlock, NULL
  <2> QED
    BY <1>1, <2>1 DEF Sound, SearchInv, CarveBlock, SearchEnded, Fits, peek
<1>4. size \in Nat /\ size \in Sizes
  BY <1>2, <1>3, BaseFacts DEF AllocInv
<1>5. /\ b \in Words /\ b \in Int /\ b + 1 \in Words /\ ram[b + 1] \in Nat
      /\ c \in Words /\ c \in Int /\ c + 1 \in Words /\ b + 1 < c
      /\ c + 1 + size = End(ram, b) /\ End(ram, b) <= Last
      /\ \A h \in heads : h # c /\ h # c + 1 /\ h + 1 # c
  BY <1>2, <1>3, <1>4, SplitPlace
<1>6. ram[b + 1] <= heapSize
  BY <1>2, <1>3, FreeFacts
<1>7. \A h \in heads : h \in Words /\ h \in Int /\ h + 1 \in Words /\ h # b + 1
  BY <1>2, <1>3, HeadersApart, BaseFacts
<1> HIDE DEF b, c, heads
<1>8. /\ ram' \in [Words -> Value]
      /\ ram'[b + 1] = ram[b + 1] - (size + 2) /\ ram'[c] = NULL /\ ram'[c + 1] = size
      /\ \A x \in Words \ {b + 1, c, c + 1} : ram'[x] = ram[x]
  <2> DEFINE less == ram[b + 1] - (size + 2)
  <2>1. less \in Nat /\ less <= heapSize /\ size <= heapSize
    BY <1>3, <1>4, <1>5, <1>6, BaseFacts
  <2>2. less \in Value /\ NULL \in Value /\ size \in Value /\ ram \in [Words -> Value]
    BY <1>2, <1>4, <2>1, Values DEF NULL
  <2>3. b + 1 \in Words /\ c \in Words /\ c + 1 \in Words
    BY <1>5
  <2>4. b + 1 # c /\ b + 1 # c + 1 /\ c # c + 1
    BY <1>5
  <2>5. ram' = poke(poke(poke(ram, b + 1, less), c, NULL), c + 1, size)
    BY <1>3
  <2> HIDE DEF less
  <2>7. ram' \in [Words -> Value] /\ ram'[b + 1] = less /\ ram'[c] = NULL /\ ram'[c + 1] = size
        /\ \A x \in Words \ {b + 1, c, c + 1} : ram'[x] = ram[x]
    BY <2>2, <2>3, <2>4, <2>5 DEF poke
  <2> QED
    BY <2>7 DEF less
<1>9. /\ \A h \in heads : ram'[h] = ram[h]
      /\ \A h \in heads \ {b} : ram'[h + 1] = ram[h + 1]
  <2>1. \A h \in heads : h \notin {b + 1, c, c + 1}
    BY <1>5, <1>7
  <2>2. \A h \in heads \ {b} : h + 1 \notin {b + 1, c, c + 1}
    BY <1>5, <1>7
  <2> QED
    BY <1>7, <1>8, <2>1, <2>2
<1>10. b \in heads /\ free \subseteq heads /\ Used \subseteq heads /\ b \notin Used
  BY <1>2, <1>3 DEF heads
<1>11. /\ Partition(ram', heads \cup {c})
       /\ End(ram', b) = c - 1 /\ \A h \in heads \ {b} : End(ram', h) = End(ram, h)
  <2>1. Partition(ram, heads) /\ b \in heads
    BY <1>2, <1>10 DEF heads
  <2>2. size \in Nat /\ ram[b + 1] - size > 1
    BY <1>3, <1>4
  <2>3. c = b + (ram[b + 1] - size)
    BY DEF c
  <2>4. /\ ram'[b + 1] = ram[b + 1] - (size + 2) /\ ram'[c + 1] = size
        /\ \A h \in heads \ {b} : ram'[h + 1] = ram[h + 1]
    BY <1>8, <1>9
  <2> QED
    BY <2>1, <2>2, <2>3, <2>4, Split, Z3
<1>12. /\ live' \in Seq([addr : Addresses, size : Sizes]) /\ Len(live') <= MaxLive
       /\ result' \in Addresses /\ Used' = Used \cup {c} /\ LiveInv' /\ AllocInv'
       /\ pc' = "idle" /\ caller' = caller /\ size' = 0 /\ ClearLocals
  <2>1. c \in Words \ Used /\ \A u \in Used : ram'[u + 1] = ram[u + 1]
    BY <1>5, <1>9, <1>10
  <2> QED
    BY <1>2, <1>3, <1>5, <1>8, <2>1, Give
<1>13. Linked(ram', free, rank)
  BY <1>2, <1>9, <1>10, SameLinks
<1>14. freeListTail' \in free /\ ram'[freeListTail'] = NULL
  BY <1>2, <1>3, <1>9, <1>10 DEF statics
<1>15. Partition(ram', free \cup Used') /\ free \cap Used' = {}
  <2>1. free \cup Used' = heads \cup {c} /\ c \notin free
    BY <1>5, <1>10, <1>12 DEF heads
  <2> QED
    BY <1>2, <1>11, <1>12, <2>1
<1>16. TypeOK'
  BY <1>2, <1>3, <1>8, <1>12, <1>14, BaseFacts
     DEF TypeOK, ClearLocals, NULL, Value, statics
<1>17. FreeInv(free, rank)'
  BY <1>13, <1>14, <1>15 DEF FreeInv
<1>18. MergedInv(free)'
  <2>1. mightNeedDefrag' = mightNeedDefrag
    BY <1>3 DEF statics
  <2>2. ~mightNeedDefrag => \A s, t \in free : s # t => Apart(ram, s, t)
    BY <1>1, <1>3 DEF Sound, MergedInv
  <2>3. \A s, t \in free : Touches(ram', s, t) => s # b
    BY <1>5, <1>10, <1>11 DEF Touches
  <2>4. \A s, t \in free : s # b => (Touches(ram', s, t) <=> Touches(ram, s, t))
    BY <1>10, <1>11 DEF Touches
  <2> QED
    BY <2>1, <2>2, <2>3, <2>4 DEF MergedInv, Apart
<1>19. SearchInv(free, rank)' /\ OuterInv(free, rank)' /\ InnerInv(free, rank)'
  BY <1>12 DEF SearchInv, OuterInv, InnerInv
<1> QED
  BY <1>12, <1>16, <1>17, <1>18, <1>19 DEF HeapInv, Sound

\* The sequence of blocks without its k-th.
LEMMA WithoutFacts ==
    ASSUME NEW k \in DOMAIN live, TypeOK, live' = Without(k)
    PROVE  /\ Len(live') <= MaxLive /\ live' \in Seq([addr : Addresses, size : Sizes])
           /\ DOMAIN live' = 1..(Len(live) - 1) /\ Len(live) \in Nat
           /\ \A n \in DOMAIN live' : LET m == IF n < k THEN n ELSE n + 1
                                      IN  m \in DOMAIN live /\ m # k /\ live'[n] = live[m]
           /\ \A m \in DOMAIN live : m # k =>
                 \E n \in DOMAIN live' : live'[n] = live[m]
<1> DEFINE Blocks == [addr : Addresses, size : Sizes]
<1>1. live \in Seq(Blocks) /\ Len(live) <= MaxLive
  BY DEF TypeOK
<1> HIDE DEF Blocks
<1>2. Len(live) \in Nat /\ DOMAIN live = 1..Len(live) /\ k \in 1..Len(live)
  BY <1>1
<1>3. /\ DOMAIN live' = 1..(Len(live) - 1)
      /\ \A n \in 1..(Len(live) - 1) : live'[n] = live[IF n < k THEN n ELSE n + 1]
  BY DEF Without
<1>4. \A n \in 1..(Len(live) - 1) :
         LET m == IF n < k THEN n ELSE n + 1
         IN  m \in 1..Len(live) /\ m # k
  BY <1>2
<1>5. \A n \in DOMAIN live' : LET m == IF n < k THEN n ELSE n + 1
                              IN  m \in DOMAIN live /\ m # k /\ live'[n] = live[m]
  BY <1>2, <1>3, <1>4
<1>6. \A n \in DOMAIN live' : live'[n] \in Blocks
  BY <1>1, <1>5
<1>7. Len(live) - 1 \in Nat /\ Len(live) - 1 <= MaxLive
  BY <1>1, <1>2, BaseFacts
<1>8. live' = [n \in 1..(Len(live) - 1) |-> live'[n]]
  BY <1>3 DEF Without
<1>9. live' \in Seq(Blocks) /\ Len(live') = Len(live) - 1
  BY <1>3, <1>6, <1>7, <1>8
<1>10. ASSUME NEW m \in DOMAIN live, m # k
       PROVE  \E n \in DOMAIN live' : live'[n] = live[m]
  <2>1. CASE m < k
    <3>1. m \in 1..(Len(live) - 1)
      BY <1>2, <2>1
    <3> QED
      BY <1>3, <2>1, <3>1
  <2>2. CASE k < m
    <3>1. m - 1 \in 1..(Len(live) - 1) /\ ~(m - 1 < k) /\ (m - 1) + 1 = m
      BY <1>2, <2>2
    <3> QED
      BY <1>3, <3>1
  <2> QED
    BY <1>2, <1>10, <2>1, <2>2
<1> QED
  BY <1>2, <1>3, <1>5, <1>7, <1>9, <1>10 DEF Blocks

LEMMA CallDeAllocKeeps == HeapInv /\ CallDeAlloc => HeapInv'
<1> SUFFICES ASSUME HeapInv, CallDeAlloc PROVE HeapInv'
  OBVIOUS
<1>1. PICK free \in SUBSET Words, rank \in [Words -> Nat] : Sound(free, rank)
  BY DEF HeapInv
<1>2. /\ TypeOK /\ FreeInv(free, rank) /\ LiveInv /\ AllocInv
      /\ Linked(ram, free, rank) /\ Partition(ram, free \cup Used) /\ free \cap Used = {}
      /\ freeListTail \in free /\ ram[freeListTail] = NULL
  BY <1>1 DEF HeapInv, Sound, FreeInv
<1>3. PICK k \in DOMAIN live :
         /\ ram' = poke(poke(ram, freeListTail, live[k].addr - 2), live[k].addr - 2, NULL)
         /\ freeListTail' = live[k].addr - 2
         /\ live' = Without(k)
  BY DEF CallDeAlloc
<1>4. /\ pc = "idle" /\ mightNeedDefrag' = TRUE
      /\ UNCHANGED <<result, pc, caller, size, locals>>
  BY DEF CallDeAlloc
<1> DEFINE s == live[k].addr - 2
           t == freeListTail
<1>5. /\ s \in Used /\ s \in Words /\ s \notin free /\ t \in free /\ t \in Words /\ s # t
      /\ s + 1 \in Words
  <2>1. s \in Used
    BY <1>2, LiveBlocks
  <2> QED
    BY <1>2, <2>1, HeadersApart
<1> HIDE DEF s, t
<1>6. /\ ram' \in [Words -> Value] /\ ram'[t] = s /\ ram'[s] = NULL
      /\ \A x \in Words \ {s, t} : ram'[x] = ram[x]
  <2>1. ram \in [Words -> Value] /\ s \in Value /\ NULL \in Value
    BY <1>2, <1>5, Values, BaseFacts DEF NULL
  <2>2. ram' = poke(poke(ram, t, s), s, NULL)
    BY <1>3 DEF s, t
  <2> QED
    BY <1>5, <2>1, <2>2 DEF poke
<1>7. \A h \in free \cup Used : h + 1 \in Words /\ ram'[h + 1] = ram[h + 1]
  <2>1. \A h \in free \cup Used : h + 1 \in Words /\ s # h + 1 /\ t # h + 1
    BY <1>2, <1>5, HeadersApart
  <2> QED
    BY <1>6, <2>1
<1>8. /\ Len(live') <= MaxLive /\ live' \in Seq([addr : Addresses, size : Sizes])
      /\ DOMAIN live' = 1..(Len(live) - 1) /\ Len(live) \in Nat
      /\ \A n \in DOMAIN live' : LET m == IF n < k THEN n ELSE n + 1
                                 IN  m \in DOMAIN live /\ m # k /\ live'[n] = live[m]
      /\ \A m \in DOMAIN live : m # k =>
            \E n \in DOMAIN live' : live'[n] = live[m]
  BY <1>2, <1>3, WithoutFacts
<1>9. Used' = Used \ {s}
  <2>1. \A m \in DOMAIN live : m # k => live[m].addr - 2 # s
    <3>1. \A m \in DOMAIN live : live[m].addr \in Int
      BY <1>2, LiveBlocks
    <3>2. \A m \in DOMAIN live : live[m].addr = live[k].addr => m = k
      BY <1>2 DEF LiveInv
    <3>3. \A x, y \in Int : x - 2 = y - 2 => x = y
      OBVIOUS
    <3> QED
      BY <3>1, <3>2, <3>3 DEF s
  <2>2. \A n \in DOMAIN live' : \E m \in DOMAIN live : m # k /\ live'[n] = live[m]
    BY <1>8
  <2>3. \A u : u \in Used <=> \E m \in DOMAIN live : u = live[m].addr - 2
    BY DEF Used
  <2>4. \A u : u \in Used' <=> \E n \in DOMAIN live' : u = live'[n].addr - 2
    BY DEF Used
  <2>5. \A u : u \in Used' => u \in Used /\ u # s
    BY <2>1, <2>2, <2>3, <2>4
  <2>6. \A u : u \in Used /\ u # s => u \in Used'
    <3> SUFFICES ASSUME NEW u \in Used, u # s PROVE u \in Used'
      OBVIOUS
    <3>1. PICK m \in DOMAIN live : u = live[m].addr - 2
      BY <2>3
    <3>2. m # k
      BY <3>1 DEF s
    <3> QED
      BY <1>8, <2>4, <3>1, <3>2
  <2> QED
    BY <2>5, <2>6
<1>10. LiveInv'
  <2>1. ASSUME NEW n \in DOMAIN live'
        PROVE  ram'[live'[n].addr - 2 + 1] = live'[n].size
    <3>1. PICK m \in DOMAIN live : live'[n] = live[m]
      BY <1>8
    <3>2. live[m].addr - 2 \in Used
      BY <1>2, LiveBlocks
    <3>3. ram'[live[m].addr - 2 + 1] = ram[live[m].addr - 2 + 1]
      BY <1>7, <3>2
    <3> QED
      BY <1>2, <3>1, <3>3 DEF LiveInv
  <2>2. ASSUME NEW n \in DOMAIN live', NEW p \in DOMAIN live', live'[n].addr = live'[p].addr
        PROVE  n = p
    <3>1. (IF n < k THEN n ELSE n + 1) = (IF p < k THEN p ELSE p + 1)
      BY <1>2, <1>8, <2>2 DEF LiveInv
    <3>2. n \in Int /\ p \in Int /\ k \in Int
      <4>1. live \in Seq([addr : Addresses, size : Sizes])
        BY <1>2 DEF TypeOK
      <4>2. DOMAIN live = 1..Len(live) /\ Len(live) \in Nat
        BY <4>1
      <4> QED
        BY <1>8, <4>2
    <3> QED
      BY <3>1, <3>2
  <2> QED
    BY <2>1, <2>2 DEF LiveInv
<1> DEFINE f2 == free \cup {s}
           rank2 == [rank EXCEPT ![s] = rank[t] + 1]
<1>11. rank2 \in [Words -> Nat] /\ Linked(ram', f2, rank2)
  <2>1. s \in Words \ free /\ t \in free /\ ram[t] = NULL
    BY <1>2, <1>5 DEF t
  <2>2. ram'[t] = s /\ ram'[s] = NULL /\ \A x \in free \ {t} : ram'[x] = ram[x]
    BY <1>5, <1>6
  <2>3. /\ rank2 \in [Words -> Nat] /\ rank2[s] = rank[t] + 1
        /\ \A x \in free : rank2[x] = rank[x]
    BY <1>5
  <2> HIDE DEF rank2
  <2> QED
    BY <1>2, <2>1, <2>2, <2>3, Extend
<1>12. PICK f \in SUBSET Words, rk \in [Words -> Nat] : f = f2 /\ rk = rank2
  BY <1>5, <1>11
<1>13. FreeInv(f, rk)'
  <2>1. f \cup Used' = free \cup Used /\ f \cap Used' = {}
    BY <1>2, <1>5, <1>9, <1>12
  <2>2. Partition(ram', free \cup Used)
    BY <1>2, <1>7, SameLengths
  <2>3. freeListTail' \in f /\ ram'[freeListTail'] = NULL
    BY <1>3, <1>6, <1>12 DEF s
  <2> QED
    BY <1>11, <1>12, <2>1, <2>2, <2>3 DEF FreeInv
<1>14. TypeOK'
  <2>1. freeListTail' \in Words
    BY <1>3, <1>5 DEF s
  <2> QED
    BY <1>2, <1>4, <1>6, <1>8, <2>1 DEF TypeOK, Value, locals
<1>15. AllocInv' /\ SearchInv(f, rk)' /\ OuterInv(f, rk)' /\ InnerInv(f, rk)' /\ MergedInv(f)'
  BY <1>2, <1>4 DEF AllocInv, SearchInv, OuterInv, InnerInv, MergedInv
<1> QED
  BY <1>10, <1>13, <1>14, <1>15 DEF HeapInv, Sound

\* Words q are the heap after segment t, which comes after p in the list, has
\* become the end of segment s.
Joined(q, free, rank, p, s, t) ==
    /\ q \in [Words -> Value] /\ q[p] = ram[t] /\ q[t] = NULL
    /\ \A x \in Words \ {p, t, s + 1} : q[x] = ram[x]
    /\ \A x \in free \cup Used : x \in Words /\ x # s + 1
    /\ \A x \in (free \cup Used) \ {s, t} : x + 1 \in Words /\ q[x + 1] = ram[x + 1]
    /\ Linked(q, free \ {t}, rank)
    /\ Partition(q, (free \ {t}) \cup Used)
    /\ s + 1 < t /\ End(q, s) = End(ram, t)
    /\ \A x \in (free \cup Used) \ {s, t} : End(q, x) = End(ram, x)
    /\ p # t /\ t # freeList

LEMMA JoinFacts ==
    ASSUME TypeOK, NEW free \in SUBSET Words, NEW rank \in [Words -> Nat],
           FreeInv(free, rank), NEW s \in free, NEW t \in free, NEW p \in free,
           Touches(ram, s, t), ram[p] = t,
           NEW q, q = Join(poke(ram, p, ram[t]), s, t)
    PROVE  Joined(q, free, rank, p, s, t)
<1> DEFINE heads == free \cup Used
<1>1. /\ Linked(ram, free, rank) /\ Partition(ram, heads) /\ free \cap Used = {}
      /\ s \in heads /\ t \in heads /\ p \in heads
  BY DEF FreeInv
<1> HIDE DEF heads
<1>2. /\ \A x, h \in heads : x \in Words /\ x + 1 \in Words /\ h # x + 1
      /\ \A x \in heads : x \in Int
  BY <1>1, HeadersApart, BaseFacts
<1>3. p # t /\ t # freeList
  <2>1. t # NULL /\ rank[t] \in Nat
    BY FreeFacts
  <2>2. ram[p] # NULL => rank[p] < rank[ram[p]] /\ ram[p] # freeList
    BY FreeFacts
  <2> QED
    BY <2>1, <2>2
<1>4. s # t /\ s + 1 # t + 1
  <2>1. /\ ram[s + 1] \in Nat /\ s \in Int
    BY FreeFacts
  <2>2. s < t
    BY <2>1 DEF Touches, End
  <2> QED
    BY <1>1, <1>2, <2>1, <2>2
<1> DEFINE sum == ram[s + 1] + ram[t + 1] + 2
<1>5. sum \in Nat /\ sum <= heapSize
  <2>1. /\ s \in Int /\ s >= heapBase /\ t \in Int
        /\ ram[s + 1] \in Nat /\ ram[t + 1] \in Nat
    BY FreeFacts, BaseFacts
  <2>2. End(ram, t) <= Last /\ End(ram, t) = t + 1 + ram[t + 1]
    BY <1>1 DEF Partition, End
  <2>3. (s + 1 + ram[s + 1]) + 1 = t
    BY DEF Touches, End
  <2> QED
    BY <2>1, <2>2, <2>3, BaseFacts DEF Last
<1>6. /\ ram[t] \in Value /\ NULL \in Value /\ sum \in Value /\ ram \in [Words -> Value]
  <2>1. ram[t] \in Segments
    BY FreeFacts
  <2> QED
    BY <1>5, <2>1, Values DEF NULL
<1>7. q = poke(poke(poke(ram, p, ram[t]), s + 1, sum), t, NULL)
  <2>1. poke(ram, p, ram[t])[s + 1] = ram[s + 1]
    BY <1>1, <1>2, <1>6 DEF poke
  <2>2. poke(ram, p, ram[t])[t + 1] = ram[t + 1]
    BY <1>1, <1>2, <1>6 DEF poke
  <2> QED
    BY <2>1, <2>2 DEF Join
<1> HIDE DEF sum
<1>8. /\ q \in [Words -> Value] /\ q[p] = ram[t] /\ q[t] = NULL /\ q[s + 1] = sum
      /\ \A x \in Words \ {p, t, s + 1} : q[x] = ram[x]
  <2>1. p \in Words /\ t \in Words /\ s + 1 \in Words /\ p # s + 1 /\ t # s + 1 /\ p # t
    BY <1>1, <1>2, <1>3
  <2> QED
    BY <1>6, <1>7, <2>1 DEF poke
<1>9. \A x \in heads \ {s, t} : x + 1 \in Words /\ q[x + 1] = ram[x + 1]
  <2>1. \A x \in heads \ {s, t} : x + 1 \notin {p, t, s + 1}
    BY <1>1, <1>2
  <2> QED
    BY <1>2, <1>8, <2>1
<1>10. Linked(q, free \ {t}, rank)
  <2>1. \A x \in free \ {p, t} : q[x] = ram[x]
    BY <1>1, <1>2, <1>8 DEF heads
  <2> QED
    BY <1>1, <1>8, <2>1, Unlink
<1>11. /\ Partition(q, heads \ {t})
       /\ s + 1 < t /\ End(q, s) = End(ram, t)
       /\ \A x \in heads \ {s, t} : End(q, x) = End(ram, x)
  <2>1. q[s + 1] = ram[s + 1] + ram[t + 1] + 2
    BY <1>8 DEF sum
  <2>2. \A x \in heads \ {s, t} : q[x + 1] = ram[x + 1]
    BY <1>9
  <2> QED
    BY <1>1, <2>1, <2>2, Merge
<1>12. heads \ {t} = (free \ {t}) \cup Used
  BY <1>1 DEF heads
<1> QED
  BY <1>1, <1>2, <1>3, <1>8, <1>9, <1>10, <1>11, <1>12 DEF heads, Joined

LEMMA JoinNextKeeps == HeapInv /\ JoinNext /\ ~StaleJoin => HeapInv'
<1> SUFFICES ASSUME HeapInv, JoinNext, ~StaleJoin PROVE HeapInv'
  OBVIOUS
<1>1. PICK free \in SUBSET Words, rank \in [Words -> Nat] : Sound(free, rank)
  BY DEF HeapInv
<1>2. /\ TypeOK /\ FreeInv(free, rank) /\ LiveInv /\ AllocInv
      /\ Linked(ram, free, rank) /\ Partition(ram, free \cup Used) /\ free \cap Used = {}
      /\ freeListTail \in free /\ ram[freeListTail] = NULL
  BY <1>1 DEF HeapInv, Sound, FreeInv
<1>3. /\ pc = "inner" /\ pc' = "inner" /\ j # NULL
      /\ freeListTail' = IF j = freeListTail THEN prev_j ELSE freeListTail
      /\ ram' = Join(poke(ram, prev_j, ram[j]), i, j)
      /\ j' = ram'[i] /\ prev_j' = i
      /\ UNCHANGED <<mightNeedDefrag, clients, caller, size, i, prev_i, bestBlock, bestSize>>
  BY DEF JoinNext, peek
<1>4. /\ i \in free /\ Follows(free, prev_i, i) /\ j \in free /\ rank[i] < rank[j]
      /\ MergedBefore(free, rank, i)
      /\ prev_j \in free \/ Swallowed(free, prev_j)
  BY <1>1, <1>3 DEF Sound, InnerInv
<1>5. ram[prev_j] = j /\ prev_j \in free
  <2>1. ram[prev_j] = j
    BY <1>3 DEF JoinNext, StaleJoin, peek
  <2> QED
    BY <1>3, <1>4, <2>1 DEF Swallowed
<1>6. Touches(ram, i, j)
  BY <1>2, <1>4, Contiguous DEF JoinNext
<1>7. \A x \in free : rank[x] \in Nat /\ x \in Words /\ x # NULL
  BY BaseFacts
<1>8. /\ ram' \in [Words -> Value] /\ ram'[prev_j] = ram[j] /\ ram'[j] = NULL
      /\ \A x \in Words \ {prev_j, j, i + 1} : ram'[x] = ram[x]
      /\ \A x \in free \cup Used : x \in Words /\ x # i + 1
      /\ \A x \in (free \cup Used) \ {i, j} : x + 1 \in Words /\ ram'[x + 1] = ram[x + 1]
      /\ Linked(ram', free \ {j}, rank)
      /\ Partition(ram', (free \ {j}) \cup Used)
      /\ i + 1 < j /\ End(ram', i) = End(ram, j)
      /\ \A x \in (free \cup Used) \ {i, j} : End(ram', x) = End(ram, x)
      /\ prev_j # j /\ j # freeList
  <2>1. /\ TypeOK /\ FreeInv(free, rank) /\ i \in free /\ j \in free
        /\ prev_j \in free /\ ram[prev_j] = j
    BY <1>2, <1>4, <1>5
  <2>2. ram' = Join(poke(ram, prev_j, ram[j]), i, j)
    BY <1>3
  <2>3. Joined(ram', free, rank, prev_j, i, j)
    BY <1>6, <2>1, <2>2, JoinFacts
  <2> QED
    BY <2>3 DEF Joined
<1>9. PICK f \in SUBSET Words : f = free \ {j}
  OBVIOUS
<1>10. i \in f /\ f \subseteq free /\ j \notin f
  BY <1>4, <1>7, <1>9
<1>11. freeListTail' \in f /\ ram'[freeListTail'] = NULL
  <2>1. CASE j = freeListTail
    BY <1>2, <1>3, <1>5, <1>8, <1>9, <2>1
  <2>2. CASE j # freeListTail
    <3>1. freeListTail # prev_j
      BY <1>2, <1>3, <1>5
    <3>2. ram'[freeListTail] = ram[freeListTail]
      BY <1>2, <1>8, <2>2, <3>1
    <3> QED
      BY <1>2, <1>3, <1>9, <2>2, <3>2
  <2> QED
    BY <2>1, <2>2
<1>12. Used' = Used /\ live' = live
  BY <1>3 DEF Used, clients
<1>13. FreeInv(f, rank)'
  BY <1>2, <1>8, <1>9, <1>11, <1>12 DEF FreeInv
<1>14. LiveInv'
  <2>1. \A k \in DOMAIN live : live[k].addr - 2 \in Used
    BY <1>2, LiveBlocks
  <2>2. \A u \in Used : ram'[u + 1] = ram[u + 1]
    BY <1>2, <1>4, <1>8
  <2> QED
    BY <1>2, <1>12, <2>1, <2>2 DEF LiveInv
<1>15. /\ ram'[i] \in Segments
       /\ ram'[i] # NULL => ram'[i] \in f /\ rank[i] < rank[ram'[i]]
       /\ Before(f, rank, ram'[i]) = Before(f, rank, i) \cup {i}
  <2>1. Linked(ram', f, rank)
    BY <1>8, <1>9
  <2>2. /\ ram'[i] # NULL => ram'[i] \in f /\ rank[i] < rank[ram'[i]]
        /\ Before(f, rank, ram'[i]) = Before(f, rank, i) \cup {i}
    BY <1>10, <2>1, Advance
  <2> QED
    BY <1>7, <1>10, <2>2 DEF Segments
<1>16. TypeOK'
  <2>1. freeListTail' \in Words /\ j' \in Segments /\ prev_j' \in Segments
    BY <1>3, <1>4, <1>7, <1>11, <1>15 DEF Segments
  <2> QED
    BY <1>2, <1>3, <1>8, <2>1 DEF TypeOK, Value, clients
<1>17. AllocInv'
  BY <1>2, <1>3 DEF AllocInv, clients
<1>18. Follows(f, prev_i, i)'
  <2>1. prev_i \in free /\ prev_i # j
    BY <1>4, <1>7, <1>2, FreeFacts DEF Follows
  <2>2. i # freeList => ram'[prev_i] = ram[prev_i]
    <3> SUFFICES ASSUME i # freeList PROVE ram'[prev_i] = ram[prev_i]
      OBVIOUS
    <3>1. ram[prev_i] = i
      BY <1>4 DEF Follows
    <3>2. prev_i # prev_j
      BY <1>4, <1>5, <1>7, <3>1
    <3> QED
      BY <1>8, <2>1, <3>2
  <2>3. i' = i /\ prev_i' = prev_i
    BY <1>3
  <2> QED
    BY <1>4, <1>9, <2>1, <2>2, <2>3 DEF Follows
<1>19. ASSUME NEW a \in Before(f, rank, i), NEW b \in f, a # b
       PROVE  Apart(ram', a, b)
  <2>1. a \in free /\ b \in free /\ a # i /\ a # j /\ b # j
    BY <1>7, <1>10, <1>9 DEF Before
  <2>2. a \in Before(free, rank, i)
    BY <1>10 DEF Before
  <2>3. Apart(ram, a, b) /\ Apart(ram, a, j)
    BY <1>4, <1>19, <2>1, <2>2 DEF MergedBefore
  <2>4. End(ram', a) = End(ram, a) /\ (b # i => End(ram', b) = End(ram, b))
    BY <1>8, <2>1
  <2> QED
    BY <1>8, <2>3, <2>4 DEF Apart, Touches
<1>20. InnerInv(f, rank)'
  <2>1. MergedBefore(f, rank, i)'
    BY <1>3, <1>19 DEF MergedBefore
  <2>2. \A b \in f : ~(rank[i] < rank[b] /\ b \in Before(f, rank, ram'[i]))
    BY <1>7, <1>10, <1>15 DEF Before
  <2> QED
    BY <1>3, <1>7, <1>10, <1>15, <1>18, <2>1, <2>2 DEF InnerInv
<1>21. SearchInv(f, rank)' /\ OuterInv(f, rank)' /\ MergedInv(f)'
  BY <1>3 DEF SearchInv, OuterInv, MergedInv
<1> QED
  BY <1>13, <1>14, <1>16, <1>17, <1>20, <1>21 DEF HeapInv, Sound

LEMMA JoinPreviousKeeps == HeapInv /\ JoinPrevious => HeapInv'
<1> SUFFICES ASSUME HeapInv, JoinPrevious PROVE HeapInv'
  OBVIOUS
<1>1. PICK free \in SUBSET Words, rank \in [Words -> Nat] : Sound(free, rank)
  BY DEF HeapInv
<1>2. /\ TypeOK /\ FreeInv(free, rank) /\ LiveInv /\ AllocInv
      /\ Linked(ram, free, rank) /\ Partition(ram, free \cup Used) /\ free \cap Used = {}
      /\ freeListTail \in free /\ ram[freeListTail] = NULL
  BY <1>1 DEF HeapInv, Sound, FreeInv
<1>3. /\ pc = "inner" /\ pc' = "inner" /\ j # NULL
      /\ ram' = Join(poke(ram, prev_i, ram[i]), j, i)
      /\ i' = ram'[prev_i]
      /\ j' = IF i' # NULL THEN ram'[i'] ELSE NULL
      /\ UNCHANGED <<statics, clients, caller, size, prev_i, prev_j, bestBlock, bestSize>>
  BY DEF JoinPrevious, peek
<1>4. /\ i \in free /\ Follows(free, prev_i, i) /\ j \in free /\ rank[i] < rank[j]
      /\ MergedBefore(free, rank, i)
      /\ prev_j \in Words
      /\ prev_j \in free \/ Swallowed(free, prev_j)
  BY <1>1, <1>3 DEF Sound, InnerInv
<1>5. Touches(ram, j, i)
  BY <1>2, <1>4, Contiguous DEF JoinPrevious
<1>6. \A x \in free : rank[x] \in Nat /\ x \in Words /\ x \in Int /\ x # NULL
  BY BaseFacts
\* i lies behind j in memory: it is not the first word of the heap.
<1>7. prev_i \in free /\ ram[prev_i] = i
  <2>1. ram[j + 1] \in Nat /\ j \in Int /\ heapBase <= j
    BY <1>2, <1>4, FreeFacts, BaseFacts
  <2>2. i # freeList
    BY <1>5, <2>1, BaseFacts DEF Touches, End, freeList
  <2> QED
    BY <1>4, <2>2 DEF Follows
<1>8. Joined(ram', free, rank, prev_i, j, i)
  <2>1. ram' = Join(poke(ram, prev_i, ram[i]), j, i)
    BY <1>3
  <2> QED
    BY <1>2, <1>4, <1>5, <1>7, <2>1, JoinFacts
<1>9. /\ ram' \in [Words -> Value] /\ ram'[prev_i] = ram[i] /\ ram'[i] = NULL
      /\ \A x \in Words \ {prev_i, i, j + 1} : ram'[x] = ram[x]
      /\ \A x \in free \cup Used : x \in Words /\ x # j + 1
      /\ \A x \in (free \cup Used) \ {i, j} : x + 1 \in Words /\ ram'[x + 1] = ram[x + 1]
      /\ Linked(ram', free \ {i}, rank)
      /\ Partition(ram', (free \ {i}) \cup Used)
      /\ j + 1 < i /\ End(ram', j) = End(ram, i)
      /\ \A x \in (free \cup Used) \ {i, j} : End(ram', x) = End(ram, x)
      /\ prev_i # i /\ i # freeList
  BY <1>8 DEF Joined
<1>10. PICK f \in SUBSET Words : f = free \ {i}
  OBVIOUS
<1>11. j \in f /\ prev_i \in f /\ f \subseteq free /\ i \notin f
  BY <1>4, <1>6, <1>7, <1>9, <1>10
\* The list does not end at i: j comes later.
<1>12. /\ i' = ram[i] /\ i' # NULL /\ i' \in f /\ i' # freeList
       /\ rank[i] < rank[i'] /\ rank[i'] <= rank[j]
  BY <1>2, <1>3, <1>4, <1>6, <1>9, <1>10 DEF Linked
<1>13. freeListTail' \in f /\ ram'[freeListTail'] = NULL
  <2>1. freeListTail # i /\ freeListTail # prev_i /\ freeListTail' = freeListTail
    BY <1>2, <1>3, <1>6, <1>7, <1>12, <1>4 DEF statics
  <2>2. ram'[freeListTail] = ram[freeListTail]
    BY <1>2, <1>6, <1>9, <2>1
  <2> QED
    BY <1>2, <1>10, <2>1, <2>2
<1>14. Used' = Used /\ live' = live
  BY <1>3 DEF Used, clients
<1>15. FreeInv(f, rank)'
  BY <1>2, <1>9, <1>10, <1>13, <1>14 DEF FreeInv
<1>16. LiveInv'
  <2>1. \A k \in DOMAIN live : live[k].addr - 2 \in Used
    BY <1>2, LiveBlocks
  <2>2. \A u \in Used : ram'[u + 1] = ram[u + 1]
    BY <1>2, <1>4, <1>9
  <2> QED
    BY <1>2, <1>14, <2>1, <2>2 DEF LiveInv
<1>17. /\ Before(f, rank, i') = Before(f, rank, prev_i) \cup {prev_i}
       /\ ram'[i'] \in Segments /\ j' = ram'[i']
       /\ j' # NULL => j' \in f /\ rank[i'] < rank[j']
       /\ Before(f, rank, j') = Before(f, rank, i') \cup {i'}
  <2>1. Linked(ram', f, rank)
    BY <1>9, <1>10
  <2>2. Before(f, rank, ram'[prev_i]) = Before(f, rank, prev_i) \cup {prev_i}
    BY <1>11, <2>1, Advance
  <2>3. /\ ram'[i'] # NULL => ram'[i'] \in f /\ rank[i'] < rank[ram'[i']]
        /\ Before(f, rank, ram'[i']) = Before(f, rank, i') \cup {i'}
    BY <1>12, <2>1, Advance
  <2>4. j' = ram'[i'] /\ i' = ram'[prev_i]
    BY <1>3, <1>12
  <2> QED
    BY <1>6, <1>11, <2>2, <2>3, <2>4 DEF Segments
<1>18. TypeOK'
  <2>1. i' \in Segments /\ j' \in Segments
    BY <1>6, <1>11, <1>12, <1>17 DEF Segments
  <2> QED
    BY <1>2, <1>3, <1>9, <2>1 DEF TypeOK, Value, clients, statics
<1>19. AllocInv'
  BY <1>2, <1>3 DEF AllocInv, clients
<1>20. ASSUME NEW a \in Before(f, rank, i'), NEW b \in f, a # b
       PROVE  Apart(ram', a, b)
  <2>1. a \in free /\ b \in free /\ a # i /\ b # i
    BY <1>11 DEF Before
  <2>2. rank[prev_i] < rank[i]
    BY <1>4, <1>6, <1>7, <1>2 DEF Linked
  <2>3. rank[a] < rank[i]
    BY <1>4, <1>6, <1>7, <1>11, <1>17, <2>1, <2>2 DEF Before
  <2>4. a \in Before(free, rank, i) /\ a # j
    BY <1>4, <1>6, <2>1, <2>3 DEF Before
  <2>5. Apart(ram, a, b) /\ Apart(ram, a, i)
    BY <1>4, <1>20, <2>1, <2>4 DEF MergedBefore
  <2>6. End(ram', a) = End(ram, a) /\ (b # j => End(ram', b) = End(ram, b))
    BY <1>9, <2>1, <2>4
  <2> QED
    BY <1>9, <2>5, <2>6 DEF Apart, Touches
\* prev_j is left behind: it may be i, which is now a word in the body of j.
<1>21. prev_j' = prev_j /\ (prev_j' \in f \/ Swallowed(f, prev_j)')
  <2>0. prev_j' = prev_j
    BY <1>3
  <2> DEFINE heads == free \cup Used
  <2>1. Partition(ram, heads) /\ i \in heads /\ j \in heads
    BY <1>2, <1>4
  <2>2. /\ \A x \in heads : x \in Int /\ End(ram, x) \in Int /\ x + 1 <= End(ram, x)
        /\ \A x, y \in heads : x # y => End(ram, x) < y \/ End(ram, y) < x
    BY <2>1, HeadsApart, BaseFacts
  <2> HIDE DEF heads
  <2>3. CASE prev_j = i
    <3>1. /\ j + 2 <= i /\ i <= End(ram', j)
          /\ ram'[i] = NULL
      BY <1>4, <1>6, <1>9, <2>1, <2>2
    <3> QED
      BY <1>11, <2>0, <2>3, <3>1 DEF Swallowed
  <2>4. CASE prev_j \in free /\ prev_j # i
    BY <1>10, <2>0, <2>4
  <2>5. CASE Swallowed(free, prev_j) /\ prev_j # i
    <3>1. PICK s \in free : s + 2 <= prev_j /\ prev_j <= End(ram, s)
      BY <2>5 DEF Swallowed
    <3>2. prev_j \in Words /\ prev_j \in Int /\ ram[prev_j] = NULL /\ s \in heads /\ s \in Int
      BY <1>4, <1>6, <2>5, BaseFacts DEF Swallowed, heads
    <3>3. prev_j # prev_i
      BY <1>6, <1>7, <1>4, <3>2
    <3>4. prev_j # j + 1
      BY <2>1, <2>2, <3>1, <3>2
    <3>5. ram'[prev_j] = NULL
      BY <1>9, <2>5, <3>2, <3>3, <3>4
    <3>6. CASE s # i
      <4>1. prev_j <= End(ram', s)
        <5>1. CASE s = j
          BY <1>9, <2>1, <2>2, <3>1, <3>2, <5>1
        <5>2. CASE s # j
          BY <1>9, <3>1, <3>6, <5>2
        <5> QED
          BY <5>1, <5>2
      <4>2. s \in f
        BY <1>10, <3>1, <3>6
      <4> QED
        BY <2>0, <3>1, <3>5, <4>1, <4>2 DEF Swallowed
    <3>7. CASE s = i
      <4>1. j + 2 <= prev_j /\ prev_j <= End(ram', j)
        BY <1>9, <2>1, <2>2, <3>1, <3>2, <3>7
      <4> QED
        BY <1>11, <2>0, <3>5, <4>1 DEF Swallowed
    <3> QED
      BY <3>6, <3>7
  <2> QED
    BY <1>4, <2>0, <2>3, <2>4, <2>5
<1>22. InnerInv(f, rank)'
  <2>1. MergedBefore(f, rank, i)'
    BY <1>20 DEF MergedBefore
  <2>2. \A b \in f : ~(rank[i'] < rank[b] /\ b \in Before(f, rank, j'))
    BY <1>6, <1>11, <1>12, <1>17 DEF Before
  <2>3. Follows(f, prev_i, i)'
    BY <1>3, <1>11, <1>12 DEF Follows
  <2>4. prev_j' \in Words
    BY <1>4, <1>21
  <2>5. i' \in f /\ (j' # NULL => j' \in f /\ rank[i'] < rank[j'])
    BY <1>12, <1>17
  <2> QED
    BY <1>21, <2>1, <2>2, <2>3, <2>4, <2>5 DEF InnerInv
<1>23. SearchInv(f, rank)' /\ OuterInv(f, rank)' /\ MergedInv(f)'
  BY <1>3 DEF SearchInv, OuterInv, MergedInv
<1> QED
  BY <1>15, <1>16, <1>18, <1>19, <1>22, <1>23 DEF HeapInv, Sound

-----------------------------------------------------------------------------
(* The invariant.                                                          *)

LEMMA HeapInvStarts == Init => HeapInv
<1> SUFFICES ASSUME Init PROVE HeapInv
  OBVIOUS
<1>1. live = << >> /\ DOMAIN live = {} /\ Len(live) = 0
  BY DEF Init
<1>2. Used = {}
  BY <1>1 DEF Used
<1>3. /\ heapBase \in Words /\ heapBase + 1 \in Words /\ heapBase # heapBase + 1
      /\ ram[heapBase] = NULL /\ ram[heapBase + 1] = heapSize - 2
      /\ heapSize - 2 \in Nat /\ heapSize - 2 <= heapSize
      /\ heapBase + 1 + (heapSize - 2) = Last
  BY BaseFacts DEF Init, NULL, Last
<1>4. TypeOK
  <2>1. heapSize - 2 \in Value /\ 0 \in Value
    BY <1>3, Values
  <2>2. ram \in [Words -> Value]
    BY <2>1 DEF Init
  <2>3. live \in Seq([addr : Addresses, size : Sizes])
    BY <1>1
  <2>4. Len(live) <= MaxLive
    BY <1>1, BaseFacts
  <2> QED
    BY <1>3, <2>2, <2>3, <2>4, BaseFacts DEF TypeOK, Init, Value, NULL
<1> DEFINE free0 == {heapBase}
           rank0 == [w \in Words |-> 0]
<1>5. PICK free \in SUBSET Words, rank \in [Words -> Nat] : free = free0 /\ rank = rank0
  BY <1>3
<1>6. Linked(ram, free, rank)
  BY <1>3, <1>5 DEF Linked, freeList
<1>7. Partition(ram, free \cup Used)
  <2>1. free \cup Used = {heapBase}
    BY <1>2, <1>5
  <2>2. End(ram, heapBase) = Last
    BY <1>3 DEF End
  <2>3. \A w \in Words : heapBase <= w /\ w <= Last
    BY BaseFacts
  <2>4. Last <= Last /\ ~(heapBase < heapBase)
    BY BaseFacts
  <2> QED
    BY <1>3, <2>1, <2>2, <2>3, <2>4 DEF Partition
<1>8. FreeInv(free, rank)
  BY <1>2, <1>3, <1>5, <1>6, <1>7 DEF FreeInv, Init
<1>9. LiveInv /\ AllocInv
  BY <1>1 DEF LiveInv, AllocInv, Init
<1>10. SearchInv(free, rank) /\ OuterInv(free, rank) /\ InnerInv(free, rank)
  BY DEF SearchInv, OuterInv, InnerInv, Init
<1>11. MergedInv(free)
  BY <1>5 DEF MergedInv
<1> QED
  BY <1>4, <1>8, <1>9, <1>10, <1>11 DEF HeapInv, Sound

LEMMA StutterKeeps == HeapInv /\ UNCHANGED vars => HeapInv'
<1> SUFFICES ASSUME HeapInv, UNCHANGED vars PROVE HeapInv'
  OBVIOUS
<1>1. PICK free \in SUBSET Words, rank \in [Words -> Nat] : Sound(free, rank)
  BY DEF HeapInv
<1>2. /\ UNCHANGED <<ram, freeListTail, mightNeedDefrag, live, result, pc, caller, size>>
      /\ UNCHANGED <<i, prev_i, j, prev_j, bestBlock, bestSize>>
  BY DEF vars, statics, locals, clients
<1>3. TypeOK'
  BY <1>2 DEF HeapInv, TypeOK
<1>4. FreeInv(free, rank)' /\ LiveInv'
  BY <1>1, <1>2, SameHeap DEF Sound
<1>5. AllocInv' /\ SearchInv(free, rank)'
  BY <1>1, <1>2 DEF Sound, AllocInv, SearchInv, Follows
<1>6. OuterInv(free, rank)' /\ MergedInv(free)'
  BY <1>1, <1>2 DEF Sound, OuterInv, MergedInv, Follows, MergedBefore, Apart, Touches, End
<1>7. InnerInv(free, rank)'
  <2>1. Swallowed(free, prev_j) => Swallowed(free, prev_j)'
    BY <1>2 DEF Swallowed, End
  <2>2. Follows(free, prev_i, i) => Follows(free, prev_i, i)'
    BY <1>2 DEF Follows
  <2>3. MergedBefore(free, rank, i) => MergedBefore(free, rank, i)'
    BY <1>2 DEF MergedBefore, Apart, Touches, End
  <2>4. \A b : Apart(ram, i, b) => Apart(ram, i, b)'
    BY <1>2 DEF Apart, Touches, End
  <2> QED
    BY <1>1, <1>2, <2>1, <2>2, <2>3, <2>4 DEF Sound, InnerInv
<1> QED
  BY <1>3, <1>4, <1>5, <1>6, <1>7 DEF HeapInv, Sound

LEMMA HeapInvKept == HeapInv /\ [NextUntilStale]_vars => HeapInv'
<1> SUFFICES ASSUME HeapInv, [NextUntilStale]_vars PROVE HeapInv'
  OBVIOUS
<1>1. CASE CallAlloc
  BY <1>1, CallAllocKeeps
<1>2. CASE CallDeAlloc
  BY <1>2, CallDeAllocKeeps
<1>3. CASE CallDefrag
  BY <1>3, StartDefragKeeps
<1>4. CASE RunningUntilStale
  BY <1>4, TakeExactKeeps, ConsiderSegmentKeeps, CarveBlockKeeps, StartDefragKeeps,
     AllocFailsKeeps, OuterStepKeeps, JoinNextKeeps, JoinPreviousKeeps,
     NextSegmentKeeps, InnerEndKeeps, DefragEndKeeps DEF RunningUntilStale
<1>5. CASE UNCHANGED vars
  BY <1>5, StutterKeeps
<1> QED
  BY <1>1, <1>2, <1>3, <1>4, <1>5 DEF NextUntilStale

\* Up to the first stale unlink, the heap is a partition into free segments and
\* live blocks, and the free list links the former in one order.
THEOREM HeapPartitioned == SpecUntilStale => []HeapInv
<1>1. Init => HeapInv
  BY HeapInvStarts
<1>2. HeapInv /\ [NextUntilStale]_vars => HeapInv'
  BY HeapInvKept
<1> QED
  BY <1>1, <1>2, PTL DEF SpecUntilStale

\* The variables of the heap keep their types: no word, link or size leaves the
\* heap, and the blocks given are of the sizes asked for.
THEOREM TypesHold == SpecUntilStale => []TypeOK
<1>1. HeapInv => TypeOK
  BY DEF HeapInv
<1> QED
  BY <1>1, HeapPartitioned, PTL

-----------------------------------------------------------------------------
(* The free list, as the properties of OSHeap read it.                     *)

Follow(x) == IF x \in Words THEN ram[x] ELSE NULL

LEMMA ListExists ==
    \E f : /\ f = [n \in 0..heapSize |-> f[n]]
           /\ f[0] = freeList
           /\ \A n \in 0..heapSize : n # 0 => f[n] = Follow(f[n - 1])
<1> DEFINE Chain(f, m) == /\ f = [n \in 0..m |-> f[n]]
                          /\ f[0] = freeList
                          /\ \A n \in 0..m : n # 0 => f[n] = Follow(f[n - 1])
           S == {m \in Nat : \E f : Chain(f, m)}
<1>1. 0 \in S
  <2>1. Chain([n \in 0..0 |-> freeList], 0)
    OBVIOUS
  <2> QED
    BY <2>1
<1>2. ASSUME NEW m \in S
      PROVE  m + 1 \in S
  <2>1. m \in Nat
    OBVIOUS
  <2>2. PICK g : Chain(g, m)
    OBVIOUS
  <2> DEFINE f == [n \in 0..(m + 1) |-> IF n = m + 1 THEN Follow(g[m]) ELSE g[n]]
  <2>3. Chain(f, m + 1)
    <3>1. f = [n \in 0..(m + 1) |-> f[n]]
      OBVIOUS
    <3>2. f[0] = freeList
      BY <2>1, <2>2
    <3>3. ASSUME NEW n \in 0..(m + 1), n # 0
          PROVE  f[n] = Follow(f[n - 1])
      <4>1. CASE n = m + 1
        BY <2>1, <4>1
      <4>2. CASE n # m + 1
        <5>1. n \in 0..m /\ n - 1 \in 0..m
          BY <2>1, <3>3, <4>2
        <5>2. f[n] = g[n] /\ f[n - 1] = g[n - 1]
          BY <2>1, <5>1
        <5> QED
          BY <2>2, <3>3, <5>1, <5>2
      <4> QED
        BY <4>1, <4>2
    <3> QED
      BY <3>1, <3>2, <3>3
  <2> HIDE DEF f, Chain
  <2> QED
    BY <2>1, <2>3
<1>3. 0..heapSize \subseteq S
  <2> HIDE DEF S
  <2> QED
    BY <1>1, <1>2, UpTo, BaseFacts
<1>4. heapSize \in S
  BY <1>3, BaseFacts
<1> QED
  BY <1>4

LEMMA ListUnfolds ==
    /\ FreeSegment[0] = freeList
    /\ \A n \in 0..heapSize : n + 1 \in 0..heapSize
                                 => FreeSegment[n + 1] = Follow(FreeSegment[n])
<1>1. \E f : f = [n \in 0..heapSize |->
                     IF n = 0 THEN freeList
                     ELSE IF f[n - 1] \in Words THEN ram[f[n - 1]] ELSE NULL]
  <2>1. PICK f : /\ f = [n \in 0..heapSize |-> f[n]]
                 /\ f[0] = freeList
                 /\ \A n \in 0..heapSize : n # 0 => f[n] = Follow(f[n - 1])
    BY ListExists
  <2>2. f = [n \in 0..heapSize |->
               IF n = 0 THEN freeList
               ELSE IF f[n - 1] \in Words THEN ram[f[n - 1]] ELSE NULL]
    BY <2>1 DEF Follow
  <2> QED
    BY <2>2
<1>2. FreeSegment = [n \in 0..heapSize |->
                       IF n = 0 THEN freeList
                       ELSE IF FreeSegment[n - 1] \in Words
                            THEN ram[FreeSegment[n - 1]] ELSE NULL]
  BY <1>1 DEF FreeSegment
<1>3. FreeSegment[0] = freeList
  BY <1>2, BaseFacts
<1>4. ASSUME NEW n \in 0..heapSize, n + 1 \in 0..heapSize
      PROVE  FreeSegment[n + 1] = Follow(FreeSegment[n])
  <2>1. n + 1 # 0 /\ (n + 1) - 1 = n
    OBVIOUS
  <2> QED
    BY <1>2, <1>4, <2>1 DEF Follow
<1> QED
  BY <1>3, <1>4

\* The list leads through free segments only.
LEMMA ListStays ==
    ASSUME NEW free \in SUBSET Words, NEW rank \in [Words -> Nat],
           Linked(ram, free, rank)
    PROVE  \A n \in 0..heapSize : FreeSegment[n] \in free \cup {NULL}
<1> DEFINE S == {n \in 0..heapSize : FreeSegment[n] \in free \cup {NULL}}
<1>1. 0 \in S
  BY ListUnfolds, BaseFacts DEF Linked
<1>2. ASSUME NEW n \in 0..heapSize, n \in S, n + 1 \in 0..heapSize
      PROVE  n + 1 \in S
  <2>1. FreeSegment[n + 1] = Follow(FreeSegment[n])
    BY <1>2, ListUnfolds
  <2> QED
    BY <1>2, <2>1, BaseFacts DEF Follow, Linked
<1> HIDE DEF S
<1>3. 0..heapSize \subseteq S
  BY <1>1, <1>2, UpTo, BaseFacts
<1> QED
  BY <1>3 DEF S

\* The segments of the list have growing ranks: none comes twice.
LEMMA ListGrows ==
    ASSUME NEW free \in SUBSET Words, NEW rank \in [Words -> Nat],
           Linked(ram, free, rank), FreeSegment[heapSize] # NULL
    PROVE  \A n \in 0..heapSize :
              /\ FreeSegment[n] \in free
              /\ \A m \in 0..heapSize : m < n => rank[FreeSegment[m]] < rank[FreeSegment[n]]
<1>1. \A n \in 0..heapSize : FreeSegment[n] # NULL
  <2> SUFFICES ASSUME NEW x \in 0..heapSize, FreeSegment[x] = NULL PROVE FALSE
    OBVIOUS
  <2> DEFINE S == {n \in 0..heapSize : n < x \/ FreeSegment[n] = NULL}
  <2>1. 0 \in S
    BY BaseFacts
  <2>2. ASSUME NEW n \in 0..heapSize, n \in S, n + 1 \in 0..heapSize
        PROVE  n + 1 \in S
    <3>1. FreeSegment[n] = NULL => FreeSegment[n + 1] = NULL
      BY <2>2, ListUnfolds, BaseFacts DEF Follow
    <3> QED
      BY <2>2, <3>1
  <2> HIDE DEF S
  <2>3. 0..heapSize \subseteq S
    BY <2>1, <2>2, UpTo, BaseFacts
  <2>4. heapSize \in S
    BY <2>3, BaseFacts
  <2> QED
    BY <2>4, BaseFacts DEF S
<1>2. \A n \in 0..heapSize : FreeSegment[n] \in free /\ rank[FreeSegment[n]] \in Nat
  BY <1>1, ListStays
<1> DEFINE T == {n \in 0..heapSize : \A m \in 0..heapSize :
                     m < n => rank[FreeSegment[m]] < rank[FreeSegment[n]]}
<1>3. 0 \in T
  BY BaseFacts
<1>4. ASSUME NEW n \in 0..heapSize, n \in T, n + 1 \in 0..heapSize
      PROVE  n + 1 \in T
  <2>1. FreeSegment[n + 1] = ram[FreeSegment[n]] /\ FreeSegment[n] \in free
    BY <1>2, <1>4, ListUnfolds DEF Follow
  <2>2. rank[FreeSegment[n]] < rank[FreeSegment[n + 1]]
    BY <1>1, <1>4, <2>1 DEF Linked
  <2>3. ASSUME NEW m \in 0..heapSize, m < n + 1
        PROVE  rank[FreeSegment[m]] < rank[FreeSegment[n + 1]]
    <3>1. CASE m = n
      BY <2>2, <3>1
    <3>2. CASE m < n
      BY <1>2, <1>4, <2>2, <3>2
    <3> QED
      BY <2>3, <3>1, <3>2
  <2> QED
    BY <1>4, <2>3
<1> HIDE DEF T
<1>5. 0..heapSize \subseteq T
  BY <1>3, <1>4, UpTo, BaseFacts
<1> QED
  BY <1>2, <1>5 DEF T

\* A list of more segments than words would pass one twice.
LEMMA ListEnds ==
    ASSUME NEW free \in SUBSET Words, NEW rank \in [Words -> Nat],
           Linked(ram, free, rank)
    PROVE  FreeSegment[heapSize] = NULL
<1> SUFFICES ASSUME FreeSegment[heapSize] # NULL PROVE FALSE
  OBVIOUS
<1> DEFINE Steps == 0..heapSize
           f == [n \in Steps |-> FreeSegment[n]]
<1>1. \A n \in Steps : /\ FreeSegment[n] \in free
                       /\ \A m \in Steps : m < n => rank[FreeSegment[m]] < rank[FreeSegment[n]]
  BY ListGrows
<1>2. /\ IsFiniteSet(Steps) /\ Cardinality(Steps) = heapSize + 1
      /\ IsFiniteSet(Words) /\ Cardinality(Words) = heapSize
  <2>1. heapSize \in Nat /\ heapBase \in Nat /\ heapSize >= 2
    BY BaseFacts
  <2>2. IsFiniteSet(0..heapSize) /\ Cardinality(0..heapSize) = heapSize - 0 + 1
    BY <2>1, FS_Interval
  <2>3. /\ IsFiniteSet(heapBase..(heapBase + heapSize - 1))
        /\ Cardinality(heapBase..(heapBase + heapSize - 1))
              = (heapBase + heapSize - 1) - heapBase + 1
    BY <2>1, FS_Interval
  <2> QED
    BY <2>1, <2>2, <2>3 DEF Words
<1>3. f \in [Steps -> Words] /\ Cardinality(Words) < Cardinality(Steps)
  <2>1. \A n \in Steps : FreeSegment[n] \in Words
    BY <1>1
  <2>2. Cardinality(Words) < Cardinality(Steps)
    BY <1>2, BaseFacts
  <2> HIDE DEF Steps
  <2> QED
    BY <2>1, <2>2
<1>4. PICK x \in Steps, y \in Steps : x # y /\ f[x] = f[y]
  <2> HIDE DEF f, Steps
  <2> QED
    BY <1>2, <1>3, FS_PigeonHole
<1>5. FreeSegment[x] = FreeSegment[y]
  BY <1>4
<1>6. rank[FreeSegment[x]] \in Nat
  BY <1>1
<1>7. x < y \/ y < x
  BY <1>4
<1> QED
  BY <1>1, <1>5, <1>6, <1>7

\* The list passes each free segment.
LEMMA ListWhole ==
    ASSUME NEW free \in SUBSET Words, NEW rank \in [Words -> Nat],
           Linked(ram, free, rank)
    PROVE  FreeSegments = free
<1>1. FreeSegments \subseteq free
  BY ListStays DEF FreeSegments
<1>2. ASSUME NEW s \in free, s \notin FreeSegments
      PROVE  FALSE
  <2> DEFINE S == {n \in 0..heapSize : /\ FreeSegment[n] \in free
                                       /\ rank[FreeSegment[n]] < rank[s]}
  <2>1. \A x \in free : rank[x] \in Nat /\ x \in Words /\ x # NULL
    BY BaseFacts
  <2>2. \A n \in 0..heapSize : FreeSegment[n] # s
    BY <1>2, <2>1 DEF FreeSegments
  <2>3. 0 \in S
    <3>1. 0 \in 0..heapSize /\ FreeSegment[0] = freeList /\ freeList \in free
      BY ListUnfolds, BaseFacts DEF Linked
    <3>2. freeList # s /\ rank[freeList] <= rank[s] /\ rank[freeList] # rank[s]
      BY <2>2, <3>1 DEF Linked
    <3> QED
      BY <2>1, <3>1, <3>2
  <2>4. ASSUME NEW n \in 0..heapSize, n \in S, n + 1 \in 0..heapSize
        PROVE  n + 1 \in S
    <3> DEFINE x == FreeSegment[n]
    <3>1. x \in free /\ rank[x] < rank[s]
      BY <2>4
    <3>2. FreeSegment[n + 1] = ram[x]
      BY <2>1, <2>4, <3>1, ListUnfolds DEF Follow
    <3> HIDE DEF x
    <3>3. ram[x] # NULL
      BY <2>1, <3>1 DEF Linked
    <3>4. ram[x] \in free /\ rank[ram[x]] <= rank[s]
      BY <2>1, <3>1, <3>3 DEF Linked
    <3>5. rank[ram[x]] # rank[s]
      BY <2>2, <2>4, <3>2, <3>4 DEF Linked
    <3> QED
      BY <2>1, <2>4, <3>2, <3>4, <3>5
  <2> HIDE DEF S
  <2>5. 0..heapSize \subseteq S
    BY <2>3, <2>4, UpTo, BaseFacts
  <2>6. heapSize \in S
    BY <2>5, BaseFacts
  <2> QED
    BY <2>1, <2>6, ListEnds DEF S
<1> QED
  BY <1>1, <1>2

-----------------------------------------------------------------------------
(* The words of a live block.                                              *)

\* The words of a live block are those of its part of the heap.
LEMMA BlockPart ==
    ASSUME TypeOK, NEW free, NEW rank, FreeInv(free, rank), LiveInv, NEW k \in DOMAIN live
    PROVE  /\ live[k].addr - 2 \in Used
           /\ BlockWords(live[k]) = (live[k].addr - 2)..End(ram, live[k].addr - 2)
<1>1. /\ live[k].addr \in Int /\ live[k].addr - 2 \in Used
      /\ live[k].size \in Nat
  BY LiveBlocks
<1>2. ram[live[k].addr - 2 + 1] = live[k].size
  BY DEF LiveInv
<1>3. \A a, n \in Int : (a - 2) + 1 + n = a + n - 1
  OBVIOUS
<1>4. End(ram, live[k].addr - 2) = live[k].addr + live[k].size - 1
  BY <1>1, <1>2, <1>3 DEF End
<1> QED
  BY <1>1, <1>4 DEF BlockWords

\* They are in the heap, and no header of another part is among them.
LEMMA BlockApart ==
    ASSUME TypeOK, NEW free, NEW rank, FreeInv(free, rank), LiveInv,
           NEW k \in DOMAIN live, NEW w \in BlockWords(live[k])
    PROVE  /\ w \in Words
           /\ \A g \in free \cup Used : g # live[k].addr - 2 =>
                 /\ g \in Int /\ w # g /\ w # g + 1
                 /\ ~(g <= w /\ w <= End(ram, g))
<1> DEFINE heads == free \cup Used
           u == live[k].addr - 2
<1>1. Partition(ram, heads) /\ u \in heads
  BY BlockPart DEF FreeInv
<1>2. u \in Int /\ End(ram, u) \in Int /\ w \in u..End(ram, u)
  BY <1>1, HeadsApart, BlockPart, BaseFacts
<1> HIDE DEF heads, u
<1>3. w \in Int /\ u <= w /\ w <= End(ram, u)
  BY <1>2
<1>4. u \in Words /\ End(ram, u) <= Last
  BY <1>1, HeadsApart
<1>5. w \in Words
  BY <1>2, <1>3, <1>4, BaseFacts
<1>6. ASSUME NEW g \in heads, g # u
      PROVE  g \in Int /\ w # g /\ w # g + 1 /\ ~(g <= w /\ w <= End(ram, g))
  <2>1. /\ g \in Int /\ g + 1 <= End(ram, g) /\ End(ram, g) \in Int
        /\ End(ram, g) < u \/ End(ram, u) < g
    BY <1>1, <1>6, HeadsApart, BaseFacts
  <2> QED
    BY <1>2, <1>3, <2>1
<1> QED
  BY <1>5, <1>6 DEF heads, u

\* Two blocks share no word.
LEMMA LiveApart ==
    HeapInv =>
        \A k \in DOMAIN live :
            /\ BlockWords(live[k]) \subseteq Words
            /\ \A n \in DOMAIN live :
                  n # k => /\ live[k] # live[n]
                           /\ BlockWords(live[k]) \cap BlockWords(live[n]) = {}
<1> SUFFICES ASSUME HeapInv, NEW k \in DOMAIN live
             PROVE  /\ BlockWords(live[k]) \subseteq Words
                    /\ \A n \in DOMAIN live :
                          n # k => /\ live[k] # live[n]
                                   /\ BlockWords(live[k]) \cap BlockWords(live[n]) = {}
  OBVIOUS
<1>1. PICK free \in SUBSET Words, rank \in [Words -> Nat] : Sound(free, rank)
  BY DEF HeapInv
<1>2. TypeOK /\ FreeInv(free, rank) /\ LiveInv
  BY <1>1 DEF HeapInv, Sound
<1>3. BlockWords(live[k]) \subseteq Words
  BY <1>2, BlockApart
<1>4. ASSUME NEW n \in DOMAIN live, n # k
      PROVE  /\ live[k].addr # live[n].addr
             /\ BlockWords(live[k]) \cap BlockWords(live[n]) = {}
  <2>1. live[k].addr # live[n].addr
    BY <1>2, <1>4 DEF LiveInv
  <2>2. live[k].addr \in Int /\ live[n].addr \in Int
    BY <1>2, LiveBlocks
  <2>3. live[n].addr - 2 \in Used /\ live[n].addr - 2 # live[k].addr - 2
    BY <1>2, <2>1, <2>2, LiveBlocks
  <2> SUFFICES ASSUME NEW w \in BlockWords(live[k]), w \in BlockWords(live[n]) PROVE FALSE
    BY <2>1
  <2>4. w \in (live[n].addr - 2)..End(ram, live[n].addr - 2)
    BY <1>2, BlockPart
  <2>5. ~(live[n].addr - 2 <= w /\ w <= End(ram, live[n].addr - 2))
    BY <1>2, <2>3, BlockApart
  <2> QED
    BY <2>4, <2>5
<1> QED
  BY <1>3, <1>4

-----------------------------------------------------------------------------
(* The free list.                                                          *)

LEMMA FreeListWhole == HeapInv => FreeListSound
<1> SUFFICES ASSUME HeapInv, pc = "idle" PROVE FreeListSound
  BY DEF FreeListSound
<1>1. PICK free \in SUBSET Words, rank \in [Words -> Nat] : Sound(free, rank)
  BY DEF HeapInv
<1>2. /\ TypeOK /\ FreeInv(free, rank) /\ LiveInv
      /\ Linked(ram, free, rank) /\ Partition(ram, free \cup Used)
      /\ freeListTail \in free /\ ram[freeListTail] = NULL /\ free \cap Used = {}
  BY <1>1 DEF HeapInv, Sound, FreeInv
<1>3. FreeSegment[heapSize] = NULL /\ FreeSegments = free
  BY <1>2, ListEnds, ListWhole
<1> DEFINE heads == free \cup Used
<1>4. \A h \in heads : /\ h \in Int /\ End(ram, h) \in Int /\ h \in Words
                       /\ h + 1 <= End(ram, h) /\ End(ram, h) <= Last
  BY <1>2, HeadsApart, BaseFacts
<1>5. \A g, h \in heads : g # h => End(ram, g) < h \/ End(ram, h) < g
  BY <1>2, HeadsApart
<1>6. \A s \in free : SegmentWords(s) = s..End(ram, s)
  BY DEF SegmentWords, End
<1>7. ASSUME NEW s \in free
      PROVE  SegmentWords(s) \subseteq Words
  <2>1. heapBase <= s /\ heapBase \in Int
    BY BaseFacts
  <2>2. \A w \in s..End(ram, s) : w \in Words
    BY <1>4, <2>1, BaseFacts
  <2> QED
    BY <1>6, <2>2
<1>8. ASSUME NEW w \in Words
      PROVE  Cardinality(Owners(w)) = 1
  <2> DEFINE blocks == {live[k] : k \in DOMAIN live}
  <2>1. w \in Int
    BY BaseFacts
  <2>2. PICK h \in heads : h <= w /\ w <= End(ram, h)
    BY <1>2 DEF Partition
  <2> HIDE DEF heads
  <2>3. \A g \in heads : g <= w /\ w <= End(ram, g) => g = h
    BY <1>4, <1>5, <2>1, <2>2
  <2>4. \A s \in free : w \in SegmentWords(s) <=> s = h
    BY <1>4, <1>6, <2>1, <2>2, <2>3 DEF heads
  <2>5. \A k \in DOMAIN live : w \in BlockWords(live[k]) <=> live[k].addr - 2 = h
    <3> SUFFICES ASSUME NEW k \in DOMAIN live
                 PROVE  w \in BlockWords(live[k]) <=> live[k].addr - 2 = h
      OBVIOUS
    <3> DEFINE u == live[k].addr - 2
    <3>1. u \in heads /\ BlockWords(live[k]) = u..End(ram, u)
      BY <1>2, BlockPart DEF heads
    <3> HIDE DEF u
    <3>2. w \in BlockWords(live[k]) <=> u = h
      BY <1>4, <2>1, <2>2, <2>3, <3>1
    <3> QED
      BY <3>2 DEF u
  <2>6. \E x : Owners(w) = {x}
    <3>1. CASE h \in free
      <4>1. \A b \in blocks : w \notin BlockWords(b)
        BY <1>2, <2>5, <3>1, BlockPart
      <4>2. Owners(w) = {h}
        BY <1>3, <2>4, <3>1, <4>1 DEF Owners
      <4> QED
        BY <4>2
    <3>2. CASE h \in Used
      <4>1. PICK k \in DOMAIN live : live[k].addr - 2 = h
        BY <3>2 DEF Used
      <4>2. \A n \in DOMAIN live : live[n].addr \in Int
        BY <1>2, LiveBlocks
      <4>3. \A n \in DOMAIN live : live[n].addr - 2 = h => n = k
        BY <1>2, <4>1, <4>2 DEF LiveInv
      <4>4. \A b \in blocks : w \in BlockWords(b) <=> b = live[k]
        BY <2>5, <4>1, <4>3
      <4>5. \A s \in free : w \notin SegmentWords(s)
        BY <1>2, <2>4, <3>2
      <4>6. Owners(w) = {live[k]}
        BY <1>3, <4>4, <4>5 DEF Owners
      <4> QED
        BY <4>6
    <3> QED
      BY <3>1, <3>2 DEF heads
  <2> QED
    BY <2>6, FS_Singleton
<1> QED
  BY <1>2, <1>3, <1>7, <1>8 DEF FreeListSound

\* Between calls the free list ends at the recorded tail, and each word of the
\* heap is in one free segment or one live block: no history of alloc, deAlloc
\* and defrag loses a word or gives one twice.
THEOREM FreeListIsSound == SpecUntilStale => []FreeListSound
  BY FreeListWhole, HeapPartitioned, PTL

LEMMA MergedAtEnd == HeapInv => DefragMerges
<1> SUFFICES ASSUME HeapInv, pc = "outer", i = NULL,
                    NEW s \in FreeSegments, NEW t \in FreeSegments
             PROVE  s + 2 + ram[s + 1] # t
  BY DEF DefragMerges
<1>1. PICK free \in SUBSET Words, rank \in [Words -> Nat] : Sound(free, rank)
  BY DEF HeapInv
<1>2. TypeOK /\ FreeInv(free, rank) /\ s \in free /\ t \in free
  BY <1>1, ListWhole DEF HeapInv, Sound, FreeInv
<1>3. s \in Int /\ ram[s + 1] \in Nat
  BY <1>2, FreeFacts
<1>4. s # t => Apart(ram, s, t)
  BY <1>1, <1>2 DEF Sound, OuterInv, MergedBefore, Before
<1> QED
  BY <1>3, <1>4 DEF Apart, Touches, End

\* When defrag ends it has joined every two free segments that were neighbours
\* in memory, in whatever order the list had them.
THEOREM DefragJoinsAll == SpecUntilStale => []DefragMerges
  BY MergedAtEnd, HeapPartitioned, PTL

-----------------------------------------------------------------------------
(* What a step may not do.                                                 *)

BlocksKept ==
    \A k \in DOMAIN live :
        (\E n \in DOMAIN live' : live'[n] = live[k])
            => \A w \in BlockWords(live[k]) : ram'[w] = ram[w]

\* A step that writes only the parts of free segments keeps the blocks.
LEMMA FreeWrites ==
    ASSUME TypeOK, NEW free, NEW rank, FreeInv(free, rank), LiveInv, NEW W,
           \A w \in Words \ W : ram'[w] = ram[w],
           \A w \in W : \E g \in free : g <= w /\ w <= End(ram, g)
    PROVE  BlocksKept
<1> SUFFICES ASSUME NEW k \in DOMAIN live, NEW w \in BlockWords(live[k])
             PROVE  w \in Words /\ w \notin W
  BY DEF BlocksKept
<1>1. /\ w \in Words
      /\ \A g \in free \cup Used : g # live[k].addr - 2 => ~(g <= w /\ w <= End(ram, g))
  BY BlockApart
<1>2. \A g \in free : g # live[k].addr - 2
  BY BlockPart DEF FreeInv
<1> QED
  BY <1>1, <1>2

LEMMA FreePart ==
    ASSUME TypeOK, NEW free \in SUBSET Words, NEW rank \in [Words -> Nat],
           FreeInv(free, rank), NEW g \in free
    PROVE  /\ g <= g /\ g <= End(ram, g) /\ g <= g + 1 /\ g + 1 <= End(ram, g)
           /\ g \in Int /\ End(ram, g) \in Int
<1>1. g \in Int /\ ram[g + 1] \in Nat
  BY FreeFacts
<1> QED
  BY <1>1 DEF End

LEMMA KeepsBlocks == HeapInv /\ [NextUntilStale]_vars => BlocksKept
<1> SUFFICES ASSUME HeapInv, [NextUntilStale]_vars PROVE BlocksKept
  OBVIOUS
<1>1. PICK free \in SUBSET Words, rank \in [Words -> Nat] : Sound(free, rank)
  BY DEF HeapInv
<1>2. /\ TypeOK /\ FreeInv(free, rank) /\ LiveInv
      /\ freeListTail \in free /\ Linked(ram, free, rank)
  BY <1>1 DEF HeapInv, Sound, FreeInv
<1>3. \A g \in free : g <= g /\ g <= End(ram, g) /\ g <= g + 1 /\ g + 1 <= End(ram, g)
  BY <1>2, FreePart
<1>4. ASSUME NEW W, \A w \in Words \ W : ram'[w] = ram[w],
             \A w \in W : \E g \in free : g <= w /\ w <= End(ram, g)
      PROVE  BlocksKept
  BY <1>2, <1>4, FreeWrites
<1>5. ASSUME NEW p \in free, ram' = poke(ram, p, ram[i])
      PROVE  BlocksKept
  <2>1. \A w \in Words \ {p} : ram'[w] = ram[w]
    BY <1>2, <1>5 DEF poke, TypeOK
  <2> QED
    BY <1>3, <1>4, <2>1
<1>6. CASE TakeExact
  <2>1. prev_i \in free /\ ram' = poke(ram, prev_i, ram[i])
    BY <1>1, <1>6 DEF Sound, SearchInv, Follows, TakeExact, Exact, peek
  <2> QED
    BY <1>5, <2>1
<1>7. CASE CarveBlock
  <2> DEFINE b == bestBlock
             c == b + (ram[b + 1] - size)
  <2>1. /\ b \in free /\ ram[b + 1] - size > 1
        /\ ram' = poke(poke(poke(ram, b + 1, ram[b + 1] - (size + 2)), c, NULL), c + 1, size)
    <3>1. b # 0
      BY <1>7, BaseFacts DEF CarveBlock, NULL
    <3> QED
      BY <1>1, <1>7, <3>1 DEF Sound, SearchInv, CarveBlock, SearchEnded, Fits, peek
  <2>2. size \in Nat /\ b \in Int /\ ram[b + 1] \in Nat
    <3>1. size \in Nat
      BY <1>2, BaseFacts DEF TypeOK
    <3> QED
      BY <1>2, <2>1, <3>1, FreeFacts
  <2>3. /\ b <= b + 1 /\ b + 1 <= End(ram, b)
        /\ b <= c /\ c <= End(ram, b) /\ b <= c + 1 /\ c + 1 <= End(ram, b)
    BY <2>1, <2>2 DEF End
  <2>4. \A w \in Words \ {b + 1, c, c + 1} : ram'[w] = ram[w]
    <3> HIDE DEF b, c
    <3>1. ram \in [Words -> Value]
      BY <1>2, Values
    <3> QED
      BY <2>1, <3>1 DEF poke
  <2> HIDE DEF c
  <2>5. \A w \in {b + 1, c, c + 1} : \E g \in free : g <= w /\ w <= End(ram, g)
    BY <2>1, <2>3
  <2>6. PICK W : W = {b + 1, c, c + 1}
    OBVIOUS
  <2> QED
    BY <1>4, <2>4, <2>5, <2>6
\* The block that is freed is no longer a client's.
<1>8. CASE CallDeAlloc
  <2>1. PICK k \in DOMAIN live :
           /\ ram' = poke(poke(ram, freeListTail, live[k].addr - 2), live[k].addr - 2, NULL)
           /\ live' = Without(k)
    BY <1>8 DEF CallDeAlloc
  <2> DEFINE s == live[k].addr - 2
  <2>2. \A n \in DOMAIN live' : \E m \in DOMAIN live : m # k /\ live'[n] = live[m]
    BY <1>2, <2>1, WithoutFacts
  <2>3. \A w \in Words \ {s, freeListTail} : ram'[w] = ram[w]
    BY <1>2, <2>1 DEF poke, TypeOK
  <2> SUFFICES ASSUME NEW x \in DOMAIN live, \E n \in DOMAIN live' : live'[n] = live[x],
                      NEW w \in BlockWords(live[x])
               PROVE  ram'[w] = ram[w]
    BY DEF BlocksKept
  <2>4. live[x].addr # live[k].addr
    BY <1>2, <2>2 DEF LiveInv
  <2>5. /\ live[x].addr \in Int /\ live[k].addr \in Int /\ s \in Used
        /\ live[x].addr - 2 \in Used
    BY <1>2, LiveBlocks
  <2>6. s # live[x].addr - 2 /\ freeListTail # live[x].addr - 2
    BY <1>2, <2>4, <2>5 DEF FreeInv
  <2>7. w \in Words /\ w # s /\ w # freeListTail
    BY <1>2, <2>5, <2>6, BlockApart
  <2> QED
    BY <2>3, <2>7
<1>9. ASSUME NEW s \in free, NEW t \in free, NEW p \in free, Touches(ram, s, t), ram[p] = t,
             ram' = Join(poke(ram, p, ram[t]), s, t)
      PROVE  BlocksKept
  <2>1. Joined(ram', free, rank, p, s, t)
    BY <1>2, <1>9, JoinFacts
  <2>2. \A w \in Words \ {p, t, s + 1} : ram'[w] = ram[w]
    BY <2>1 DEF Joined
  <2>3. \A w \in {p, t, s + 1} : \E g \in free : g <= w /\ w <= End(ram, g)
    BY <1>3
  <2>4. PICK W : W = {p, t, s + 1}
    OBVIOUS
  <2> QED
    BY <1>4, <2>2, <2>3, <2>4
<1>10. CASE JoinNext /\ ~StaleJoin
  <2>1. /\ pc = "inner" /\ j # NULL /\ ram[prev_j] = j
        /\ ram' = Join(poke(ram, prev_j, ram[j]), i, j)
    BY <1>10 DEF JoinNext, StaleJoin, peek
  <2>2. /\ i \in free /\ j \in free /\ prev_j \in free
    BY <1>1, <2>1 DEF Sound, InnerInv, Swallowed
  <2>3. Touches(ram, i, j)
    BY <1>2, <1>10, <2>2, Contiguous DEF JoinNext
  <2> QED
    BY <1>9, <2>1, <2>2, <2>3
<1>11. CASE JoinPrevious
  <2>1. /\ pc = "inner" /\ j # NULL
        /\ ram' = Join(poke(ram, prev_i, ram[i]), j, i)
    BY <1>11 DEF JoinPrevious, peek
  <2>2. i \in free /\ j \in free /\ Follows(free, prev_i, i)
    BY <1>1, <2>1 DEF Sound, InnerInv
  <2>3. Touches(ram, j, i)
    BY <1>2, <1>11, <2>2, Contiguous DEF JoinPrevious
  <2>4. prev_i \in free /\ ram[prev_i] = i
    <3>1. ram[j + 1] \in Nat /\ j \in Int /\ heapBase <= j
      BY <1>2, <2>2, FreeFacts, BaseFacts
    <3>2. i # freeList
      BY <2>3, <3>1, BaseFacts DEF Touches, End, freeList
    <3> QED
      BY <2>2, <3>2 DEF Follows
  <2> QED
    BY <1>9, <2>1, <2>2, <2>3, <2>4
<1>12. CASE UNCHANGED ram
  BY <1>12 DEF BlocksKept
<1>13. CASE \/ CallAlloc \/ CallDefrag \/ ConsiderSegment \/ DefragAndRetry \/ AllocFails
            \/ OuterStep \/ NextSegment \/ InnerEnd \/ DefragEnd \/ UNCHANGED vars
  BY <1>12, <1>13 DEF CallAlloc, CallDefrag, ConsiderSegment, DefragAndRetry, AllocFails,
                      OuterStep, NextSegment, InnerEnd, DefragEnd, vars
<1> QED
  BY <1>6, <1>7, <1>8, <1>10, <1>11, <1>13 DEF NextUntilStale, RunningUntilStale

\* No call writes a word of a block that a client keeps, nor of its header.
THEOREM LiveStaysIntact == SpecUntilStale => LiveIntact
<1>1. HeapInv /\ [NextUntilStale]_vars => [BlocksKept]_vars
  BY KeepsBlocks
<1>2. [][BlocksKept]_vars => LiveIntact
  BY PTL DEF LiveIntact, BlocksKept
<1> QED
  BY <1>1, <1>2, HeapPartitioned, PTL DEF SpecUntilStale

\* With no two free segments touching, a gap is one free segment.
LEMMA GapIsSegment ==
    ASSUME TypeOK, NEW free \in SUBSET Words, NEW rank \in [Words -> Nat],
           FreeInv(free, rank), LiveInv,
           \A a, b \in free : a # b => Apart(ram, a, b),
           NEW g \in Words, NEW h \in Words, g <= h, Gap(g, h)
    PROVE  g \in free /\ h = End(ram, g)
<1> DEFINE heads == free \cup Used
<1>1. Partition(ram, heads)
  BY DEF FreeInv
<1>2. /\ \A p \in heads : /\ p \in Int /\ End(ram, p) \in Int /\ p \in Words
                          /\ p + 1 <= End(ram, p) /\ End(ram, p) <= Last
      /\ \A p, q \in heads : p # q => End(ram, p) < q \/ End(ram, q) < p
  BY <1>1, HeadsApart, BaseFacts
<1>3. g \in Int /\ h \in Int
  BY BaseFacts
\* A word of a part is a client's just when the part is.
<1>4. ASSUME NEW w \in Words, NEW p \in heads, p <= w, w <= End(ram, p)
      PROVE  w \in LiveWords <=> p \notin free
  <2>1. w \in Int
    BY BaseFacts
  <2>2. \A k \in DOMAIN live : w \in BlockWords(live[k]) <=> live[k].addr - 2 = p
    <3> SUFFICES ASSUME NEW k \in DOMAIN live
                 PROVE  w \in BlockWords(live[k]) <=> live[k].addr - 2 = p
      OBVIOUS
    <3> DEFINE u == live[k].addr - 2
    <3>1. u \in heads /\ BlockWords(live[k]) = u..End(ram, u)
      BY BlockPart
    <3> HIDE DEF u, heads
    <3>2. w \in BlockWords(live[k]) <=> u = p
      BY <1>2, <1>4, <2>1, <3>1
    <3> QED
      BY <3>2 DEF u
  <2>3. w \in LiveWords <=> \E k \in DOMAIN live : w \in BlockWords(live[k])
    BY DEF LiveWords
  <2>4. (\E k \in DOMAIN live : live[k].addr - 2 = p) <=> p \in Used
    BY DEF Used
  <2>5. p \in Used <=> p \notin free
    BY <1>4 DEF FreeInv
  <2> QED
    BY <2>2, <2>3, <2>4, <2>5
<1>5. \A w \in Words : \E p \in heads : p <= w /\ w <= End(ram, p)
  BY <1>1 DEF Partition
<1> HIDE DEF heads
<1>6. PICK p \in heads : p <= g /\ g <= End(ram, p)
  BY <1>5
<1>7. \A w \in Words : g <= w /\ w <= h => w \notin LiveWords
  BY <1>3, BaseFacts DEF Gap
<1>8. p \in free
  BY <1>3, <1>4, <1>6, <1>7
<1>9. p = g
  <2> SUFFICES ASSUME p # g PROVE FALSE
    OBVIOUS
  <2>1. g - 1 \in Words /\ p <= g - 1 /\ g - 1 <= End(ram, p)
    BY <1>2, <1>3, <1>6, BaseFacts
  <2>2. g - 1 \notin LiveWords
    BY <1>4, <1>8, <2>1
  <2> QED
    BY <2>1, <2>2 DEF Gap
<1>10. g \in heads /\ g \in free /\ End(ram, g) \in Int /\ End(ram, g) <= Last
  BY <1>2, <1>6, <1>8, <1>9
<1>11. ~(h < End(ram, g))
  <2> SUFFICES ASSUME h < End(ram, g) PROVE FALSE
    OBVIOUS
  <2>1. h + 1 \in Words /\ g <= h + 1 /\ h + 1 <= End(ram, g)
    BY <1>3, <1>10, BaseFacts
  <2>2. h + 1 \notin LiveWords
    BY <1>4, <1>10, <2>1
  <2> QED
    BY <2>1, <2>2 DEF Gap
<1>12. ~(End(ram, g) < h)
  <2> SUFFICES ASSUME End(ram, g) < h PROVE FALSE
    OBVIOUS
  <2> DEFINE e == End(ram, g) + 1
  <2>1. /\ e \in Words /\ e \in Int /\ e <= h /\ g <= e /\ g + 1 < e
        /\ e = End(ram, g) + 1
    BY <1>2, <1>3, <1>10, BaseFacts
  <2> HIDE DEF e
  <2>2. PICK q \in heads : q <= e /\ e <= End(ram, q)
    BY <1>5, <2>1
  <2>3. q \in free
    BY <1>4, <1>7, <2>1, <2>2
  <2>4. q # g /\ q = e
    BY <1>2, <1>3, <1>10, <2>1, <2>2
  <2> QED
    BY <1>10, <2>1, <2>3, <2>4 DEF Apart, Touches
<1> QED
  BY <1>3, <1>10, <1>11, <1>12

GapsTooSmall == \A g, h \in Words : g <= h /\ Gap(g, h) => ~Room(g, h, size)

LEMMA FailsWhenFull ==
    HeapInv /\ [NextUntilStale]_vars =>
        (pc = "search" /\ pc' = "idle" /\ result' = -1 => GapsTooSmall)
<1> SUFFICES ASSUME HeapInv, [NextUntilStale]_vars,
                    pc = "search", pc' = "idle", result' = -1
             PROVE  GapsTooSmall
  OBVIOUS
<1>1. PICK free \in SUBSET Words, rank \in [Words -> Nat] : Sound(free, rank)
  BY DEF HeapInv
<1>2. TypeOK /\ FreeInv(free, rank) /\ LiveInv
  BY <1>1 DEF HeapInv, Sound
<1>3. \A a \in Int : a >= 0 => a + 2 # -1
  OBVIOUS
<1>4. \A g \in free : g \in Int /\ g >= 0 /\ ram[g + 1] \in Nat
  BY <1>2, FreeFacts, BaseFacts
<1>5. ~TakeExact
  <2> SUFFICES ASSUME TakeExact PROVE FALSE
    OBVIOUS
  <2>1. i \in free /\ result' = i + 2
    BY <1>1 DEF Sound, SearchInv, TakeExact, Return
  <2> QED
    BY <1>3, <1>4, <2>1
<1>6. ~CarveBlock
  <2> SUFFICES ASSUME CarveBlock PROVE FALSE
    OBVIOUS
  <2> DEFINE c == bestBlock + (ram[bestBlock + 1] - size)
  <2>1. bestBlock \in Words /\ ram[bestBlock + 1] - size > 1 /\ result' = c + 2
    BY DEF CarveBlock, Fits, peek, Return
  <2>2. bestBlock \in Int /\ bestBlock >= 0 /\ bestBlock \in free
    BY <1>1, <1>4, <2>1, BaseFacts DEF Sound, SearchInv
  <2>3. size \in Nat /\ ram[bestBlock + 1] \in Nat
    BY <1>2, <1>4, <2>2, BaseFacts DEF TypeOK
  <2>4. c \in Int /\ c >= 0
    BY <2>1, <2>2, <2>3
  <2> QED
    BY <1>3, <2>1, <2>4
<1>7. AllocFails
  BY <1>5, <1>6 DEF NextUntilStale, RunningUntilStale, CallAlloc, CallDeAlloc, CallDefrag,
        ConsiderSegment, DefragAndRetry, StartDefrag, OuterStep, JoinNext, JoinPrevious,
        NextSegment, InnerEnd, DefragEnd, vars
<1>8. \A a, b \in free : a # b => Apart(ram, a, b)
  BY <1>1, <1>7 DEF Sound, MergedInv, AllocFails
<1>9. \A s \in free : ram[s + 1] - size <= 1 /\ ~(ram[s + 1] = size /\ s # freeList)
  <2>1. i = NULL /\ Before(free, rank, i) = free
    BY <1>7 DEF AllocFails, NothingFits, SearchEnded, Before
  <2>2. ~(bestBlock \in free /\ bestSize = ram[bestBlock + 1] /\ bestSize - size > 1)
    BY <1>7 DEF AllocFails, NothingFits, SearchEnded, Fits, peek
  <2> QED
    BY <1>1, <2>1, <2>2 DEF Sound, SearchInv
<1>10. ASSUME NEW g \in Words, NEW h \in Words, g <= h, Gap(g, h)
       PROVE  ~Room(g, h, size)
  <2>1. g \in free /\ h = End(ram, g)
    BY <1>2, <1>8, <1>10, GapIsSegment
  <2>2. h - g - 1 = ram[g + 1]
    BY <1>4, <2>1 DEF End
  <2>3. size \in Int
    BY <1>2, BaseFacts DEF TypeOK
  <2> QED
    BY <1>4, <1>9, <2>1, <2>2, <2>3 DEF Room, freeList
<1> QED
  BY <1>10 DEF GapsTooSmall

\* alloc fails only when no gap between live blocks has room for the request,
\* in whatever order the blocks around it were freed.
THEOREM AllocFailsOnlyWhenFull == SpecUntilStale => FailsOnlyWhenFull
<1> DEFINE Failing == pc = "search" /\ pc' = "idle" /\ result' = -1
<1>1. HeapInv /\ [NextUntilStale]_vars => [Failing => GapsTooSmall]_vars
  BY FailsWhenFull
<1>2. [][Failing => GapsTooSmall]_vars => FailsOnlyWhenFull
  BY PTL DEF FailsOnlyWhenFull, GapsTooSmall
<1> HIDE DEF Failing
<1> QED
  BY <1>1, <1>2, HeapPartitioned, PTL DEF SpecUntilStale

-----------------------------------------------------------------------------
(* The heap implements HeapSpec.                                           *)

Blocks == {live[k] : k \in DOMAIN live}

\* alloc gives a block that HeapSpec may give.
LEMMA GivePromised ==
    ASSUME HeapInv, HeapInv', pc = "search", size \in Sizes,
           NEW a, a # -1, Return(a)
    PROVE  Promised!Alloc
<1> DEFINE block == [addr |-> a, size |-> size]
           last == Len(live) + 1
           AnyBlocks == Seq([addr : Addresses, size : Sizes])
<1>1. live \in AnyBlocks /\ live' \in AnyBlocks /\ TypeOK /\ TypeOK'
  BY DEF HeapInv, TypeOK
<1>2. live' = Append(live, block) /\ result' = a
  BY DEF Return
<1>3. /\ DOMAIN live = 1..Len(live) /\ Len(live) \in Nat
      /\ DOMAIN live' = 1..(Len(live) + 1)
      /\ \A k \in 1..Len(live) : live'[k] = live[k]
      /\ live'[Len(live) + 1] = block
  BY <1>1, <1>2
<1> HIDE DEF block
<1>4. /\ last \in DOMAIN live' /\ live'[last] = block
      /\ DOMAIN live' = DOMAIN live \cup {last}
      /\ \A k \in DOMAIN live : k \in DOMAIN live' /\ k # last /\ live'[k] = live[k]
  BY <1>3
<1> HIDE DEF last
<1>5. \A k \in DOMAIN live' :
          /\ BlockWords(live'[k]) \subseteq Words
          /\ \A n \in DOMAIN live' : n # k => BlockWords(live'[k]) \cap BlockWords(live'[n]) = {}
  <2>1. HeapInv' => (\A k \in DOMAIN live :
            /\ BlockWords(live[k]) \subseteq Words
            /\ \A n \in DOMAIN live :
                  n # k => /\ live[k] # live[n]
                           /\ BlockWords(live[k]) \cap BlockWords(live[n]) = {})'
    BY LiveApart, PTL
  <2> QED
    BY <2>1
<1>6. block \in Promised!Block
  <2> DEFINE Block == [addr : Addresses, size : Sizes]
  <2>1. live' \in Seq(Block)
    BY <1>1
  <2> HIDE DEF Block
  <2>2. live'[last] \in Block
    BY <1>4, <2>1
  <2> QED
    BY <1>4, <2>2 DEF Promised!Block, Addresses, Block
<1>7. \A b : Promised!Extent(b) = BlockWords(b)
  BY DEF Promised!Extent, BlockWords
<1>8. Promised!HeapWords = Words
  BY DEF Promised!HeapWords, Words
<1>9. \A c \in Blocks : BlockWords(block) \cap BlockWords(c) = {}
  BY <1>4, <1>5 DEF Blocks
<1>10. Blocks' = Blocks \cup {block}
  BY <1>4 DEF Blocks
<1>11. result' = block.addr
  BY <1>2 DEF block
<1> QED
  BY <1>4, <1>5, <1>6, <1>7, <1>8, <1>9, <1>10, <1>11 DEF Promised!Alloc, Blocks

LEMMA StepPromised ==
    HeapInv /\ HeapInv' /\ [NextUntilStale]_vars
        => [Promised!Next]_<<Blocks, result>>
<1> SUFFICES ASSUME HeapInv, HeapInv', [NextUntilStale]_vars
             PROVE  [Promised!Next]_<<Blocks, result>>
  OBVIOUS
<1>1. PICK free \in SUBSET Words, rank \in [Words -> Nat] : Sound(free, rank)
  BY DEF HeapInv
<1>2. TypeOK /\ FreeInv(free, rank) /\ LiveInv /\ AllocInv
  BY <1>1 DEF HeapInv, Sound
<1>3. \A a \in Int : a >= 0 => a + 2 # -1
  OBVIOUS
<1>4. \A g \in free : g \in Int /\ g >= 0 /\ ram[g + 1] \in Nat
  BY <1>2, FreeFacts, BaseFacts
<1>5. CASE TakeExact
  <2>1. i \in free /\ Return(i + 2) /\ pc = "search"
    BY <1>1, <1>5 DEF Sound, SearchInv, TakeExact
  <2>2. size \in Sizes /\ i + 2 # -1
    BY <1>2, <1>3, <1>4, <2>1 DEF AllocInv
  <2>3. Promised!Alloc
    BY <2>1, <2>2, GivePromised
  <2> QED
    BY <2>3 DEF Promised!Next
<1>6. CASE CarveBlock
  <2> DEFINE c == bestBlock + (ram[bestBlock + 1] - size)
  <2>1. /\ pc = "search" /\ bestBlock \in Words /\ ram[bestBlock + 1] - size > 1
        /\ Return(c + 2)
    BY <1>6 DEF CarveBlock, SearchEnded, Fits, peek
  <2>2. bestBlock \in Int /\ bestBlock >= 0 /\ bestBlock \in free
    BY <1>1, <1>4, <2>1, BaseFacts DEF Sound, SearchInv
  <2>3. size \in Sizes
    BY <1>2, <2>1 DEF AllocInv
  <2>4. size \in Nat /\ ram[bestBlock + 1] \in Nat
    BY <1>4, <2>2, <2>3, BaseFacts
  <2>5. c + 2 # -1
    BY <1>3, <2>1, <2>2, <2>4
  <2> HIDE DEF c
  <2>6. Promised!Alloc
    BY <2>1, <2>3, <2>5, GivePromised
  <2> QED
    BY <2>6 DEF Promised!Next
<1>7. CASE AllocFails
  <2>1. live' = live /\ result' = -1
    BY <1>7 DEF AllocFails, Return
  <2> QED
    BY <2>1 DEF Promised!Next, Promised!AllocFails, Blocks
<1>8. CASE CallDeAlloc
  <2>1. PICK k \in DOMAIN live : live' = Without(k)
    BY <1>8 DEF CallDeAlloc
  <2>2. result' = result
    BY <1>8 DEF CallDeAlloc
  <2>3. /\ \A n \in DOMAIN live' : \E m \in DOMAIN live : m # k /\ live'[n] = live[m]
        /\ \A m \in DOMAIN live : m # k => \E n \in DOMAIN live' : live'[n] = live[m]
    BY <1>2, <2>1, WithoutFacts
  <2>4. \A m \in DOMAIN live : m # k => live[m] # live[k]
    BY <1>2 DEF LiveInv
  <2>5. Blocks' = Blocks \ {live[k]} /\ live[k] \in Blocks
    BY <2>3, <2>4 DEF Blocks
  <2> QED
    BY <2>2, <2>5 DEF Promised!Next, Promised!DeAlloc, Blocks
<1>9. CASE UNCHANGED <<live, result>>
  BY <1>9 DEF Blocks
<1>10. CASE \/ CallAlloc \/ CallDefrag \/ ConsiderSegment \/ DefragAndRetry \/ OuterStep
            \/ JoinNext \/ JoinPrevious \/ NextSegment \/ InnerEnd \/ DefragEnd
            \/ UNCHANGED vars
  BY <1>9, <1>10 DEF CallAlloc, CallDefrag, ConsiderSegment, DefragAndRetry, OuterStep,
                     JoinNext, JoinPrevious, NextSegment, InnerEnd, DefragEnd, vars, clients
<1> QED
  BY <1>5, <1>6, <1>7, <1>8, <1>10 DEF NextUntilStale, RunningUntilStale

LEMMA StartPromised == Init => Promised!Init
  BY DEF Init, Promised!Init

\* Every call gives, refuses or takes back a block as HeapSpec says, so that no
\* two live blocks ever share a word.
THEOREM ImplementsHeapSpec == SpecUntilStale => ImplementsHeap
<1>1. HeapInv /\ HeapInv' /\ [NextUntilStale]_vars => [Promised!Next]_<<Blocks, result>>
  BY StepPromised
<1>2. Init /\ [][NextUntilStale]_vars /\ []HeapInv
         => Promised!Init /\ [][Promised!Next]_<<Blocks, result>>
  BY <1>1, StartPromised, PTL
<1> QED
  BY <1>2, HeapPartitioned, PTL DEF SpecUntilStale, ImplementsHeap, Promised!Spec, Blocks

\* A client that knows only HeapSpec may rely on it: blocks never overlap.
THEOREM PromiseKeepsApart == Promised!Spec => []Promised!BlocksDisjoint
<1>1. Promised!Init => Promised!BlocksDisjoint
  BY DEF Promised!Init, Promised!BlocksDisjoint
<1>2. Promised!BlocksDisjoint /\ [Promised!Next]_<<Blocks, result>>
         => Promised!BlocksDisjoint'
  <2> SUFFICES ASSUME Promised!BlocksDisjoint, [Promised!Next]_<<Blocks, result>>
               PROVE  Promised!BlocksDisjoint'
    OBVIOUS
  <2>1. CASE Promised!Alloc
    <3>1. PICK b : /\ Promised!Extent(b) \subseteq Promised!HeapWords
                   /\ \A c \in Blocks : Promised!Extent(b) \cap Promised!Extent(c) = {}
                   /\ Blocks' = Blocks \cup {b}
      BY <2>1 DEF Promised!Alloc, Blocks
    <3> QED
      BY <3>1 DEF Promised!BlocksDisjoint, Promised!Extent, Promised!HeapWords, Blocks
  <2>2. CASE Promised!AllocFails \/ UNCHANGED <<Blocks, result>>
    BY <2>2 DEF Promised!AllocFails, Promised!BlocksDisjoint, Promised!Extent,
                Promised!HeapWords, Blocks
  <2>3. CASE Promised!DeAlloc
    BY <2>3 DEF Promised!DeAlloc, Promised!BlocksDisjoint, Promised!Extent,
                Promised!HeapWords
  <2> QED
    BY <2>1, <2>2, <2>3 DEF Promised!Next
<1> QED
  BY <1>1, <1>2, PTL DEF Promised!Spec, Blocks

=============================================================================
