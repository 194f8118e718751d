---------------------------- MODULE BoundaryHeap ----------------------------
(***************************************************************************)
(* The boundary-tag heap of the old engine (MemoryMngLib/MemoryMngV3A).    *)
(* Blocks lie one behind the other from the start of the heap to the       *)
(* break; the header in front of each has its size, the block before it    *)
(* and, while it is free, its neighbours on the ring of free blocks.       *)
(*                                                                         *)
(* Addresses and sizes are in units of Align bytes, to which the code      *)
(* rounds every size.  The heap is the record h: the header fields as      *)
(* functions of the address they are stored at, and the manager's members. *)
(* Each helper of the class is an operator from heaps to heaps, composed   *)
(* in the order of the calls.  Where there is no header any more the       *)
(* fields are Forgotten: whatever the memory still holds is never read.    *)
(* newfree(NULL) and newmalloc(0) do nothing and are left out, and so are  *)
(* the fences of debug builds.                                             *)
(***************************************************************************)
EXTENDS Integers

CONSTANTS
    HeapSize,       \* m_heapEnd - m_heap, in units
    Align,          \* bytes of a unit (8)
    UsedHeader,     \* USED_HEADER_SIZE in bytes
    FreeHeader,     \* FREE_HEADER_SIZE in units
    Delta,          \* DELTA_FACTOR in units
    Size,           \* the sizes callers request, in bytes
    Null,           \* a member that is NULL
    Wild            \* a pointer field nobody has written, or a caller has

Addr == 0..HeapSize - 1

\* The request with its header, rounded up.
Units(n) == (n + UsedHeader + Align - 1) \div Align

\* Sizes stay in the range of a signed long, so __sbrk never gets a negative one,
\* and a block has room for the header it needs once it is free.
ASSUME BoundaryAssumption ==
    /\ HeapSize \in Nat \ {0}
    /\ Align \in Nat \ {0} /\ UsedHeader \in Nat
    /\ FreeHeader \in Nat \ {0} /\ Delta \in Nat
    /\ Size \subseteq Nat \ {0}
    /\ \A n \in Size : Units(n) \in Nat /\ FreeHeader <= Units(n)
    /\ Null \notin Addr /\ Wild \notin Addr

VARIABLES
    h,              \* the heap
    held,           \* the addresses of the blocks callers have pointers into
    refused         \* the size of the request just refused, 0 otherwise

vars == <<h, held, refused>>

Pointer == Addr \cup {Wild}
Member == Addr \cup {Null}

Heap ==
    [size     : [Addr -> Nat],          \* the size without its low bit, 0: no header
     used     : [Addr -> BOOLEAN],      \* the low bit of the size
     prevReal : [Addr -> Pointer],
     nextFree : [Addr -> Pointer],
     prevFree : [Addr -> Pointer],
     first : Member, last : Member, rover : Member,
     brk : 0..HeapSize]                 \* last_valid_address

NewHeap ==
    [size     |-> [a \in Addr |-> 0],
     used     |-> [a \in Addr |-> FALSE],
     prevReal |-> [a \in Addr |-> Wild],
     nextFree |-> [a \in Addr |-> Wild],
     prevFree |-> [a \in Addr |-> Wild],
     first |-> Null, last |-> Null, rover |-> Null,
     brk |-> 0]

Blocks(g) == {a \in Addr : g.size[a] # 0}

After(g, a) == a + g.size[a]

\* The header at b is no header any more.
Forget(g, b) ==
    [g EXCEPT !.size[b] = 0, !.used[b] = FALSE, !.prevReal[b] = Wild,
              !.nextFree[b] = Wild, !.prevFree[b] = Wild]

----------------------------------------------------------------------------
(* The helpers *)

\* Mutant: the rover stays where it is.
PullKeepsRover(g, q) ==
    LET n == g.nextFree[q]
        p == g.prevFree[q]
    IN  IF n = q
        THEN [g EXCEPT !.rover = Null]
        ELSE [g EXCEPT !.prevFree[n] = p, !.nextFree[p] = n]

\* __pull_free_block: the ring closes behind q, and is entered after it.
Pull(g, q) ==
    LET n == g.nextFree[q]
        p == g.prevFree[q]
    IN  IF n = q
        THEN [g EXCEPT !.rover = Null]
        ELSE [g EXCEPT !.rover = n, !.prevFree[n] = p, !.nextFree[p] = n]

\* insert_free_block: q goes behind the rover, or is a ring of its own.
Insert(g, q) ==
    IF g.rover = Null
    THEN [g EXCEPT !.rover = q, !.prevFree[q] = q, !.nextFree[q] = q]
    ELSE LET n == g.nextFree[g.rover]
             linked == [g EXCEPT !.nextFree[g.rover] = q, !.prevFree[n] = q]
         IN  [linked EXCEPT !.nextFree[q] = n, !.prevFree[q] = g.rover]

\* Mutant: the block behind keeps its prev_real.
MergeForgetsPrevReal(g, a, b) ==
    [g EXCEPT !.size[a] = @ + g.size[b], !.last = IF b = @ THEN a ELSE @]

\* Both ways to join a block b to the block a before it.
Merge(g, a, b) ==
    LET longer == [g EXCEPT !.size[a] = @ + g.size[b]]
    IN  IF b = g.last
        THEN [longer EXCEPT !.last = a]
        ELSE [longer EXCEPT !.prevReal[After(g, b)] = a]

\* join_free_blocks
JoinFree(g, a, b) == Forget(Pull(Merge(g, a, b), b), b)

\* A block goes to a caller: the low bit of its size is set, prev_free is the
\* first of the caller's bytes and next_free has no meaning any more.
Give(g, q) ==
    [g EXCEPT !.used[q] = TRUE, !.nextFree[q] = Wild, !.prevFree[q] = Wild]

\* allocate_partial_block: the new block is the rear of q.
Cut(g, q, len) ==
    LET n == After(g, q) - len
        shorter == [g EXCEPT !.size = [g.size EXCEPT ![q] = g.size[q] - len, ![n] = len],
                             !.prevReal[n] = q]
    IN  IF g.last = q
        THEN [shorter EXCEPT !.last = n]
        ELSE [shorter EXCEPT !.prevReal[n + len] = n]

\* The addresses the loop of newmallocActual comes by: from the rover on along
\* the ring, as long as the block is too small.
Visited(g, len) ==
    {a \in Addr : \A S \in SUBSET {x \in Addr : g.nextFree[x] # Wild} :
        (/\ g.rover \in S
         /\ \A x \in S : g.size[x] < len => g.nextFree[x] \in S)
        => a \in S}

\* Mutant: the loop ends after its first block.
NextFitAtRover(g, len) ==
    {a \in Addr \cap {g.rover} : g.size[a] >= len}

\* The block it stops at: at most one.
NextFit(g, len) ==
    {a \in Visited(g, len) : g.rover # Null /\ g.size[a] >= len}

\* Mutant: an off-by-one in the bound of __sbrk.
OutOfHeapByOne(g, len) == g.brk + len > HeapSize + 1

\* __sbrk answers -1.
OutOfHeap(g, len) == g.brk + len > HeapSize

\* create_heap and extend_heap: a block of its own at the break.
Extend(g, len) ==
    LET q == g.brk
        grown == [g EXCEPT !.brk = @ + len, !.last = q, !.size[q] = len]
    IN  IF g.first = Null
        THEN [grown EXCEPT !.first = q]
        ELSE [grown EXCEPT !.prevReal[q] = g.last]

\* free_last_block: the break goes back to the end of the last used block.
FreeLast(g) ==
    LET q == g.last
        p == g.prevReal[q]
        pulled == Pull(g, p)
    IN  IF g.first = q
        THEN Forget([g EXCEPT !.brk = q, !.first = Null, !.last = Null], q)
        ELSE IF g.used[p]
        THEN Forget([g EXCEPT !.brk = q, !.last = p], q)
        ELSE Forget(Forget(
                IF p = g.first
                THEN [pulled EXCEPT !.brk = p, !.first = Null, !.last = Null]
                ELSE [pulled EXCEPT !.brk = p, !.last = g.prevReal[p]], p), q)

\* Mutant: a free block behind is not joined.
FreeInnerAlone(g, q) ==
    LET p == g.prevReal[q]
        freed == [g EXCEPT !.used[q] = FALSE]
    IN  IF q # g.first /\ ~ g.used[p]
        THEN Forget(Merge(freed, p, q), q)
        ELSE Insert(freed, q)

\* free_inner_block: q joins a free block before it or goes on the ring, then
\* joins a free block behind it.
FreeInner(g, q) ==
    LET n == After(g, q)
        p == g.prevReal[q]
        freed == [g EXCEPT !.used[q] = FALSE]
        before == q # g.first /\ ~ g.used[p]
        a == IF before THEN p ELSE q
        listed == IF before THEN Forget(Merge(freed, p, q), q) ELSE Insert(freed, q)
    IN  IF g.used[n] THEN listed ELSE JoinFree(listed, a, n)

----------------------------------------------------------------------------
(* newmallocActual, its ways out in their order *)

Init == h = NewHeap /\ held = {} /\ refused = 0

Handed(g, q) ==
    /\ h' = Give(g, q)
    /\ held' = held \cup {q}
    /\ refused' = 0

AllocatePartial(n) ==
    \E q \in NextFit(h, Units(n)) :
        /\ h.size[q] >= Units(n) + FreeHeader + Delta
        /\ Handed(Cut(h, q, Units(n)), After(h, q) - Units(n))

AllocateWhole(n) ==
    \E q \in NextFit(h, Units(n)) :
        /\ h.size[q] < Units(n) + FreeHeader + Delta
        /\ Handed(Pull(h, q), q)

ExtendHeap(n) ==
    /\ NextFit(h, Units(n)) = {}
    /\ ~ OutOfHeap(h, Units(n))
    /\ Handed(Extend(h, Units(n)), h.brk)

Refuse(n) ==
    /\ NextFit(h, Units(n)) = {}
    /\ OutOfHeap(h, Units(n))
    /\ refused' = n
    /\ UNCHANGED <<h, held>>

Malloc(n) == AllocatePartial(n) \/ AllocateWhole(n) \/ ExtendHeap(n) \/ Refuse(n)

\* newfree of a pointer into the block at q.
Free(q) ==
    /\ h' = IF q = h.last THEN FreeLast(h) ELSE FreeInner(h, q)
    /\ held' = held \ {q}
    /\ refused' = 0

\* ResetHeap: the dispatcher has told the owners, who drop their pointers.
ResetHeap ==
    /\ h' = NewHeap
    /\ held' = {}
    /\ refused' = 0

Next ==
    \/ \E n \in Size : Malloc(n)
    \/ \E q \in held : Free(q)
    \/ ResetHeap

Spec == Init /\ [][Next]_vars

----------------------------------------------------------------------------
(* Properties *)

FreeBlocks(g) == {b \in Blocks(g) : ~ g.used[b]}

\* The shape of the state: the break stays within the heap, the members within
\* their ranges, and a refusal names the size asked for.
TypeOK == h \in Heap /\ held \subseteq Addr /\ refused \in Size \cup {0}

\* The blocks tile the heap: walking from __first by the sizes comes by every
\* block and ends with __last, at the break; prev_real walks the same way back.
Tiles(g) ==
    /\ Blocks(g) = {} => g.first = Null /\ g.last = Null /\ g.brk = 0
    /\ Blocks(g) # {} => g.first = 0 /\ {0, g.last} \subseteq Blocks(g)
    /\ \A b \in Blocks(g) :
        /\ g.size[b] >= FreeHeader
        /\ After(g, b) <= g.brk
        /\ b = g.last <=> After(g, b) = g.brk
        /\ b # g.last => /\ After(g, b) \in Blocks(g)
                         /\ g.prevReal[After(g, b)] = b
        /\ b # g.first => /\ g.prevReal[b] \in Blocks(g)
                          /\ After(g, g.prevReal[b]) = b
    /\ \A b, c \in Blocks(g) : b < c => After(g, b) <= c

Tiled == Tiles(h)

\* No two free blocks are neighbours and the last block is used.
Coalesced(g) ==
    \A b \in FreeBlocks(g) : b # g.last /\ After(g, b) \notin FreeBlocks(g)

\* The header's low bit says who has a block: the callers have exactly the used
\* ones, and what is freed is always joined to all the free memory around it.
Joined == held = Blocks(h) \ FreeBlocks(h) /\ Coalesced(h)

\* The blocks of F are linked both ways.
Linked(g, F) ==
    \A b \in F : /\ g.nextFree[b] \in F /\ g.prevFree[b] \in F
                 /\ g.prevFree[g.nextFree[b]] = b
                 /\ g.nextFree[g.prevFree[b]] = b

\* Following the links from any block of F comes by all of F.
OneCycle(next, F) ==
    \A S \in SUBSET F : S # {} /\ (\A b \in S : next[b] \in S) => S = F

Ring(g, F) ==
    /\ IF F = {} THEN g.rover = Null ELSE g.rover \in F
    /\ Linked(g, F)
    /\ OneCycle(g.nextFree, F)

\* The search of newmalloc, whichever block it starts at, comes by every free
\* block and by nothing else, whatever order the blocks were freed and joined in.
FreeRing ==
    /\ Ring(h, FreeBlocks(h))
    /\ \A a \in Addr : h.nextFree[a] # Wild <=> a \in FreeBlocks(h)

Pool == INSTANCE RegionPool WITH
    Need <- [n \in Size |-> Units(n)],
    Waste <- FreeHeader + Delta,
    regions <- {<<b, h.size[b]>> : b \in held}

\* The heap keeps the promise of RegionPool: regions of different callers are
\* disjoint, and a request is refused only when no gap of the heap is long enough.
PoolSpec == Pool!Spec
=============================================================================
