------------------------------ MODULE MemHeap ------------------------------
(***************************************************************************)
(* The server's memory heap (swNew/memheap): swMemHeapEngine keeps a list  *)
(* of bucket sets, a set keeps buckets of equal blocks, a bucket keeps one *)
(* bit per block and a count of free blocks.  Every call is one step here; *)
(* MemHeapThreads splits the calls into their memory accesses.             *)
(*                                                                         *)
(* Buckets are numbered 1, 2, ... in the order they are created.  The      *)
(* callers are well behaved: an object gives its block back once.          *)
(***************************************************************************)
EXTENDS Integers, FiniteSets

CONSTANTS
    NSet,           \* bucket sets created, one createBucketSet call each
    NBucket,        \* buckets of all the sets
    SetOf,          \* SetOf[b]: the set bucket b is created for
    BlockSize,      \* BlockSize[s]: bytes of a block of set s
    BlockNum,       \* BlockNum[s]: bucket size / block size, blocks of a bucket
    IdMod,          \* a swMemBucketID counts modulo this (2^8)
    IdxMod,         \* a block index counts modulo this (2^16)
    ByteBits,       \* bits of a bitmap byte (8)
    Obj,            \* the heap objects of the callers
    Size,           \* sizes the callers request
    NotHeld, NullPtr

Set == 1..NSet
Bucket == 1..NBucket

\* memheap.h:38 and bucket.h:36 limit a deployment to 1~255 buckets of at most
\* 64k blocks; sets are created one after the other, each with its own buckets.
ASSUME HeapAssumption ==
    /\ NSet \in Nat /\ NBucket \in Nat
    /\ IdMod \in Nat \ {0} /\ IdxMod \in Nat \ {0} /\ ByteBits \in Nat \ {0, 1}
    /\ NBucket < IdMod
    /\ SetOf \in [Bucket -> Set]
    /\ \A b, c \in Bucket : b < c => SetOf[b] <= SetOf[c]
    /\ BlockSize \in [Set -> Nat \ {0}]
    /\ BlockNum \in [Set -> 1..IdxMod]
    /\ Size \subseteq Nat

VARIABLES
    created,        \* sets on _buckset_list are 1..created
    used,           \* used[b]: the bits set in _bitmap of bucket b
    freenum,        \* freenum[b]: _freenum of bucket b
    held,           \* held[o]: the swMemBlockID object o keeps, or no block
    req             \* req[o]: the size o was last requested with, 0 before

vars == <<created, used, freenum, held, req>>

Handle == [bucketId : 0..IdMod - 1, idx : 0..IdxMod - 1]

\* A block of a bucket, before it is written as a swMemBlockID.
AllBlocks == Bucket \X (0..IdxMod - 1)

ASSUME NoHandleAssumption ==
    /\ NotHeld \notin Handle /\ NullPtr \notin Handle /\ NotHeld # NullPtr
    /\ NotHeld \notin AllBlocks /\ NullPtr \notin AllBlocks

----------------------------------------------------------------------------
(* Buckets *)

\* The bits of a bucket's bitmap: whole bytes, the division rounded up after it
\* has been done (so the round-up looks at the byte count).
BitNum(s) ==
    LET bytes == BlockNum[s] \div ByteBits
    IN  ByteBits * (IF BlockNum[s] < ByteBits THEN 1
                    ELSE IF bytes % ByteBits = 0 THEN bytes ELSE bytes + 1)

\* newBucketId: a static byte, counted up from 1.
BucketId(b) == b % IdMod

Live(b) == SetOf[b] <= created

\* _buckets of the engine: a later bucket replaces an earlier one of its id.
Registered(id) == {b \in Bucket : Live(b) /\ BucketId(b) = id}

Lookup(id) == CHOOSE b \in Registered(id) : \A c \in Registered(id) : c <= b

\* _buckets of the bucket's own set, where an id is overwritten as well.
InOwnSet(b) ==
    \A c \in Bucket : SetOf[c] = SetOf[b] /\ BucketId(c) = BucketId(b) => c <= b

ClearBits(b) == (0..BitNum(SetOf[b]) - 1) \ used[b]

FirstClear(b) == CHOOSE i \in ClearBits(b) : \A j \in ClearBits(b) : i <= j

\* Mutant: the early return on _freenum = 0 is missing.
MarksWithoutCount(b) == ClearBits(b) # {}

\* swMemBucket::malloc takes the first clear bit of a bucket it believes not full...
Marks(b) == freenum[b] # 0 /\ ClearBits(b) # {}

\* ... and ptr() answers NULL for an index past the bucket's end.
Serves(b) == Marks(b) /\ FirstClear(b) % IdxMod < BlockNum[SetOf[b]]

Taken(B) ==
    /\ used' = [b \in Bucket |-> IF b \in B THEN used[b] \cup {FirstClear(b)} ELSE used[b]]
    /\ freenum' = [b \in Bucket |-> IF b \in B THEN freenum[b] - 1 ELSE freenum[b]]

----------------------------------------------------------------------------
(* The engine *)

\* Mutant: the sets are visited from the last to the first.
BeforeReversed(b, c) == SetOf[c] < SetOf[b] \/ (SetOf[c] = SetOf[b] /\ b < c)

\* The order of the two nested loops: sets as created, buckets by id.
Before(b, c) ==
    \/ SetOf[b] < SetOf[c]
    \/ SetOf[b] = SetOf[c] /\ BucketId(b) < BucketId(c)

\* Mutant: the loop stops at the first set whose blocks are large enough (the "break"
\* that memheap.cpp:51 keeps commented out).
CandidatesOfFirstSet(n) ==
    {b \in Bucket : /\ Live(b) /\ InOwnSet(b) /\ n <= BlockSize[SetOf[b]]
                    /\ \A s \in Set : s < SetOf[b] => ~(n <= BlockSize[s])}

Candidates(n) == {b \in Bucket : Live(b) /\ InOwnSet(b) /\ n <= BlockSize[SetOf[b]]}

\* The bucket whose malloc is the first to return a pointer.
Winners(n) ==
    {b \in Candidates(n) : Serves(b) /\ \A c \in Candidates(n) : Serves(c) => ~Before(c, b)}

\* The buckets asked before a pointer is returned; they mark even if they answer NULL.
Asked(n) == {b \in Candidates(n) : \A w \in Winners(n) : ~Before(w, b)}

CreateBucketSet ==
    /\ created < NSet
    /\ created' = created + 1
    /\ used' = [b \in Bucket |-> IF SetOf[b] = created + 1 THEN {} ELSE used[b]]
    /\ freenum' = [b \in Bucket |->
                    IF SetOf[b] = created + 1 THEN BlockNum[SetOf[b]] ELSE freenum[b]]
    /\ UNCHANGED <<held, req>>

Malloc(o, n) ==
    /\ held[o] \notin Handle
    /\ Winners(n) # {}
    /\ Taken({b \in Asked(n) : Marks(b)})
    /\ \E b \in Winners(n) :
        held' = [held EXCEPT ![o] = [bucketId |-> BucketId(b), idx |-> FirstClear(b) % IdxMod]]
    /\ req' = [req EXCEPT ![o] = n]
    /\ UNCHANGED created

MallocFails(o, n) ==
    /\ held[o] \notin Handle
    /\ Winners(n) = {}
    /\ Taken({b \in Asked(n) : Marks(b)})
    /\ held' = [held EXCEPT ![o] = NullPtr]
    /\ req' = [req EXCEPT ![o] = n]
    /\ UNCHANGED created

\* Mutant: free() rejects the last block of a bucket (an off-by-one in its bound).
GivenBackNotLast(h) ==
    {b \in {Lookup(h.bucketId)} : /\ Registered(h.bucketId) # {}
                                  /\ h.bucketId # 0
                                  /\ h.idx + 1 < BlockNum[SetOf[b]]}

\* The blocks free() gives back for handle h: none for the null id, an id nobody
\* registered or an index past the bucket's end.
GivenBack(h) ==
    {b \in {Lookup(h.bucketId)} : /\ Registered(h.bucketId) # {}
                                  /\ h.bucketId # 0
                                  /\ h.idx < BlockNum[SetOf[b]]}

\* Mutant: free() forgets to count the block.
ClearedUncounted(B, i) ==
    /\ used' = [b \in Bucket |-> IF b \in B THEN used[b] \ {i} ELSE used[b]]
    /\ freenum' = freenum

Cleared(B, i) ==
    /\ used' = [b \in Bucket |-> IF b \in B THEN used[b] \ {i} ELSE used[b]]
    /\ freenum' = [b \in Bucket |-> IF b \in B THEN freenum[b] + 1 ELSE freenum[b]]

Free(o) ==
    /\ held[o] \in Handle
    /\ Cleared(GivenBack(held[o]), held[o].idx)
    /\ held' = [held EXCEPT ![o] = NotHeld]
    /\ UNCHANGED <<created, req>>

Init ==
    /\ created = 0
    /\ used = [b \in Bucket |-> {}]
    /\ freenum = [b \in Bucket |-> 0]
    /\ held = [o \in Obj |-> NotHeld]
    /\ req = [o \in Obj |-> 0]

Next ==
    \/ CreateBucketSet
    \/ \E o \in Obj :
        \/ Free(o)
        \/ \E n \in Size : Malloc(o, n) \/ MallocFails(o, n)

Spec == Init /\ [][Next]_vars
----------------------------------------------------------------------------
(* Properties *)

TypeOK ==
    /\ created \in 0..NSet
    /\ used \in [Bucket -> SUBSET Nat]
    /\ freenum \in [Bucket -> Nat]
    /\ held \in [Obj -> Handle \cup {NotHeld, NullPtr}]
    /\ req \in [Obj -> Size \cup {0}]

\* The two books every bucket keeps agree: no bit past the last block is ever set
\* (bitmaps have spare bits), and _freenum is the number of blocks whose bit is clear.
\* The early return on _freenum = 0 is what protects the spare bits.
BooksBalance ==
    \A b \in Bucket : Live(b) =>
        /\ used[b] \subseteq 0..BlockNum[SetOf[b]] - 1
        /\ freenum[b] = BlockNum[SetOf[b]] - Cardinality(used[b])

\* The block behind a handle, as free() and ptr() resolve it.
BlockOf(h) == <<Lookup(h.bucketId), h.idx>>

\* A block is marked exactly while one object keeps it: no block is handed out
\* twice, none is leaked, and every handle resolves to the bucket it came from.
MarkedIffHeld ==
    /\ \A o \in Obj : held[o] \in Handle =>
        /\ held[o].bucketId # 0
        /\ Registered(held[o].bucketId) # {}
        /\ held[o].idx \in used[Lookup(held[o].bucketId)]
    /\ \A b \in Bucket : Live(b) => \A i \in used[b] :
        \E o \in Obj : held[o] \in Handle /\ BlockOf(held[o]) = <<b, i>>
    /\ \A o, p \in Obj : held[o] \in Handle /\ held[o] = held[p] => o = p

\* An object is put in a block of the smallest size that still has one free
\* ("the bucket that fits the size best", memheap.cpp:33).  It needs the sets
\* to be created in the order of their block sizes (memheap.cpp:82).
TakesBestFit(o) ==
    held[o] \notin Handle /\ held'[o] \in Handle =>
        \A b \in Bucket :
            /\ Live(b) /\ req'[o] <= BlockSize[SetOf[b]]
            /\ BlockSize[SetOf[b]] < BlockSize[SetOf[Lookup(held'[o].bucketId)]]
            => 0..BlockNum[SetOf[b]] - 1 \subseteq used[b]

BestFit == [][\A o \in Obj : TakesBestFit(o)]_vars

\* What makes the sets' order the order of their block sizes.
SortedSets == \A s, t \in Set : s < t => BlockSize[s] <= BlockSize[t]

\* Every block of a bucket has a bit, however the bitmap's bytes were rounded.
BitmapCovers == \A s \in Set : BlockNum[s] <= BitNum(s)

\* The heap implements the abstract pool: in particular a request is refused only
\* when no live set has a free block that is large enough.
PoolBlocks == {blk \in AllBlocks : Live(blk[1]) /\ blk[2] < BlockNum[SetOf[blk[1]]]}

Owned == [o \in Obj |-> IF held[o] \in Handle THEN BlockOf(held[o]) ELSE held[o]]

Pool == INSTANCE BlockPool WITH
    Block <- AllBlocks,
    Room  <- [blk \in AllBlocks |-> BlockSize[SetOf[blk[1]]]],
    pool  <- PoolBlocks,
    owns  <- Owned,
    asked <- req

PoolSpec == Pool!Spec
=============================================================================
