----------------------------- MODULE BlockPool -----------------------------
(***************************************************************************)
(* What a block allocator promises its callers, with no bitmap, bucket or  *)
(* counter in sight: a pool of blocks that only grows, each block owned by *)
(* at most one object, a request answered with some free block that is     *)
(* large enough, and refused only when there is none.                      *)
(*                                                                         *)
(* MemHeap (swNew/memheap) is shown to implement it.                       *)
(***************************************************************************)
EXTENDS Naturals

CONSTANTS
    Obj,            \* the callers' objects
    Block,          \* every block that may ever belong to the pool
    Room,           \* Room[blk]: the bytes block blk can hold
    Size,           \* the sizes that may be requested
    NotHeld,        \* the object has no block and no answer
    NullPtr         \* the last request of the object was refused

VARIABLES
    pool,           \* the blocks of the pool
    owns,           \* owns[o]: the block object o lives in
    asked           \* asked[o]: the size object o requested last, 0 before

poolVars == <<pool, owns, asked>>

FreeBlocks == {blk \in pool : \A o \in Obj : owns[o] # blk}

Fitting(n) == {blk \in FreeBlocks : n <= Room[blk]}

Init ==
    /\ pool = {}
    /\ owns = [o \in Obj |-> NotHeld]
    /\ asked = [o \in Obj |-> 0]

Grow ==
    /\ \E more \in SUBSET (Block \ pool) : pool' = pool \cup more
    /\ UNCHANGED <<owns, asked>>

Take(o, n) ==
    /\ owns[o] \in {NotHeld, NullPtr}
    /\ \E blk \in Fitting(n) : owns' = [owns EXCEPT ![o] = blk]
    /\ asked' = [asked EXCEPT ![o] = n]
    /\ UNCHANGED pool

Refuse(o, n) ==
    /\ owns[o] \in {NotHeld, NullPtr}
    /\ Fitting(n) = {}
    /\ owns' = [owns EXCEPT ![o] = NullPtr]
    /\ asked' = [asked EXCEPT ![o] = n]
    /\ UNCHANGED pool

Release(o) ==
    /\ owns[o] \in Block
    /\ owns' = [owns EXCEPT ![o] = NotHeld]
    /\ UNCHANGED <<pool, asked>>

Next ==
    \/ Grow
    \/ \E o \in Obj :
        \/ Release(o)
        \/ \E n \in Size : Take(o, n) \/ Refuse(o, n)

Spec == Init /\ [][Next]_poolVars
=============================================================================
