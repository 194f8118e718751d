--------------------------- MODULE MemHeapThreads ---------------------------
(***************************************************************************)
(* The heap of MemHeap, one memory access at a time.  The dispatch threads *)
(* of the map server (server.cpp, an Ice thread pool) load and free layers *)
(* through the one heap engine; _mutex_bucket is declared and never taken, *)
(* so the accesses of different threads interleave freely.                 *)
(*                                                                         *)
(* A thread reads _freenum, walks the bitmap, sets the bit (a load and a   *)
(* store of its byte) and counts the block (a load and a store).           *)
(***************************************************************************)
EXTENDS MemHeap

CONSTANTS
    Thread,         \* the dispatch threads
    CountMod,       \* _freenum counts modulo this (2^32)
    Idle            \* the job of a thread that is in no heap call

\* _freenum is wide enough for the blocks of every bucket.
ASSUME CountAssumption == CountMod \in Nat /\ \A s \in Set : BlockNum[s] < CountMod

VARIABLES
    pc,             \* pc[t]: the next memory access of thread t
    job             \* job[t]: the locals of t's call

threadVars == <<vars, pc, job>>

\* The bits that share a bitmap byte with bit i.
ByteOf(i) == {j \in 0..ByteBits * (i \div ByteBits + 1) - 1 : j \div ByteBits = i \div ByteBits}

Goto(t, label, locals) ==
    /\ pc' = [pc EXCEPT ![t] = label]
    /\ job' = [job EXCEPT ![t] = locals]

Return(t) == Goto(t, "idle", Idle)

\* An object is created and freed by one thread at a time.
InCall(o) == \E t \in Thread : job[t] # Idle /\ job[t].obj = o

----------------------------------------------------------------------------
(* swMemHeapEngine::malloc *)

CallMalloc(t, o, n) ==
    /\ pc[t] = "idle" /\ created = NSet
    /\ held[o] \notin Handle /\ ~InCall(o)
    /\ Goto(t, "ask", [obj |-> o, size |-> n, left |-> Candidates(n)])
    /\ UNCHANGED vars

\* Mutant: the sets are visited from the last to the first.
NextBucketReversed(S) == CHOOSE b \in S : \A c \in S : ~Before(b, c)

\* The order in which the engine's loop and the set's loop reach the buckets.
NextBucket(S) == CHOOSE b \in S : \A c \in S : ~Before(c, b)

\* The loops of the engine and of the set pass on to the bucket after j.bucket.
PassOn(t, j) ==
    Goto(t, "ask", [obj |-> j.obj, size |-> j.size, left |-> j.left \ {j.bucket}])

\* if(_freenum == 0) return NULL
AskBucket(t) ==
    /\ pc[t] = "ask" /\ job[t].left # {}
    /\ LET b == NextBucket(job[t].left)
           j == [obj |-> job[t].obj, size |-> job[t].size, left |-> job[t].left,
                 bucket |-> b, bit |-> 0]
       IN  \/ freenum[b] = 0 /\ PassOn(t, j)
           \/ freenum[b] # 0 /\ Goto(t, "byte", j)
    /\ UNCHANGED vars

MallocNull(t) ==
    /\ pc[t] = "ask" /\ job[t].left = {}
    /\ held' = [held EXCEPT ![job[t].obj] = NullPtr]
    /\ req' = [req EXCEPT ![job[t].obj] = job[t].size]
    /\ Return(t)
    /\ UNCHANGED <<created, used, freenum>>

\* if(_bitmap[n] == 0xff) continue, and the end of the bitmap
TestByte(t) ==
    /\ pc[t] = "byte"
    /\ LET j == job[t]
           more == j.bit < BitNum(SetOf[j.bucket])
           full == ByteOf(j.bit) \subseteq used[j.bucket]
       IN  \/ ~more /\ PassOn(t, j)
           \/ more /\ full /\ Goto(t, "byte", [j EXCEPT !.bit = @ + ByteBits])
           \/ more /\ ~full /\ Goto(t, "bit", j)
    /\ UNCHANGED vars

TestBit(t) ==
    /\ pc[t] = "bit"
    /\ LET j == job[t]
           next == [j EXCEPT !.bit = @ + 1]
       IN  \/ j.bit \notin used[j.bucket] /\ Goto(t, "load", j)
           \/ /\ j.bit \in used[j.bucket]
              /\ Goto(t, IF next.bit % ByteBits = 0 THEN "byte" ELSE "bit", next)
    /\ UNCHANGED vars

\* _bitmap[n] |= 1<<b
LoadByte(t) ==
    /\ pc[t] = "load"
    /\ LET j == job[t]
       IN  Goto(t, "store", [obj |-> j.obj, size |-> j.size, left |-> j.left,
                             bucket |-> j.bucket, bit |-> j.bit,
                             byte |-> used[j.bucket] \cap ByteOf(j.bit)])
    /\ UNCHANGED vars

StoreByte(t) ==
    /\ pc[t] = "store"
    /\ LET j == job[t]
       IN  used' = [used EXCEPT ![j.bucket] = (@ \ ByteOf(j.bit)) \cup j.byte \cup {j.bit}]
    /\ Goto(t, "loadcount", job[t])
    /\ UNCHANGED <<created, freenum, held, req>>

\* _freenum--
LoadCount(t) ==
    /\ pc[t] = "loadcount"
    /\ LET j == job[t]
       IN  Goto(t, "storecount", [obj |-> j.obj, size |-> j.size, left |-> j.left,
                                  bucket |-> j.bucket, bit |-> j.bit,
                                  count |-> freenum[j.bucket]])
    /\ UNCHANGED vars

\* ... and return ptr(bid.idx)
StoreCount(t) ==
    /\ pc[t] = "storecount"
    /\ LET j == job[t]
           idx == j.bit % IdxMod
       IN  /\ freenum' = [freenum EXCEPT ![j.bucket] = (j.count - 1) % CountMod]
           /\ \/ /\ idx < BlockNum[SetOf[j.bucket]]
                 /\ held' = [held EXCEPT ![j.obj] =
                               [bucketId |-> BucketId(j.bucket), idx |-> idx]]
                 /\ req' = [req EXCEPT ![j.obj] = j.size]
                 /\ Return(t)
              \/ /\ idx >= BlockNum[SetOf[j.bucket]]
                 /\ PassOn(t, j)
                 /\ UNCHANGED <<held, req>>
    /\ UNCHANGED <<created, used>>

----------------------------------------------------------------------------
(* swMemHeapEngine::free *)

\* An object's handle names a live bucket and a block in it (MarkedIffHeld), so free()
\* never takes its early returns here.
CallFree(t, o) ==
    /\ pc[t] = "idle"
    /\ held[o] \in Handle /\ ~InCall(o)
    /\ \E b \in GivenBack(held[o]) :
        Goto(t, "freeload", [obj |-> o, bucket |-> b, bit |-> held[o].idx])
    /\ UNCHANGED vars

\* b &= ~(1<<(bid.idx%8))
FreeLoadByte(t) ==
    /\ pc[t] = "freeload"
    /\ LET j == job[t]
       IN  Goto(t, "freestore", [obj |-> j.obj, bucket |-> j.bucket, bit |-> j.bit,
                                 byte |-> used[j.bucket] \cap ByteOf(j.bit)])
    /\ UNCHANGED vars

FreeStoreByte(t) ==
    /\ pc[t] = "freestore"
    /\ LET j == job[t]
       IN  used' = [used EXCEPT ![j.bucket] = (@ \ ByteOf(j.bit)) \cup (j.byte \ {j.bit})]
    /\ Goto(t, "freeloadcount", [obj |-> job[t].obj, bucket |-> job[t].bucket,
                                 bit |-> job[t].bit])
    /\ UNCHANGED <<created, freenum, held, req>>

\* _freenum++
FreeLoadCount(t) ==
    /\ pc[t] = "freeloadcount"
    /\ LET j == job[t]
       IN  Goto(t, "freestorecount", [obj |-> j.obj, bucket |-> j.bucket, bit |-> j.bit,
                                      count |-> freenum[j.bucket]])
    /\ UNCHANGED vars

FreeStoreCount(t) ==
    /\ pc[t] = "freestorecount"
    /\ freenum' = [freenum EXCEPT ![job[t].bucket] = (job[t].count + 1) % CountMod]
    /\ held' = [held EXCEPT ![job[t].obj] = NotHeld]
    /\ Return(t)
    /\ UNCHANGED <<created, used, req>>

----------------------------------------------------------------------------
\* The server creates the bucket sets before it serves its first call.
CreateSet == CreateBucketSet /\ UNCHANGED <<pc, job>>

ThreadInit ==
    /\ Init
    /\ pc = [t \in Thread |-> "idle"]
    /\ job = [t \in Thread |-> Idle]

ThreadNext ==
    \/ CreateSet
    \/ \E t \in Thread :
        \/ \E o \in Obj : CallFree(t, o) \/ \E n \in Size : CallMalloc(t, o, n)
        \/ AskBucket(t) \/ MallocNull(t) \/ TestByte(t) \/ TestBit(t)
        \/ LoadByte(t) \/ StoreByte(t) \/ LoadCount(t) \/ StoreCount(t)
        \/ FreeLoadByte(t) \/ FreeStoreByte(t) \/ FreeLoadCount(t) \/ FreeStoreCount(t)

ThreadSpec == ThreadInit /\ [][ThreadNext]_threadVars
----------------------------------------------------------------------------
(* Properties *)

\* Two objects are never in one block: malloc "requests a memory block and marks it as
\* unavailable" (bucket.h:20), so no later malloc may answer it.
NoSharedBlock == \A o, p \in Obj : held[o] \in Handle /\ held[o] = held[p] => o = p

\* The bitmap as it was before the calls under way: a call takes effect when it counts.
UsedBefore ==
    [b \in Bucket |->
        (used[b] \ {i \in used[b] : \E t \in Thread :
                        pc[t] \in {"loadcount", "storecount"}
                        /\ job[t].bucket = b /\ job[t].bit = i})
        \cup {job[t].bit : t \in {u \in Thread :
                        pc[u] \in {"freeloadcount", "freestorecount"} /\ job[u].bucket = b}}]

\* With one thread the accesses add up to the atomic calls of MemHeap: the scan by
\* bytes finds the first clear bit of the first bucket with one, the byte's other bits
\* survive the store, and the order of the two stores does not matter.
Heap == INSTANCE MemHeap WITH used <- UsedBefore

CallsAreAtomic == Heap!Spec
=============================================================================
