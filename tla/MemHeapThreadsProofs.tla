------------------------ MODULE MemHeapThreadsProofs ------------------------
(***************************************************************************)
(* What the mutex that is declared and never taken would give: when the    *)
(* heap calls of the dispatch threads do not overlap, their memory         *)
(* accesses add up to the atomic calls of MemHeap, for every number of     *)
(* threads, sets, buckets, blocks and objects.                             *)
(*                                                                         *)
(* A call takes effect at its last access, the store of _freenum.  Until   *)
(* then the bitmap is read as UsedBefore, and the locals of the call say   *)
(* what its scan has found so far.                                         *)
(***************************************************************************)
EXTENDS MemHeapThreads, TLAPS

\* MemHeap with its proofs, for the heap as it was before the calls under way.
Books == INSTANCE MemHeapProofs WITH used <- UsedBefore

\* What a lock around every call would ensure.
CallsDoNotOverlap == \A t, u \in Thread : pc[t] # "idle" /\ pc[u] # "idle" => t = u

----------------------------------------------------------------------------
(* The inductive invariant *)

Counting == {"loadcount", "storecount"}
Scanning == {"byte", "bit", "load", "store"} \cup Counting
Allocating == {"ask"} \cup Scanning
FreeCounting == {"freeloadcount", "freestorecount"}
Freeing == {"freeload", "freestore"} \cup FreeCounting

\* The malloc of a bucket would find nothing.
NothingLeft(b) == freenum[b] = 0 \/ 0..BitNum(SetOf[b]) - 1 \subseteq UsedBefore[b]

\* The buckets a call with the locals j has passed had nothing left.
PassedForNothing(j) ==
    /\ j.obj \in Obj /\ held[j.obj] \notin Handle /\ j.size \in Size
    /\ j.left \subseteq Candidates(j.size)
    /\ \A b \in Candidates(j.size) \ j.left : NothingLeft(b)

\* The scan is in the first bucket that is left, and the bits it has passed were set.
ScannedInOrder(label, j) ==
    /\ j.bucket \in j.left /\ \A c \in j.left : ~Before(c, j.bucket)
    /\ freenum[j.bucket] # 0
    /\ j.bit \in Nat /\ 0..j.bit - 1 \subseteq UsedBefore[j.bucket]
    /\ label = "byte" => j.bit % ByteBits = 0
    /\ label # "byte" => j.bit < BitNum(SetOf[j.bucket])
    /\ label \notin {"byte", "bit"} => j.bit \notin UsedBefore[j.bucket]
    /\ label = "store" => j.byte = used[j.bucket] \cap ByteOf(j.bit)
    /\ label \in Counting => j.bit \in used[j.bucket]
    /\ label = "storecount" => j.count = freenum[j.bucket]

\* The block that is freed is the one the object's handle names.
FreesItsBlock(label, j) ==
    /\ j.obj \in Obj /\ held[j.obj] \in Handle
    /\ j.bucket \in GivenBack(held[j.obj]) /\ j.bit = held[j.obj].idx
    /\ label = "freestore" => j.byte = used[j.bucket] \cap ByteOf(j.bit)
    /\ label \in FreeCounting => j.bit \notin used[j.bucket]
    /\ label = "freestorecount" => j.count = freenum[j.bucket]

\* What a thread that is at label with the locals j knows of the heap.
LocalsTrue(label, j) ==
    /\ label \in {"idle"} \cup Allocating \cup Freeing
    /\ label # "idle" => created = NSet
    /\ label \in Allocating => PassedForNothing(j)
    /\ label \in Scanning => ScannedInOrder(label, j)
    /\ label \in Freeing => FreesItsBlock(label, j)

\* No object has a block before the sets are there.
SetsFirst == \A o \in Obj : held[o] \in Handle => created = NSet

Functions == DOMAIN used = Bucket /\ DOMAIN pc = Thread /\ DOMAIN job = Thread

ThreadInv ==
    /\ Books!IInv
    /\ Functions /\ SetsFirst
    /\ \A t \in Thread : LocalsTrue(pc[t], job[t])

----------------------------------------------------------------------------
(* The instances and the numbers *)

\* The constants of the instance are those of the module.
LEMMA SameConstants ==
    /\ Books!Set = Set /\ Books!Bucket = Bucket
    /\ Books!Handle = Handle /\ Books!AllBlocks = AllBlocks
BY DEF Books!Set, Set, Books!Bucket, Bucket, Books!Handle, Handle, Books!AllBlocks, AllBlocks

\* Both instances of MemHeap have the same steps.
LEMMA SameHeap ==
    /\ Heap!Init <=> Books!Init
    /\ Heap!Next <=> Books!Next
    /\ Heap!vars = Books!vars
<1>1. Heap!Init <=> Books!Init
    BY DEF Heap!Init, Books!Init, Heap!Bucket, Books!Bucket
<1>2. Heap!Next <=> Books!Next
    BY DEF Heap!Next, Books!Next, Heap!CreateBucketSet, Books!CreateBucketSet,
           Heap!Free, Books!Free, Heap!Malloc, Books!Malloc, Heap!MallocFails, Books!MallocFails,
           Heap!Taken, Books!Taken, Heap!Cleared, Books!Cleared, Heap!GivenBack, Books!GivenBack,
           Heap!Winners, Books!Winners, Heap!Asked, Books!Asked,
           Heap!Candidates, Books!Candidates, Heap!Before, Books!Before,
           Heap!Serves, Books!Serves, Heap!Marks, Books!Marks,
           Heap!FirstClear, Books!FirstClear, Heap!ClearBits, Books!ClearBits,
           Heap!InOwnSet, Books!InOwnSet, Heap!Lookup, Books!Lookup,
           Heap!Registered, Books!Registered, Heap!Live, Books!Live,
           Heap!BucketId, Books!BucketId, Heap!BitNum, Books!BitNum,
           Heap!Bucket, Books!Bucket, Heap!Handle, Books!Handle, Heap!Set, Books!Set
<1>3. Heap!vars = Books!vars
    BY DEF Heap!vars, Books!vars
<1> QED BY <1>1, <1>2, <1>3

\* The engine's loops and lookups do not read the bitmap.
LEMMA SameLoops ==
    /\ \A n : Books!Candidates(n) = Candidates(n)
    /\ \A b, c : Books!Before(b, c) <=> Before(b, c)
    /\ \A h : Books!GivenBack(h) = GivenBack(h)
    /\ \A b : Books!Live(b) <=> Live(b)
    /\ \A b : Books!BucketId(b) = BucketId(b)
BY DEF Books!Candidates, Candidates, Books!Before, Before, Books!GivenBack, GivenBack,
       Books!Lookup, Lookup, Books!Registered, Registered, Books!InOwnSet, InOwnSet,
       Books!Live, Live, Books!BucketId, BucketId, Books!Bucket, Bucket

\* What the invariant of the books says of the variables.
LEMMA BooksTypes ==
    ASSUME Books!IInv
    PROVE  /\ created \in 0..NSet
           /\ UsedBefore \in [Bucket -> SUBSET Nat] /\ freenum \in [Bucket -> Nat]
           /\ held \in [Obj -> Handle \cup {NotHeld, NullPtr}]
           /\ req \in [Obj -> Size \cup {0}]
BY SameConstants DEF Books!IInv, Books!TypeOK

LEMMA NothingLeftIsUnmarked ==
    ASSUME NEW b
    PROVE  NothingLeft(b) <=> ~Books!Marks(b)
BY DEF NothingLeft, Books!Marks, Books!ClearBits, Books!BitNum, BitNum

LEMMA QuotientIs ==
    ASSUME NEW n \in Nat \ {0}, NEW q \in Nat, NEW i \in Nat, n * q <= i, i < n * (q + 1)
    PROVE  i \div n = q
OBVIOUS

LEMMA QuotientBounds ==
    ASSUME NEW n \in Nat \ {0}, NEW i \in Nat
    PROVE  /\ i \div n \in Nat /\ n * (i \div n) \in Nat /\ n * (i \div n + 1) \in Nat
           /\ n * (i \div n) <= i /\ i < n * (i \div n + 1)
           /\ n * (i \div n + 1) = n * (i \div n) + n
           /\ i % n = 0 => i = n * (i \div n)
OBVIOUS

LEMMA NextMultiple ==
    ASSUME NEW n \in Nat \ {0}, NEW i \in Nat, i % n = 0
    PROVE  i + n \in Nat /\ (i + n) % n = 0
<1> DEFINE q == i \div n
<1>1. q \in Nat /\ i = n * q
    BY QuotientBounds
<1> HIDE DEF q
<1>2. i + n = n * (q + 1) /\ q + 1 \in Nat
    BY <1>1
<1>3. (n * (q + 1)) % n = 0
    BY <1>2
<1> QED BY <1>2, <1>3

\* A bit is one of its byte's, and a byte that starts with it holds the next ones.
LEMMA BitInByte ==
    ASSUME NEW i \in Nat
    PROVE  /\ i \in ByteOf(i)
           /\ i % ByteBits = 0 => i..i + ByteBits - 1 \subseteq ByteOf(i)
<1>1. ByteBits \in Nat \ {0}
    BY HeapAssumption DEF HeapAssumption
<1> DEFINE q == i \div ByteBits
<1>2. /\ q \in Nat /\ ByteBits * q \in Nat /\ ByteBits * (q + 1) \in Nat
      /\ ByteBits * q <= i /\ i < ByteBits * (q + 1)
      /\ ByteBits * (q + 1) = ByteBits * q + ByteBits
      /\ i % ByteBits = 0 => i = ByteBits * q
    BY <1>1, QuotientBounds
<1>3. ByteOf(i) = {j \in 0..ByteBits * (q + 1) - 1 : j \div ByteBits = q}
    BY DEF ByteOf
<1>4. i \in ByteOf(i)
    BY <1>2, <1>3
<1> HIDE DEF q
<1>5. ASSUME i % ByteBits = 0, NEW j \in i..i + ByteBits - 1
      PROVE  j \in ByteOf(i)
    <2>1. j \in Nat /\ ByteBits * q <= j /\ j < ByteBits * (q + 1)
        BY <1>1, <1>2, <1>5
    <2>2. j \div ByteBits = q
        BY <1>1, <1>2, <2>1, QuotientIs
    <2> QED BY <1>2, <1>3, <2>1, <2>2
<1> QED BY <1>4, <1>5

\* A bitmap is whole bytes, so only the last bit of a byte can be its last bit.
LEMMA NextBitFits ==
    ASSUME NEW s \in Set, NEW i \in Nat, i < BitNum(s), (i + 1) % ByteBits # 0
    PROVE  i + 1 < BitNum(s)
<1> DEFINE bytes == BlockNum[s] \div ByteBits
           q == IF BlockNum[s] < ByteBits THEN 1
                ELSE IF bytes % ByteBits = 0 THEN bytes ELSE bytes + 1
<1>1. ByteBits \in Nat \ {0} /\ BlockNum[s] \in Nat
    BY HeapAssumption DEF HeapAssumption
<1>2. bytes \in Nat
    BY <1>1
<1>3. q \in Nat /\ BitNum(s) = ByteBits * q
    BY <1>2 DEF BitNum
<1> HIDE DEF q, bytes
<1>4. (ByteBits * q) % ByteBits = 0 /\ ByteBits * q \in Nat
    BY <1>1, <1>3
<1> QED BY <1>3, <1>4

LEMMA BitNumType ==
    ASSUME NEW b \in Bucket
    PROVE  BitNum(SetOf[b]) \in Nat /\ SetOf[b] \in Set /\ BlockNum[SetOf[b]] \in 1..IdxMod
<1>1. SetOf[b] \in Set /\ BlockNum[SetOf[b]] \in 1..IdxMod /\ IdxMod \in Nat
    BY HeapAssumption DEF HeapAssumption
<1>2. BlockNum[SetOf[b]] \div ByteBits \in Nat
    BY <1>1, HeapAssumption DEF HeapAssumption
<1> QED BY <1>1, <1>2, HeapAssumption DEF HeapAssumption, BitNum

----------------------------------------------------------------------------
(* The bitmap before the calls under way *)

OthersIdle(t) == \A u \in Thread \ {t} : pc[u] = "idle"

\* The one call under way is all that UsedBefore takes back.
TakesBackOneCall ==
    \A t \in Thread, b \in Bucket : OthersIdle(t) =>
        /\ pc[t] \notin Counting \cup FreeCounting => UsedBefore[b] = used[b]
        /\ pc[t] \in Counting => UsedBefore[b] =
                (IF job[t].bucket = b THEN used[b] \ {job[t].bit} ELSE used[b])
        /\ pc[t] \in FreeCounting => UsedBefore[b] =
                (IF job[t].bucket = b THEN used[b] \cup {job[t].bit} ELSE used[b])

LEMMA OneCallTakenBack == TakesBackOneCall
<1> SUFFICES ASSUME NEW t \in Thread, NEW b \in Bucket, OthersIdle(t)
             PROVE  /\ pc[t] \notin Counting \cup FreeCounting => UsedBefore[b] = used[b]
                    /\ pc[t] \in Counting => UsedBefore[b] =
                        (IF job[t].bucket = b THEN used[b] \ {job[t].bit} ELSE used[b])
                    /\ pc[t] \in FreeCounting => UsedBefore[b] =
                        (IF job[t].bucket = b THEN used[b] \cup {job[t].bit} ELSE used[b])
    BY DEF TakesBackOneCall
<1> DEFINE marks == {i \in used[b] : \E u \in Thread :
                        pc[u] \in {"loadcount", "storecount"}
                        /\ job[u].bucket = b /\ job[u].bit = i}
           clears == {job[u].bit : u \in {v \in Thread :
                        pc[v] \in {"freeloadcount", "freestorecount"} /\ job[v].bucket = b}}
<1>1. UsedBefore[b] = (used[b] \ marks) \cup clears
    BY DEF UsedBefore
<1>2. /\ ~(pc[t] \in Counting /\ job[t].bucket = b) => marks = {}
      /\ pc[t] \in Counting /\ job[t].bucket = b => marks = used[b] \cap {job[t].bit}
    BY DEF OthersIdle, Counting
<1>3. /\ ~(pc[t] \in FreeCounting /\ job[t].bucket = b) => clears = {}
      /\ pc[t] \in FreeCounting /\ job[t].bucket = b => clears = {job[t].bit}
    BY DEF OthersIdle, FreeCounting
<1> HIDE DEF marks, clears
<1>4. pc[t] \in Counting => pc[t] \notin FreeCounting
    BY DEF Counting, FreeCounting
<1> QED BY <1>1, <1>2, <1>3, <1>4

LEMMA OneCallTakenBackNext == TakesBackOneCall'
BY OneCallTakenBack, PTL

Pointwise == UsedBefore = [b \in Bucket |-> UsedBefore[b]]

LEMMA PointwiseNow == Pointwise
BY DEF Pointwise, UsedBefore

LEMMA PointwiseNext == Pointwise'
BY PointwiseNow, PTL

\* Two bitmaps are equal when they are for every bucket.
LEMMA SameBitmap ==
    ASSUME \A b \in Bucket : UsedBefore'[b] = UsedBefore[b]
    PROVE  UsedBefore' = UsedBefore
BY PointwiseNow, PointwiseNext DEF Pointwise

----------------------------------------------------------------------------
(* Steps that change no book *)

\* Where a step takes its thread.
LEMMA GotoMoves ==
    ASSUME Functions, NEW t \in Thread, OthersIdle(t), NEW label, NEW locals,
           Goto(t, label, locals)
    PROVE  /\ pc'[t] = label /\ job'[t] = locals /\ OthersIdle(t)'
           /\ DOMAIN pc' = Thread /\ DOMAIN job' = Thread
BY DEF Functions, OthersIdle, Goto

\* A thread in no call says nothing of the heap.
LEMMA IdleSaysNothing ==
    ASSUME NEW t \in Thread, pc[t] = "idle"
    PROVE  LocalsTrue(pc[t], job[t])
BY DEF LocalsTrue, Allocating, Scanning, Counting, Freeing, FreeCounting

LEMMA IdleSaysNothingNext == (\A t \in Thread : pc[t] = "idle" => LocalsTrue(pc[t], job[t]))'
<1>1. \A t \in Thread : pc[t] = "idle" => LocalsTrue(pc[t], job[t])
    BY IdleSaysNothing
<1> QED BY <1>1, PTL

\* A step that leaves the books as they are keeps the invariant if the locals of its
\* thread stay true.
LEMMA BooksUntouched ==
    ASSUME ThreadInv, NEW t \in Thread, OthersIdle(t), NEW label, NEW locals,
           Goto(t, label, locals),
           UNCHANGED <<created, freenum, held, req>>, DOMAIN used' = Bucket,
           UsedBefore' = UsedBefore, LocalsTrue(pc[t], job[t])'
    PROVE  ThreadInv' /\ Books!vars' = Books!vars
<1>1. Books!vars' = Books!vars
    BY DEF Books!vars
<1>2. Books!IInv'
    BY <1>1, Books!NextKeepsIInv, SameConstants, HeapAssumption, NoHandleAssumption
       DEF ThreadInv, HeapAssumption, NoHandleAssumption
<1>3. OthersIdle(t)' /\ DOMAIN pc' = Thread /\ DOMAIN job' = Thread
    BY GotoMoves DEF ThreadInv
<1>4. \A u \in Thread : LocalsTrue(pc[u], job[u])'
    BY <1>3, IdleSaysNothingNext DEF OthersIdle
<1> QED BY <1>1, <1>2, <1>3, <1>4 DEF ThreadInv, Functions, SetsFirst

\* A read changes nothing, unless a call starts or stops to count.
LEMMA ReadChangesNothing ==
    ASSUME ThreadInv, NEW t \in Thread, OthersIdle(t), NEW label, NEW locals,
           Goto(t, label, locals), used' = used,
           \/ pc[t] \notin Counting \cup FreeCounting /\ label \notin Counting \cup FreeCounting
           \/ /\ pc[t] \in Counting /\ label \in Counting
              /\ locals.bucket = job[t].bucket /\ locals.bit = job[t].bit
           \/ /\ pc[t] \in FreeCounting /\ label \in FreeCounting
              /\ locals.bucket = job[t].bucket /\ locals.bit = job[t].bit
    PROVE  UsedBefore' = UsedBefore
<1>1. pc'[t] = label /\ job'[t] = locals /\ OthersIdle(t)'
    BY GotoMoves DEF ThreadInv
<1>2. ASSUME NEW b \in Bucket
      PROVE  UsedBefore'[b] = UsedBefore[b]
    <2>1. /\ pc'[t] \notin Counting \cup FreeCounting => UsedBefore'[b] = used'[b]
          /\ pc'[t] \in Counting => UsedBefore'[b] =
                (IF job'[t].bucket = b THEN used'[b] \ {job'[t].bit} ELSE used'[b])
          /\ pc'[t] \in FreeCounting => UsedBefore'[b] =
                (IF job'[t].bucket = b THEN used'[b] \cup {job'[t].bit} ELSE used'[b])
        BY <1>1, OneCallTakenBackNext DEF TakesBackOneCall
    <2>2. /\ pc[t] \notin Counting \cup FreeCounting => UsedBefore[b] = used[b]
          /\ pc[t] \in Counting => UsedBefore[b] =
                (IF job[t].bucket = b THEN used[b] \ {job[t].bit} ELSE used[b])
          /\ pc[t] \in FreeCounting => UsedBefore[b] =
                (IF job[t].bucket = b THEN used[b] \cup {job[t].bit} ELSE used[b])
        BY OneCallTakenBack DEF TakesBackOneCall
    <2> QED BY <1>1, <2>1, <2>2
<1> QED BY <1>2, SameBitmap

\* A read keeps the invariant if what its thread knows afterwards is already true.
LEMMA ReadKeeps ==
    ASSUME ThreadInv, NEW t \in Thread, OthersIdle(t), NEW label, NEW j,
           Goto(t, label, j), UNCHANGED vars, LocalsTrue(label, j),
           \/ pc[t] \notin Counting \cup FreeCounting /\ label \notin Counting \cup FreeCounting
           \/ /\ pc[t] \in Counting /\ label \in Counting
              /\ j.bucket = job[t].bucket /\ j.bit = job[t].bit
           \/ /\ pc[t] \in FreeCounting /\ label \in FreeCounting
              /\ j.bucket = job[t].bucket /\ j.bit = job[t].bit
    PROVE  ThreadInv' /\ Books!vars' = Books!vars
<1>1. UNCHANGED <<created, used, freenum, held, req>>
    BY DEF vars
<1>2. UsedBefore' = UsedBefore
    BY <1>1, ReadChangesNothing
<1>3. pc'[t] = label /\ job'[t] = j
    BY GotoMoves DEF ThreadInv
<1>4. \A b : NothingLeft(b)' <=> NothingLeft(b)
    BY <1>1, <1>2 DEF NothingLeft
<1>5. /\ \A n : Candidates(n)' = Candidates(n)
      /\ \A h : GivenBack(h)' = GivenBack(h)
    BY <1>1 DEF Candidates, Live, GivenBack, Lookup, Registered
<1>6. LocalsTrue(label, j)'
    <2>1. PassedForNothing(j) => PassedForNothing(j)'
        BY <1>1, <1>4, <1>5 DEF PassedForNothing
    <2>2. ScannedInOrder(label, j) => ScannedInOrder(label, j)'
        BY <1>1, <1>2 DEF ScannedInOrder
    <2>3. FreesItsBlock(label, j) => FreesItsBlock(label, j)'
        BY <1>1, <1>5 DEF FreesItsBlock
    <2> QED BY <1>1, <2>1, <2>2, <2>3 DEF LocalsTrue
<1>7. LocalsTrue(pc[t], job[t])'
    BY <1>3, <1>6 DEF LocalsTrue, PassedForNothing, ScannedInOrder, FreesItsBlock
<1>8. DOMAIN used' = Bucket
    BY <1>1 DEF ThreadInv, Functions
<1> QED BY <1>1, <1>2, <1>7, <1>8, BooksUntouched

----------------------------------------------------------------------------
(* malloc: the scan *)

\* The loops go on with the first of the buckets that are left.
LEMMA NextBucketIsFirst ==
    ASSUME NEW S \in SUBSET Bucket, S # {}
    PROVE  NextBucket(S) \in S /\ \A c \in S : ~Before(c, NextBucket(S))
<1>1. S \in SUBSET Nat
    BY DEF Bucket
<1>2. PICK m \in S : \A n \in S : m <= n
    BY <1>1, Books!LeastElement, HeapAssumption, NoHandleAssumption, SameConstants
       DEF HeapAssumption, NoHandleAssumption
<1>3. ASSUME NEW c \in S
      PROVE  ~Before(c, m)
    <2>1. Before(c, m) <=> c < m
        BY Books!LoopOrder, SameLoops, HeapAssumption, NoHandleAssumption, SameConstants
           DEF HeapAssumption, NoHandleAssumption
    <2> QED BY <1>1, <1>2, <2>1
<1> QED BY <1>3 DEF NextBucket

\* A call under way knows its bucket.
LEMMA InBucket ==
    ASSUME NEW label, NEW j, PassedForNothing(j), ScannedInOrder(label, j)
    PROVE  j.bucket \in Bucket /\ j.bucket \in Candidates(j.size)
BY DEF PassedForNothing, ScannedInOrder, Candidates

LEMMA CallMallocKeeps ==
    ASSUME ThreadInv, NEW t \in Thread, OthersIdle(t), NEW o \in Obj, NEW n \in Size,
           CallMalloc(t, o, n)
    PROVE  ThreadInv' /\ Books!vars' = Books!vars
<1> DEFINE j == [obj |-> o, size |-> n, left |-> Candidates(n)]
<1>1. pc[t] = "idle" /\ created = NSet /\ held[o] \notin Handle
      /\ Goto(t, "ask", j) /\ UNCHANGED vars
    BY DEF CallMalloc
<1>2. PassedForNothing(j)
    BY <1>1 DEF PassedForNothing
<1> HIDE DEF j
<1>3. LocalsTrue("ask", j)
    BY <1>1, <1>2 DEF LocalsTrue, Allocating, Scanning, Counting, Freeing, FreeCounting
<1> QED BY <1>1, <1>3, ReadKeeps DEF Counting, FreeCounting

\* A bucket with nothing left is passed.
LEMMA PassOnKeeps ==
    ASSUME ThreadInv, NEW t \in Thread, OthersIdle(t), pc[t] \in {"ask", "byte"},
           NEW j, PassedForNothing(j), NothingLeft(j.bucket), PassOn(t, j), UNCHANGED vars
    PROVE  ThreadInv' /\ Books!vars' = Books!vars
<1> DEFINE k == [obj |-> j.obj, size |-> j.size, left |-> j.left \ {j.bucket}]
<1>1. Goto(t, "ask", k)
    BY DEF PassOn
<1>2. PassedForNothing(k)
    BY DEF PassedForNothing
<1>3. created = NSet
    BY DEF ThreadInv, LocalsTrue
<1> HIDE DEF k
<1>4. LocalsTrue("ask", k)
    BY <1>2, <1>3 DEF LocalsTrue, Allocating, Scanning, Counting, Freeing, FreeCounting
<1> QED BY <1>1, <1>4, ReadKeeps DEF Counting, FreeCounting

LEMMA AskBucketKeeps ==
    ASSUME ThreadInv, NEW t \in Thread, OthersIdle(t), AskBucket(t)
    PROVE  ThreadInv' /\ Books!vars' = Books!vars
<1> DEFINE b == NextBucket(job[t].left)
           j == [obj |-> job[t].obj, size |-> job[t].size, left |-> job[t].left,
                 bucket |-> b, bit |-> 0]
<1>1. /\ pc[t] = "ask" /\ job[t].left # {} /\ UNCHANGED vars
      /\ \/ freenum[b] = 0 /\ PassOn(t, j)
         \/ freenum[b] # 0 /\ Goto(t, "byte", j)
    BY DEF AskBucket
<1>2. PassedForNothing(job[t]) /\ created = NSet
    BY <1>1 DEF ThreadInv, LocalsTrue, Allocating
<1>3. b \in job[t].left /\ \A c \in job[t].left : ~Before(c, b)
    <2>1. job[t].left \in SUBSET Bucket
        BY <1>2 DEF PassedForNothing, Candidates
    <2> QED BY <1>1, <2>1, NextBucketIsFirst
<1> HIDE DEF b
<1>4. PassedForNothing(j) /\ j.bucket = b
    BY <1>2 DEF PassedForNothing
<1>5. CASE freenum[b] = 0 /\ PassOn(t, j)
    <2>1. NothingLeft(j.bucket)
        BY <1>4, <1>5 DEF NothingLeft
    <2> QED BY <1>1, <1>4, <1>5, <2>1, PassOnKeeps
<1>6. CASE freenum[b] # 0 /\ Goto(t, "byte", j)
    <2>1. 0 % ByteBits = 0
        BY HeapAssumption DEF HeapAssumption
    <2>2. ScannedInOrder("byte", j)
        BY <1>3, <1>6, <2>1 DEF ScannedInOrder, Counting
    <2> HIDE DEF j
    <2>3. LocalsTrue("byte", j)
        BY <1>2, <1>4, <2>2
           DEF LocalsTrue, Allocating, Scanning, Counting, Freeing, FreeCounting
    <2> QED BY <1>1, <1>6, <2>3, ReadKeeps DEF Counting, FreeCounting
<1> QED BY <1>1, <1>5, <1>6

LEMMA TestByteKeeps ==
    ASSUME ThreadInv, NEW t \in Thread, OthersIdle(t), TestByte(t)
    PROVE  ThreadInv' /\ Books!vars' = Books!vars
<1> DEFINE j == job[t]
           n == BitNum(SetOf[j.bucket])
           k == [j EXCEPT !.bit = @ + ByteBits]
<1>1. /\ pc[t] = "byte" /\ UNCHANGED vars
      /\ \/ ~(j.bit < n) /\ PassOn(t, j)
         \/ j.bit < n /\ ByteOf(j.bit) \subseteq used[j.bucket] /\ Goto(t, "byte", k)
         \/ j.bit < n /\ Goto(t, "bit", j)
    BY DEF TestByte
<1>2. PassedForNothing(j) /\ ScannedInOrder("byte", j) /\ created = NSet
    BY <1>1 DEF ThreadInv, LocalsTrue, Allocating, Scanning
<1>3. /\ j.bucket \in Bucket /\ n \in Nat
      /\ j.bit \in Nat /\ j.bit % ByteBits = 0 /\ 0..j.bit - 1 \subseteq UsedBefore[j.bucket]
    BY <1>2, InBucket, BitNumType DEF ScannedInOrder
<1>4. UsedBefore[j.bucket] = used[j.bucket]
    BY <1>1, <1>3, OneCallTakenBack DEF TakesBackOneCall, Counting, FreeCounting
<1>5. CASE ~(j.bit < n) /\ PassOn(t, j)
    <2>1. NothingLeft(j.bucket)
        BY <1>3, <1>5 DEF NothingLeft
    <2> QED BY <1>1, <1>2, <1>5, <2>1, PassOnKeeps
<1>6. CASE j.bit < n /\ ByteOf(j.bit) \subseteq used[j.bucket] /\ Goto(t, "byte", k)
    <2>1. k.bit = j.bit + ByteBits /\ k.obj = j.obj /\ k.size = j.size
          /\ k.left = j.left /\ k.bucket = j.bucket
        OBVIOUS
    <2>2. k.bit \in Nat /\ k.bit % ByteBits = 0
        BY <1>3, <2>1, NextMultiple, HeapAssumption DEF HeapAssumption
    <2>3. 0..k.bit - 1 \subseteq UsedBefore[k.bucket]
        <3>1. j.bit..j.bit + ByteBits - 1 \subseteq used[j.bucket]
            BY <1>3, <1>6, BitInByte
        <3>2. ByteBits \in Nat
            BY HeapAssumption DEF HeapAssumption
        <3> QED BY <1>3, <1>4, <2>1, <3>1, <3>2
    <2> HIDE DEF k
    <2>4. PassedForNothing(k)
        BY <1>2, <2>1 DEF PassedForNothing
    <2>5. ScannedInOrder("byte", k)
        BY <1>2, <2>1, <2>2, <2>3 DEF ScannedInOrder, Counting
    <2>6. LocalsTrue("byte", k)
        BY <1>2, <2>4, <2>5 DEF LocalsTrue, Allocating, Scanning, Counting, Freeing, FreeCounting
    <2> QED BY <1>1, <1>6, <2>6, ReadKeeps DEF Counting, FreeCounting
<1>7. CASE j.bit < n /\ Goto(t, "bit", j)
    <2>1. ScannedInOrder("bit", j)
        BY <1>2, <1>7 DEF ScannedInOrder, Counting
    <2>2. LocalsTrue("bit", j)
        BY <1>2, <2>1 DEF LocalsTrue, Allocating, Scanning, Counting, Freeing, FreeCounting
    <2> QED BY <1>1, <1>7, <2>2, ReadKeeps DEF Counting, FreeCounting
<1> QED BY <1>1, <1>5, <1>6, <1>7

LEMMA TestBitKeeps ==
    ASSUME ThreadInv, NEW t \in Thread, OthersIdle(t), TestBit(t)
    PROVE  ThreadInv' /\ Books!vars' = Books!vars
<1> DEFINE j == job[t]
           next == [j EXCEPT !.bit = @ + 1]
           label == IF next.bit % ByteBits = 0 THEN "byte" ELSE "bit"
<1>1. /\ pc[t] = "bit" /\ UNCHANGED vars
      /\ \/ j.bit \notin used[j.bucket] /\ Goto(t, "load", j)
         \/ j.bit \in used[j.bucket] /\ Goto(t, label, next)
    BY DEF TestBit
<1>2. PassedForNothing(j) /\ ScannedInOrder("bit", j) /\ created = NSet
    BY <1>1 DEF ThreadInv, LocalsTrue, Allocating, Scanning
<1>3. /\ j.bucket \in Bucket /\ SetOf[j.bucket] \in Set /\ BitNum(SetOf[j.bucket]) \in Nat
      /\ j.bit \in Nat /\ j.bit < BitNum(SetOf[j.bucket])
      /\ 0..j.bit - 1 \subseteq UsedBefore[j.bucket]
    BY <1>2, InBucket, BitNumType DEF ScannedInOrder
<1>4. UsedBefore[j.bucket] = used[j.bucket]
    BY <1>1, <1>3, OneCallTakenBack DEF TakesBackOneCall, Counting, FreeCounting
<1>5. CASE j.bit \notin used[j.bucket] /\ Goto(t, "load", j)
    <2>1. ScannedInOrder("load", j)
        BY <1>2, <1>4, <1>5 DEF ScannedInOrder, Counting
    <2>2. LocalsTrue("load", j)
        BY <1>2, <2>1 DEF LocalsTrue, Allocating, Scanning, Counting, Freeing, FreeCounting
    <2> QED BY <1>1, <1>5, <2>2, ReadKeeps DEF Counting, FreeCounting
<1>6. CASE j.bit \in used[j.bucket] /\ Goto(t, label, next)
    <2>1. next.bit = j.bit + 1 /\ next.obj = j.obj /\ next.size = j.size
          /\ next.left = j.left /\ next.bucket = j.bucket
        OBVIOUS
    <2> HIDE DEF next
    <2>2. next.bit \in Nat /\ 0..next.bit - 1 \subseteq UsedBefore[next.bucket]
        BY <1>3, <1>4, <1>6, <2>1
    <2>3. label = "bit" => next.bit < BitNum(SetOf[next.bucket])
        BY <1>3, <2>1, NextBitFits
    <2>4. label \in {"byte", "bit"} /\ (label = "byte" => next.bit % ByteBits = 0)
        OBVIOUS
    <2> HIDE DEF label
    <2>5. PassedForNothing(next)
        BY <1>2, <2>1 DEF PassedForNothing
    <2>6. ScannedInOrder(label, next)
        BY <1>2, <2>1, <2>2, <2>3, <2>4 DEF ScannedInOrder, Counting
    <2>7. LocalsTrue(label, next)
        BY <1>2, <2>4, <2>5, <2>6
           DEF LocalsTrue, Allocating, Scanning, Counting, Freeing, FreeCounting
    <2> QED BY <1>1, <1>6, <2>4, <2>7, ReadKeeps DEF Counting, FreeCounting
<1> QED BY <1>1, <1>5, <1>6

LEMMA LoadByteKeeps ==
    ASSUME ThreadInv, NEW t \in Thread, OthersIdle(t), LoadByte(t)
    PROVE  ThreadInv' /\ Books!vars' = Books!vars
<1> DEFINE j == job[t]
           k == [obj |-> j.obj, size |-> j.size, left |-> j.left, bucket |-> j.bucket,
                 bit |-> j.bit, byte |-> used[j.bucket] \cap ByteOf(j.bit)]
<1>1. pc[t] = "load" /\ UNCHANGED vars /\ Goto(t, "store", k)
    BY DEF LoadByte
<1>2. PassedForNothing(j) /\ ScannedInOrder("load", j) /\ created = NSet
    BY <1>1 DEF ThreadInv, LocalsTrue, Allocating, Scanning
<1>3. PassedForNothing(k)
    BY <1>2 DEF PassedForNothing
<1>4. ScannedInOrder("store", k)
    BY <1>2 DEF ScannedInOrder, Counting
<1> HIDE DEF k
<1>5. LocalsTrue("store", k)
    BY <1>2, <1>3, <1>4 DEF LocalsTrue, Allocating, Scanning, Counting, Freeing, FreeCounting
<1> QED BY <1>1, <1>5, ReadKeeps DEF Counting, FreeCounting

----------------------------------------------------------------------------
(* malloc: the marking *)

\* The other bits of the byte survive the store, and the bit is not seen before it is
\* counted.
LEMMA StoreByteKeeps ==
    ASSUME ThreadInv, NEW t \in Thread, OthersIdle(t), StoreByte(t)
    PROVE  ThreadInv' /\ Books!vars' = Books!vars
<1> DEFINE j == job[t]
<1>1. /\ pc[t] = "store" /\ Goto(t, "loadcount", j)
      /\ used' = [used EXCEPT ![j.bucket] = (@ \ ByteOf(j.bit)) \cup j.byte \cup {j.bit}]
      /\ UNCHANGED <<created, freenum, held, req>>
    BY DEF StoreByte
<1>2. PassedForNothing(j) /\ ScannedInOrder("store", j) /\ created = NSet
    BY <1>1 DEF ThreadInv, LocalsTrue, Allocating, Scanning
<1>3. j.bucket \in Bucket /\ DOMAIN used = Bucket
    BY <1>2, InBucket DEF ThreadInv, Functions
<1>4. UsedBefore[j.bucket] = used[j.bucket] /\ j.bit \notin used[j.bucket]
    BY <1>1, <1>2, <1>3, OneCallTakenBack
       DEF TakesBackOneCall, Counting, FreeCounting, ScannedInOrder
<1>5. /\ DOMAIN used' = Bucket
      /\ used'[j.bucket] = used[j.bucket] \cup {j.bit}
      /\ \A b \in Bucket : b # j.bucket => used'[b] = used[b]
    BY <1>1, <1>2, <1>3 DEF ScannedInOrder
<1>6. pc'[t] = "loadcount" /\ job'[t] = j /\ OthersIdle(t)'
    BY <1>1, GotoMoves DEF ThreadInv
<1>7. UsedBefore' = UsedBefore
    <2>1. ASSUME NEW b \in Bucket
          PROVE  UsedBefore'[b] = UsedBefore[b]
        <3>1. UsedBefore'[b] = (IF j.bucket = b THEN used'[b] \ {j.bit} ELSE used'[b])
            <4>1. pc'[t] \in Counting
                BY <1>6 DEF Counting
            <4>2. UsedBefore'[b] = (IF job'[t].bucket = b THEN used'[b] \ {job'[t].bit}
                                    ELSE used'[b])
                BY <1>6, <4>1, OneCallTakenBackNext DEF TakesBackOneCall
            <4> QED BY <1>6, <4>2
        <3>2. UsedBefore[b] = used[b]
            BY <1>1, OneCallTakenBack DEF TakesBackOneCall, Counting, FreeCounting
        <3>3. CASE b = j.bucket
            BY <1>3, <1>4, <1>5, <3>1, <3>2, <3>3
        <3>4. CASE b # j.bucket
            BY <1>5, <3>1, <3>2, <3>4
        <3> QED BY <3>3, <3>4
    <2> QED BY <2>1, SameBitmap
<1>8. LocalsTrue(pc[t], job[t])'
    <2>1. PassedForNothing(job[t])'
        BY <1>1, <1>2, <1>6, <1>7 DEF PassedForNothing, Candidates, Live, NothingLeft
    <2>2. ScannedInOrder("loadcount", job[t])'
        BY <1>1, <1>2, <1>5, <1>6, <1>7 DEF ScannedInOrder, Counting
    <2> QED BY <1>1, <1>2, <1>6, <2>1, <2>2
            DEF LocalsTrue, Allocating, Scanning, Counting, Freeing, FreeCounting
<1> QED BY <1>1, <1>5, <1>7, <1>8, BooksUntouched

LEMMA LoadCountKeeps ==
    ASSUME ThreadInv, NEW t \in Thread, OthersIdle(t), LoadCount(t)
    PROVE  ThreadInv' /\ Books!vars' = Books!vars
<1> DEFINE j == job[t]
           k == [obj |-> j.obj, size |-> j.size, left |-> j.left, bucket |-> j.bucket,
                 bit |-> j.bit, count |-> freenum[j.bucket]]
<1>1. pc[t] = "loadcount" /\ UNCHANGED vars /\ Goto(t, "storecount", k)
    BY DEF LoadCount
<1>2. PassedForNothing(j) /\ ScannedInOrder("loadcount", j) /\ created = NSet
    BY <1>1 DEF ThreadInv, LocalsTrue, Allocating, Scanning, Counting
<1>3. PassedForNothing(k) /\ k.bucket = j.bucket /\ k.bit = j.bit
    BY <1>2 DEF PassedForNothing
<1>4. ScannedInOrder("storecount", k)
    BY <1>2 DEF ScannedInOrder, Counting
<1> HIDE DEF k
<1>5. LocalsTrue("storecount", k)
    BY <1>2, <1>3, <1>4 DEF LocalsTrue, Allocating, Scanning, Counting, Freeing, FreeCounting
<1> QED BY <1>1, <1>3, <1>5, ReadKeeps DEF Counting, FreeCounting

\* A call that returns leaves no thread in a call.
LEMMA ReturnKeeps ==
    ASSUME ThreadInv, NEW t \in Thread, OthersIdle(t), Return(t), DOMAIN used' = Bucket,
           SetsFirst', Books!Next
    PROVE  ThreadInv'
<1>1. pc'[t] = "idle" /\ OthersIdle(t)' /\ DOMAIN pc' = Thread /\ DOMAIN job' = Thread
    BY GotoMoves DEF Return, ThreadInv
<1>2. Books!IInv'
    BY Books!NextKeepsIInv, SameConstants, HeapAssumption, NoHandleAssumption
       DEF ThreadInv, HeapAssumption, NoHandleAssumption
<1>3. \A u \in Thread : LocalsTrue(pc[u], job[u])'
    BY <1>1, IdleSaysNothingNext DEF OthersIdle
<1> QED BY <1>1, <1>2, <1>3 DEF ThreadInv, Functions

\* Without a call under way the bitmap is as it was.
LEMMA ReturnedBitmap ==
    ASSUME NEW t \in Thread, OthersIdle(t), Functions, Return(t)
    PROVE  UsedBefore' = [b \in Bucket |-> used'[b]]
<1>1. pc'[t] = "idle" /\ OthersIdle(t)'
    BY GotoMoves DEF Return
<1>2. \A b \in Bucket : UsedBefore'[b] = used'[b]
    BY <1>1, OneCallTakenBackNext DEF TakesBackOneCall, Counting, FreeCounting
<1> QED BY <1>2, PointwiseNext DEF Pointwise

\* A bucket counts no more blocks than it has, and fewer while one is marked.
LEMMA CountInRange ==
    ASSUME Books!IInv, NEW b \in Bucket, Live(b)
    PROVE  /\ freenum[b] \in 0..BlockNum[SetOf[b]]
           /\ \A i \in UsedBefore[b] : freenum[b] < BlockNum[SetOf[b]]
<1> DEFINE N == BlockNum[SetOf[b]]
           U == UsedBefore[b]
           size == Books!Cardinality(U)
<1>1. N \in Nat
    BY BitNumType, HeapAssumption DEF HeapAssumption
<1>2. U \subseteq 0..N - 1 /\ freenum[b] = N - size /\ freenum[b] \in Nat
    <2>1. Books!Live(b) /\ b \in Books!Bucket /\ freenum[b] \in Nat
        BY BooksTypes, SameConstants, SameLoops
    <2>2. U \subseteq 0..N - 1 /\ freenum[b] = N - size
        BY <2>1 DEF Books!IInv, Books!BooksBalance
    <2> QED BY <2>1, <2>2
<1> USE SameConstants, HeapAssumption, NoHandleAssumption
    DEF HeapAssumption, NoHandleAssumption
<1>3. Books!IsFiniteSet(0..N - 1)
    BY Books!BlocksOfBucket DEF Books!Last
<1> HIDE DEF N, U
<1>4. Books!IsFiniteSet(U) /\ size \in Nat
    BY <1>2, <1>3, Books!FS_Subset, Books!FS_CardinalityType
<1>5. U # {} => size # 0
    BY <1>4, Books!FS_EmptySet
<1> HIDE SameConstants, HeapAssumption, NoHandleAssumption
    DEF HeapAssumption, NoHandleAssumption, size
<1>6. freenum[b] \in 0..N
    BY <1>1, <1>2, <1>4
<1>7. \A i \in U : freenum[b] < N
    BY <1>1, <1>2, <1>4, <1>5
<1> QED BY <1>6, <1>7 DEF N, U

\* The scan of thread t has found what Malloc chooses: the first clear bit of the one
\* bucket that serves the request.
LEMMA ScanFindsWinner ==
    ASSUME Books!IInv, NEW label \in {"load", "store"} \cup Counting, NEW j,
           PassedForNothing(j), ScannedInOrder(label, j)
    PROVE  /\ Books!Winners(j.size) = {j.bucket}
           /\ {b \in Books!Asked(j.size) : Books!Marks(b)} = {j.bucket}
           /\ Books!FirstClear(j.bucket) = j.bit
           /\ j.bit % IdxMod = j.bit /\ j.bit < BlockNum[SetOf[j.bucket]]
           /\ freenum[j.bucket] - 1 \in Nat /\ freenum[j.bucket] \in 0..BlockNum[SetOf[j.bucket]]
<1> DEFINE w == j.bucket
<1>1. w \in Bucket /\ w \in Candidates(j.size) /\ Live(w) /\ BitNum(SetOf[w]) \in Nat
    BY InBucket, BitNumType DEF Candidates
<1>2. /\ freenum[w] # 0 /\ j.bit \in Nat /\ j.bit < BitNum(SetOf[w])
      /\ j.bit \notin UsedBefore[w] /\ 0..j.bit - 1 \subseteq UsedBefore[w]
    BY DEF ScannedInOrder, Counting
<1>3. Books!Marks(w)
    <2>1. ~NothingLeft(w)
        BY <1>1, <1>2 DEF NothingLeft
    <2> QED BY <2>1, NothingLeftIsUnmarked
<1>4. /\ freenum[w] - 1 \in Nat
      /\ Books!FirstClear(w) \in 0..Books!Last(w)
      /\ Books!FirstClear(w) % IdxMod = Books!FirstClear(w)
      /\ Books!Serves(w)
    BY <1>1, <1>3, Books!FirstClearIsFree, SameLoops,
       SameConstants, HeapAssumption, NoHandleAssumption
       DEF HeapAssumption, NoHandleAssumption, Books!IInv
<1>5. Books!FirstClear(w) = j.bit
    <2>1. Books!ClearBits(w) = (0..BitNum(SetOf[w]) - 1) \ UsedBefore[w]
        BY DEF Books!ClearBits, Books!BitNum, BitNum
    <2>2. j.bit \in Books!ClearBits(w)
        BY <1>1, <1>2, <2>1
    <2>3. \A i \in Books!ClearBits(w) : i \in Nat /\ j.bit <= i
        BY <1>1, <1>2, <2>1
    <2>4. \A i \in Books!ClearBits(w) :
            (\A k \in Books!ClearBits(w) : i <= k) => i = j.bit
        BY <1>2, <2>2, <2>3
    <2> QED BY <2>2, <2>3, <2>4 DEF Books!FirstClear
<1>6. w \in Books!Winners(j.size)
    <2>1. ASSUME NEW c \in Candidates(j.size), Books!Serves(c)
          PROVE  ~Before(c, w)
        <3>1. ~NothingLeft(c)
            BY <2>1, NothingLeftIsUnmarked DEF Books!Serves
        <3>2. c \in j.left
            BY <3>1 DEF PassedForNothing
        <3> QED BY <3>2 DEF ScannedInOrder
    <2> QED BY <1>1, <1>4, <2>1, SameLoops DEF Books!Winners
<1>7. Books!Winners(j.size) = {w} /\ {b \in Books!Asked(j.size) : Books!Marks(b)} = {w}
    BY <1>6, Books!WinnerAloneMarks,
       SameConstants, HeapAssumption, NoHandleAssumption
       DEF HeapAssumption, NoHandleAssumption, Books!IInv
<1>8. j.bit < BlockNum[SetOf[w]]
    <2>1. BlockNum[SetOf[w]] \in Nat
        BY <1>1, BitNumType, HeapAssumption DEF HeapAssumption
    <2> QED BY <1>4, <1>5, <2>1 DEF Books!Last
<1> QED BY <1>1, <1>4, <1>5, <1>7, <1>8, CountInRange

\* The last access of a malloc is the atomic Malloc.
LEMMA StoreCountIsMalloc ==
    ASSUME ThreadInv, NEW t \in Thread, OthersIdle(t), StoreCount(t)
    PROVE  ThreadInv' /\ Books!Next
<1> DEFINE j == job[t]
           w == j.bucket
<1>1. pc[t] = "storecount" /\ Books!IInv
    BY DEF StoreCount, ThreadInv
<1>2. PassedForNothing(j) /\ ScannedInOrder("storecount", j)
    BY <1>1 DEF ThreadInv, LocalsTrue, Allocating, Scanning, Counting
<1>3. /\ Books!Winners(j.size) = {w}
      /\ {b \in Books!Asked(j.size) : Books!Marks(b)} = {w}
      /\ Books!FirstClear(w) = j.bit
      /\ j.bit % IdxMod = j.bit /\ j.bit < BlockNum[SetOf[w]]
      /\ freenum[w] - 1 \in Nat /\ freenum[w] \in 0..BlockNum[SetOf[w]]
    BY <1>1, <1>2, ScanFindsWinner DEF Counting
<1>4. /\ w \in Bucket /\ SetOf[w] \in Set /\ BlockNum[SetOf[w]] \in Nat
      /\ j.obj \in Obj /\ held[j.obj] \notin Handle /\ j.size \in Size /\ j.bit \in Nat
      /\ j.count = freenum[w] /\ j.bit \in used[w]
    <2>1. w \in Bucket /\ SetOf[w] \in Set /\ BlockNum[SetOf[w]] \in Nat
        BY <1>2, InBucket, BitNumType, HeapAssumption DEF HeapAssumption
    <2>2. j.obj \in Obj /\ held[j.obj] \notin Handle /\ j.size \in Size
        BY <1>2 DEF PassedForNothing
    <2>3. j.bit \in Nat /\ j.count = freenum[w] /\ j.bit \in used[w]
        BY <1>2 DEF ScannedInOrder, Counting
    <2> QED BY <2>1, <2>2, <2>3
<1>5. /\ freenum' = [freenum EXCEPT ![w] = (j.count - 1) % CountMod]
      /\ held' = [held EXCEPT ![j.obj] = [bucketId |-> BucketId(w), idx |-> j.bit]]
      /\ req' = [req EXCEPT ![j.obj] = j.size]
      /\ Return(t) /\ created' = created /\ used' = used
    BY <1>3, <1>4 DEF StoreCount
<1>6. (j.count - 1) % CountMod = freenum[w] - 1
    <2>1. CountMod \in Nat /\ BlockNum[SetOf[w]] < CountMod
        BY <1>4, CountAssumption DEF CountAssumption
    <2> QED BY <1>3, <1>4, <2>1
<1>7. Books!Taken({w})
    <2>1. freenum' = [b \in Bucket |-> IF b \in {w} THEN freenum[b] - 1 ELSE freenum[b]]
        BY <1>1, <1>4, <1>5, <1>6, BooksTypes
    <2>2. UsedBefore' = [b \in Bucket |-> used[b]]
        BY <1>5, ReturnedBitmap DEF ThreadInv
    <2>3. ASSUME NEW b \in Bucket
          PROVE  used[b] = IF b \in {w} THEN UsedBefore[b] \cup {Books!FirstClear(b)}
                           ELSE UsedBefore[b]
        <3>1. UsedBefore[b] = (IF w = b THEN used[b] \ {j.bit} ELSE used[b])
            BY <1>1, OneCallTakenBack DEF TakesBackOneCall, Counting
        <3> QED BY <1>3, <1>4, <3>1
    <2>4. UsedBefore' = [b \in Bucket |->
              IF b \in {w} THEN UsedBefore[b] \cup {Books!FirstClear(b)} ELSE UsedBefore[b]]
        BY <2>2, <2>3
    <2> QED BY <2>1, <2>4, SameConstants DEF Books!Taken
<1>8. Books!Malloc(j.obj, j.size)
    <2>1. held' = [held EXCEPT ![j.obj] =
              [bucketId |-> Books!BucketId(w), idx |-> Books!FirstClear(w) % IdxMod]]
        BY <1>3, <1>5, SameLoops
    <2>2. held[j.obj] \notin Books!Handle
        BY <1>4, SameConstants
    <2> HIDE DEF j, w
    <2>3. Books!Taken({b \in Books!Asked(j.size) : Books!Marks(b)})
        BY <1>3, <1>7
    <2> QED BY <1>3, <1>5, <2>1, <2>2, <2>3 DEF Books!Malloc
<1>9. Books!Next
    BY <1>4, <1>8 DEF Books!Next
<1>10. DOMAIN used' = Bucket
    BY <1>5 DEF ThreadInv, Functions
<1>11. SetsFirst'
    <2>1. created = NSet
        BY <1>1 DEF ThreadInv, LocalsTrue
    <2> QED BY <1>5, <2>1 DEF SetsFirst
<1> QED BY <1>5, <1>9, <1>10, <1>11, ReturnKeeps

\* A malloc that has asked every bucket is the atomic one that fails.
LEMMA MallocNullIsMallocFails ==
    ASSUME ThreadInv, NEW t \in Thread, OthersIdle(t), MallocNull(t)
    PROVE  ThreadInv' /\ Books!Next
<1> DEFINE j == job[t]
<1>1. /\ pc[t] = "ask" /\ j.left = {} /\ Books!IInv
      /\ held' = [held EXCEPT ![j.obj] = NullPtr] /\ req' = [req EXCEPT ![j.obj] = j.size]
      /\ Return(t) /\ UNCHANGED <<created, used, freenum>>
    BY DEF MallocNull, ThreadInv
<1>2. PassedForNothing(j)
    BY <1>1 DEF ThreadInv, LocalsTrue, Allocating
<1>3. j.obj \in Obj /\ held[j.obj] \notin Handle /\ j.size \in Size
    BY <1>2 DEF PassedForNothing
<1>4. \A b \in Books!Candidates(j.size) : ~Books!Marks(b)
    BY <1>1, <1>2, SameLoops, NothingLeftIsUnmarked DEF PassedForNothing
<1>5. Books!Winners(j.size) = {} /\ {b \in Books!Asked(j.size) : Books!Marks(b)} = {}
    BY <1>4 DEF Books!Winners, Books!Serves, Books!Asked
<1>6. Books!Taken({})
    <2>1. freenum' = [b \in Bucket |-> freenum[b]]
        BY <1>1, BooksTypes
    <2>2. UsedBefore' = [b \in Bucket |-> used[b]]
        BY <1>1, ReturnedBitmap DEF ThreadInv
    <2>3. \A b \in Bucket : UsedBefore[b] = used[b]
        BY <1>1, OneCallTakenBack DEF TakesBackOneCall, Counting, FreeCounting
    <2>4. UsedBefore' = [b \in Bucket |-> UsedBefore[b]]
        BY <2>2, <2>3
    <2> QED BY <2>1, <2>4, SameConstants DEF Books!Taken
<1>7. Books!MallocFails(j.obj, j.size)
    BY <1>1, <1>3, <1>5, <1>6, SameConstants DEF Books!MallocFails
<1>8. Books!Next
    BY <1>3, <1>7 DEF Books!Next
<1>9. DOMAIN used' = Bucket
    BY <1>1 DEF ThreadInv, Functions
<1>10. SetsFirst'
    <2>1. created = NSet
        BY <1>1 DEF ThreadInv, LocalsTrue
    <2> QED BY <1>1, <2>1 DEF SetsFirst
<1> QED BY <1>1, <1>8, <1>9, <1>10, ReturnKeeps

----------------------------------------------------------------------------
(* free *)

LEMMA CallFreeKeeps ==
    ASSUME ThreadInv, NEW t \in Thread, OthersIdle(t), NEW o \in Obj, CallFree(t, o)
    PROVE  ThreadInv' /\ Books!vars' = Books!vars
<1>1. PICK b \in GivenBack(held[o]) :
          Goto(t, "freeload", [obj |-> o, bucket |-> b, bit |-> held[o].idx])
    BY DEF CallFree
<1> DEFINE j == [obj |-> o, bucket |-> b, bit |-> held[o].idx]
<1>2. pc[t] = "idle" /\ held[o] \in Handle /\ UNCHANGED vars /\ Goto(t, "freeload", j)
    BY <1>1 DEF CallFree
<1>3. FreesItsBlock("freeload", j)
    BY <1>2 DEF FreesItsBlock, FreeCounting
<1>4. created = NSet
    BY <1>2 DEF ThreadInv, SetsFirst
<1> HIDE DEF j
<1>5. LocalsTrue("freeload", j)
    BY <1>3, <1>4 DEF LocalsTrue, Allocating, Scanning, Counting, Freeing, FreeCounting
<1> QED BY <1>2, <1>5, ReadKeeps DEF Counting, FreeCounting

\* The block that is freed is marked, and so its bucket counts fewer than all of its
\* blocks.
LEMMA FreedIsMarked ==
    ASSUME Books!IInv, NEW label, NEW j, FreesItsBlock(label, j)
    PROVE  /\ j.bucket \in Bucket /\ GivenBack(held[j.obj]) = {j.bucket}
           /\ j.bit \in UsedBefore[j.bucket]
           /\ freenum[j.bucket] \in Nat /\ BlockNum[SetOf[j.bucket]] \in Nat
           /\ freenum[j.bucket] < BlockNum[SetOf[j.bucket]]
<1> DEFINE h == held[j.obj]
           b == h.bucketId
<1>1. j.obj \in Obj /\ h \in Handle /\ j.bucket \in GivenBack(h) /\ j.bit = h.idx
    BY DEF FreesItsBlock
<1>2. b \in Bucket /\ Live(b) /\ h.idx \in UsedBefore[b]
    <2>1. h \in Books!Handle /\ j.obj \in Obj
        BY <1>1, SameConstants
    <2>2. b \in Books!Bucket /\ Books!Live(b) /\ h.idx \in UsedBefore[b]
        BY <2>1 DEF Books!IInv, Books!Marked
    <2> QED BY <2>2, SameConstants, SameLoops
<1>3. Lookup(b) = b
    <2>1. b \in Books!Bucket /\ Books!Live(b)
        BY <1>2, SameConstants, SameLoops
    <2>2. Books!Lookup(b) = b
        BY <2>1, Books!LookupFindsBucket, SameConstants, HeapAssumption, NoHandleAssumption
           DEF HeapAssumption, NoHandleAssumption
    <2>3. Books!Lookup(b) = Lookup(b)
        BY DEF Books!Lookup, Lookup, Books!Registered, Registered, Books!Live, Live,
               Books!BucketId, BucketId, Books!Bucket, Bucket
    <2> QED BY <2>2, <2>3
<1>4. j.bucket = b /\ GivenBack(h) = {j.bucket}
    BY <1>1, <1>3 DEF GivenBack
<1>5. BlockNum[SetOf[b]] \in Nat
    BY <1>2, BitNumType, HeapAssumption DEF HeapAssumption
<1>6. freenum[b] \in Nat /\ freenum[b] < BlockNum[SetOf[b]]
    BY <1>2, <1>5, CountInRange
<1> QED BY <1>1, <1>2, <1>4, <1>5, <1>6

LEMMA FreeLoadByteKeeps ==
    ASSUME ThreadInv, NEW t \in Thread, OthersIdle(t), FreeLoadByte(t)
    PROVE  ThreadInv' /\ Books!vars' = Books!vars
<1> DEFINE j == job[t]
           k == [obj |-> j.obj, bucket |-> j.bucket, bit |-> j.bit,
                 byte |-> used[j.bucket] \cap ByteOf(j.bit)]
<1>1. pc[t] = "freeload" /\ UNCHANGED vars /\ Goto(t, "freestore", k)
    BY DEF FreeLoadByte
<1>2. FreesItsBlock("freeload", j) /\ created = NSet
    BY <1>1 DEF ThreadInv, LocalsTrue, Freeing
<1>3. FreesItsBlock("freestore", k)
    BY <1>2 DEF FreesItsBlock, FreeCounting
<1> HIDE DEF k
<1>4. LocalsTrue("freestore", k)
    BY <1>2, <1>3 DEF LocalsTrue, Allocating, Scanning, Counting, Freeing, FreeCounting
<1> QED BY <1>1, <1>4, ReadKeeps DEF Counting, FreeCounting

\* The other bits of the byte survive the store, and the bit counts as set until the
\* block is counted.
LEMMA FreeStoreByteKeeps ==
    ASSUME ThreadInv, NEW t \in Thread, OthersIdle(t), FreeStoreByte(t)
    PROVE  ThreadInv' /\ Books!vars' = Books!vars
<1> DEFINE j == job[t]
           k == [obj |-> j.obj, bucket |-> j.bucket, bit |-> j.bit]
<1>1. /\ pc[t] = "freestore" /\ Goto(t, "freeloadcount", k) /\ Books!IInv
      /\ used' = [used EXCEPT ![j.bucket] = (@ \ ByteOf(j.bit)) \cup (j.byte \ {j.bit})]
      /\ UNCHANGED <<created, freenum, held, req>>
    BY DEF FreeStoreByte, ThreadInv
<1>2. FreesItsBlock("freestore", j) /\ created = NSet
    BY <1>1 DEF ThreadInv, LocalsTrue, Freeing
<1>3. /\ j.bucket \in Bucket /\ DOMAIN used = Bucket
      /\ j.bit \in UsedBefore[j.bucket] /\ j.bit \in Nat
    <2>1. j.bucket \in Bucket /\ j.bit \in UsedBefore[j.bucket]
        BY <1>1, <1>2, FreedIsMarked
    <2>2. UsedBefore[j.bucket] \subseteq Nat
        BY <1>1, <2>1, BooksTypes
    <2> QED BY <2>1, <2>2 DEF ThreadInv, Functions
<1>4. UsedBefore[j.bucket] = used[j.bucket] /\ j.byte = used[j.bucket] \cap ByteOf(j.bit)
    BY <1>1, <1>2, <1>3, OneCallTakenBack
       DEF TakesBackOneCall, Counting, FreeCounting, FreesItsBlock
<1>5. /\ DOMAIN used' = Bucket
      /\ used'[j.bucket] = used[j.bucket] \ {j.bit}
      /\ \A b \in Bucket : b # j.bucket => used'[b] = used[b]
    <2>1. j.bit \in ByteOf(j.bit)
        BY <1>3, BitInByte
    <2>2. /\ DOMAIN used' = Bucket
          /\ used'[j.bucket] = (used[j.bucket] \ ByteOf(j.bit)) \cup (j.byte \ {j.bit})
          /\ \A b \in Bucket : b # j.bucket => used'[b] = used[b]
        BY <1>1, <1>3
    <2> QED BY <1>4, <2>1, <2>2
<1>6. /\ pc'[t] = "freeloadcount" /\ job'[t] = k /\ OthersIdle(t)'
      /\ k.obj = j.obj /\ k.bucket = j.bucket /\ k.bit = j.bit
    BY <1>1, GotoMoves DEF ThreadInv
<1> HIDE DEF k
<1>7. UsedBefore' = UsedBefore
    <2>1. ASSUME NEW b \in Bucket
          PROVE  UsedBefore'[b] = UsedBefore[b]
        <3>1. UsedBefore'[b] = (IF j.bucket = b THEN used'[b] \cup {j.bit} ELSE used'[b])
            <4>1. pc'[t] \in FreeCounting
                BY <1>6 DEF FreeCounting
            <4>2. UsedBefore'[b] = (IF job'[t].bucket = b THEN used'[b] \cup {job'[t].bit}
                                    ELSE used'[b])
                BY <1>6, <4>1, OneCallTakenBackNext DEF TakesBackOneCall
            <4> QED BY <1>6, <4>2
        <3>2. UsedBefore[b] = used[b]
            BY <1>1, OneCallTakenBack DEF TakesBackOneCall, Counting, FreeCounting
        <3>3. CASE b = j.bucket
            BY <1>3, <1>4, <1>5, <3>1, <3>2, <3>3
        <3>4. CASE b # j.bucket
            BY <1>5, <3>1, <3>2, <3>4
        <3> QED BY <3>3, <3>4
    <2> QED BY <2>1, SameBitmap
<1>8. LocalsTrue(pc[t], job[t])'
    <2>1. \A h : GivenBack(h)' = GivenBack(h)
        BY <1>1 DEF Live, GivenBack, Lookup, Registered
    <2>2. FreesItsBlock("freeloadcount", job[t])'
        BY <1>1, <1>2, <1>3, <1>5, <1>6, <2>1 DEF FreesItsBlock, FreeCounting
    <2> QED BY <1>1, <1>2, <1>6, <2>2
            DEF LocalsTrue, Allocating, Scanning, Counting, Freeing, FreeCounting
<1> QED BY <1>1, <1>5, <1>7, <1>8, BooksUntouched

LEMMA FreeLoadCountKeeps ==
    ASSUME ThreadInv, NEW t \in Thread, OthersIdle(t), FreeLoadCount(t)
    PROVE  ThreadInv' /\ Books!vars' = Books!vars
<1> DEFINE j == job[t]
           k == [obj |-> j.obj, bucket |-> j.bucket, bit |-> j.bit,
                 count |-> freenum[j.bucket]]
<1>1. pc[t] = "freeloadcount" /\ UNCHANGED vars /\ Goto(t, "freestorecount", k)
    BY DEF FreeLoadCount
<1>2. FreesItsBlock("freeloadcount", j) /\ created = NSet
    BY <1>1 DEF ThreadInv, LocalsTrue, Freeing, FreeCounting
<1>3. FreesItsBlock("freestorecount", k) /\ k.bucket = j.bucket /\ k.bit = j.bit
    BY <1>2 DEF FreesItsBlock, FreeCounting
<1> HIDE DEF k
<1>4. LocalsTrue("freestorecount", k)
    BY <1>2, <1>3 DEF LocalsTrue, Allocating, Scanning, Counting, Freeing, FreeCounting
<1> QED BY <1>1, <1>3, <1>4, ReadKeeps DEF Counting, FreeCounting

\* The last access of a free is the atomic Free.
LEMMA FreeStoreCountIsFree ==
    ASSUME ThreadInv, NEW t \in Thread, OthersIdle(t), FreeStoreCount(t)
    PROVE  ThreadInv' /\ Books!Next
<1> DEFINE j == job[t]
           w == j.bucket
<1>1. /\ pc[t] = "freestorecount" /\ Books!IInv
      /\ freenum' = [freenum EXCEPT ![w] = (j.count + 1) % CountMod]
      /\ held' = [held EXCEPT ![j.obj] = NotHeld]
      /\ Return(t) /\ UNCHANGED <<created, used, req>>
    BY DEF FreeStoreCount, ThreadInv
<1>2. FreesItsBlock("freestorecount", j) /\ created = NSet
    BY <1>1 DEF ThreadInv, LocalsTrue, Freeing, FreeCounting
<1>3. /\ w \in Bucket /\ GivenBack(held[j.obj]) = {w} /\ j.bit \in UsedBefore[w]
      /\ freenum[w] \in Nat /\ BlockNum[SetOf[w]] \in Nat /\ freenum[w] < BlockNum[SetOf[w]]
    BY <1>1, <1>2, FreedIsMarked
<1>4. /\ j.obj \in Obj /\ held[j.obj] \in Handle /\ j.bit = held[j.obj].idx
      /\ j.count = freenum[w] /\ j.bit \notin used[w]
    BY <1>2 DEF FreesItsBlock, FreeCounting
<1>5. (j.count + 1) % CountMod = freenum[w] + 1
    <2>1. SetOf[w] \in Set
        BY <1>3, BitNumType
    <2>2. CountMod \in Nat /\ BlockNum[SetOf[w]] < CountMod
        BY <2>1, CountAssumption DEF CountAssumption
    <2> QED BY <1>3, <1>4, <2>2
<1>6. Books!Cleared({w}, j.bit)
    <2>1. freenum' = [b \in Bucket |-> IF b \in {w} THEN freenum[b] + 1 ELSE freenum[b]]
        BY <1>1, <1>3, <1>5, BooksTypes
    <2>2. UsedBefore' = [b \in Bucket |-> used[b]]
        BY <1>1, ReturnedBitmap DEF ThreadInv
    <2>3. ASSUME NEW b \in Bucket
          PROVE  used[b] = IF b \in {w} THEN UsedBefore[b] \ {j.bit} ELSE UsedBefore[b]
        <3>1. UsedBefore[b] = (IF w = b THEN used[b] \cup {j.bit} ELSE used[b])
            BY <1>1, OneCallTakenBack DEF TakesBackOneCall, FreeCounting
        <3> QED BY <1>4, <3>1
    <2>4. UsedBefore' = [b \in Bucket |->
                            IF b \in {w} THEN UsedBefore[b] \ {j.bit} ELSE UsedBefore[b]]
        BY <2>2, <2>3
    <2> QED BY <2>1, <2>4, SameConstants DEF Books!Cleared
<1>7. Books!Free(j.obj)
    <2>1. held[j.obj] \in Books!Handle /\ Books!GivenBack(held[j.obj]) = {w}
        BY <1>3, <1>4, SameConstants, SameLoops
    <2>2. Books!Cleared(Books!GivenBack(held[j.obj]), held[j.obj].idx)
        BY <1>4, <1>6, <2>1
    <2> QED BY <1>1, <2>1, <2>2 DEF Books!Free
<1>8. Books!Next
    BY <1>4, <1>7 DEF Books!Next
<1>9. DOMAIN used' = Bucket
    BY <1>1 DEF ThreadInv, Functions
<1>10. SetsFirst'
    BY <1>1, <1>2 DEF SetsFirst
<1> QED BY <1>1, <1>8, <1>9, <1>10, ReturnKeeps

----------------------------------------------------------------------------
(* The specification *)

\* With no call under way the bitmap is as it was.
IdleBitmap ==
    (\A t \in Thread : pc[t] = "idle") => \A b \in Bucket : UsedBefore[b] = used[b]

LEMMA IdleBitmapNow == IdleBitmap
BY DEF IdleBitmap, UsedBefore

LEMMA IdleBitmapNext == IdleBitmap'
BY IdleBitmapNow, PTL

LEMMA InitHolds == ThreadInit => Books!Init /\ ThreadInv
<1> SUFFICES ASSUME ThreadInit PROVE Books!Init /\ ThreadInv
    OBVIOUS
<1>1. /\ Init /\ DOMAIN pc = Thread /\ DOMAIN job = Thread
      /\ \A t \in Thread : pc[t] = "idle"
    BY DEF ThreadInit
<1>2. UsedBefore = [b \in Bucket |-> {}] /\ DOMAIN used = Bucket
    BY <1>1, IdleBitmapNow, PointwiseNow DEF Init, IdleBitmap, Pointwise
<1>3. Books!Init
    BY <1>1, <1>2, SameConstants DEF Init, Books!Init
<1>4. Books!IInv
    BY <1>3, Books!InitIInv, SameConstants, HeapAssumption, NoHandleAssumption
       DEF HeapAssumption, NoHandleAssumption
<1>5. SetsFirst
    BY <1>1, NoHandleAssumption DEF NoHandleAssumption, Init, SetsFirst
<1>6. \A t \in Thread : LocalsTrue(pc[t], job[t])
    BY <1>1, IdleSaysNothing
<1> QED BY <1>1, <1>2, <1>3, <1>4, <1>5, <1>6 DEF ThreadInv, Functions

LEMMA CreateSetIsCreate ==
    ASSUME ThreadInv, CreateSet
    PROVE  ThreadInv' /\ Books!Next
<1>1. /\ created < NSet /\ created' = created + 1 /\ created \in 0..NSet
      /\ used' = [b \in Bucket |-> IF SetOf[b] = created + 1 THEN {} ELSE used[b]]
      /\ freenum' = [b \in Bucket |->
                        IF SetOf[b] = created + 1 THEN BlockNum[SetOf[b]] ELSE freenum[b]]
      /\ UNCHANGED <<held, req, pc, job>>
    BY BooksTypes DEF CreateSet, CreateBucketSet, ThreadInv
<1>2. NSet \in Nat
    BY HeapAssumption DEF HeapAssumption
<1>3. /\ \A t \in Thread : pc[t] = "idle" /\ pc'[t] = "idle"
      /\ \A o \in Obj : held[o] \notin Handle
    BY <1>1, <1>2 DEF ThreadInv, LocalsTrue, SetsFirst
<1>4. \A b \in Bucket : UsedBefore[b] = used[b] /\ UsedBefore'[b] = used'[b]
    BY <1>3, IdleBitmapNow, IdleBitmapNext DEF IdleBitmap
<1>5. UsedBefore' = [b \in Bucket |-> IF SetOf[b] = created + 1 THEN {} ELSE UsedBefore[b]]
    BY <1>1, <1>4, PointwiseNext DEF Pointwise
<1>6. Books!CreateBucketSet
    BY <1>1, <1>5, SameConstants DEF Books!CreateBucketSet
<1>7. Books!Next
    BY <1>6 DEF Books!Next
<1>8. Books!IInv'
    BY <1>7, Books!NextKeepsIInv, SameConstants, HeapAssumption, NoHandleAssumption
       DEF ThreadInv, HeapAssumption, NoHandleAssumption
<1>9. \A t \in Thread : LocalsTrue(pc[t], job[t])'
    BY <1>3, IdleSaysNothingNext
<1>10. Functions' /\ SetsFirst'
    BY <1>1, <1>3 DEF ThreadInv, Functions, SetsFirst
<1> QED BY <1>7, <1>8, <1>9, <1>10 DEF ThreadInv

\* While calls do not overlap, a thread that makes an access is alone in its call.
LEMMA OnlyCaller ==
    ASSUME ThreadInv, CallsDoNotOverlap, CallsDoNotOverlap', NEW t \in Thread,
           \/ pc[t] # "idle"
           \/ \E label, locals : label # "idle" /\ Goto(t, label, locals)
    PROVE  OthersIdle(t)
<1>1. CASE pc[t] # "idle"
    BY <1>1 DEF CallsDoNotOverlap, OthersIdle
<1>2. CASE \E label, locals : label # "idle" /\ Goto(t, label, locals)
    <2>1. PICK label, locals : label # "idle" /\ Goto(t, label, locals)
        BY <1>2
    <2>2. pc' = [pc EXCEPT ![t] = label] /\ DOMAIN pc = Thread
        BY <2>1 DEF Goto, ThreadInv, Functions
    <2>3. pc'[t] # "idle" /\ \A u \in Thread \ {t} : pc'[u] = pc[u]
        BY <2>1, <2>2
    <2> QED BY <2>3 DEF CallsDoNotOverlap, OthersIdle
<1> QED BY <1>1, <1>2

\* A step that changes nothing keeps the invariant.
LEMMA StutterKeeps ==
    ASSUME ThreadInv, UNCHANGED threadVars
    PROVE  ThreadInv' /\ Books!vars' = Books!vars
<1>1. UNCHANGED <<created, used, freenum, held, req, pc, job>>
    BY DEF threadVars, vars
<1>2. UsedBefore' = UsedBefore
    BY <1>1 DEF UsedBefore
<1>3. Books!vars' = Books!vars
    BY <1>1, <1>2 DEF Books!vars
<1>4. Books!IInv'
    BY <1>3, Books!NextKeepsIInv, SameConstants, HeapAssumption, NoHandleAssumption
       DEF ThreadInv, HeapAssumption, NoHandleAssumption
<1>5. Functions' /\ SetsFirst'
    BY <1>1 DEF ThreadInv, Functions, SetsFirst
<1>6. ASSUME NEW t \in Thread
      PROVE  LocalsTrue(pc[t], job[t])'
    <2>1. /\ \A b : NothingLeft(b)' <=> NothingLeft(b)
          /\ \A n : Candidates(n)' = Candidates(n)
          /\ \A h : GivenBack(h)' = GivenBack(h)
        BY <1>1, <1>2 DEF NothingLeft, Candidates, Live, GivenBack, Lookup, Registered
    <2>2. LocalsTrue(pc[t], job[t])
        BY DEF ThreadInv
    <2>3. PassedForNothing(job[t]) => PassedForNothing(job[t])'
        BY <1>1, <2>1 DEF PassedForNothing
    <2>4. ScannedInOrder(pc[t], job[t]) => ScannedInOrder(pc[t], job[t])'
        BY <1>1, <1>2 DEF ScannedInOrder
    <2>5. FreesItsBlock(pc[t], job[t]) => FreesItsBlock(pc[t], job[t])'
        BY <1>1, <2>1 DEF FreesItsBlock
    <2> QED BY <1>1, <2>2, <2>3, <2>4, <2>5 DEF LocalsTrue
<1> QED BY <1>3, <1>4, <1>5, <1>6 DEF ThreadInv

\* Every access is a step of the atomic heap or changes nothing of it.
LEMMA NextHolds ==
    ASSUME ThreadInv, CallsDoNotOverlap, CallsDoNotOverlap',
           [ThreadNext]_threadVars
    PROVE  ThreadInv' /\ [Books!Next]_(Books!vars)
<1>1. CASE UNCHANGED threadVars
    BY <1>1, StutterKeeps
<1>2. CASE CreateSet
    BY <1>2, CreateSetIsCreate
<1>3. ASSUME NEW t \in Thread, NEW o \in Obj, CallFree(t, o)
      PROVE  ThreadInv' /\ [Books!Next]_(Books!vars)
    <2>1. OthersIdle(t)
        BY <1>3, OnlyCaller DEF CallFree
    <2> QED BY <1>3, <2>1, CallFreeKeeps
<1>4. ASSUME NEW t \in Thread, NEW o \in Obj, NEW n \in Size, CallMalloc(t, o, n)
      PROVE  ThreadInv' /\ [Books!Next]_(Books!vars)
    <2>1. OthersIdle(t)
        BY <1>4, OnlyCaller DEF CallMalloc
    <2> QED BY <1>4, <2>1, CallMallocKeeps
<1>5. ASSUME NEW t \in Thread,
             \/ AskBucket(t) \/ MallocNull(t) \/ TestByte(t) \/ TestBit(t)
             \/ LoadByte(t) \/ StoreByte(t) \/ LoadCount(t) \/ StoreCount(t)
             \/ FreeLoadByte(t) \/ FreeStoreByte(t) \/ FreeLoadCount(t) \/ FreeStoreCount(t)
      PROVE  ThreadInv' /\ [Books!Next]_(Books!vars)
    <2>1. pc[t] # "idle"
        BY <1>5 DEF AskBucket, MallocNull, TestByte, TestBit, LoadByte, StoreByte, LoadCount,
                    StoreCount, FreeLoadByte, FreeStoreByte, FreeLoadCount, FreeStoreCount
    <2>2. OthersIdle(t)
        BY <2>1, OnlyCaller
    <2> QED BY <1>5, <2>2, AskBucketKeeps, MallocNullIsMallocFails, TestByteKeeps,
               TestBitKeeps, LoadByteKeeps, StoreByteKeeps, LoadCountKeeps,
               StoreCountIsMalloc, FreeLoadByteKeeps, FreeStoreByteKeeps,
               FreeLoadCountKeeps, FreeStoreCountIsFree
<1> QED BY <1>1, <1>2, <1>3, <1>4, <1>5 DEF ThreadNext

\* Accesses add up to atomic calls as long as no two threads are in a call at once: the
\* mutex the engine declares would be enough if it were taken around malloc and free.
THEOREM LockMakesCallsAtomic ==
    ThreadSpec /\ []CallsDoNotOverlap => CallsAreAtomic
<1>1. ThreadInit => Heap!Init /\ ThreadInv
    BY InitHolds, SameHeap
<1>2. ThreadInv /\ CallsDoNotOverlap /\ CallsDoNotOverlap' /\ [ThreadNext]_threadVars
          => ThreadInv' /\ [Heap!Next]_(Heap!vars)
    <2>1. ThreadInv /\ CallsDoNotOverlap /\ CallsDoNotOverlap' /\ [ThreadNext]_threadVars
              => ThreadInv' /\ [Books!Next]_(Books!vars)
        BY NextHolds
    <2>2. Heap!vars' = Books!vars'
        BY DEF Heap!vars, Books!vars
    <2>3. [Books!Next]_(Books!vars) => [Heap!Next]_(Heap!vars)
        BY <2>2, SameHeap
    <2> QED BY <2>1, <2>3
<1> QED BY <1>1, <1>2, PTL DEF ThreadSpec, CallsAreAtomic, Heap!Spec

\* With one dispatch thread nothing has to be locked.
THEOREM OneThreadIsAtomic ==
    ASSUME NEW t, Thread = {t}
    PROVE  ThreadSpec => CallsAreAtomic
<1>1. CallsDoNotOverlap
    BY DEF CallsDoNotOverlap
<1> QED BY <1>1, LockMakesCallsAtomic, PTL

\* No block is handed to two objects while calls do not overlap; the run with two threads
\* shows that it happens when they do.
THEOREM LockKeepsBlocksApart ==
    ThreadSpec /\ []CallsDoNotOverlap => []NoSharedBlock
<1>1. ThreadInit => ThreadInv
    BY InitHolds
<1>2. ThreadInv /\ CallsDoNotOverlap /\ CallsDoNotOverlap' /\ [ThreadNext]_threadVars
          => ThreadInv'
    BY NextHolds
<1>3. ThreadInv => NoSharedBlock
    BY SameConstants DEF ThreadInv, Books!IInv, Books!Marked, NoSharedBlock
<1> QED BY <1>1, <1>2, <1>3, PTL DEF ThreadSpec

\* All the way down: while calls do not overlap, the accesses implement the block pool.
THEOREM LockImplementsPool ==
    BitmapCovers => (ThreadSpec /\ []CallsDoNotOverlap => Books!PoolSpec)
<1> SUFFICES ASSUME BitmapCovers
             PROVE  ThreadSpec /\ []CallsDoNotOverlap => Books!PoolSpec
    OBVIOUS
<1>1. Books!BitmapCovers
    BY SameConstants DEF BitmapCovers, Books!BitmapCovers, BitNum, Books!BitNum
<1>2. Books!Spec => Books!PoolSpec
    BY <1>1, Books!ImplementsPool, SameConstants, HeapAssumption, NoHandleAssumption
       DEF HeapAssumption, NoHandleAssumption
<1>3. ThreadInit => Books!Init /\ ThreadInv
    BY InitHolds
<1>4. ThreadInv /\ CallsDoNotOverlap /\ CallsDoNotOverlap' /\ [ThreadNext]_threadVars
          => ThreadInv' /\ [Books!Next]_(Books!vars)
    BY NextHolds
<1> QED BY <1>2, <1>3, <1>4, PTL DEF ThreadSpec, Books!Spec
=============================================================================
