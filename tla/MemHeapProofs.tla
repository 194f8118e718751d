--------------------------- MODULE MemHeapProofs ---------------------------
(***************************************************************************)
(* What is proved of MemHeap for every number of sets, buckets, blocks and *)
(* objects that keeps to the documented limits (HeapAssumption).           *)
(***************************************************************************)
EXTENDS MemHeap, FiniteSetTheorems, WellFoundedInduction, TLAPS

Last(b) == BlockNum[SetOf[b]] - 1

----------------------------------------------------------------------------
(* Lemmas on numbers, buckets and bits *)

\* A nonempty set of naturals has a least element: the scans for a first clear bit
\* and a first serving bucket end.
LEMMA LeastElement ==
    ASSUME NEW S \in SUBSET Nat, S # {}
    PROVE  \E m \in S : \A n \in S : m <= n
<1>1. PICK m \in S : \A n \in S : <<n, m>> \notin OpToRel(<, Nat)
    BY NatLessThanWellFounded, WFMin, Zenon
<1>2. \A n \in S : ~(n < m)
    <2> TAKE n \in S
    <2>1. <<n, m>> \in Nat \X Nat /\ <<n, m>>[1] = n /\ <<n, m>>[2] = m
        OBVIOUS
    <2> QED BY <1>1, <2>1 DEF OpToRel
<1> QED BY <1>2

LEMMA SmallModulo ==
    ASSUME NEW i \in Nat, NEW m \in Nat, i < m
    PROVE  i % m = i
OBVIOUS

\* While there are fewer buckets than ids, the byte never wraps.
LEMMA IdIsNumber ==
    ASSUME NEW b \in Bucket
    PROVE  BucketId(b) = b /\ b \in 1..IdMod - 1
<1>1. b \in Nat /\ IdMod \in Nat /\ 1 <= b /\ b < IdMod
    BY HeapAssumption DEF HeapAssumption, Bucket
<1> QED BY <1>1, SmallModulo DEF BucketId

\* The constants of a bucket have the types the model gives them.
LEMMA BucketFacts ==
    ASSUME NEW b \in Bucket
    PROVE  /\ SetOf[b] \in Set /\ b \in Nat
           /\ BlockNum[SetOf[b]] \in Nat /\ BlockNum[SetOf[b]] >= 1
           /\ BlockNum[SetOf[b]] <= IdxMod
           /\ BitNum(SetOf[b]) \in Nat
<1>1. SetOf[b] \in Set /\ b \in Nat
    BY HeapAssumption DEF HeapAssumption, Bucket
<1>2. BlockNum[SetOf[b]] \in 1..IdxMod /\ IdxMod \in Nat
    BY <1>1, HeapAssumption DEF HeapAssumption
<1>3. BlockNum[SetOf[b]] \div ByteBits \in Nat
    BY <1>2, HeapAssumption DEF HeapAssumption
<1>4. BitNum(SetOf[b]) \in Nat
    BY <1>2, <1>3, HeapAssumption DEF HeapAssumption, BitNum
<1> QED BY <1>1, <1>2, <1>4

\* A bucket has as many block indices as blocks.
LEMMA BlocksOfBucket ==
    ASSUME NEW b \in Bucket
    PROVE  IsFiniteSet(0..Last(b)) /\ Cardinality(0..Last(b)) = BlockNum[SetOf[b]]
<1>1. 0 \in Int /\ Last(b) \in Int /\ ~(0 > Last(b)) /\ Last(b) - 0 + 1 = BlockNum[SetOf[b]]
    BY BucketFacts DEF Last
<1>2. /\ IsFiniteSet(0..Last(b))
      /\ Cardinality(0..Last(b)) = IF 0 > Last(b) THEN 0 ELSE Last(b) - 0 + 1
    BY <1>1, FS_Interval, Zenon
<1> QED BY <1>1, <1>2

\* The loops visit the buckets in the order of their numbers.
LEMMA LoopOrder ==
    ASSUME NEW b \in Bucket, NEW c \in Bucket
    PROVE  Before(b, c) <=> b < c
<1>1. BucketId(b) = b /\ BucketId(c) = c
    BY IdIsNumber
<1>2. SetOf[b] \in Nat /\ SetOf[c] \in Nat
    BY BucketFacts DEF Set
<1>3. /\ b < c => SetOf[b] <= SetOf[c]
      /\ c < b => SetOf[c] <= SetOf[b]
    BY HeapAssumption DEF HeapAssumption
<1> QED BY <1>1, <1>2, <1>3, BucketFacts DEF Before

\* Every id of a live bucket is looked up as that bucket, and no other id is found.
LEMMA LookupFindsBucket ==
    ASSUME NEW b \in Bucket, Live(b)
    PROVE  Registered(b) = {b} /\ Lookup(b) = b
<1>1. Registered(b) = {b}
    BY IdIsNumber DEF Registered
<1>2. b <= b
    BY BucketFacts
<1> QED BY <1>1, <1>2 DEF Lookup

----------------------------------------------------------------------------
(* The inductive invariant *)

\* MarkedIffHeld with every Lookup resolved: a handle names its bucket.
Marked ==
    /\ \A o \in Obj : held[o] \in Handle =>
        /\ held[o].bucketId \in Bucket
        /\ Live(held[o].bucketId)
        /\ held[o].idx \in used[held[o].bucketId]
    /\ \A b \in Bucket : Live(b) => \A i \in used[b] :
        \E o \in Obj : held[o] \in Handle /\ held[o].bucketId = b /\ held[o].idx = i
    /\ \A o, p \in Obj : held[o] \in Handle /\ held[o] = held[p] => o = p

IInv == TypeOK /\ BooksBalance /\ Marked

\* Resolving the lookups changes nothing.
LEMMA MarkedImpliesMarkedIffHeld == TypeOK /\ Marked => MarkedIffHeld
<1> SUFFICES ASSUME TypeOK, Marked PROVE MarkedIffHeld
    OBVIOUS
<1>1. ASSUME NEW o \in Obj, held[o] \in Handle
      PROVE  /\ held[o].bucketId \in Bucket
             /\ Live(held[o].bucketId)
             /\ Registered(held[o].bucketId) = {held[o].bucketId}
             /\ Lookup(held[o].bucketId) = held[o].bucketId
    BY <1>1, LookupFindsBucket DEF Marked
<1>2. \A o \in Obj : held[o] \in Handle =>
        /\ held[o].bucketId # 0
        /\ Registered(held[o].bucketId) # {}
        /\ held[o].idx \in used[Lookup(held[o].bucketId)]
    BY <1>1, IdIsNumber DEF Marked
<1>3. \A b \in Bucket : Live(b) => \A i \in used[b] :
        \E o \in Obj : held[o] \in Handle /\ BlockOf(held[o]) = <<b, i>>
    BY <1>1 DEF Marked, BlockOf
<1> QED BY <1>2, <1>3 DEF Marked, MarkedIffHeld

\* A bucket that believes it has a free block has a clear bit below its last block,
\* so the first clear bit is one, and is no index malloc could truncate.
LEMMA FirstClearIsFree ==
    ASSUME TypeOK, BooksBalance, NEW b \in Bucket, Live(b), Marks(b)
    PROVE  /\ freenum[b] - 1 \in Nat
           /\ FirstClear(b) \in 0..Last(b)
           /\ FirstClear(b) \notin used[b]
           /\ FirstClear(b) % IdxMod = FirstClear(b)
           /\ FirstClear(b) \in 0..IdxMod - 1
           /\ Serves(b)
<1> DEFINE N == BlockNum[SetOf[b]]
           M == BitNum(SetOf[b])
<1>1. N \in Nat /\ N >= 1 /\ N <= IdxMod /\ M \in Nat /\ IdxMod \in Nat
    BY BucketFacts, HeapAssumption DEF HeapAssumption
<1>2. ClearBits(b) \subseteq Nat /\ ClearBits(b) # {}
    BY <1>1 DEF ClearBits, Marks
<1>3. PICK m \in ClearBits(b) : \A j \in ClearBits(b) : m <= j
    BY <1>2, LeastElement
<1>4. FirstClear(b) \in ClearBits(b) /\ \A j \in ClearBits(b) : FirstClear(b) <= j
    BY <1>3 DEF FirstClear
<1>5. FirstClear(b) \in 0..M - 1 /\ FirstClear(b) \notin used[b]
    BY <1>4 DEF ClearBits
<1>6. used[b] # 0..N - 1
    <2>1. Cardinality(0..N - 1) = N
        BY BlocksOfBucket DEF Last
    <2>2. freenum[b] # 0 /\ freenum[b] = N - Cardinality(used[b])
        BY DEF Marks, BooksBalance
    <2> QED BY <2>1, <2>2, <1>1
<1>7. PICK i \in 0..N - 1 : i \notin used[b]
    BY <1>6 DEF BooksBalance
<1>8. FirstClear(b) < N
    <2> SUFFICES ASSUME FirstClear(b) >= N PROVE FALSE
        BY <1>1, <1>5
    <2>1. i \in ClearBits(b)
        BY <1>1, <1>5, <1>7 DEF ClearBits
    <2> QED BY <2>1, <1>1, <1>4, <1>5, <1>7
<1>9. FirstClear(b) \in 0..IdxMod - 1 /\ FirstClear(b) % IdxMod = FirstClear(b)
    BY <1>1, <1>5, <1>8, SmallModulo
<1>10. freenum[b] \in Nat /\ freenum[b] # 0
    BY DEF TypeOK, Marks
<1> QED BY <1>1, <1>5, <1>8, <1>9, <1>10 DEF Last, Serves

\* The bucket that serves a request is the only one whose books change: a bucket asked
\* before it is full and marks nothing.
LEMMA WinnerAloneMarks ==
    ASSUME TypeOK, BooksBalance, NEW n, NEW w \in Winners(n)
    PROVE  /\ w \in Bucket /\ Live(w) /\ Marks(w) /\ n <= BlockSize[SetOf[w]]
           /\ Winners(n) = {w}
           /\ {b \in Asked(n) : Marks(b)} = {w}
<1>1. w \in Bucket /\ w \in Candidates(n) /\ Live(w) /\ Serves(w) /\ Marks(w)
      /\ n <= BlockSize[SetOf[w]]
    BY DEF Winners, Candidates, Serves
<1>2. ASSUME NEW v \in Winners(n)
      PROVE  v = w
    <2>1. v \in Bucket /\ v \in Candidates(n) /\ Serves(v)
        BY DEF Winners, Candidates
    <2>2. ~Before(v, w) /\ ~Before(w, v)
        BY <1>1, <2>1 DEF Winners
    <2> QED BY <1>1, <2>1, <2>2, LoopOrder, BucketFacts
<1>3. w \in Asked(n)
    BY <1>1, <1>2, LoopOrder, BucketFacts DEF Asked
<1>4. ASSUME NEW b \in Asked(n), Marks(b)
      PROVE  b = w
    <2>1. b \in Candidates(n) /\ b \in Bucket /\ Live(b)
        BY DEF Asked, Candidates
    <2>2. Serves(b)
        BY <1>4, <2>1, FirstClearIsFree
    <2>3. ~Before(b, w) /\ ~Before(w, b)
        BY <1>1, <2>1, <2>2 DEF Winners, Asked
    <2> QED BY <1>1, <2>1, <2>3, LoopOrder, BucketFacts
<1> QED BY <1>1, <1>2, <1>3, <1>4

\* A request no bucket serves marks nothing: no bucket asked has a free block.
LEMMA NoWinnerNoMarks ==
    ASSUME TypeOK, BooksBalance, NEW n, Winners(n) = {}
    PROVE  \A b \in Candidates(n) : ~Marks(b)
<1> SUFFICES ASSUME NEW c \in Candidates(n), Marks(c) PROVE FALSE
    OBVIOUS
<1> DEFINE S == {b \in Candidates(n) : Serves(b)}
<1>1. c \in Bucket /\ Live(c)
    BY DEF Candidates
<1>2. c \in S
    BY <1>1, FirstClearIsFree
<1>3. S \subseteq Nat
    BY BucketFacts DEF Candidates
<1>4. PICK m \in S : \A b \in S : m <= b
    BY <1>2, <1>3, LeastElement
<1>5. \A b \in Candidates(n) : Serves(b) => ~Before(b, m)
    BY <1>3, <1>4, LoopOrder DEF Candidates
<1> QED BY <1>4, <1>5 DEF Winners

----------------------------------------------------------------------------
(* Each operation keeps the invariant *)

LEMMA InitIInv == Init => IInv
<1> SUFFICES ASSUME Init PROVE IInv
    OBVIOUS
<1>1. \A b \in Bucket : ~Live(b)
    BY BucketFacts DEF Init, Live, Set
<1>2. TypeOK
    BY HeapAssumption DEF HeapAssumption, Init, TypeOK
<1>3. BooksBalance
    BY <1>1 DEF BooksBalance
<1>4. Marked
    BY <1>1, NoHandleAssumption DEF NoHandleAssumption, Init, Marked
<1> QED BY <1>2, <1>3, <1>4 DEF IInv

LEMMA CreateKeepsIInv == IInv /\ CreateBucketSet => IInv'
<1> SUFFICES ASSUME IInv, CreateBucketSet PROVE IInv'
    OBVIOUS
<1> USE DEF IInv
<1>1. created \in Nat /\ created' = created + 1 /\ created' \in 0..NSet
    BY HeapAssumption DEF HeapAssumption, TypeOK, CreateBucketSet
<1>2. ASSUME NEW b \in Bucket
      PROVE  /\ Live(b) => Live(b)' /\ used'[b] = used[b] /\ freenum'[b] = freenum[b]
             /\ Live(b)' /\ ~Live(b) =>
                    used'[b] = {} /\ freenum'[b] = BlockNum[SetOf[b]]
             /\ used'[b] \subseteq Nat /\ freenum'[b] \in Nat
    BY <1>1, BucketFacts DEF Live, Set, CreateBucketSet, TypeOK
<1>3. TypeOK'
    <2>1. used' \in [Bucket -> SUBSET Nat] /\ freenum' \in [Bucket -> Nat]
        BY <1>2 DEF CreateBucketSet
    <2> QED BY <1>1, <2>1 DEF TypeOK, CreateBucketSet
<1>4. BooksBalance'
    <2> SUFFICES ASSUME NEW b \in Bucket, Live(b)'
                 PROVE  /\ used'[b] \subseteq 0..BlockNum[SetOf[b]] - 1
                        /\ freenum'[b] = BlockNum[SetOf[b]] - Cardinality(used'[b])
        BY DEF BooksBalance
    <2>1. CASE Live(b)
        BY <2>1, <1>2 DEF BooksBalance
    <2>2. CASE ~Live(b)
        BY <2>2, <1>2, FS_EmptySet, BucketFacts
    <2> QED BY <2>1, <2>2
<1>5. Marked'
    <2>1. held' = held
        BY DEF CreateBucketSet
    <2>2. \A b \in Bucket : Live(b)' => \A i \in used'[b] : Live(b) /\ i \in used[b]
        BY <1>2
    <2> QED BY <1>2, <2>1, <2>2 DEF Marked
<1> QED BY <1>3, <1>4, <1>5

LEMMA MallocKeepsIInv ==
    ASSUME IInv, NEW o \in Obj, NEW n \in Size, Malloc(o, n)
    PROVE  IInv'
<1> USE DEF IInv
<1>1. PICK w \in Winners(n) : held' = [held EXCEPT ![o] =
                                [bucketId |-> BucketId(w), idx |-> FirstClear(w) % IdxMod]]
    BY DEF Malloc
<1> DEFINE f == FirstClear(w)
           h == [bucketId |-> w, idx |-> f]
<1>2. /\ w \in Bucket /\ Live(w) /\ Marks(w)
      /\ {b \in Asked(n) : Marks(b)} = {w}
    BY WinnerAloneMarks
<1>3. /\ freenum[w] - 1 \in Nat
      /\ f \in 0..Last(w) /\ f \notin used[w] /\ f % IdxMod = f /\ f \in 0..IdxMod - 1
    BY <1>2, FirstClearIsFree
<1>4. h \in Handle /\ held' = [held EXCEPT ![o] = h]
    <2>1. BucketId(w) = w /\ w \in 0..IdMod - 1
        BY <1>2, IdIsNumber, HeapAssumption DEF HeapAssumption
    <2>2. h \in Handle
        BY <2>1, <1>3 DEF Handle
    <2> QED BY <2>1, <2>2, <1>1, <1>3
<1>5. /\ used' = [b \in Bucket |-> IF b = w THEN used[b] \cup {f} ELSE used[b]]
      /\ freenum' = [b \in Bucket |-> IF b = w THEN freenum[b] - 1 ELSE freenum[b]]
    BY <1>2 DEF Malloc, Taken
<1>6. created' = created /\ \A b \in Bucket : Live(b)' <=> Live(b)
    BY DEF Malloc, Live
<1>7. used[w] \subseteq 0..Last(w) /\ IsFiniteSet(used[w])
    <2>1. used[w] \subseteq 0..Last(w)
        BY <1>2 DEF BooksBalance, Last
    <2>2. IsFiniteSet(0..Last(w))
        BY <1>2, BlocksOfBucket
    <2> QED BY <2>1, <2>2, FS_Subset
<1>8. TypeOK'
    <2>1. used' \in [Bucket -> SUBSET Nat]
        BY <1>3, <1>5, <1>2, BucketFacts DEF TypeOK, Last
    <2>2. freenum' \in [Bucket -> Nat]
        BY <1>3, <1>5 DEF TypeOK
    <2>3. held' \in [Obj -> Handle \cup {NotHeld, NullPtr}]
        BY <1>4 DEF TypeOK
    <2>4. req' \in [Obj -> Size \cup {0}]
        BY DEF TypeOK, Malloc
    <2> QED BY <2>1, <2>2, <2>3, <2>4, <1>6 DEF TypeOK
<1>9. BooksBalance'
    <2> SUFFICES ASSUME NEW b \in Bucket, Live(b)
                 PROVE  /\ used'[b] \subseteq 0..BlockNum[SetOf[b]] - 1
                        /\ freenum'[b] = BlockNum[SetOf[b]] - Cardinality(used'[b])
        BY <1>6 DEF BooksBalance
    <2>1. CASE b = w
        <3>1. Cardinality(used[w] \cup {f}) = Cardinality(used[w]) + 1
            BY <1>3, <1>7, FS_AddElement
        <3>2. Cardinality(used[w]) \in Nat
            BY <1>7, FS_CardinalityType
        <3>3. freenum[w] = BlockNum[SetOf[w]] - Cardinality(used[w])
            BY <1>2 DEF BooksBalance
        <3>4. freenum'[w] = freenum[w] - 1 /\ used'[w] = used[w] \cup {f}
            BY <1>2, <1>5
        <3> QED BY <2>1, <3>1, <3>2, <3>3, <3>4, <1>3, <1>7, <1>2, BucketFacts DEF Last
    <2>2. CASE b # w
        BY <2>2, <1>5 DEF BooksBalance
    <2> QED BY <2>1, <2>2
<1>10. Marked'
    <2>1. held[o] \notin Handle /\ held'[o] = h
        BY <1>4 DEF Malloc, TypeOK
    <2>2. \A p \in Obj : p # o => held'[p] = held[p]
        BY <1>4 DEF TypeOK
    <2>3. \A p \in Obj : held[p] \in Handle => held[p] # h
        BY <1>3, <1>2 DEF Marked
    <2>4. ASSUME NEW p \in Obj, held'[p] \in Handle
          PROVE  /\ held'[p].bucketId \in Bucket
                 /\ Live(held'[p].bucketId)
                 /\ held'[p].idx \in used'[held'[p].bucketId]
        <3>1. CASE p = o
            BY <3>1, <2>1, <1>2, <1>5
        <3>2. CASE p # o
            BY <3>2, <2>2, <2>4, <1>5 DEF Marked
        <3> QED BY <3>1, <3>2
    <2>5. ASSUME NEW b \in Bucket, Live(b), NEW i \in used'[b]
          PROVE  \E p \in Obj : held'[p] \in Handle /\ held'[p].bucketId = b /\ held'[p].idx = i
        <3>1. CASE b = w /\ i = f
            BY <3>1, <2>1, <1>4
        <3>2. CASE i \in used[b]
            <4>1. PICK p \in Obj : held[p] \in Handle /\ held[p].bucketId = b /\ held[p].idx = i
                BY <3>2, <2>5 DEF Marked
            <4> QED BY <4>1, <2>1, <2>2
        <3> QED BY <2>5, <3>1, <3>2, <1>5
    <2>6. ASSUME NEW p \in Obj, NEW q \in Obj, held'[p] \in Handle, held'[p] = held'[q]
          PROVE  p = q
        BY <2>6, <2>1, <2>2, <2>3 DEF Marked
    <2> QED BY <2>4, <2>5, <2>6, <1>6 DEF Marked
<1> QED BY <1>8, <1>9, <1>10

LEMMA MallocFailsKeepsIInv ==
    ASSUME IInv, NEW o \in Obj, NEW n \in Size, MallocFails(o, n)
    PROVE  IInv'
<1> USE DEF IInv
<1>1. {b \in Asked(n) : Marks(b)} = {}
    BY NoWinnerNoMarks DEF MallocFails, Asked
<1>2. used' = used /\ freenum' = freenum /\ created' = created
    BY <1>1 DEF MallocFails, Taken, TypeOK
<1>3. held' = [held EXCEPT ![o] = NullPtr] /\ held[o] \notin Handle /\ NullPtr \notin Handle
    BY NoHandleAssumption DEF NoHandleAssumption, MallocFails
<1>4. TypeOK'
    BY <1>2, <1>3 DEF TypeOK, MallocFails
<1>5. BooksBalance'
    BY <1>2 DEF BooksBalance, Live
<1>6. Marked'
    <2>1. \A p \in Obj : held'[p] \in Handle <=> held[p] \in Handle
        BY <1>3 DEF TypeOK
    <2>2. \A p \in Obj : held[p] \in Handle => held'[p] = held[p]
        BY <1>3 DEF TypeOK
    <2> QED BY <1>2, <2>1, <2>2 DEF Marked, Live
<1> QED BY <1>4, <1>5, <1>6

LEMMA FreeKeepsIInv ==
    ASSUME IInv, NEW o \in Obj, Free(o)
    PROVE  IInv'
<1> USE DEF IInv
<1> DEFINE w == held[o].bucketId
           i == held[o].idx
<1>1. held[o] \in Handle /\ w \in Bucket /\ Live(w) /\ i \in used[w]
    BY DEF Free, Marked
<1>2. used[w] \subseteq 0..Last(w) /\ IsFiniteSet(used[w])
    <2>1. used[w] \subseteq 0..Last(w)
        BY <1>1 DEF BooksBalance, Last
    <2> QED BY <2>1, <1>1, BlocksOfBucket, FS_Subset
<1>3. GivenBack(held[o]) = {w}
    <2>1. Registered(w) = {w} /\ Lookup(w) = w
        BY <1>1, LookupFindsBucket
    <2>2. i < BlockNum[SetOf[w]]
        BY <1>1, <1>2, BucketFacts DEF Last
    <2>3. w # 0
        BY <1>1, HeapAssumption DEF HeapAssumption, Bucket
    <2> QED BY <2>1, <2>2, <2>3 DEF GivenBack
<1>4. /\ used' = [b \in Bucket |-> IF b = w THEN used[b] \ {i} ELSE used[b]]
      /\ freenum' = [b \in Bucket |-> IF b = w THEN freenum[b] + 1 ELSE freenum[b]]
    BY <1>3 DEF Free, Cleared
<1>5. created' = created /\ held' = [held EXCEPT ![o] = NotHeld] /\ NotHeld \notin Handle
    BY NoHandleAssumption DEF NoHandleAssumption, Free
<1>6. TypeOK'
    BY <1>4, <1>5 DEF TypeOK, Free
<1>7. BooksBalance'
    <2> SUFFICES ASSUME NEW b \in Bucket, Live(b)
                 PROVE  /\ used'[b] \subseteq 0..BlockNum[SetOf[b]] - 1
                        /\ freenum'[b] = BlockNum[SetOf[b]] - Cardinality(used'[b])
        BY <1>5 DEF BooksBalance, Live
    <2>1. CASE b = w
        <3>1. Cardinality(used[w] \ {i}) = Cardinality(used[w]) - 1
            BY <1>1, <1>2, FS_RemoveElement
        <3>2. Cardinality(used[w]) \in Nat /\ BlockNum[SetOf[w]] \in Nat
            BY <1>1, <1>2, FS_CardinalityType, BucketFacts
        <3>3. freenum[w] = BlockNum[SetOf[w]] - Cardinality(used[w])
            BY <1>1 DEF BooksBalance
        <3> QED BY <2>1, <3>1, <3>2, <3>3, <1>2, <1>4, <1>1 DEF Last
    <2>2. CASE b # w
        BY <2>2, <1>4 DEF BooksBalance
    <2> QED BY <2>1, <2>2
<1>8. Marked'
    <2>1. held'[o] \notin Handle /\ \A p \in Obj : p # o => held'[p] = held[p]
        BY <1>5 DEF TypeOK
    <2>2. ASSUME NEW p \in Obj, p # o, held[p] \in Handle
          PROVE  ~(held[p].bucketId = w /\ held[p].idx = i)
        <3>1. held[p] # held[o]
            BY <1>1, <2>2 DEF Marked
        <3> QED BY <3>1, <1>1, <2>2 DEF Handle
    <2>3. \A b \in Bucket : Live(b)' <=> Live(b)
        BY <1>5 DEF Live
    <2>4. ASSUME NEW p \in Obj, held'[p] \in Handle
          PROVE  /\ held'[p].bucketId \in Bucket
                 /\ Live(held'[p].bucketId)
                 /\ held'[p].idx \in used'[held'[p].bucketId]
        <3>1. p # o /\ held'[p] = held[p]
            BY <2>1, <2>4
        <3> QED BY <3>1, <2>2, <2>4, <1>4 DEF Marked
    <2>5. ASSUME NEW b \in Bucket, Live(b), NEW j \in used'[b]
          PROVE  \E p \in Obj : held'[p] \in Handle /\ held'[p].bucketId = b /\ held'[p].idx = j
        <3>1. j \in used[b] /\ ~(b = w /\ j = i)
            BY <2>5, <1>4
        <3>2. PICK p \in Obj : held[p] \in Handle /\ held[p].bucketId = b /\ held[p].idx = j
            BY <3>1, <2>5 DEF Marked
        <3> QED BY <3>1, <3>2, <2>1
    <2>6. ASSUME NEW p \in Obj, NEW q \in Obj, held'[p] \in Handle, held'[p] = held'[q]
          PROVE  p = q
        BY <2>6, <2>1 DEF Marked
    <2> QED BY <2>3, <2>4, <2>5, <2>6 DEF Marked
<1> QED BY <1>6, <1>7, <1>8

LEMMA NextKeepsIInv == IInv /\ [Next]_vars => IInv'
<1> SUFFICES ASSUME IInv, [Next]_vars PROVE IInv'
    OBVIOUS
<1>1. CASE CreateBucketSet
    BY <1>1, CreateKeepsIInv
<1>2. ASSUME NEW o \in Obj, Free(o) PROVE IInv'
    BY <1>2, FreeKeepsIInv
<1>3. ASSUME NEW o \in Obj, NEW n \in Size, Malloc(o, n) PROVE IInv'
    BY <1>3, MallocKeepsIInv
<1>4. ASSUME NEW o \in Obj, NEW n \in Size, MallocFails(o, n) PROVE IInv'
    BY <1>4, MallocFailsKeepsIInv
<1>5. CASE UNCHANGED vars
    BY <1>5 DEF IInv, TypeOK, BooksBalance, Marked, Live, vars
<1> QED BY <1>1, <1>2, <1>3, <1>4, <1>5 DEF Next

----------------------------------------------------------------------------
(* The theorems *)

\* The state keeps its types, in particular _freenum never goes below zero (it is
\* unsigned in the code) and every index fits the 16 bits of a swMemBlockID.
THEOREM TypeCorrect == Spec => []TypeOK
<1>1. IInv => TypeOK
    BY DEF IInv
<1> QED BY <1>1, InitIInv, NextKeepsIInv, PTL DEF Spec

\* The free count and the bitmap of every bucket agree, whatever the number of spare
\* bits its bitmap was given.
THEOREM BooksAlwaysBalance == Spec => []BooksBalance
<1>1. IInv => BooksBalance
    BY DEF IInv
<1> QED BY <1>1, InitIInv, NextKeepsIInv, PTL DEF Spec

\* No block is handed out twice or leaked, as long as the callers give each block back
\* once and the documented limit of 255 buckets is kept.
THEOREM BlocksOwnedOnce == Spec => []MarkedIffHeld
<1>1. IInv => MarkedIffHeld
    BY MarkedImpliesMarkedIffHeld DEF IInv
<1> QED BY <1>1, InitIInv, NextKeepsIInv, PTL DEF Spec

----------------------------------------------------------------------------
(* Best fit, and the abstract pool *)

\* A bucket whose malloc marks nothing really is full.
LEMMA UnmarkedIsFull ==
    ASSUME TypeOK, BooksBalance, BitmapCovers, NEW b \in Bucket, Live(b), ~Marks(b)
    PROVE  used[b] = 0..Last(b)
<1>1. used[b] \subseteq 0..Last(b)
      /\ freenum[b] = BlockNum[SetOf[b]] - Cardinality(used[b])
    BY DEF BooksBalance, Last
<1>2. CASE freenum[b] = 0
    <2>1. Cardinality(used[b]) = BlockNum[SetOf[b]]
        <3>1. Cardinality(used[b]) \in Nat
            BY <1>1, BlocksOfBucket, FS_Subset, FS_CardinalityType
        <3> QED BY <3>1, <1>1, <1>2, BucketFacts
    <2> QED BY <2>1, <1>1, BlocksOfBucket, FS_Subset
<1>3. CASE ClearBits(b) = {}
    <2>1. 0..Last(b) \subseteq 0..BitNum(SetOf[b]) - 1
        BY BucketFacts DEF BitmapCovers, Last
    <2> QED BY <1>1, <1>3, <2>1 DEF ClearBits
<1> QED BY <1>2, <1>3 DEF Marks

\* Ids do not repeat, so no bucket of a set shadows another.
LEMMA CandidateBuckets ==
    ASSUME NEW n, NEW b \in Bucket
    PROVE  b \in Candidates(n) <=> Live(b) /\ n <= BlockSize[SetOf[b]]
<1>1. \A c \in Bucket : BucketId(c) = BucketId(b) => c <= b
    BY IdIsNumber, BucketFacts
<1> QED BY <1>1 DEF Candidates, InOwnSet

LEMMA MallocTakesBestFit ==
    ASSUME SortedSets, BitmapCovers, IInv, NEW o \in Obj, NEW n \in Size, Malloc(o, n),
           NEW p \in Obj
    PROVE  TakesBestFit(p)
<1> USE DEF IInv
<1>1. PICK w \in Winners(n) : held' = [held EXCEPT ![o] =
                                [bucketId |-> BucketId(w), idx |-> FirstClear(w) % IdxMod]]
    BY DEF Malloc
<1>2. w \in Bucket /\ Live(w) /\ BucketId(w) = w /\ Lookup(w) = w
    BY WinnerAloneMarks, IdIsNumber, LookupFindsBucket
<1>3. CASE p # o
    BY <1>1, <1>3 DEF TypeOK, TakesBestFit
<1>4. CASE p = o
    <2>1. held'[p].bucketId = w /\ req'[p] = n
        BY <1>1, <1>2, <1>4 DEF Malloc, TypeOK
    <2> SUFFICES ASSUME NEW b \in Bucket, Live(b), n <= BlockSize[SetOf[b]],
                        BlockSize[SetOf[b]] < BlockSize[SetOf[w]]
                 PROVE  0..BlockNum[SetOf[b]] - 1 \subseteq used[b]
        BY <1>2, <2>1, Zenon DEF TakesBestFit
    <2>2. SetOf[b] \in Set /\ SetOf[w] \in Set
        BY <1>2, BucketFacts
    <2>3. SetOf[b] < SetOf[w]
        <3>1. SetOf[b] \in Nat /\ SetOf[w] \in Nat
            BY <2>2 DEF Set
        <3>2. BlockSize[SetOf[b]] \in Nat /\ BlockSize[SetOf[w]] \in Nat
            BY <2>2, HeapAssumption DEF HeapAssumption
        <3>3. CASE SetOf[w] < SetOf[b]
            <4>1. BlockSize[SetOf[w]] <= BlockSize[SetOf[b]]
                BY <3>3, <2>2 DEF SortedSets
            <4> QED BY <4>1, <3>2
        <3>4. CASE SetOf[w] = SetOf[b]
            BY <3>4, <3>2
        <3> QED BY <3>1, <3>3, <3>4
    <2>4. b \in Candidates(n) /\ Before(b, w)
        BY <2>3, CandidateBuckets DEF Before
    <2>5. ~Marks(b)
        BY <2>4, FirstClearIsFree DEF Winners
    <2> QED BY <2>5, UnmarkedIsFull DEF Last
<1> QED BY <1>3, <1>4

\* Every other step leaves alone what an object with a block holds.
LEMMA StepTakesBestFit ==
    ASSUME SortedSets, BitmapCovers, IInv, Next, NEW p \in Obj
    PROVE  TakesBestFit(p)
<1>1. ASSUME NEW o \in Obj, NEW n \in Size, Malloc(o, n) PROVE TakesBestFit(p)
    BY <1>1, MallocTakesBestFit
<1>2. CASE CreateBucketSet
    BY <1>2 DEF CreateBucketSet, TakesBestFit
<1>3. ASSUME NEW o \in Obj, Free(o) PROVE TakesBestFit(p)
    BY <1>3, NoHandleAssumption DEF NoHandleAssumption, Free, TakesBestFit, IInv, TypeOK
<1>4. ASSUME NEW o \in Obj, NEW n \in Size, MallocFails(o, n) PROVE TakesBestFit(p)
    BY <1>4, NoHandleAssumption
       DEF NoHandleAssumption, MallocFails, TakesBestFit, IInv, TypeOK
<1> QED BY <1>1, <1>2, <1>3, <1>4 DEF Next

\* With the sets created in the order of their block sizes, as the shipped mapserv.xml
\* does, a request never takes a larger block while a smaller one that fits is free.
THEOREM SortedMeansBestFit == SortedSets /\ BitmapCovers => (Spec => BestFit)
<1> SUFFICES ASSUME SortedSets, BitmapCovers PROVE Spec => BestFit
    OBVIOUS
<1>1. IInv /\ [Next]_vars => [\A o \in Obj : TakesBestFit(o)]_vars
    BY StepTakesBestFit
<1> USE DEF SortedSets, BitmapCovers, BitNum, Set
<1> QED BY <1>1, InitIInv, NextKeepsIInv, PTL DEF Spec, BestFit

----------------------------------------------------------------------------
(* The heap implements the pool *)

\* Owned with every lookup resolved.
Resolved ==
    [o \in Obj |-> IF held[o] \in Handle THEN <<held[o].bucketId, held[o].idx>> ELSE held[o]]

OwnedResolved == Owned = Resolved

LEMMA OwnedIsResolved == IInv => OwnedResolved
<1> SUFFICES ASSUME IInv, NEW o \in Obj, held[o] \in Handle
             PROVE  Lookup(held[o].bucketId) = held[o].bucketId
    BY DEF OwnedResolved, Owned, Resolved, BlockOf
<1> QED BY LookupFindsBucket DEF IInv, Marked

LEMMA OwnedIsResolvedNext == IInv' => OwnedResolved'
BY OwnedIsResolved, PTL

\* The blocks objects are in are the marked ones.
LEMMA OwnersBlocks ==
    ASSUME IInv, NEW b \in Bucket, Live(b), NEW i \in 0..Last(b)
    PROVE  /\ <<b, i>> \in PoolBlocks
           /\ i \notin used[b] => \A o \in Obj : Owned[o] # <<b, i>>
           /\ i \in used[b] => \E o \in Obj : Owned[o] = <<b, i>>
<1>1. i \in 0..IdxMod - 1 /\ i < BlockNum[SetOf[b]]
    BY BucketFacts, HeapAssumption DEF HeapAssumption, Last
<1>2. <<b, i>> \in AllBlocks
    BY <1>1 DEF AllBlocks
<1>3. <<b, i>> \in PoolBlocks
    BY <1>1, <1>2 DEF PoolBlocks
<1>4. ASSUME NEW o \in Obj, Owned[o] = <<b, i>>
      PROVE  i \in used[b]
    <2>1. Resolved[o] = <<b, i>>
        BY <1>4, OwnedIsResolved DEF OwnedResolved
    <2>2. CASE held[o] \in Handle
        <3>1. held[o].bucketId = b /\ held[o].idx = i
            BY <2>1, <2>2 DEF Resolved
        <3> QED BY <2>2, <3>1 DEF IInv, Marked
    <2>3. CASE held[o] \notin Handle
        <3>1. <<b, i>> \in {NotHeld, NullPtr}
            BY <2>1, <2>3 DEF Resolved, IInv, TypeOK
        <3> QED BY <3>1, <1>2, NoHandleAssumption DEF NoHandleAssumption
    <2> QED BY <2>2, <2>3
<1>5. ASSUME i \in used[b]
      PROVE  \E o \in Obj : Owned[o] = <<b, i>>
    <2>1. PICK o \in Obj : held[o] \in Handle /\ held[o].bucketId = b /\ held[o].idx = i
        BY <1>5 DEF IInv, Marked
    <2> QED BY <2>1, OwnedIsResolved DEF OwnedResolved, Resolved
<1> QED BY <1>3, <1>4, <1>5

LEMMA InitPool == Init => Pool!Init
<1> SUFFICES ASSUME Init PROVE Pool!Init
    OBVIOUS
<1>1. PoolBlocks = {}
    BY BucketFacts DEF Init, PoolBlocks, AllBlocks, Live, Set
<1>2. Owned = [o \in Obj |-> NotHeld]
    BY NoHandleAssumption DEF NoHandleAssumption, Init, Owned
<1> QED BY <1>1, <1>2 DEF Init, Pool!Init

\* Creating a set makes the pool larger.
LEMMA CreateIsGrow == IInv /\ IInv' /\ CreateBucketSet => Pool!Grow
<1> SUFFICES ASSUME IInv, IInv', CreateBucketSet PROVE Pool!Grow
    OBVIOUS
<1>1. \A b \in Bucket : Live(b) => Live(b)'
    BY BucketFacts DEF Live, Set, CreateBucketSet, IInv, TypeOK
<1>2. PoolBlocks \subseteq PoolBlocks'
    BY <1>1 DEF PoolBlocks, AllBlocks
<1>3. PoolBlocks' \ PoolBlocks \in SUBSET (AllBlocks \ PoolBlocks)
    BY DEF PoolBlocks
<1>4. PoolBlocks' = PoolBlocks \cup (PoolBlocks' \ PoolBlocks)
    BY <1>2
<1>5. Owned' = Owned /\ req' = req
    <2>1. Resolved' = Resolved /\ req' = req
        BY DEF CreateBucketSet, Resolved
    <2> QED BY <2>1, OwnedIsResolved, OwnedIsResolvedNext DEF OwnedResolved
<1> QED BY <1>3, <1>4, <1>5 DEF Pool!Grow

\* A malloc that answers a block takes a free block that fits.
LEMMA MallocIsTake ==
    ASSUME IInv, IInv', NEW o \in Obj, NEW n \in Size, Malloc(o, n)
    PROVE  Pool!Take(o, n)
<1>1. PICK w \in Winners(n) : held' = [held EXCEPT ![o] =
                                [bucketId |-> BucketId(w), idx |-> FirstClear(w) % IdxMod]]
    BY DEF Malloc
<1>2. /\ w \in Bucket /\ Live(w) /\ Marks(w) /\ BucketId(w) = w
      /\ n <= BlockSize[SetOf[w]]
    BY WinnerAloneMarks, IdIsNumber DEF IInv
<1>3. /\ FirstClear(w) \in 0..Last(w) /\ FirstClear(w) \notin used[w]
      /\ FirstClear(w) % IdxMod = FirstClear(w) /\ FirstClear(w) \in 0..IdxMod - 1
    BY <1>2, FirstClearIsFree DEF IInv
<1> DEFINE blk == <<w, FirstClear(w)>>
<1>4. blk \in PoolBlocks /\ blk \in AllBlocks /\ \A p \in Obj : Owned[p] # blk
    BY <1>2, <1>3, OwnersBlocks DEF PoolBlocks
<1>5. blk \in Pool!Fitting(n)
    BY <1>2, <1>4 DEF Pool!Fitting, Pool!FreeBlocks
<1>6. Owned[o] \in {NotHeld, NullPtr}
    BY DEF Malloc, Owned, IInv, TypeOK
<1>7. Owned' = [Owned EXCEPT ![o] = blk]
    <2>1. held' = [held EXCEPT ![o] = [bucketId |-> w, idx |-> FirstClear(w)]]
        BY <1>1, <1>2, <1>3
    <2>2. [bucketId |-> w, idx |-> FirstClear(w)] \in Handle
        BY <1>2, <1>3, IdIsNumber, HeapAssumption DEF HeapAssumption, Handle
    <2>3. Resolved' = [Resolved EXCEPT ![o] = blk]
        BY <2>1, <2>2 DEF Resolved, IInv, TypeOK
    <2> QED BY <2>3, OwnedIsResolved, OwnedIsResolvedNext DEF OwnedResolved
<1>8. PoolBlocks' = PoolBlocks /\ req' = [req EXCEPT ![o] = n]
    BY DEF Malloc, PoolBlocks, Live
<1> QED BY <1>5, <1>6, <1>7, <1>8 DEF Pool!Take

\* A malloc that answers NULL leaves no block of the pool that would have fitted.
LEMMA MallocFailsIsRefuse ==
    ASSUME BitmapCovers, IInv, IInv', NEW o \in Obj, NEW n \in Size, MallocFails(o, n)
    PROVE  Pool!Refuse(o, n)
<1>1. Winners(n) = {} /\ held[o] \notin Handle /\ held' = [held EXCEPT ![o] = NullPtr]
    BY DEF MallocFails
<1>2. ASSUME NEW blk \in Pool!Fitting(n) PROVE FALSE
    <2>1. blk \in PoolBlocks /\ n <= BlockSize[SetOf[blk[1]]]
          /\ \A p \in Obj : Owned[p] # blk
        BY DEF Pool!Fitting, Pool!FreeBlocks, PoolBlocks
    <2>2. PICK b \in Bucket, i \in 0..IdxMod - 1 :
              blk = <<b, i>> /\ Live(b) /\ i < BlockNum[SetOf[b]]
        BY <2>1 DEF PoolBlocks, AllBlocks
    <2>3. b \in Candidates(n)
        BY <2>1, <2>2, CandidateBuckets
    <2>4. used[b] = 0..Last(b)
        BY <1>1, <2>2, <2>3, NoWinnerNoMarks, UnmarkedIsFull DEF IInv
    <2>5. i \in used[b]
        BY <2>2, <2>4, BucketFacts, HeapAssumption DEF HeapAssumption, Last
    <2> QED BY <2>1, <2>2, <2>4, <2>5, OwnersBlocks
<1>3. Owned[o] \in {NotHeld, NullPtr}
    BY <1>1 DEF Owned, IInv, TypeOK
<1>4. Owned' = [Owned EXCEPT ![o] = NullPtr]
    <2>1. Resolved' = [Resolved EXCEPT ![o] = NullPtr]
        BY <1>1, NoHandleAssumption DEF NoHandleAssumption, Resolved, IInv, TypeOK
    <2> QED BY <2>1, OwnedIsResolved, OwnedIsResolvedNext DEF OwnedResolved
<1>5. PoolBlocks' = PoolBlocks /\ req' = [req EXCEPT ![o] = n]
    BY DEF MallocFails, PoolBlocks, Live
<1> QED BY <1>2, <1>3, <1>4, <1>5 DEF Pool!Refuse

LEMMA FreeIsRelease ==
    ASSUME IInv, IInv', NEW o \in Obj, Free(o)
    PROVE  Pool!Release(o)
<1>1. held[o] \in Handle /\ held' = [held EXCEPT ![o] = NotHeld]
    BY DEF Free
<1>2. Owned[o] \in AllBlocks
    <2>1. Resolved[o] = <<held[o].bucketId, held[o].idx>>
        BY <1>1 DEF Resolved
    <2>2. held[o].bucketId \in Bucket /\ held[o].idx \in 0..IdxMod - 1
        BY <1>1 DEF IInv, Marked, Handle
    <2>3. <<held[o].bucketId, held[o].idx>> \in AllBlocks
        BY <2>2 DEF AllBlocks
    <2>4. Owned[o] = Resolved[o]
        BY OwnedIsResolved DEF OwnedResolved
    <2> QED BY <2>1, <2>3, <2>4
<1>3. Owned' = [Owned EXCEPT ![o] = NotHeld]
    <2>1. Resolved' = [Resolved EXCEPT ![o] = NotHeld]
        BY <1>1, NoHandleAssumption DEF NoHandleAssumption, Resolved, IInv, TypeOK
    <2> QED BY <2>1, OwnedIsResolved, OwnedIsResolvedNext DEF OwnedResolved
<1>4. PoolBlocks' = PoolBlocks /\ req' = req
    BY DEF Free, PoolBlocks, Live
<1> QED BY <1>2, <1>3, <1>4 DEF Pool!Release

LEMMA StepIsPoolStep ==
    ASSUME BitmapCovers, IInv, IInv', [Next]_vars
    PROVE  [Pool!Next]_(Pool!poolVars)
<1>1. CASE CreateBucketSet
    BY <1>1, CreateIsGrow DEF Pool!Next
<1>2. ASSUME NEW o \in Obj, Free(o) PROVE Pool!Next
    BY <1>2, FreeIsRelease DEF Pool!Next
<1>3. ASSUME NEW o \in Obj, NEW n \in Size, Malloc(o, n) PROVE Pool!Next
    BY <1>3, MallocIsTake DEF Pool!Next
<1>4. ASSUME NEW o \in Obj, NEW n \in Size, MallocFails(o, n) PROVE Pool!Next
    BY <1>4, MallocFailsIsRefuse DEF Pool!Next
<1>5. CASE UNCHANGED vars
    <2>1. Resolved' = Resolved /\ PoolBlocks' = PoolBlocks /\ req' = req
        BY <1>5 DEF vars, Resolved, PoolBlocks, Live
    <2>2. Owned' = Owned
        BY <2>1, OwnedIsResolved, OwnedIsResolvedNext DEF OwnedResolved
    <2> QED BY <2>1, <2>2 DEF Pool!poolVars
<1> QED BY <1>1, <1>2, <1>3, <1>4, <1>5 DEF Next

\* The heap implements the block pool, once every block has a bit: each object's block is
\* its own and large enough, and NULL is answered only when no free block fits.
THEOREM ImplementsPool == BitmapCovers => (Spec => PoolSpec)
<1> SUFFICES ASSUME BitmapCovers PROVE Spec => PoolSpec
    OBVIOUS
<1>1. IInv /\ IInv' /\ [Next]_vars => [Pool!Next]_(Pool!poolVars)
    BY StepIsPoolStep
<1> USE DEF BitmapCovers, BitNum, Set
<1> QED BY <1>1, InitPool, InitIInv, NextKeepsIInv, PTL DEF Spec, PoolSpec, Pool!Spec
=============================================================================
