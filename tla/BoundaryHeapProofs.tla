------------------------- MODULE BoundaryHeapProofs -------------------------
(***************************************************************************)
(* What is proved of BoundaryHeap for every size of the heap, of headers   *)
(* and of requests (BoundaryAssumption).                                   *)
(***************************************************************************)
EXTENDS BoundaryHeap, WellFoundedInduction, TLAPS

----------------------------------------------------------------------------
(* The ring *)

\* A ring stays one while its blocks keep their links and the rover its place.
LEMMA RingFrame ==
    ASSUME NEW g, NEW k, NEW F, Ring(g, F), k.rover = g.rover,
           \A b \in F : k.nextFree[b] = g.nextFree[b] /\ k.prevFree[b] = g.prevFree[b]
    PROVE  Ring(k, F)
<1>1. IF F = {} THEN k.rover = Null ELSE k.rover \in F
    BY DEF Ring, Linked, OneCycle
<1>2. ASSUME NEW b \in F
      PROVE  /\ k.nextFree[b] \in F /\ k.prevFree[b] \in F
             /\ k.prevFree[k.nextFree[b]] = b
             /\ k.nextFree[k.prevFree[b]] = b
    BY DEF Ring, Linked, OneCycle
<1>3. ASSUME NEW S \in SUBSET F, S # {}, \A b \in S : k.nextFree[b] \in S
      PROVE  S = F
    <2>1. \A b \in S : g.nextFree[b] \in S
        BY <1>3
    <2> QED BY <1>3, <2>1 DEF Ring, Linked, OneCycle
<1> QED BY <1>1, <1>2, <1>3 DEF Ring, Linked, OneCycle

\* __pull_free_block takes a block off the ring and leaves a ring of the others.
LEMMA PullRing ==
    ASSUME NEW g \in Heap, NEW F \in SUBSET Addr, Ring(g, F), NEW q \in F
    PROVE  Ring(Pull(g, q), F \ {q})
<1> DEFINE n == g.nextFree[q]
           p == g.prevFree[q]
           k == Pull(g, q)
<1>1. n \in F /\ p \in F /\ g.nextFree[p] = q /\ g.prevFree[n] = q
    BY DEF Ring, Linked, OneCycle
<1>2. CASE n = q
    <2>1. {q} = F
        <3>1. {q} \in SUBSET F /\ {q} # {} /\ \A b \in {q} : g.nextFree[b] \in {q}
            BY <1>2
        <3> QED BY <3>1 DEF Ring, Linked, OneCycle
    <2>2. k.rover = Null
        BY <1>2 DEF Pull, Heap
    <2>3. F \ {q} = {}
        BY <2>1
    <2> QED BY <2>2, <2>3 DEF Ring, Linked, OneCycle
<1>3. CASE n # q
    <2>1. p # q
        BY <1>1, <1>3
    <2>2. /\ k.rover = n
          /\ k.nextFree = [g.nextFree EXCEPT ![p] = n]
          /\ k.prevFree = [g.prevFree EXCEPT ![n] = p]
        BY <1>3 DEF Pull, Heap
    <2>3. DOMAIN g.nextFree = Addr /\ DOMAIN g.prevFree = Addr
        BY DEF Heap
    <2>4. k.rover \in F \ {q}
        BY <1>1, <1>3, <2>2
    <2>5. ASSUME NEW b \in F \ {q}
          PROVE  /\ k.nextFree[b] \in F \ {q} /\ k.prevFree[b] \in F \ {q}
                 /\ k.prevFree[k.nextFree[b]] = b
                 /\ k.nextFree[k.prevFree[b]] = b
        <3>1. g.nextFree[b] \in F /\ g.prevFree[g.nextFree[b]] = b
            BY DEF Ring, Linked, OneCycle
        <3>2. g.prevFree[b] \in F /\ g.nextFree[g.prevFree[b]] = b
            BY DEF Ring, Linked, OneCycle
        <3>3. k.nextFree[b] = IF b = p THEN n ELSE g.nextFree[b]
            BY <2>2, <2>3
        <3>4. k.prevFree[b] = IF b = n THEN p ELSE g.prevFree[b]
            BY <2>2, <2>3
        <3>5. b # p => g.nextFree[b] # q /\ g.nextFree[b] # n
            BY <3>1, <1>1
        <3>6. b # n => g.prevFree[b] # q /\ g.prevFree[b] # p
            BY <3>2, <1>1
        <3>7. k.prevFree[n] = p /\ k.nextFree[p] = n
            BY <2>2, <2>3, <1>1
        <3>8. b # p => k.prevFree[g.nextFree[b]] = b
            BY <3>1, <3>5, <2>2, <2>3
        <3>9. b # n => k.nextFree[g.prevFree[b]] = b
            BY <3>2, <3>6, <2>2, <2>3
        <3> QED BY <1>1, <1>3, <2>1, <3>1, <3>2, <3>3, <3>4, <3>5, <3>6, <3>7, <3>8, <3>9
    <2>6. ASSUME NEW S \in SUBSET (F \ {q}), S # {}, \A b \in S : k.nextFree[b] \in S
          PROVE  S = F \ {q}
        <3>1. \A b \in S : k.nextFree[b] = IF b = p THEN n ELSE g.nextFree[b]
            BY <2>2, <2>3
        <3>2. CASE p \in S
            <4>1. n \in S
                BY <3>1, <3>2, <2>6
            <4>2. \A b \in S \cup {q} : g.nextFree[b] \in S \cup {q}
                BY <3>1, <4>1, <2>6, <1>1
            <4>3. S \cup {q} = F
                <5>1. S \cup {q} \in SUBSET F /\ S \cup {q} # {}
                    OBVIOUS
                <5> QED BY <4>2, <5>1 DEF Ring, Linked, OneCycle
            <4> QED BY <4>3
        <3>3. CASE p \notin S
            <4>1. \A b \in S : g.nextFree[b] \in S
                BY <3>1, <3>3, <2>6
            <4>2. S = F
                BY <4>1, <2>6 DEF Ring, Linked, OneCycle
            <4> QED BY <4>2
        <3> QED BY <3>2, <3>3
    <2> HIDE DEF k
    <2>7. F \ {q} # {}
        BY <2>4
    <2>8. Linked(k, F \ {q})
        BY <2>5 DEF Linked
    <2>9. OneCycle(k.nextFree, F \ {q})
        BY <2>6 DEF OneCycle
    <2> QED BY <2>4, <2>7, <2>8, <2>9 DEF Ring, k
<1> QED BY <1>2, <1>3

\* insert_free_block adds a block to the ring.
LEMMA InsertRing ==
    ASSUME NEW g \in Heap, NEW F \in SUBSET Addr, Ring(g, F), NEW q \in Addr \ F
    PROVE  Ring(Insert(g, q), F \cup {q})
<1> DEFINE k == Insert(g, q)
           r == g.rover
           n == g.nextFree[r]
<1>d. DOMAIN g.nextFree = Addr /\ DOMAIN g.prevFree = Addr
    BY DEF Heap
<1>1. CASE F = {}
    <2>1. r = Null
        BY <1>1 DEF Ring, Linked, OneCycle
    <2>2. /\ k.rover = q
          /\ k.nextFree = [g.nextFree EXCEPT ![q] = q]
          /\ k.prevFree = [g.prevFree EXCEPT ![q] = q]
        BY <2>1 DEF Insert, Heap
    <2>3. k.nextFree[q] = q /\ k.prevFree[q] = q
        BY <2>2, <1>d
    <2> HIDE DEF k
    <2>4. F \cup {q} = {q}
        BY <1>1
    <2>5. \A S \in SUBSET {q} : S # {} => S = {q}
        OBVIOUS
    <2>6. Linked(k, {q})
        BY <2>3 DEF Linked
    <2>7. OneCycle(k.nextFree, {q})
        BY <2>5 DEF OneCycle
    <2>8. Ring(k, {q})
        BY <2>2, <2>6, <2>7 DEF Ring, Linked, OneCycle
    <2> QED BY <2>4, <2>8 DEF k
<1>2. CASE F # {}
    <2>1. r \in F /\ n \in F /\ g.prevFree[n] = r /\ r # Null
        <3>1. r \in F
            BY <1>2 DEF Ring, Linked, OneCycle
        <3> QED BY <3>1, BoundaryAssumption DEF Ring, Linked, BoundaryAssumption
    <2>2. /\ k.rover = r
          /\ k.nextFree = [[g.nextFree EXCEPT ![r] = q] EXCEPT ![q] = n]
          /\ k.prevFree = [[g.prevFree EXCEPT ![n] = q] EXCEPT ![q] = r]
        BY <2>1 DEF Insert, Heap
    <2>3. q # r /\ q # n
        BY <2>1
    <2>4. /\ k.nextFree[q] = n /\ k.prevFree[q] = r
          /\ k.nextFree[r] = q /\ k.prevFree[n] = q
        BY <2>1, <2>2, <2>3, <1>d
    <2>5. \A b \in F : /\ b # r => k.nextFree[b] = g.nextFree[b]
                       /\ b # n => k.prevFree[b] = g.prevFree[b]
        BY <2>2, <1>d
    <2>6. ASSUME NEW b \in F
          PROVE  /\ k.nextFree[b] \in F \cup {q} /\ k.prevFree[b] \in F \cup {q}
                 /\ k.prevFree[k.nextFree[b]] = b
                 /\ k.nextFree[k.prevFree[b]] = b
        <3>1. g.nextFree[b] \in F /\ g.prevFree[g.nextFree[b]] = b
            BY DEF Ring, Linked, OneCycle
        <3>2. g.prevFree[b] \in F /\ g.nextFree[g.prevFree[b]] = b
            BY DEF Ring, Linked, OneCycle
        <3>3. b # r => g.nextFree[b] # n
            BY <3>1, <2>1
        <3>4. b # n => g.prevFree[b] # r
            BY <3>2, <2>1
        <3> HIDE DEF k
        <3> QED BY <2>1, <2>4, <2>5, <3>1, <3>2, <3>3, <3>4
    <2>7. ASSUME NEW S \in SUBSET (F \cup {q}), S # {}, \A b \in S : k.nextFree[b] \in S
          PROVE  S = F \cup {q}
        <3> HIDE DEF k
        <3>1. S \ {q} # {}
            BY <2>4, <2>1, <2>3, <2>7
        <3>2. \A b \in S \ {q} : g.nextFree[b] \in S \ {q}
            <4> TAKE b \in S \ {q}
            <4>1. g.nextFree[b] \in F
                BY DEF Ring, Linked, OneCycle
            <4>2. CASE b = r
                BY <4>2, <2>4, <2>3, <2>7
            <4>3. CASE b # r
                BY <4>3, <4>1, <2>5, <2>7
            <4> QED BY <4>2, <4>3
        <3>3. S \ {q} = F
            <4> S \ {q} \in SUBSET F
                OBVIOUS
            <4> QED BY <3>1, <3>2 DEF Ring, Linked, OneCycle
        <3>4. q \in S
            BY <3>3, <2>1, <2>4, <2>7
        <3> QED BY <3>3, <3>4
    <2> HIDE DEF k
    <2>8. k.nextFree[q] \in F \cup {q} /\ k.prevFree[q] \in F \cup {q}
          /\ k.prevFree[k.nextFree[q]] = q /\ k.nextFree[k.prevFree[q]] = q
        BY <2>1, <2>4
    <2>9. Linked(k, F \cup {q})
        BY <2>6, <2>8 DEF Linked
    <2>10. OneCycle(k.nextFree, F \cup {q})
        BY <2>7 DEF OneCycle
    <2>11. k.rover \in F \cup {q} /\ F \cup {q} # {}
        BY <2>1, <2>2
    <2> QED BY <2>9, <2>10, <2>11 DEF Ring, k
<1> QED BY <1>1, <1>2

----------------------------------------------------------------------------
(* The tiling *)

LEMMA BlockFacts ==
    ASSUME NEW g \in Heap
    PROVE  /\ Blocks(g) \subseteq Addr /\ Addr \subseteq Nat
           /\ \A a \in Addr : g.size[a] \in Nat /\ After(g, a) \in Nat
           /\ g.brk \in Nat /\ HeapSize \in Nat /\ FreeHeader \in Nat \ {0}
           /\ Null \notin Addr
BY BoundaryAssumption DEF BoundaryAssumption, Heap, Blocks, After, Addr

\* The tiling is a matter of sizes, of prev_real in the blocks and of the members.
LEMMA TilesFrame ==
    ASSUME NEW g, NEW k, Tiles(g), k.size = g.size, k.first = g.first,
           k.last = g.last, k.brk = g.brk,
           \A b \in Blocks(g) : k.prevReal[b] = g.prevReal[b]
    PROVE  Tiles(k) /\ Blocks(k) = Blocks(g)
<1>1. Blocks(k) = Blocks(g)
    BY DEF Blocks
<1>2. \A b : After(k, b) = After(g, b)
    BY DEF After
<1> QED BY <1>1, <1>2 DEF Tiles

\* A block that swallows the one behind it tiles what the two did.
LEMMA MergeTiles ==
    ASSUME NEW g \in Heap, Tiles(g), NEW a \in Blocks(g), a # g.last, NEW k,
           k.size = [g.size EXCEPT ![a] = g.size[a] + g.size[After(g, a)],
                                   ![After(g, a)] = 0],
           k.first = g.first, k.brk = g.brk,
           k.last = IF After(g, a) = g.last THEN a ELSE g.last,
           \A c \in Blocks(g) : c # After(g, a) => k.prevReal[c] =
               IF c = After(g, After(g, a)) THEN a ELSE g.prevReal[c]
    PROVE  Tiles(k) /\ Blocks(k) = Blocks(g) \ {After(g, a)}
<1> DEFINE b == After(g, a)
<1>f. /\ Blocks(g) \subseteq Addr /\ Addr \subseteq Nat
      /\ \A x \in Addr : g.size[x] \in Nat /\ After(g, x) \in Nat
      /\ g.brk \in Nat /\ FreeHeader \in Nat \ {0} /\ Null \notin Addr
      /\ DOMAIN g.size = Addr
    BY BlockFacts DEF Heap
<1>1. b \in Blocks(g) /\ g.prevReal[b] = a /\ a \in Addr /\ b \in Addr
    BY <1>f DEF Tiles
<1>2. g.size[a] # 0 /\ g.size[b] # 0 /\ a < b
    BY <1>1, <1>f DEF Blocks, After
<1>3. \A x \in Addr : k.size[x] = IF x = a THEN g.size[a] + g.size[b]
                                  ELSE IF x = b THEN 0 ELSE g.size[x]
    BY <1>f, <1>1, <1>2
<1>4. Blocks(k) = Blocks(g) \ {b}
    BY <1>1, <1>2, <1>3, <1>f DEF Blocks
<1>5. After(k, a) = After(g, b) /\ \A x \in Blocks(k) : x # a => After(k, x) = After(g, x)
    BY <1>1, <1>2, <1>3, <1>4, <1>f DEF After
<1>6. After(g, b) # b /\ After(g, b) # a
    BY <1>1, <1>2, <1>f DEF After
<1>7. ASSUME NEW x \in Blocks(k)
      PROVE  k.size[x] >= FreeHeader
    BY <1>1, <1>2, <1>3, <1>4, <1>f DEF Tiles
<1>8. ASSUME NEW x \in Blocks(k)
      PROVE  After(k, x) <= k.brk /\ (x = k.last <=> After(k, x) = k.brk)
    BY <1>1, <1>4, <1>5, <1>f DEF Tiles
<1>9. ASSUME NEW x \in Blocks(k), x # k.last
      PROVE  After(k, x) \in Blocks(k) /\ k.prevReal[After(k, x)] = x
    <2>1. CASE x = a
        <3>1. b # g.last
            BY <2>1, <1>9
        <3>2. After(g, b) \in Blocks(g)
            BY <3>1, <1>1 DEF Tiles
        <3> QED BY <2>1, <3>2, <1>4, <1>5, <1>6
    <2>2. CASE x # a
        <3>1. x \in Blocks(g) /\ x # b /\ x # g.last
            BY <2>2, <1>4, <1>9, <1>1
        <3>2. After(g, x) \in Blocks(g) /\ g.prevReal[After(g, x)] = x
            BY <3>1 DEF Tiles
        <3>3. After(g, x) # b
            BY <3>2, <2>2, <1>1
        <3>4. After(g, x) # After(g, b)
            <4> SUFFICES ASSUME After(g, x) = After(g, b) PROVE FALSE
                OBVIOUS
            <4>1. b # g.last
                BY <3>1, <1>1, <1>f DEF Tiles
            <4> QED BY <4>1, <3>2, <3>1, <1>1 DEF Tiles
        <3> QED BY <3>2, <3>3, <3>4, <2>2, <1>4, <1>5
    <2> QED BY <2>1, <2>2
<1>10. ASSUME NEW x \in Blocks(k), x # k.first
       PROVE  k.prevReal[x] \in Blocks(k) /\ After(k, k.prevReal[x]) = x
    <2>1. x \in Blocks(g) /\ x # b /\ g.prevReal[x] \in Blocks(g) /\ After(g, g.prevReal[x]) = x
        BY <1>4, <1>10 DEF Tiles
    <2>2. CASE x = After(g, b)
        BY <2>1, <2>2, <1>1, <1>2, <1>4, <1>5
    <2>3. CASE x # After(g, b)
        <3>1. k.prevReal[x] = g.prevReal[x] /\ g.prevReal[x] # b /\ g.prevReal[x] # a
            BY <2>1, <2>3
        <3> QED BY <3>1, <2>1, <1>4, <1>5
    <2> QED BY <2>2, <2>3
<1>11. ASSUME NEW x \in Blocks(k), NEW y \in Blocks(k), x < y
       PROVE  After(k, x) <= y
    <2>1. CASE x # a
        BY <2>1, <1>4, <1>5, <1>11 DEF Tiles
    <2>2. CASE x = a
        <3>1. b <= y /\ y # b /\ y \in Blocks(g)
            BY <2>2, <1>4, <1>11 DEF Tiles
        <3>2. b < y
            BY <3>1, <1>f, <1>1
        <3> QED BY <2>2, <3>1, <3>2, <1>1, <1>5 DEF Tiles
    <2> QED BY <2>1, <2>2
<1>12. k.first = 0 /\ 0 \in Blocks(k) /\ k.last \in Blocks(k)
    <2>1. g.first = 0 /\ 0 \in Blocks(g) /\ g.last \in Blocks(g)
        BY DEF Tiles
    <2>2. b # 0
        BY <1>1, <1>2, <1>f
    <2> QED BY <2>1, <2>2, <1>1, <1>2, <1>4
<1> QED BY <1>4, <1>7, <1>8, <1>9, <1>10, <1>11, <1>12 DEF Tiles

\* A block cut in two tiles what it did.
LEMMA CutTiles ==
    ASSUME NEW g \in Heap, Tiles(g), NEW q \in Blocks(g), NEW len \in Nat,
           len >= FreeHeader, g.size[q] >= len + FreeHeader, NEW k,
           k.size = [g.size EXCEPT ![q] = g.size[q] - len, ![After(g, q) - len] = len],
           k.first = g.first, k.brk = g.brk,
           k.last = IF q = g.last THEN After(g, q) - len ELSE g.last,
           k.prevReal[After(g, q) - len] = q,
           \A c \in Blocks(g) : k.prevReal[c] =
               IF c = After(g, q) THEN After(g, q) - len ELSE g.prevReal[c]
    PROVE  /\ Tiles(k)
           /\ After(g, q) - len \in Addr \ Blocks(g)
           /\ Blocks(k) = Blocks(g) \cup {After(g, q) - len}
<1> DEFINE n == After(g, q) - len
<1>f. /\ Blocks(g) \subseteq Addr /\ Addr \subseteq Nat
      /\ \A x \in Addr : g.size[x] \in Nat /\ After(g, x) \in Nat
      /\ g.brk \in Nat /\ FreeHeader \in Nat \ {0} /\ Null \notin Addr
      /\ DOMAIN g.size = Addr
    BY BlockFacts DEF Heap
<1>g. q \in Addr /\ n \in Nat /\ q < n /\ n < After(g, q) /\ After(g, q) = q + g.size[q]
    <2>1. q \in Addr /\ q \in Nat
        BY <1>f
    <2>2. g.size[q] \in Nat /\ FreeHeader \in Nat /\ FreeHeader > 0
        BY <2>1, <1>f
    <2>3. After(g, q) = q + g.size[q]
        BY DEF After
    <2>4. ASSUME NEW z \in Nat, z = q + g.size[q]
          PROVE  z - len \in Nat /\ q < z - len /\ z - len < z
        BY ONLY <2>1, <2>2, <2>4, len \in Nat, len >= FreeHeader, g.size[q] >= len + FreeHeader
    <2>5. After(g, q) \in Nat
        BY <2>1, <1>f
    <2> QED BY ONLY <2>1, <2>3, <2>4, <2>5
<1>h. After(g, q) <= g.brk /\ g.brk <= HeapSize /\ HeapSize \in Nat
    BY BoundaryAssumption DEF Tiles, Heap, BoundaryAssumption
<1>1. n \in Addr
    BY <1>f, <1>g, <1>h DEF Addr
<1>2. n \notin Blocks(g)
    BY <1>f, <1>g DEF Tiles
<1>3. \A x \in Addr : k.size[x] = IF x = q THEN g.size[q] - len
                                  ELSE IF x = n THEN len ELSE g.size[x]
    BY <1>f, <1>g, <1>1
<1>4. Blocks(k) = Blocks(g) \cup {n}
    BY <1>f, <1>g, <1>1, <1>3 DEF Blocks
<1>5. /\ After(k, q) = n /\ After(k, n) = After(g, q)
      /\ \A x \in Blocks(g) : x # q => After(k, x) = After(g, x)
    BY <1>f, <1>g, <1>1, <1>2, <1>3 DEF After
<1>6. ASSUME NEW x \in Blocks(k)
      PROVE  k.size[x] >= FreeHeader
    BY <1>f, <1>g, <1>1, <1>3, <1>4 DEF Tiles
<1>7. ASSUME NEW x \in Blocks(k)
      PROVE  After(k, x) <= k.brk /\ (x = k.last <=> After(k, x) = k.brk)
    <2>1. g.last \in Blocks(g) /\ g.last # n
        BY <1>2 DEF Tiles
    <2>2. CASE x = q
        BY <2>1, <2>2, <1>4, <1>5, <1>g, <1>h, <1>f
    <2>3. CASE x = n
        BY <2>1, <2>3, <1>4, <1>5, <1>g, <1>h, <1>f DEF Tiles
    <2>4. CASE x # q /\ x # n
        BY <2>1, <2>4, <1>4, <1>5, <1>g, <1>h, <1>f DEF Tiles
    <2> QED BY <2>2, <2>3, <2>4
<1>8. ASSUME NEW x \in Blocks(k), x # k.last
      PROVE  After(k, x) \in Blocks(k) /\ k.prevReal[After(k, x)] = x
    <2>1. CASE x = q
        BY <2>1, <1>4, <1>5
    <2>2. CASE x = n
        <3>1. q # g.last
            BY <2>2, <1>8
        <3> QED BY <3>1, <2>2, <1>4, <1>5 DEF Tiles
    <2>3. CASE x # q /\ x # n
        <3>1. x \in Blocks(g) /\ x # g.last
            BY <2>3, <1>4, <1>8, <1>7, <1>5, <1>g DEF Tiles
        <3>2. After(g, x) \in Blocks(g) /\ g.prevReal[After(g, x)] = x
            BY <3>1 DEF Tiles
        <3>3. After(g, x) # After(g, q)
            <4> SUFFICES ASSUME After(g, x) = After(g, q) PROVE FALSE
                OBVIOUS
            <4>1. q # g.last
                BY <3>1, <1>f DEF Tiles
            <4> QED BY <4>1, <3>2, <2>3 DEF Tiles
        <3> QED BY <3>2, <3>3, <2>3, <1>4, <1>5
    <2> QED BY <2>1, <2>2, <2>3
<1>9. ASSUME NEW x \in Blocks(k), x # k.first
      PROVE  k.prevReal[x] \in Blocks(k) /\ After(k, k.prevReal[x]) = x
    <2>1. CASE x = n
        BY <2>1, <1>4, <1>5
    <2>2. CASE x # n
        <3>1. x \in Blocks(g) /\ g.prevReal[x] \in Blocks(g) /\ After(g, g.prevReal[x]) = x
            BY <2>2, <1>4, <1>9 DEF Tiles
        <3>2. CASE x = After(g, q)
            BY <3>1, <3>2, <1>4, <1>5
        <3>3. CASE x # After(g, q)
            BY <3>1, <3>3, <1>4, <1>5
        <3> QED BY <3>2, <3>3
    <2> QED BY <2>1, <2>2
<1>10. ASSUME NEW x \in Blocks(k), NEW y \in Blocks(k), x < y
       PROVE  After(k, x) <= y
    <2>1. CASE x = q /\ y = n
        BY <2>1, <1>5, <1>g
    <2>2. CASE x = q /\ y # n
        <3>1. After(g, q) <= y /\ y \in Nat
            BY <2>2, <1>4, <1>10, <1>f DEF Tiles
        <3> QED BY <3>1, <2>2, <1>5, <1>g, <1>f
    <2>3. CASE x = n
        <3>1. y \in Blocks(g) /\ q < y
            BY <2>3, <1>4, <1>10, <1>g, <1>f
        <3> QED BY <3>1, <2>3, <1>5 DEF Tiles
    <2>4. CASE x # q /\ x # n /\ y = n
        <3>1. x \in Blocks(g) /\ x \in Nat
            BY <2>4, <1>4, <1>f
        <3>2. x < q
            <4>1. q < x => After(g, q) <= x
                BY <3>1 DEF Tiles
            <4> QED BY <4>1, <3>1, <2>4, <1>10, <1>g, <1>f
        <3>3. After(g, x) <= q
            BY <3>1, <3>2 DEF Tiles
        <3> QED BY <3>1, <3>3, <2>4, <1>5, <1>g, <1>f
    <2>5. CASE x # q /\ x # n /\ y # n
        BY <2>5, <1>4, <1>5, <1>10 DEF Tiles
    <2> QED BY <2>1, <2>2, <2>3, <2>4, <2>5
<1>11. k.first = 0 /\ 0 \in Blocks(k) /\ k.last \in Blocks(k)
    BY <1>4 DEF Tiles
<1> QED BY <1>1, <1>2, <1>4, <1>6, <1>7, <1>8, <1>9, <1>10, <1>11 DEF Tiles

\* A block at the break becomes the last one.
LEMMA ExtendTiles ==
    ASSUME NEW g \in Heap, Tiles(g), NEW len \in Nat, len >= FreeHeader,
           g.brk + len <= HeapSize, NEW k,
           k.size = [g.size EXCEPT ![g.brk] = len],
           k.brk = g.brk + len, k.last = g.brk,
           k.first = IF g.first = Null THEN g.brk ELSE g.first,
           g.first # Null => k.prevReal[g.brk] = g.last,
           \A c \in Blocks(g) : k.prevReal[c] = g.prevReal[c]
    PROVE  /\ Tiles(k)
           /\ g.brk \in Addr \ Blocks(g)
           /\ Blocks(k) = Blocks(g) \cup {g.brk}
<1> DEFINE q == g.brk
<1>f. /\ Blocks(g) \subseteq Addr /\ Addr \subseteq Nat
      /\ \A x \in Addr : g.size[x] \in Nat /\ After(g, x) \in Nat
      /\ g.brk \in Nat /\ FreeHeader \in Nat \ {0} /\ Null \notin Addr
      /\ DOMAIN g.size = Addr /\ HeapSize \in Nat
    BY BlockFacts DEF Heap
<1>1. q \in Addr
    BY <1>f DEF Addr
<1>2. \A x \in Blocks(g) : x < q /\ After(g, x) <= q
    BY <1>f DEF Tiles, Blocks, After
<1>3. q \notin Blocks(g)
    BY <1>2, <1>f
<1>4. \A x \in Addr : k.size[x] = IF x = q THEN len ELSE g.size[x]
    BY <1>f
<1>5. Blocks(k) = Blocks(g) \cup {q}
    BY <1>1, <1>4, <1>f DEF Blocks
<1>6. After(k, q) = k.brk /\ \A x \in Blocks(g) : After(k, x) = After(g, x)
    BY <1>1, <1>3, <1>4, <1>f DEF After
<1>7. 0 \in Addr
    BY <1>1, <1>f DEF Addr
<1>8. CASE Blocks(g) = {}
    <2>1. g.first = Null /\ q = 0
        BY <1>8 DEF Tiles
    <2>2. Blocks(k) = {0} /\ k.first = 0 /\ k.last = 0 /\ After(k, 0) = k.brk /\ k.size[0] = len
        BY <2>1, <1>8, <1>4, <1>5, <1>6, <1>1
    <2> QED BY <2>1, <2>2, <1>1, <1>3, <1>5, <1>f DEF Tiles
<1>9. CASE Blocks(g) # {}
    <2>1. g.first = 0 /\ 0 \in Blocks(g) /\ g.last \in Blocks(g) /\ g.first # Null
        BY <1>9, <1>7, <1>f DEF Tiles
    <2>2. k.first = 0 /\ k.prevReal[q] = g.last /\ After(g, g.last) = q
        BY <2>1 DEF Tiles
    <2>3. ASSUME NEW x \in Blocks(k)
          PROVE  /\ k.size[x] >= FreeHeader
                 /\ After(k, x) <= k.brk
                 /\ x = k.last <=> After(k, x) = k.brk
        <3>1. CASE x = q
            BY <3>1, <1>1, <1>4, <1>6, <1>f
        <3>2. CASE x # q
            <4>1. x \in Blocks(g) /\ x \in Addr /\ After(k, x) = After(g, x) /\ k.size[x] = g.size[x]
                BY <3>2, <1>4, <1>5, <1>6, <1>f
            <4>2. After(g, x) \in Nat /\ After(g, x) <= q /\ q < k.brk /\ g.size[x] >= FreeHeader
                BY <4>1, <1>2, <1>f DEF Tiles
            <4> QED BY <4>1, <4>2, <3>2, <1>f
        <3> QED BY <3>1, <3>2
    <2>4. ASSUME NEW x \in Blocks(k), x # k.last
          PROVE  After(k, x) \in Blocks(k) /\ k.prevReal[After(k, x)] = x
        <3>1. x \in Blocks(g)
            BY <2>4, <1>5
        <3>2. CASE x = g.last
            BY <3>1, <3>2, <2>2, <1>5, <1>6
        <3>3. CASE x # g.last
            BY <3>1, <3>3, <1>5, <1>6 DEF Tiles
        <3> QED BY <3>2, <3>3
    <2>5. ASSUME NEW x \in Blocks(k), x # k.first
          PROVE  k.prevReal[x] \in Blocks(k) /\ After(k, k.prevReal[x]) = x
        <3>1. CASE x = q
            BY <3>1, <2>1, <2>2, <1>5, <1>6
        <3>2. CASE x # q
            BY <3>2, <2>1, <2>2, <2>5, <1>5, <1>6 DEF Tiles
        <3> QED BY <3>1, <3>2
    <2>6. ASSUME NEW x \in Blocks(k), NEW y \in Blocks(k), x < y
          PROVE  After(k, x) <= y
        <3>1. x \in Blocks(g)
            <4> SUFFICES ASSUME x = q PROVE FALSE
                BY <1>5
            <4>1. q < y /\ q \in Nat /\ (y = q \/ y \in Blocks(g))
                BY <2>6, <1>5, <1>f
            <4>2. y \in Blocks(g) => y \in Nat /\ y < q
                BY <1>2, <1>f
            <4> QED BY ONLY <4>1, <4>2
        <3> QED BY <3>1, <2>6, <1>2, <1>5, <1>6 DEF Tiles
    <2>7. k.last \in Blocks(k) /\ 0 \in Blocks(k)
        BY <2>1, <1>5
    <2> QED BY <2>1, <2>2, <2>3, <2>4, <2>5, <2>6, <2>7, <1>1, <1>3, <1>5 DEF Tiles
<1> QED BY <1>8, <1>9

\* Without its last block the heap is tiled up to where that block started.
LEMMA ShrinkTiles ==
    ASSUME NEW g \in Heap, Tiles(g), Blocks(g) # {}, NEW k,
           k.size = [g.size EXCEPT ![g.last] = 0], k.brk = g.last,
           k.first = IF g.last = g.first THEN Null ELSE g.first,
           k.last = IF g.last = g.first THEN Null ELSE g.prevReal[g.last],
           \A c \in Blocks(g) : c # g.last => k.prevReal[c] = g.prevReal[c]
    PROVE  Tiles(k) /\ Blocks(k) = Blocks(g) \ {g.last}
<1> DEFINE q == g.last
           p == g.prevReal[q]
<1>f. /\ Blocks(g) \subseteq Addr /\ Addr \subseteq Nat
      /\ \A x \in Addr : g.size[x] \in Nat /\ After(g, x) \in Nat
      /\ g.brk \in Nat /\ FreeHeader \in Nat \ {0} /\ Null \notin Addr
      /\ DOMAIN g.size = Addr
    BY BlockFacts DEF Heap
<1>1. /\ q \in Blocks(g) /\ q \in Addr /\ g.first = 0 /\ 0 \in Blocks(g)
      /\ After(g, q) = g.brk
    BY <1>f DEF Tiles
<1>2. Blocks(k) = Blocks(g) \ {q} /\ \A x \in Blocks(k) : k.size[x] = g.size[x]
    BY <1>1, <1>f DEF Blocks
<1>3. \A x \in Blocks(k) : After(k, x) = After(g, x)
    BY <1>2 DEF After
<1>4. \A x \in Blocks(k) : x < q /\ After(g, x) <= q
    <2> TAKE x \in Blocks(k)
    <2>1. x \in Blocks(g) /\ x \in Nat /\ q \in Nat /\ x # q
        BY <1>1, <1>2, <1>f
    <2>2. ~ q < x
        <3> SUFFICES ASSUME q < x PROVE FALSE
            OBVIOUS
        <3>1. g.brk <= x /\ After(g, x) <= g.brk /\ x < After(g, x)
            BY <2>1, <1>1, <1>f DEF Tiles, Blocks, After
        <3> QED BY <3>1, <2>1, <1>f
    <2> QED BY <2>1, <2>2, <1>1 DEF Tiles
<1>5. CASE q = g.first
    <2>1. Blocks(k) = {}
        <3> SUFFICES ASSUME NEW x \in Blocks(k) PROVE FALSE
            OBVIOUS
        <3>1. x \in Nat /\ x < 0
            BY <1>1, <1>2, <1>4, <1>5, <1>f
        <3> QED BY <3>1
    <2> QED BY <2>1, <1>1, <1>2, <1>5 DEF Tiles
<1>6. CASE q # g.first
    <2>1. p \in Blocks(k) /\ After(g, p) = q
        <3>1. p \in Blocks(g) /\ After(g, p) = q
            BY <1>1, <1>6 DEF Tiles
        <3>2. p # q
            BY <3>1, <1>1, <1>f DEF After, Blocks
        <3> QED BY <3>1, <3>2, <1>2
    <2>2. ASSUME NEW x \in Blocks(k)
          PROVE  /\ k.size[x] >= FreeHeader
                 /\ After(k, x) <= k.brk
                 /\ x = k.last <=> After(k, x) = k.brk
        <3>1. After(g, x) = q => g.prevReal[q] = x
            BY <1>2 DEF Tiles
        <3> QED BY <3>1, <2>1, <1>2, <1>3, <1>4, <1>6 DEF Tiles
    <2>3. ASSUME NEW x \in Blocks(k), x # k.last
          PROVE  After(k, x) \in Blocks(k) /\ k.prevReal[After(k, x)] = x
        <3>1. x \in Blocks(g) /\ x # g.last
            BY <1>2
        <3>2. After(g, x) \in Blocks(g) /\ g.prevReal[After(g, x)] = x
            BY <3>1 DEF Tiles
        <3>3. After(g, x) # q
            BY <3>2, <2>3, <1>6
        <3> QED BY <3>2, <3>3, <1>2, <1>3
    <2>4. ASSUME NEW x \in Blocks(k), x # k.first
          PROVE  k.prevReal[x] \in Blocks(k) /\ After(k, k.prevReal[x]) = x
        <3>1. x \in Blocks(g) /\ x # q /\ x # g.first
            BY <2>4, <1>2, <1>6
        <3>2. g.prevReal[x] \in Blocks(g) /\ After(g, g.prevReal[x]) = x
            BY <3>1 DEF Tiles
        <3>3. g.prevReal[x] # q
            BY <3>1, <3>2, <1>1, <1>2, <1>4, <1>f DEF Tiles, After, Blocks
        <3> QED BY <3>1, <3>2, <3>3, <1>2, <1>3
    <2>5. ASSUME NEW x \in Blocks(k), NEW y \in Blocks(k), x < y
          PROVE  After(k, x) <= y
        BY <2>5, <1>2, <1>3 DEF Tiles
    <2> QED BY <2>1, <2>2, <2>3, <2>4, <2>5, <1>1, <1>2, <1>6 DEF Tiles
<1> QED BY <1>5, <1>6

----------------------------------------------------------------------------
(* The operations on a sound heap *)

LinksMarkFree(g) == \A a \in Addr : g.nextFree[a] # Wild <=> a \in FreeBlocks(g)

Sound(g) ==
    /\ g \in Heap
    /\ Tiles(g)
    /\ Coalesced(g)
    /\ Ring(g, FreeBlocks(g))
    /\ LinksMarkFree(g)

UsedBlocks(g) == Blocks(g) \ FreeBlocks(g)

\* The fields a helper of the ring may change, and where.
OnlyLinks(g, k, F) ==
    /\ k \in Heap
    /\ k.size = g.size /\ k.used = g.used /\ k.prevReal = g.prevReal
    /\ k.first = g.first /\ k.last = g.last /\ k.brk = g.brk
    /\ \A b \in Addr \ F : k.nextFree[b] = g.nextFree[b] /\ k.prevFree[b] = g.prevFree[b]

LEMMA PullFields ==
    ASSUME NEW g \in Heap, NEW F \in SUBSET Addr, Ring(g, F), NEW q \in F
    PROVE  OnlyLinks(g, Pull(g, q), F)
<1> DEFINE n == g.nextFree[q]
           p == g.prevFree[q]
<1>1. n \in Addr /\ p \in Addr /\ n \in F /\ p \in F
    BY DEF Ring, Linked
<1>2. CASE n = q
    BY <1>2 DEF Pull, OnlyLinks, Heap, Member
<1>3. CASE n # q
    <2>1. Pull(g, q) = [g EXCEPT !.rover = n, !.prevFree[n] = p, !.nextFree[p] = n]
        BY <1>3 DEF Pull
    <2>2. Pull(g, q) \in Heap
        <3>1. /\ [g.nextFree EXCEPT ![p] = n] \in [Addr -> Pointer]
              /\ [g.prevFree EXCEPT ![n] = p] \in [Addr -> Pointer]
              /\ n \in Member
            BY <1>1 DEF Heap, Member, Pointer
        <3> HIDE DEF n, p
        <3> QED BY <2>1, <3>1 DEF Heap
    <2>3. /\ Pull(g, q).nextFree = [g.nextFree EXCEPT ![p] = n]
          /\ Pull(g, q).prevFree = [g.prevFree EXCEPT ![n] = p]
          /\ Pull(g, q).size = g.size /\ Pull(g, q).used = g.used
          /\ Pull(g, q).prevReal = g.prevReal /\ Pull(g, q).first = g.first
          /\ Pull(g, q).last = g.last /\ Pull(g, q).brk = g.brk
        BY <2>1 DEF Heap
    <2>4. \A b \in Addr \ F : /\ Pull(g, q).nextFree[b] = g.nextFree[b]
                              /\ Pull(g, q).prevFree[b] = g.prevFree[b]
        <3> HIDE DEF n, p
        <3> QED BY <2>3, <1>1 DEF Heap
    <2> QED BY <2>2, <2>3, <2>4 DEF OnlyLinks
<1> QED BY <1>2, <1>3

LEMMA InsertFields ==
    ASSUME NEW g \in Heap, NEW F \in SUBSET Addr, Ring(g, F), NEW q \in Addr
    PROVE  OnlyLinks(g, Insert(g, q), F \cup {q})
<1>1. CASE g.rover = Null
    <2>1. Insert(g, q) = [g EXCEPT !.rover = q, !.prevFree[q] = q, !.nextFree[q] = q]
        BY <1>1 DEF Insert
    <2>2. Insert(g, q) \in Heap
        <3>1. /\ [g.nextFree EXCEPT ![q] = q] \in [Addr -> Pointer]
              /\ [g.prevFree EXCEPT ![q] = q] \in [Addr -> Pointer]
              /\ q \in Member
            BY DEF Heap, Member, Pointer
        <3> QED BY <2>1, <3>1 DEF Heap
    <2>3. /\ Insert(g, q).nextFree = [g.nextFree EXCEPT ![q] = q]
          /\ Insert(g, q).prevFree = [g.prevFree EXCEPT ![q] = q]
          /\ Insert(g, q).size = g.size /\ Insert(g, q).used = g.used
          /\ Insert(g, q).prevReal = g.prevReal /\ Insert(g, q).first = g.first
          /\ Insert(g, q).last = g.last /\ Insert(g, q).brk = g.brk
        BY <2>1 DEF Heap
    <2> QED BY <2>2, <2>3 DEF OnlyLinks, Heap
<1>2. CASE g.rover # Null
    <2> DEFINE r == g.rover
               n == g.nextFree[r]
               m == [g EXCEPT !.nextFree[r] = q, !.prevFree[n] = q]
    <2>1. r \in F /\ r \in Addr
        BY <1>2 DEF Ring, Linked
    <2>2. n \in F /\ n \in Addr
        BY <2>1 DEF Ring, Linked
    <2>3. Insert(g, q) = [m EXCEPT !.nextFree[q] = n, !.prevFree[q] = r]
        BY <1>2 DEF Insert
    <2>4. m \in Heap
        BY <2>1, <2>2 DEF Heap, Pointer
    <2>5. Insert(g, q) \in Heap
        <3>1. /\ [m.nextFree EXCEPT ![q] = n] \in [Addr -> Pointer]
              /\ [m.prevFree EXCEPT ![q] = r] \in [Addr -> Pointer]
            <4> HIDE DEF m, n, r
            <4> QED BY <2>1, <2>2, <2>4 DEF Heap, Pointer
        <3> HIDE DEF m, n, r
        <3> QED BY <2>3, <2>4, <3>1 DEF Heap
    <2>6. /\ Insert(g, q).nextFree = [[g.nextFree EXCEPT ![r] = q] EXCEPT ![q] = n]
          /\ Insert(g, q).prevFree = [[g.prevFree EXCEPT ![n] = q] EXCEPT ![q] = r]
          /\ Insert(g, q).size = g.size /\ Insert(g, q).used = g.used
          /\ Insert(g, q).prevReal = g.prevReal /\ Insert(g, q).first = g.first
          /\ Insert(g, q).last = g.last /\ Insert(g, q).brk = g.brk
        BY <2>3 DEF Heap
    <2>7. \A b \in Addr \ (F \cup {q}) : /\ Insert(g, q).nextFree[b] = g.nextFree[b]
                                       /\ Insert(g, q).prevFree[b] = g.prevFree[b]
        <3> HIDE DEF n, r, m
        <3> QED BY <2>1, <2>2, <2>6 DEF Heap
    <2> QED BY <2>5, <2>6, <2>7 DEF OnlyLinks
<1> QED BY <1>1, <1>2

\* Links of the blocks on a ring are addresses.
LEMMA RingLinks ==
    ASSUME NEW g, NEW F \in SUBSET Addr, Ring(g, F), NEW b \in F
    PROVE  g.nextFree[b] \in Addr /\ g.prevFree[b] \in Addr /\ g.nextFree[b] # Wild
BY BoundaryAssumption DEF Ring, Linked, BoundaryAssumption

\* A free block that is given as it is.
LEMMA WholeSound ==
    ASSUME NEW g, Sound(g), NEW q \in FreeBlocks(g)
    PROVE  LET k == Give(Pull(g, q), q)
           IN  /\ Sound(k)
               /\ UsedBlocks(k) = UsedBlocks(g) \cup {q}
               /\ k.size = g.size
<1> DEFINE F == FreeBlocks(g)
           m == Pull(g, q)
           k == Give(m, q)
<1>1. g \in Heap /\ F \subseteq Addr /\ q \in Addr /\ Ring(g, F)
    BY DEF Sound, FreeBlocks, Blocks
<1>2. OnlyLinks(g, m, F) /\ Ring(m, F \ {q})
    BY <1>1, PullFields, PullRing
<1> HIDE DEF m
<1>3. /\ k.size = g.size /\ k.prevReal = g.prevReal /\ k.brk = g.brk
      /\ k.first = g.first /\ k.last = g.last /\ k.rover = m.rover
      /\ k.used = [g.used EXCEPT ![q] = TRUE]
      /\ k.nextFree = [m.nextFree EXCEPT ![q] = Wild]
      /\ k.prevFree = [m.prevFree EXCEPT ![q] = Wild]
      /\ k \in Heap
    BY <1>1, <1>2 DEF Give, OnlyLinks, Heap, Pointer
<1> HIDE DEF k
<1>4. Tiles(k) /\ Blocks(k) = Blocks(g)
    BY <1>3, TilesFrame DEF Sound
<1>5. FreeBlocks(k) = F \ {q}
    BY <1>1, <1>3, <1>4 DEF FreeBlocks, Heap
<1>6. Ring(k, F \ {q})
    <2>1. \A b \in F \ {q} : k.nextFree[b] = m.nextFree[b] /\ k.prevFree[b] = m.prevFree[b]
        BY <1>1, <1>2, <1>3 DEF OnlyLinks, Heap
    <2>2. Ring(m, F \ {q}) /\ k.rover = m.rover
        BY <1>2, <1>3
    <2> HIDE DEF F
    <2> QED BY ONLY <2>1, <2>2, RingFrame
<1>7. Coalesced(k)
    BY <1>3, <1>5 DEF Sound, Coalesced, After
<1>8. LinksMarkFree(k)
    <2>1. \A b \in F \ {q} : k.nextFree[b] # Wild
        BY <1>1, <1>6, RingLinks
    <2>2. k.nextFree[q] = Wild
        BY <1>1, <1>2, <1>3 DEF OnlyLinks, Heap
    <2>3. \A b \in Addr \ F : k.nextFree[b] = Wild
        BY <1>1, <1>2, <1>3 DEF OnlyLinks, Heap, Sound, LinksMarkFree
    <2> QED BY <2>1, <2>2, <2>3, <1>5 DEF LinksMarkFree
<1>9. UsedBlocks(k) = UsedBlocks(g) \cup {q}
    BY <1>4, <1>5 DEF UsedBlocks, FreeBlocks
<1> QED BY <1>3, <1>4, <1>5, <1>6, <1>7, <1>8, <1>9 DEF Sound, k, m

\* The rear of a free block is given.
LEMMA PartialSound ==
    ASSUME NEW g, Sound(g), NEW q \in FreeBlocks(g), NEW len \in Nat,
           len >= FreeHeader, g.size[q] >= len + FreeHeader
    PROVE  LET n == After(g, q) - len
               k == Give(Cut(g, q, len), n)
           IN  /\ Sound(k)
               /\ n \in Addr /\ n \notin Blocks(g)
               /\ UsedBlocks(k) = UsedBlocks(g) \cup {n}
               /\ k.size[n] = len
               /\ \A b \in UsedBlocks(g) : k.size[b] = g.size[b]
<1> DEFINE n == After(g, q) - len
           m == Cut(g, q, len)
           k == Give(m, n)
           F == FreeBlocks(g)
<1>f. /\ Blocks(g) \subseteq Addr /\ Addr \subseteq Nat
      /\ \A x \in Addr : g.size[x] \in Nat /\ After(g, x) \in Nat
      /\ g.brk \in Nat /\ FreeHeader \in Nat \ {0} /\ Null \notin Addr
    BY BlockFacts DEF Sound
<1>1. /\ g \in Heap /\ Tiles(g) /\ F \subseteq Blocks(g) /\ q \in Addr /\ q \in Blocks(g)
      /\ Ring(g, F) /\ q # g.last /\ After(g, q) \in Blocks(g) /\ After(g, q) \in Addr
    BY <1>f DEF Sound, FreeBlocks, Coalesced, Tiles
<1>2. n + len = After(g, q) /\ n # After(g, q) /\ n # q
    <2>1. \A z \in Nat : z = q + g.size[q] => z - len + len = z /\ z - len # z /\ z - len # q
        BY <1>1, <1>f
    <2> QED BY <2>1, <1>1, <1>f DEF After
<1>3. ASSUME n \in Addr
      PROVE  /\ m \in Heap /\ m.used = g.used
             /\ m.size = [g.size EXCEPT ![q] = g.size[q] - len, ![n] = len]
             /\ m.prevReal = [g.prevReal EXCEPT ![n] = q, ![After(g, q)] = n]
             /\ m.first = g.first /\ m.last = g.last /\ m.brk = g.brk
             /\ m.rover = g.rover /\ m.nextFree = g.nextFree /\ m.prevFree = g.prevFree
    <2> DEFINE s == [g EXCEPT !.size = [g.size EXCEPT ![q] = g.size[q] - len, ![n] = len],
                              !.prevReal[n] = q]
    <2>0. m = [s EXCEPT !.prevReal[n + len] = n]
        BY <1>1 DEF Cut
    <2>1. m = [g EXCEPT !.size = [g.size EXCEPT ![q] = g.size[q] - len, ![n] = len],
                        !.prevReal = [g.prevReal EXCEPT ![n] = q, ![After(g, q)] = n]]
        <3> HIDE DEF m, n
        <3> QED BY <2>0, <1>1, <1>2, <1>3 DEF Heap
    <2>2. g.size[q] - len \in Nat
        BY <1>1, <1>f
    <2> HIDE DEF n, m
    <2> QED BY <1>1, <1>3, <2>1, <2>2 DEF Heap, Pointer
<1>4. n \in Addr
    <2>1. n \in Nat /\ n < After(g, q)
        <3>1. \A z \in Nat : z = q + g.size[q] => z - len \in Nat /\ z - len < z
            BY <1>1, <1>f
        <3> QED BY <3>1, <1>1, <1>f DEF After
    <2> QED BY <2>1, <1>1, <1>f, BoundaryAssumption DEF Addr, BoundaryAssumption
<1> HIDE DEF m
<1>5. /\ k.size = m.size /\ k.prevReal = m.prevReal /\ k.brk = g.brk
      /\ k.first = g.first /\ k.last = g.last /\ k.rover = g.rover
      /\ k.used = [g.used EXCEPT ![n] = TRUE]
      /\ k.nextFree = [g.nextFree EXCEPT ![n] = Wild]
      /\ k.prevFree = [g.prevFree EXCEPT ![n] = Wild]
      /\ k \in Heap
    <2> HIDE DEF n
    <2> QED BY <1>3, <1>4 DEF Give, Heap, Pointer
<1> HIDE DEF k
<1>6. k.prevReal[n] = q /\ \A c \in Blocks(g) : n # c =>
            k.prevReal[c] = IF c = After(g, q) THEN n ELSE g.prevReal[c]
    <2> HIDE DEF n
    <2> QED BY <1>1, <1>2, <1>3, <1>4, <1>5, <1>f DEF Heap
<1>7. Tiles(k) /\ n \notin Blocks(g) /\ Blocks(k) = Blocks(g) \cup {n}
    <2>1. n \notin Blocks(g)
        <3>1. q < n /\ n < After(g, q)
            <4>1. \A z \in Nat : z = q + g.size[q] => q < z - len /\ z - len < z
                BY <1>1, <1>f
            <4> QED BY <4>1, <1>1, <1>f DEF After
        <3> QED BY <3>1, <1>1, <1>4, <1>f DEF Tiles
    <2>2. k.size = [g.size EXCEPT ![q] = g.size[q] - len, ![n] = len]
        BY <1>3, <1>4, <1>5
    <2>3. \A c \in Blocks(g) : k.prevReal[c] = IF c = After(g, q) THEN n ELSE g.prevReal[c]
        BY <1>6, <2>1
    <2>4. k.last = IF q = g.last THEN n ELSE g.last
        BY <1>1, <1>5
    <2> QED BY <2>1, <2>2, <2>3, <2>4, <1>1, <1>5, <1>6, CutTiles
<1>8. /\ k.size[n] = len
      /\ \A b \in Addr : b # q /\ b # n => k.size[b] = g.size[b]
    <2> HIDE DEF n
    <2> QED BY <1>1, <1>2, <1>3, <1>4, <1>5 DEF Heap
<1>9. FreeBlocks(k) = F /\ UsedBlocks(k) = UsedBlocks(g) \cup {n}
    <2> HIDE DEF n
    <2> QED BY <1>1, <1>4, <1>5, <1>7 DEF FreeBlocks, UsedBlocks, Heap
<1>10. \A b \in F : b # n /\ b \in Addr
    BY <1>1, <1>7, <1>f
<1>11. Ring(k, F)
    <2>1. \A b \in F : k.nextFree[b] = g.nextFree[b] /\ k.prevFree[b] = g.prevFree[b]
        BY <1>5, <1>10, <1>1 DEF Heap
    <2>2. Ring(g, F) /\ k.rover = g.rover
        BY <1>1, <1>5
    <2> HIDE DEF F
    <2> QED BY ONLY <2>1, <2>2, RingFrame
<1>12. Coalesced(k)
    <2> SUFFICES ASSUME NEW b \in F PROVE b # k.last /\ After(k, b) \notin F
        BY <1>9 DEF Coalesced
    <2>1. CASE b = q
        <3>1. k.size[q] = g.size[q] - len
            <4> HIDE DEF n
            <4> QED BY <1>1, <1>2, <1>3, <1>4, <1>5 DEF Heap
        <3>2. After(k, q) = n
            <4>1. \A z \in Nat : z = q + g.size[q] => q + (g.size[q] - len) = z - len
                BY <1>1, <1>f
            <4> QED BY <3>1, <4>1, <1>1, <1>f DEF After
        <3> QED BY <2>1, <3>2, <1>1, <1>5, <1>10
    <2>2. CASE b # q
        BY <2>2, <1>8, <1>10, <1>5 DEF Sound, Coalesced, After
    <2> QED BY <2>1, <2>2
<1>13. LinksMarkFree(k)
    <2> HIDE DEF n
    <2> QED BY <1>4, <1>5, <1>9, <1>10, <1>1 DEF LinksMarkFree, Sound, Heap
<1>14. \A b \in UsedBlocks(g) : k.size[b] = g.size[b]
    BY <1>7, <1>8, <1>f DEF UsedBlocks
<1> QED BY <1>4, <1>5, <1>7, <1>8, <1>9, <1>11, <1>12, <1>13, <1>14 DEF Sound, k, m

\* The header of a joined or released block is gone, and nothing else.
LEMMA ForgetFields ==
    ASSUME NEW g \in Heap, NEW b \in Addr
    PROVE  LET k == Forget(g, b)
           IN  /\ k \in Heap
               /\ k.size = [g.size EXCEPT ![b] = 0]
               /\ k.used = [g.used EXCEPT ![b] = FALSE]
               /\ k.first = g.first /\ k.last = g.last /\ k.brk = g.brk
               /\ k.rover = g.rover
               /\ k.nextFree[b] = Wild
               /\ \A c \in Addr : c # b =>
                    /\ k.nextFree[c] = g.nextFree[c]
                    /\ k.prevFree[c] = g.prevFree[c]
                    /\ k.prevReal[c] = g.prevReal[c]
<1> DEFINE k == Forget(g, b)
<1>1. /\ k.size = [g.size EXCEPT ![b] = 0]
      /\ k.used = [g.used EXCEPT ![b] = FALSE]
      /\ k.prevReal = [g.prevReal EXCEPT ![b] = Wild]
      /\ k.nextFree = [g.nextFree EXCEPT ![b] = Wild]
      /\ k.prevFree = [g.prevFree EXCEPT ![b] = Wild]
      /\ k.first = g.first /\ k.last = g.last /\ k.brk = g.brk
      /\ k.rover = g.rover
    BY DEF Forget, Heap
<1>2. k \in Heap
    <2>1. k = [g EXCEPT !.size = [g.size EXCEPT ![b] = 0],
                        !.used = [g.used EXCEPT ![b] = FALSE],
                        !.prevReal = [g.prevReal EXCEPT ![b] = Wild],
                        !.nextFree = [g.nextFree EXCEPT ![b] = Wild],
                        !.prevFree = [g.prevFree EXCEPT ![b] = Wild]]
        BY DEF Forget, Heap
    <2> HIDE DEF k
    <2> QED BY <2>1 DEF Heap, Pointer
<1> HIDE DEF k
<1>3. /\ k.nextFree[b] = Wild
      /\ \A c \in Addr : c # b => /\ k.nextFree[c] = g.nextFree[c]
                                  /\ k.prevFree[c] = g.prevFree[c]
                                  /\ k.prevReal[c] = g.prevReal[c]
    BY <1>1 DEF Heap
<1> QED BY <1>1, <1>2, <1>3 DEF k

\* What joining the block behind a does to the headers.
LEMMA MergeFields ==
    ASSUME NEW g \in Heap, Tiles(g), NEW a \in Blocks(g), a # g.last
    PROVE  LET b == After(g, a)
               k == Merge(g, a, b)
           IN  /\ k \in Heap
               /\ b \in Blocks(g) /\ b # a
               /\ k.size = [g.size EXCEPT ![a] = g.size[a] + g.size[b]]
               /\ k.used = g.used /\ k.nextFree = g.nextFree /\ k.prevFree = g.prevFree
               /\ k.first = g.first /\ k.brk = g.brk /\ k.rover = g.rover
               /\ k.last = IF b = g.last THEN a ELSE g.last
               /\ \A c \in Blocks(g) :
                    k.prevReal[c] = IF c = After(g, b) THEN a ELSE g.prevReal[c]
<1> DEFINE b == After(g, a)
           k == Merge(g, a, b)
           long == [g EXCEPT !.size[a] = @ + g.size[b]]
<1>1. /\ Blocks(g) \subseteq Addr /\ a \in Addr /\ b \in Blocks(g) /\ b \in Addr
      /\ g.size[a] \in Nat /\ g.size[b] \in Nat
    BY BlockFacts DEF Tiles
<1>2. b # a
    BY <1>1, BlockFacts DEF Blocks, After
<1>3. [g.size EXCEPT ![a] = g.size[a] + g.size[b]] \in [Addr -> Nat]
    <2> HIDE DEF b
    <2> QED BY <1>1 DEF Heap
<1>4. CASE b = g.last
    <2>1. k = [g EXCEPT !.size = [g.size EXCEPT ![a] = g.size[a] + g.size[b]], !.last = a]
        <3>1. k = [long EXCEPT !.last = a]
            BY <1>4 DEF Merge
        <3> HIDE DEF b, k
        <3> QED BY <3>1, <1>1 DEF Heap
    <2>2. k \in Heap
        <3> HIDE DEF b, k
        <3> QED BY <2>1, <1>1, <1>3 DEF Heap, Member
    <2>3. ASSUME NEW c \in Blocks(g)
          PROVE  c # After(g, b)
        <3>1. After(g, b) = g.brk /\ After(g, c) <= g.brk /\ After(g, c) > c
            BY <1>1, <1>4, BlockFacts DEF Tiles, Blocks, After
        <3> QED BY <3>1, <1>1, BlockFacts
    <2> HIDE DEF k
    <2> QED BY <2>1, <2>2, <2>3, <1>1, <1>2, <1>4 DEF Heap, k
<1>5. CASE b # g.last
    <2> DEFINE n == After(g, b)
    <2>1. n \in Addr
        BY <1>1, <1>5 DEF Tiles
    <2>2. k = [g EXCEPT !.size = [g.size EXCEPT ![a] = g.size[a] + g.size[b]],
                        !.prevReal = [g.prevReal EXCEPT ![n] = a]]
        <3>1. k = [long EXCEPT !.prevReal[n] = a]
            BY <1>5 DEF Merge
        <3> HIDE DEF b, k, n
        <3> QED BY <3>1, <1>1 DEF Heap
    <2>3. [g.prevReal EXCEPT ![n] = a] \in [Addr -> Pointer]
        <3> HIDE DEF n
        <3> QED BY <2>1, <1>1 DEF Heap, Pointer
    <2>4. k \in Heap
        <3> HIDE DEF b, k, n
        <3> QED BY <2>2, <2>3, <1>3 DEF Heap
    <2>5. /\ k.size = [g.size EXCEPT ![a] = g.size[a] + g.size[b]]
          /\ k.used = g.used /\ k.nextFree = g.nextFree /\ k.prevFree = g.prevFree
          /\ k.first = g.first /\ k.brk = g.brk /\ k.rover = g.rover
          /\ k.last = g.last
          /\ k.prevReal = [g.prevReal EXCEPT ![n] = a]
        <3> HIDE DEF b, k, n
        <3> QED BY <2>2 DEF Heap
    <2>6. \A c \in Blocks(g) : k.prevReal[c] = IF c = n THEN a ELSE g.prevReal[c]
        <3> HIDE DEF b, k, n
        <3> QED BY <2>5, <1>1 DEF Heap
    <2> HIDE DEF k
    <2> QED BY <2>4, <2>5, <2>6, <1>1, <1>2, <1>5 DEF k
<1> QED BY <1>4, <1>5

\* A block beyond the break is given.
LEMMA ExtendSound ==
    ASSUME NEW g, Sound(g), NEW len \in Nat, len >= FreeHeader, g.brk + len <= HeapSize
    PROVE  LET k == Give(Extend(g, len), g.brk)
           IN  /\ Sound(k)
               /\ g.brk \in Addr /\ g.brk \notin Blocks(g)
               /\ UsedBlocks(k) = UsedBlocks(g) \cup {g.brk}
               /\ k.size[g.brk] = len
               /\ \A b \in UsedBlocks(g) : k.size[b] = g.size[b]
<1> DEFINE q == g.brk
           m == Extend(g, len)
           k == Give(m, q)
           F == FreeBlocks(g)
<1>1. /\ g \in Heap /\ Tiles(g) /\ F \subseteq Blocks(g) /\ Blocks(g) \subseteq Addr
      /\ Ring(g, F) /\ q + len \in 0..HeapSize
    BY BlockFacts DEF Sound, FreeBlocks
<1>2. q \in Addr /\ q \in Nat
    BY <1>1, BlockFacts, BoundaryAssumption DEF Addr, BoundaryAssumption
<1>3. g.first # Null => g.last \in Addr
    BY <1>1 DEF Tiles
<1>4. /\ m \in Heap /\ m.used = g.used /\ m.rover = g.rover
      /\ m.size = [g.size EXCEPT ![q] = len]
      /\ m.first = IF g.first = Null THEN q ELSE g.first
      /\ m.last = q /\ m.brk = q + len
      /\ m.nextFree = g.nextFree /\ m.prevFree = g.prevFree
      /\ g.first # Null => m.prevReal[q] = g.last
      /\ \A c \in Addr \ {q} : m.prevReal[c] = g.prevReal[c]
    <2> DEFINE w == [g EXCEPT !.brk = @ + len, !.last = q, !.size[q] = len]
    <2>1. CASE g.first = Null
        <3>1. m = [w EXCEPT !.first = q]
            BY <2>1 DEF Extend
        <3>2. m = [g EXCEPT !.brk = q + len, !.last = q, !.first = q,
                            !.size = [g.size EXCEPT ![q] = len]]
            <4> HIDE DEF m
            <4> QED BY <3>1 DEF Heap
        <3> HIDE DEF m
        <3> QED BY <3>2, <2>1, <1>1, <1>2 DEF Heap, Member
    <2>2. CASE g.first # Null
        <3>1. m = [w EXCEPT !.prevReal[q] = g.last]
            BY <2>2 DEF Extend
        <3>2. m = [g EXCEPT !.brk = q + len, !.last = q,
                            !.size = [g.size EXCEPT ![q] = len],
                            !.prevReal = [g.prevReal EXCEPT ![q] = g.last]]
            <4> HIDE DEF m
            <4> QED BY <3>1 DEF Heap
        <3> HIDE DEF m
        <3> QED BY <3>2, <2>2, <1>1, <1>2, <1>3 DEF Heap, Member, Pointer
    <2> QED BY <2>1, <2>2
<1> HIDE DEF m
<1>5. /\ k.size = m.size /\ k.prevReal = m.prevReal /\ k.brk = q + len
      /\ k.first = m.first /\ k.last = q /\ k.rover = g.rover
      /\ k.used = [g.used EXCEPT ![q] = TRUE]
      /\ k.nextFree = [g.nextFree EXCEPT ![q] = Wild]
      /\ k.prevFree = [g.prevFree EXCEPT ![q] = Wild]
      /\ k \in Heap
    BY <1>2, <1>4 DEF Give, Heap, Pointer
<1> HIDE DEF k
<1>6. q \notin Blocks(g)
    <2> SUFFICES ASSUME q \in Blocks(g) PROVE FALSE
        OBVIOUS
    <2>1. After(g, q) <= q /\ g.size[q] \in Nat /\ g.size[q] # 0
        BY <1>1, <1>2, BlockFacts DEF Tiles, Blocks
    <2> QED BY <2>1, <1>2 DEF After
<1>7. Tiles(k) /\ Blocks(k) = Blocks(g) \cup {q}
    <2>1. \A c \in Blocks(g) : k.prevReal[c] = g.prevReal[c]
        BY <1>1, <1>4, <1>5, <1>6
    <2> QED BY <2>1, <1>1, <1>4, <1>5, ExtendTiles
<1>8. k.size[q] = len /\ \A b \in Addr \ {q} : k.size[b] = g.size[b]
    BY <1>2, <1>4, <1>5 DEF Heap
<1>9. FreeBlocks(k) = F /\ UsedBlocks(k) = UsedBlocks(g) \cup {q} /\ q \notin F
    BY <1>1, <1>2, <1>5, <1>6, <1>7 DEF FreeBlocks, UsedBlocks, Heap
<1>10. Ring(k, F)
    <2>1. \A b \in F : k.nextFree[b] = g.nextFree[b] /\ k.prevFree[b] = g.prevFree[b]
        BY <1>5, <1>9, <1>1 DEF Heap
    <2>2. Ring(g, F) /\ k.rover = g.rover
        BY <1>1, <1>5
    <2> HIDE DEF F
    <2> QED BY ONLY <2>1, <2>2, RingFrame
<1>11. Coalesced(k)
    BY <1>1, <1>5, <1>8, <1>9 DEF Sound, Coalesced, After
<1>12. LinksMarkFree(k)
    BY <1>2, <1>5, <1>9, <1>1 DEF LinksMarkFree, Sound, Heap
<1>13. \A b \in UsedBlocks(g) : k.size[b] = g.size[b]
    BY <1>1, <1>6, <1>8 DEF UsedBlocks
<1> QED BY <1>2, <1>5, <1>6, <1>7, <1>8, <1>9, <1>10, <1>11, <1>12, <1>13 DEF Sound, k, m

\* The last block is freed: the break goes back to the end of the last used one.
LEMMA FreeLastSound ==
    ASSUME NEW g, Sound(g), g.last \in UsedBlocks(g)
    PROVE  LET k == FreeLast(g)
           IN  /\ Sound(k)
               /\ UsedBlocks(k) = UsedBlocks(g) \ {g.last}
               /\ \A b \in UsedBlocks(k) : k.size[b] = g.size[b]
<1> DEFINE q == g.last
           p == g.prevReal[q]
           k == FreeLast(g)
           F == FreeBlocks(g)
<1>1. /\ g \in Heap /\ Tiles(g) /\ F \subseteq Blocks(g) /\ Blocks(g) \subseteq Addr
      /\ Ring(g, F) /\ Coalesced(g) /\ LinksMarkFree(g)
      /\ q \in Blocks(g) /\ q \in Addr /\ q \notin F /\ F \subseteq Addr
    BY BlockFacts DEF Sound, FreeBlocks, UsedBlocks
<1>2. q # g.first => p \in Blocks(g) /\ After(g, p) = q /\ p # q /\ p \in Addr
    BY <1>1, BlockFacts DEF Tiles, Blocks, After
<1>3. CASE q = g.first \/ g.used[p]
    <2> DEFINE m == IF q = g.first THEN [g EXCEPT !.brk = q, !.first = Null, !.last = Null]
                    ELSE [g EXCEPT !.brk = q, !.last = p]
    <2>1. k = Forget(m, q)
        BY <1>3 DEF FreeLast
    <2>2. /\ m \in Heap
          /\ m.size = g.size /\ m.used = g.used /\ m.prevReal = g.prevReal
          /\ m.nextFree = g.nextFree /\ m.prevFree = g.prevFree /\ m.rover = g.rover
          /\ m.first = (IF q = g.first THEN Null ELSE g.first)
          /\ m.last = (IF q = g.first THEN Null ELSE p)
          /\ m.brk = q
        <3>1. q \in 0..HeapSize
            BY <1>1, BoundaryAssumption DEF Addr, BoundaryAssumption
        <3> HIDE DEF q, p
        <3>2. CASE q = g.first
            BY <3>1, <3>2, <1>1 DEF Heap, Member
        <3>3. CASE q # g.first
            BY <3>1, <3>3, <1>1, <1>2 DEF Heap, Member
        <3> QED BY <3>2, <3>3
    <2> HIDE DEF m, k
    <2>3. /\ k \in Heap
          /\ k.size = [g.size EXCEPT ![q] = 0]
          /\ k.used = [g.used EXCEPT ![q] = FALSE]
          /\ k.first = m.first /\ k.last = m.last /\ k.brk = q
          /\ k.rover = g.rover /\ k.nextFree[q] = Wild
          /\ \A c \in Addr : c # q => /\ k.nextFree[c] = g.nextFree[c]
                                      /\ k.prevFree[c] = g.prevFree[c]
                                      /\ k.prevReal[c] = g.prevReal[c]
        <3>1. q \in Addr /\ m \in Heap
            BY <1>1, <2>2
        <3>2. /\ k \in Heap
              /\ k.size = [m.size EXCEPT ![q] = 0]
              /\ k.used = [m.used EXCEPT ![q] = FALSE]
              /\ k.first = m.first /\ k.last = m.last /\ k.brk = m.brk
              /\ k.rover = m.rover /\ k.nextFree[q] = Wild
              /\ \A c \in Addr : c # q => /\ k.nextFree[c] = m.nextFree[c]
                                          /\ k.prevFree[c] = m.prevFree[c]
                                          /\ k.prevReal[c] = m.prevReal[c]
            <4> HIDE DEF q
            <4> QED BY <2>1, <3>1, ForgetFields
        <3> HIDE DEF q
        <3> QED BY <2>2, <3>2
    <2>4. Tiles(k) /\ Blocks(k) = Blocks(g) \ {q}
        <3>1. /\ k.brk = g.last
              /\ k.first = IF g.last = g.first THEN Null ELSE g.first
              /\ k.last = IF g.last = g.first THEN Null ELSE g.prevReal[g.last]
              /\ \A c \in Blocks(g) : c # g.last => k.prevReal[c] = g.prevReal[c]
            BY <2>2, <2>3, <1>1
        <3> QED BY <3>1, <2>3, <1>1, ShrinkTiles
    <2>5. \A b \in Blocks(k) : k.size[b] = g.size[b] /\ k.used[b] = g.used[b]
        BY <2>3, <2>4, <1>1 DEF Heap
    <2>6. FreeBlocks(k) = F /\ UsedBlocks(k) = UsedBlocks(g) \ {q}
        BY <2>4, <2>5, <1>1 DEF FreeBlocks, UsedBlocks
    <2>7. Ring(k, F)
        <3>1. \A b \in F : k.nextFree[b] = g.nextFree[b] /\ k.prevFree[b] = g.prevFree[b]
            BY <2>3, <1>1
        <3>2. Ring(g, F) /\ k.rover = g.rover
            BY <1>1, <2>3
        <3> HIDE DEF F
        <3> QED BY ONLY <3>1, <3>2, RingFrame
    <2>8. Coalesced(k)
        <3> SUFFICES ASSUME NEW b \in F PROVE b # k.last /\ After(k, b) \notin F
            BY <2>6 DEF Coalesced
        <3>1. b \in Blocks(k) /\ b \in Blocks(g) /\ ~ g.used[b]
            BY <2>6 DEF FreeBlocks
        <3>2. After(k, b) \notin F
            BY <3>1, <2>5, <1>1 DEF Coalesced, After
        <3>3. q # g.first
            <4> SUFFICES ASSUME q = g.first PROVE FALSE
                OBVIOUS
            <4>1. k.first = Null /\ k.first = 0 /\ 0 \in Addr
                BY <2>2, <2>3, <2>4, <3>1, <1>1 DEF Tiles
            <4> QED BY <4>1, BlockFacts, <1>1
        <3> QED BY <3>1, <3>2, <3>3, <2>2, <2>3, <1>3
    <2>9. LinksMarkFree(k)
        BY <2>3, <2>6, <1>1 DEF LinksMarkFree
    <2> QED BY <2>3, <2>4, <2>5, <2>6, <2>7, <2>8, <2>9 DEF Sound, k, UsedBlocks
<1>4. CASE q # g.first /\ ~ g.used[p]
    <2> DEFINE m == Forget([g EXCEPT !.brk = q, !.last = p], q)
               u == Pull(g, p)
               v == IF p = g.first
                    THEN [u EXCEPT !.brk = p, !.first = Null, !.last = Null]
                    ELSE [u EXCEPT !.brk = p, !.last = g.prevReal[p]]
    <2>1. /\ k = Forget(Forget(v, p), q)
          /\ p \in F /\ p \in Addr /\ p # q
        BY <1>1, <1>2, <1>4 DEF FreeLast, FreeBlocks
    <2>2. /\ m \in Heap
          /\ m.size = [g.size EXCEPT ![q] = 0]
          /\ m.first = g.first /\ m.last = p /\ m.brk = q
          /\ \A c \in Addr : c # q => m.prevReal[c] = g.prevReal[c]
        <3> DEFINE w == [g EXCEPT !.brk = q, !.last = p]
        <3>1. q \in 0..HeapSize
            BY <1>1, BoundaryAssumption DEF Addr, BoundaryAssumption
        <3>2. /\ w \in Heap /\ w.size = g.size /\ w.first = g.first /\ w.last = p
              /\ w.brk = q /\ w.prevReal = g.prevReal
            <4> HIDE DEF q, p
            <4> QED BY <3>1, <2>1, <1>1 DEF Heap, Member
        <3> HIDE DEF w
        <3>3. m = Forget(w, q)
            BY DEF w
        <3>4. q \in Addr
            BY <1>1
        <3> HIDE DEF m, q
        <3>5. /\ m \in Heap
              /\ m.size = [w.size EXCEPT ![q] = 0]
              /\ m.first = w.first /\ m.last = w.last /\ m.brk = w.brk
              /\ \A c \in Addr : c # q => m.prevReal[c] = w.prevReal[c]
            BY <3>2, <3>3, <3>4, ForgetFields
        <3> QED BY <3>2, <3>5
    <2> HIDE DEF m
    <2>3. Tiles(m) /\ Blocks(m) = Blocks(g) \ {q}
        <3>1. /\ m.brk = g.last
              /\ m.first = IF g.last = g.first THEN Null ELSE g.first
              /\ m.last = IF g.last = g.first THEN Null ELSE g.prevReal[g.last]
              /\ \A c \in Blocks(g) : c # g.last => m.prevReal[c] = g.prevReal[c]
            BY <2>2, <1>1, <1>4
        <3> QED BY <3>1, <2>2, <1>1, ShrinkTiles
    <2>4. OnlyLinks(g, u, F) /\ Ring(u, F \ {p})
        BY <1>1, <2>1, PullFields, PullRing
    <2>5. p # g.first => /\ g.prevReal[p] \in Blocks(g) /\ g.prevReal[p] \in Addr
                         /\ g.prevReal[p] \notin F
        <3> SUFFICES ASSUME p # g.first
                     PROVE  /\ g.prevReal[p] \in Blocks(g) /\ g.prevReal[p] \in Addr
                            /\ g.prevReal[p] \notin F
            OBVIOUS
        <3>1. g.prevReal[p] \in Blocks(g) /\ After(g, g.prevReal[p]) = p
            BY <1>1, <2>1 DEF Tiles
        <3> QED BY <3>1, <2>1, <1>1 DEF Coalesced
    <2> HIDE DEF u
    <2>6. /\ v \in Heap
          /\ v.size = g.size /\ v.used = g.used /\ v.prevReal = g.prevReal
          /\ v.nextFree = u.nextFree /\ v.prevFree = u.prevFree /\ v.rover = u.rover
          /\ v.first = (IF p = g.first THEN Null ELSE g.first)
          /\ v.last = (IF p = g.first THEN Null ELSE g.prevReal[p])
          /\ v.brk = p
        <3>1. p \in 0..HeapSize
            BY <2>1, BoundaryAssumption DEF Addr, BoundaryAssumption
        <3>2. /\ u \in Heap /\ u.size = g.size /\ u.used = g.used
              /\ u.prevReal = g.prevReal /\ u.first = g.first
            BY <2>4 DEF OnlyLinks
        <3> HIDE DEF q, p, F
        <3>3. CASE p = g.first
            BY <3>1, <3>2, <3>3 DEF Heap, Member
        <3>4. CASE p # g.first
            BY <3>1, <3>2, <3>4, <2>5 DEF Heap, Member
        <3> QED BY <3>3, <3>4
    <2> HIDE DEF v
    <2> DEFINE w == Forget(v, p)
    <2>7. /\ w \in Heap
          /\ w.size = [v.size EXCEPT ![p] = 0]
          /\ w.used = [v.used EXCEPT ![p] = FALSE]
          /\ w.first = v.first /\ w.last = v.last /\ w.brk = v.brk
          /\ w.rover = v.rover /\ w.nextFree[p] = Wild
          /\ \A c \in Addr : c # p => /\ w.nextFree[c] = v.nextFree[c]
                                      /\ w.prevFree[c] = v.prevFree[c]
                                      /\ w.prevReal[c] = v.prevReal[c]
        BY <2>1, <2>6, ForgetFields
    <2>8. k = Forget(w, q)
        BY <2>1
    <2> HIDE DEF w, k
    <2>9. /\ k \in Heap
          /\ k.size = [w.size EXCEPT ![q] = 0]
          /\ k.used = [w.used EXCEPT ![q] = FALSE]
          /\ k.first = w.first /\ k.last = w.last /\ k.brk = w.brk
          /\ k.rover = w.rover /\ k.nextFree[q] = Wild
          /\ \A c \in Addr : c # q => /\ k.nextFree[c] = w.nextFree[c]
                                      /\ k.prevFree[c] = w.prevFree[c]
                                      /\ k.prevReal[c] = w.prevReal[c]
        <3>1. q \in Addr /\ w \in Heap
            BY <1>1, <2>7
        <3> HIDE DEF q
        <3> QED BY <2>8, <3>1, ForgetFields
    <2>10. Tiles(k) /\ Blocks(k) = Blocks(g) \ {q, p}
        <3>1. k.size = [m.size EXCEPT ![m.last] = 0]
            <4>1. /\ k.size = [[g.size EXCEPT ![p] = 0] EXCEPT ![q] = 0]
                  /\ m.size = [g.size EXCEPT ![q] = 0]
                  /\ m.last = p
                BY <2>2, <2>6, <2>7, <2>9
            <4> HIDE DEF q, p, F
            <4> QED BY <4>1, <1>1, <2>1 DEF Heap
        <3>2. /\ k.brk = m.last
              /\ k.first = IF m.last = m.first THEN Null ELSE m.first
              /\ k.last = IF m.last = m.first THEN Null ELSE m.prevReal[m.last]
            <4> HIDE DEF q, p, F
            <4> QED BY <2>1, <2>2, <2>6, <2>7, <2>9
        <3>3. \A c \in Blocks(m) : c # m.last => k.prevReal[c] = m.prevReal[c]
            <4> HIDE DEF q, p, F
            <4> QED BY <2>2, <2>3, <2>6, <2>7, <2>9, <1>1
        <3>4. Blocks(m) # {}
            BY <2>3, <2>1, <1>1
        <3>5. Tiles(k) /\ Blocks(k) = Blocks(m) \ {m.last}
            BY <3>1, <3>2, <3>3, <3>4, <2>2, <2>3, ShrinkTiles
        <3> QED BY <3>5, <2>2, <2>3
    <2>11. \A b \in Blocks(k) : k.size[b] = g.size[b] /\ k.used[b] = g.used[b]
        <3> TAKE b \in Blocks(k)
        <3>1. b \in Addr /\ b # q /\ b # p
            BY <2>10, <1>1
        <3> HIDE DEF q, p, F
        <3>2. k.size[b] = w.size[b] /\ k.used[b] = w.used[b]
            BY <3>1, <2>7, <2>9 DEF Heap
        <3>3. w.size[b] = v.size[b] /\ w.used[b] = v.used[b]
            BY <3>1, <2>6, <2>7 DEF Heap
        <3> QED BY <3>2, <3>3, <2>6
    <2>12. FreeBlocks(k) = F \ {p} /\ UsedBlocks(k) = UsedBlocks(g) \ {q}
        BY <2>10, <2>11, <2>1, <1>1 DEF FreeBlocks, UsedBlocks
    <2>13. Ring(k, F \ {p})
        <3>1. \A b \in F \ {p} : k.nextFree[b] = u.nextFree[b] /\ k.prevFree[b] = u.prevFree[b]
            <4> HIDE DEF q, p
            <4> QED BY <2>6, <2>7, <2>9, <1>1
        <3>2. Ring(u, F \ {p}) /\ k.rover = u.rover
            BY <2>4, <2>6, <2>7, <2>9
        <3> HIDE DEF F, p
        <3> QED BY ONLY <3>1, <3>2, RingFrame
    <2>14. Coalesced(k)
        <3> SUFFICES ASSUME NEW b \in F \ {p} PROVE b # k.last /\ After(k, b) \notin F
            BY <2>12 DEF Coalesced
        <3>1. b \in Blocks(k) /\ b \in F
            BY <2>12 DEF FreeBlocks
        <3>2. After(k, b) \notin F
            BY <3>1, <2>11, <1>1 DEF Coalesced, After
        <3>3. p # g.first
            <4> SUFFICES ASSUME p = g.first PROVE FALSE
                OBVIOUS
            <4>1. k.first = Null /\ k.first = 0 /\ 0 \in Addr
                BY <2>6, <2>7, <2>9, <2>10, <3>1, <1>1 DEF Tiles
            <4> QED BY <4>1, BlockFacts, <1>1
        <3>4. k.last = g.prevReal[p]
            BY <3>3, <2>6, <2>7, <2>9
        <3> QED BY <3>1, <3>2, <3>3, <3>4, <2>5
    <2>15. LinksMarkFree(k)
        <3> SUFFICES ASSUME NEW a \in Addr
                     PROVE  k.nextFree[a] # Wild <=> a \in F \ {p}
            BY <2>12 DEF LinksMarkFree
        <3>1. CASE a \in F \ {p}
            BY <3>1, <2>13, <1>1, RingLinks
        <3>2. CASE a \in {p, q}
            BY <3>2, <2>1, <2>7, <2>9, <1>1
        <3>3. CASE a \notin F /\ a # q /\ a # p
            <4>1. k.nextFree[a] = g.nextFree[a]
                BY <3>3, <2>4, <2>6, <2>7, <2>9 DEF OnlyLinks
            <4> QED BY <4>1, <3>3, <1>1 DEF LinksMarkFree
        <3> QED BY <3>1, <3>2, <3>3
    <2> QED BY <2>9, <2>10, <2>11, <2>12, <2>13, <2>14, <2>15 DEF Sound, k, UsedBlocks
<1> QED BY <1>3, <1>4

\* Halfway through free_inner_block: the block freed is part of the free block a,
\* and a may still have a free block behind it.
Listed(g, k, q, a) ==
    /\ k \in Heap
    /\ Tiles(k)
    /\ FreeBlocks(k) = FreeBlocks(g) \cup {a}
    /\ UsedBlocks(k) = UsedBlocks(g) \ {q}
    /\ Ring(k, FreeBlocks(k))
    /\ LinksMarkFree(k)
    /\ k.last = g.last /\ a # k.last
    /\ After(k, a) = After(g, q) /\ After(k, a) \in Blocks(k)
    /\ After(k, a) # a
    /\ \A b \in FreeBlocks(k) \ {a} : b # k.last /\ After(k, b) \notin FreeBlocks(k)
    /\ \A b \in UsedBlocks(k) : k.size[b] = g.size[b]

\* The header of the freed block says so, and nothing else has changed.
LEMMA FreedFields ==
    ASSUME NEW g, Sound(g), NEW q \in UsedBlocks(g), q # g.last
    PROVE  LET f == [g EXCEPT !.used[q] = FALSE]
           IN  /\ f \in Heap
               /\ f.size = g.size /\ f.prevReal = g.prevReal /\ f.brk = g.brk
               /\ f.first = g.first /\ f.last = g.last /\ f.rover = g.rover
               /\ f.nextFree = g.nextFree /\ f.prevFree = g.prevFree
               /\ f.used = [g.used EXCEPT ![q] = FALSE]
               /\ Tiles(f) /\ Blocks(f) = Blocks(g)
               /\ FreeBlocks(f) = FreeBlocks(g) \cup {q}
               /\ Ring(f, FreeBlocks(g))
<1> DEFINE f == [g EXCEPT !.used[q] = FALSE]
           F == FreeBlocks(g)
<1>1. g \in Heap /\ Tiles(g) /\ q \in Addr /\ q \in Blocks(g) /\ Ring(g, F)
    BY BlockFacts DEF Sound, UsedBlocks
<1>2. /\ f \in Heap
      /\ f.size = g.size /\ f.prevReal = g.prevReal /\ f.brk = g.brk
      /\ f.first = g.first /\ f.last = g.last /\ f.rover = g.rover
      /\ f.nextFree = g.nextFree /\ f.prevFree = g.prevFree
      /\ f.used = [g.used EXCEPT ![q] = FALSE]
    BY <1>1 DEF Heap
<1> HIDE DEF f
<1>3. Tiles(f) /\ Blocks(f) = Blocks(g)
    BY <1>1, <1>2, TilesFrame
<1>4. FreeBlocks(f) = F \cup {q}
    BY <1>1, <1>2, <1>3, BlockFacts DEF FreeBlocks, Heap
<1>5. Ring(f, F)
    <2>1. \A b \in F : f.nextFree[b] = g.nextFree[b] /\ f.prevFree[b] = g.prevFree[b]
        BY <1>2
    <2>2. Ring(g, F) /\ f.rover = g.rover
        BY <1>1, <1>2
    <2> HIDE DEF F
    <2> QED BY ONLY <2>1, <2>2, RingFrame
<1> QED BY <1>2, <1>3, <1>4, <1>5 DEF f

\* The freed block joins the free block before it.
LEMMA JoinPrevious ==
    ASSUME NEW g, Sound(g), NEW q \in UsedBlocks(g), q # g.last,
           q # g.first, ~ g.used[g.prevReal[q]]
    PROVE  LET f == [g EXCEPT !.used[q] = FALSE]
               p == g.prevReal[q]
           IN  Listed(g, Forget(Merge(f, p, q), q), q, p)
<1> DEFINE f == [g EXCEPT !.used[q] = FALSE]
           p == g.prevReal[q]
           m == Merge(f, p, q)
           k == Forget(m, q)
           F == FreeBlocks(g)
<1>1. /\ g \in Heap /\ Tiles(g) /\ F \subseteq Blocks(g) /\ Blocks(g) \subseteq Addr
      /\ Coalesced(g) /\ LinksMarkFree(g)
      /\ q \in Blocks(g) /\ q \in Addr /\ q \notin F
    BY BlockFacts DEF Sound, FreeBlocks, UsedBlocks
<1>2. /\ p \in F /\ p \in Blocks(g) /\ p \in Addr /\ After(g, p) = q
      /\ p # g.last /\ p # q /\ After(g, q) \in Blocks(g)
    BY <1>1 DEF Tiles, FreeBlocks, Coalesced
<1>3. /\ f \in Heap
      /\ f.size = g.size /\ f.prevReal = g.prevReal /\ f.brk = g.brk
      /\ f.first = g.first /\ f.last = g.last /\ f.rover = g.rover
      /\ f.nextFree = g.nextFree /\ f.prevFree = g.prevFree
      /\ f.used = [g.used EXCEPT ![q] = FALSE]
      /\ Tiles(f) /\ Blocks(f) = Blocks(g) /\ Ring(f, F)
    BY FreedFields
<1> HIDE DEF f
<1>4. \A b : After(f, b) = After(g, b)
    BY <1>3 DEF After
<1>5. /\ m \in Heap
      /\ m.size = [g.size EXCEPT ![p] = g.size[p] + g.size[q]]
      /\ m.used = f.used /\ m.nextFree = g.nextFree /\ m.prevFree = g.prevFree
      /\ m.first = g.first /\ m.brk = g.brk /\ m.rover = g.rover
      /\ m.last = g.last
      /\ \A c \in Blocks(g) :
            m.prevReal[c] = IF c = After(g, q) THEN p ELSE g.prevReal[c]
    <2>1. p \in Blocks(f) /\ p # f.last /\ After(f, p) = q /\ q # f.last
        BY <1>2, <1>3, <1>4
    <2>2. LET b == After(f, p)
              j == Merge(f, p, b)
          IN  /\ j \in Heap
              /\ b \in Blocks(f) /\ b # p
              /\ j.size = [f.size EXCEPT ![p] = f.size[p] + f.size[b]]
              /\ j.used = f.used /\ j.nextFree = f.nextFree /\ j.prevFree = f.prevFree
              /\ j.first = f.first /\ j.brk = f.brk /\ j.rover = f.rover
              /\ j.last = IF b = f.last THEN p ELSE f.last
              /\ \A c \in Blocks(f) :
                   j.prevReal[c] = IF c = After(f, b) THEN p ELSE f.prevReal[c]
        BY <2>1, <1>3, MergeFields
    <2> HIDE DEF p
    <2> QED BY <2>1, <2>2, <1>3, <1>4
<1> HIDE DEF m
<1>6. /\ k \in Heap
      /\ k.size = [m.size EXCEPT ![q] = 0]
      /\ k.used = [m.used EXCEPT ![q] = FALSE]
      /\ k.first = m.first /\ k.last = m.last /\ k.brk = m.brk
      /\ k.rover = m.rover /\ k.nextFree[q] = Wild
      /\ \A c \in Addr : c # q => /\ k.nextFree[c] = m.nextFree[c]
                                  /\ k.prevFree[c] = m.prevFree[c]
                                  /\ k.prevReal[c] = m.prevReal[c]
    BY <1>1, <1>5, ForgetFields
<1> HIDE DEF k
<1>7. Tiles(k) /\ Blocks(k) = Blocks(g) \ {q}
    <2>1. \A c \in Blocks(g) : c # q => k.prevReal[c] =
              IF c = After(g, q) THEN p ELSE g.prevReal[c]
        <3> HIDE DEF p
        <3> QED BY <1>1, <1>5, <1>6
    <2>2. k.size = [g.size EXCEPT ![p] = g.size[p] + g.size[After(g, p)],
                                  ![After(g, p)] = 0]
        BY <1>2, <1>5, <1>6
    <2>3. /\ k.first = g.first /\ k.brk = g.brk
          /\ k.last = IF After(g, p) = g.last THEN p ELSE g.last
          /\ p \in Blocks(g) /\ p # g.last
          /\ \A c \in Blocks(g) : c # After(g, p) => k.prevReal[c] =
                IF c = After(g, After(g, p)) THEN p ELSE g.prevReal[c]
        BY <1>2, <1>5, <1>6, <2>1
    <2>4. Tiles(k) /\ Blocks(k) = Blocks(g) \ {After(g, p)}
        <3> HIDE DEF p
        <3> QED BY <2>2, <2>3, <1>1, MergeTiles
    <2> QED BY <2>4, <1>2
<1>8. /\ k.size[p] = g.size[p] + g.size[q]
      /\ \A b \in Addr : b # p /\ b # q => k.size[b] = g.size[b]
      /\ \A b \in Addr : k.used[b] = IF b = q THEN FALSE ELSE g.used[b]
    <2> HIDE DEF p
    <2>1. \A b \in Addr : k.size[b] = IF b = q THEN 0 ELSE m.size[b]
        BY <1>5, <1>6 DEF Heap
    <2>2. \A b \in Addr : m.size[b] = IF b = p THEN g.size[p] + g.size[q] ELSE g.size[b]
        BY <1>1, <1>5 DEF Heap
    <2>3. \A b \in Addr : k.used[b] = IF b = q THEN FALSE ELSE f.used[b]
        <3>1. k.used = [f.used EXCEPT ![q] = FALSE] /\ f.used \in [Addr -> BOOLEAN]
            BY <1>3, <1>5, <1>6 DEF Heap
        <3> QED BY <3>1
    <2>4. \A b \in Addr : f.used[b] = IF b = q THEN FALSE ELSE g.used[b]
        BY <1>1, <1>3 DEF Heap
    <2>5. p # q
        BY <1>2
    <2> QED BY <2>1, <2>2, <2>3, <2>4, <2>5, <1>2
<1>9. FreeBlocks(k) = F /\ UsedBlocks(k) = UsedBlocks(g) \ {q} /\ F = F \cup {p}
    <2> HIDE DEF p
    <2> QED BY <1>1, <1>2, <1>7, <1>8 DEF FreeBlocks, UsedBlocks
<1>10. Ring(k, F)
    <2>1. \A b \in F : k.nextFree[b] = f.nextFree[b] /\ k.prevFree[b] = f.prevFree[b]
        BY <1>1, <1>3, <1>5, <1>6
    <2>2. Ring(f, F) /\ k.rover = f.rover
        BY <1>3, <1>5, <1>6
    <2> HIDE DEF F
    <2> QED BY ONLY <2>1, <2>2, RingFrame
<1>11. LinksMarkFree(k)
    BY <1>1, <1>5, <1>6, <1>9 DEF LinksMarkFree
<1>12. After(k, p) = After(g, q) /\ After(g, q) # q /\ After(g, q) # p
    <2>1. g.size[p] \in Nat /\ g.size[q] \in Nat /\ p \in Nat /\ g.size[p] # 0 /\ g.size[q] # 0
        BY <1>1, <1>2, BlockFacts DEF Blocks
    <2>2. p + g.size[p] = q /\ q \in Nat
        BY <1>2, <1>1, BlockFacts DEF After
    <2> HIDE DEF p
    <2> QED BY <2>1, <2>2, <1>8 DEF After
<1>13. \A b \in F \ {p} : b # k.last /\ After(k, b) \notin F
    BY <1>1, <1>5, <1>6, <1>8 DEF Coalesced, After
<1>14. \A b \in UsedBlocks(k) : k.size[b] = g.size[b]
    <2> TAKE b \in UsedBlocks(k)
    <2>1. b \in Addr /\ b # p /\ b # q
        BY <1>1, <1>2, <1>9 DEF UsedBlocks
    <2> QED BY <2>1, <1>8
<1>15. k.last = g.last /\ p # k.last /\ After(k, p) \in Blocks(k)
    BY <1>2, <1>5, <1>6, <1>7, <1>12
<1> QED BY <1>6, <1>7, <1>9, <1>10, <1>11, <1>12, <1>13, <1>14, <1>15 DEF Listed, k, m, f

\* The freed block goes on the ring.
LEMMA InsertListed ==
    ASSUME NEW g, Sound(g), NEW q \in UsedBlocks(g), q # g.last,
           q = g.first \/ g.used[g.prevReal[q]]
    PROVE  Listed(g, Insert([g EXCEPT !.used[q] = FALSE], q), q, q)
<1> DEFINE f == [g EXCEPT !.used[q] = FALSE]
           k == Insert(f, q)
           F == FreeBlocks(g)
<1>1. /\ g \in Heap /\ Tiles(g) /\ F \subseteq Blocks(g) /\ Blocks(g) \subseteq Addr
      /\ Coalesced(g) /\ LinksMarkFree(g) /\ F \subseteq Addr
      /\ q \in Blocks(g) /\ q \in Addr /\ q \notin F
    BY BlockFacts DEF Sound, FreeBlocks, UsedBlocks
<1>2. /\ f \in Heap
      /\ f.size = g.size /\ f.prevReal = g.prevReal /\ f.brk = g.brk
      /\ f.first = g.first /\ f.last = g.last /\ f.rover = g.rover
      /\ f.nextFree = g.nextFree /\ f.prevFree = g.prevFree
      /\ f.used = [g.used EXCEPT ![q] = FALSE]
      /\ Tiles(f) /\ Blocks(f) = Blocks(g)
      /\ FreeBlocks(f) = F \cup {q}
      /\ Ring(f, F)
    BY FreedFields
<1> HIDE DEF f
<1>3. OnlyLinks(f, k, F \cup {q}) /\ Ring(k, F \cup {q})
    BY <1>1, <1>2, InsertFields, InsertRing
<1> HIDE DEF k
<1>4. /\ k \in Heap
      /\ k.size = g.size /\ k.used = f.used /\ k.prevReal = g.prevReal
      /\ k.first = g.first /\ k.last = g.last /\ k.brk = g.brk
      /\ \A b \in Addr \ (F \cup {q}) : k.nextFree[b] = g.nextFree[b]
    BY <1>2, <1>3 DEF OnlyLinks
<1>5. Tiles(k) /\ Blocks(k) = Blocks(g)
    BY <1>1, <1>4, TilesFrame
<1>6. FreeBlocks(k) = F \cup {q} /\ UsedBlocks(k) = UsedBlocks(g) \ {q}
    BY <1>1, <1>2, <1>4, <1>5 DEF FreeBlocks, UsedBlocks
<1>7. LinksMarkFree(k)
    <2>1. \A b \in F \cup {q} : k.nextFree[b] # Wild
        BY <1>1, <1>3, RingLinks
    <2>2. \A b \in Addr \ (F \cup {q}) : k.nextFree[b] = Wild
        BY <1>1, <1>4 DEF LinksMarkFree
    <2> QED BY <2>1, <2>2, <1>6, <1>1 DEF LinksMarkFree
<1>8. \A b : After(k, b) = After(g, b)
    BY <1>4 DEF After
<1>9. After(g, q) \in Blocks(g) /\ After(g, q) # q
    BY <1>1, BlockFacts DEF Tiles, Blocks, After
<1>10. \A b \in F : b # k.last /\ After(k, b) \notin F \cup {q}
    <2> TAKE b \in F
    <2>1. b # g.last /\ After(g, b) \notin F
        BY <1>1 DEF Coalesced
    <2>2. After(g, b) # q
        <3> SUFFICES ASSUME After(g, b) = q PROVE FALSE
            OBVIOUS
        <3>1. b \in Blocks(g) /\ g.prevReal[q] = b
            BY <2>1, <1>1 DEF Tiles
        <3>2. q # g.first
            <4> SUFFICES ASSUME q = g.first PROVE FALSE
                OBVIOUS
            <4>1. b \in Nat /\ g.size[b] \in Nat /\ g.size[b] # 0 /\ q = 0
                BY <3>1, <1>1, BlockFacts DEF Tiles, Blocks
            <4> QED BY <4>1 DEF After
        <3> QED BY <3>1, <3>2, <1>1 DEF FreeBlocks
    <2> QED BY <2>1, <2>2, <1>4, <1>8
<1> QED BY <1>1, <1>3, <1>4, <1>5, <1>6, <1>7, <1>8, <1>9, <1>10 DEF Listed, k, f

\* The second half of free_inner_block: the block behind is used, or joined too.
LEMMA ListedSound ==
    ASSUME NEW g, NEW k, NEW q, NEW a, Listed(g, k, q, a), k.used[After(k, a)]
    PROVE  Sound(k)
<1>1. After(k, a) \notin FreeBlocks(k)
    BY DEF FreeBlocks
<1> QED BY <1>1 DEF Listed, Sound, Coalesced

LEMMA JoinNext ==
    ASSUME NEW g, NEW w, NEW q, NEW a, Listed(g, w, q, a), ~ w.used[After(w, a)]
    PROVE  LET k == JoinFree(w, a, After(w, a))
           IN  /\ Sound(k)
               /\ UsedBlocks(k) = UsedBlocks(g) \ {q}
               /\ \A b \in UsedBlocks(k) : k.size[b] = g.size[b]
<1> DEFINE n == After(w, a)
           m == Merge(w, a, n)
           u == Pull(m, n)
           k == Forget(u, n)
           F == FreeBlocks(w)
<1>1. /\ w \in Heap /\ Tiles(w) /\ F \subseteq Blocks(w) /\ Blocks(w) \subseteq Addr
      /\ Ring(w, F) /\ LinksMarkFree(w) /\ F \subseteq Addr
      /\ UsedBlocks(w) = UsedBlocks(g) \ {q}
      /\ \A b \in UsedBlocks(w) : w.size[b] = g.size[b]
      /\ \A b \in F \ {a} : b # w.last /\ After(w, b) \notin F
    BY BlockFacts DEF Listed, FreeBlocks
<1>2. /\ a \in F /\ a \in Blocks(w) /\ a \in Addr /\ a # w.last
      /\ n \in Blocks(w) /\ n \in Addr /\ n # a /\ n \in F
      /\ n # w.last /\ After(w, n) \notin F
    <2>1. a \in F /\ a # w.last /\ n \in Blocks(w) /\ n # a
        BY DEF Listed
    <2>2. n \in F
        BY <2>1 DEF FreeBlocks
    <2> QED BY <2>1, <2>2, <1>1
<1>3. /\ m \in Heap
      /\ m.size = [w.size EXCEPT ![a] = w.size[a] + w.size[n]]
      /\ m.used = w.used /\ m.nextFree = w.nextFree /\ m.prevFree = w.prevFree
      /\ m.first = w.first /\ m.brk = w.brk /\ m.rover = w.rover
      /\ m.last = w.last
      /\ \A c \in Blocks(w) :
            m.prevReal[c] = IF c = After(w, n) THEN a ELSE w.prevReal[c]
    BY <1>1, <1>2, MergeFields
<1> HIDE DEF m
<1>4. Ring(m, F)
    <2>1. \A b \in F : m.nextFree[b] = w.nextFree[b] /\ m.prevFree[b] = w.prevFree[b]
        BY <1>3
    <2>2. Ring(w, F) /\ m.rover = w.rover
        BY <1>1, <1>3
    <2> HIDE DEF F
    <2> QED BY ONLY <2>1, <2>2, RingFrame
<1>5. OnlyLinks(m, u, F) /\ Ring(u, F \ {n})
    <2> HIDE DEF n
    <2> QED BY <1>1, <1>2, <1>3, <1>4, PullFields, PullRing
<1> HIDE DEF u
<1>6. /\ k \in Heap
      /\ k.size = [u.size EXCEPT ![n] = 0]
      /\ k.used = [u.used EXCEPT ![n] = FALSE]
      /\ k.first = u.first /\ k.last = u.last /\ k.brk = u.brk
      /\ k.rover = u.rover /\ k.nextFree[n] = Wild
      /\ \A c \in Addr : c # n => /\ k.nextFree[c] = u.nextFree[c]
                                  /\ k.prevFree[c] = u.prevFree[c]
                                  /\ k.prevReal[c] = u.prevReal[c]
    <2>1. u \in Heap
        BY <1>5 DEF OnlyLinks
    <2> HIDE DEF n
    <2> QED BY <2>1, <1>2, ForgetFields
<1> HIDE DEF k
<1>7. /\ u.size = m.size /\ u.used = w.used /\ u.prevReal = m.prevReal
      /\ u.first = w.first /\ u.last = w.last /\ u.brk = w.brk /\ u \in Heap
      /\ \A b \in Addr \ F : u.nextFree[b] = w.nextFree[b]
    BY <1>3, <1>5 DEF OnlyLinks
<1>8. Tiles(k) /\ Blocks(k) = Blocks(w) \ {n}
    <2>1. k.size = [w.size EXCEPT ![a] = w.size[a] + w.size[After(w, a)], ![After(w, a)] = 0]
        <3> HIDE DEF n
        <3>1. k.size = [[w.size EXCEPT ![a] = w.size[a] + w.size[n]] EXCEPT ![n] = 0]
            BY <1>3, <1>6, <1>7
        <3> QED BY <3>1 DEF n
    <2>2. /\ k.first = w.first /\ k.brk = w.brk
          /\ k.last = IF After(w, a) = w.last THEN a ELSE w.last
          /\ \A c \in Blocks(w) : c # After(w, a) => k.prevReal[c] =
                IF c = After(w, After(w, a)) THEN a ELSE w.prevReal[c]
        BY <1>1, <1>2, <1>3, <1>6, <1>7
    <2>3. Tiles(k) /\ Blocks(k) = Blocks(w) \ {After(w, a)}
        BY <2>1, <2>2, <1>1, <1>2, MergeTiles
    <2> QED BY <2>3
<1>9. /\ k.size[a] = w.size[a] + w.size[n]
      /\ \A b \in Addr : b # a /\ b # n => k.size[b] = w.size[b]
      /\ \A b \in Addr : b # n => k.used[b] = w.used[b]
    <2> HIDE DEF n
    <2>1. \A b \in Addr : b # n => k.size[b] = m.size[b]
        BY <1>3, <1>6, <1>7 DEF Heap
    <2>2. \A b \in Addr : m.size[b] = IF b = a THEN w.size[a] + w.size[n] ELSE w.size[b]
        BY <1>1, <1>3 DEF Heap
    <2>3. \A b \in Addr : b # n => k.used[b] = w.used[b]
        <3>1. k.used = [w.used EXCEPT ![n] = FALSE] /\ w.used \in [Addr -> BOOLEAN]
            BY <1>1, <1>6, <1>7 DEF Heap
        <3> QED BY <3>1
    <2> QED BY <2>1, <2>2, <2>3, <1>2
<1>10. FreeBlocks(k) = F \ {n} /\ UsedBlocks(k) = UsedBlocks(w)
    <2> HIDE DEF n
    <2> QED BY <1>1, <1>2, <1>8, <1>9 DEF FreeBlocks, UsedBlocks
<1>11. Ring(k, F \ {n})
    <2>1. \A b \in F \ {n} : k.nextFree[b] = u.nextFree[b] /\ k.prevFree[b] = u.prevFree[b]
        BY <1>1, <1>6
    <2>2. Ring(u, F \ {n}) /\ k.rover = u.rover
        BY <1>5, <1>6
    <2> HIDE DEF F, n
    <2> QED BY ONLY <2>1, <2>2, RingFrame
<1>12. After(k, a) = After(w, n)
    <2>1. a \in Nat /\ w.size[a] \in Nat /\ w.size[n] \in Nat /\ n = a + w.size[a]
        BY <1>1, <1>2, BlockFacts DEF After
    <2> HIDE DEF n
    <2> QED BY <2>1, <1>9 DEF After
<1>13. Coalesced(k)
    <2> SUFFICES ASSUME NEW b \in F \ {n} PROVE b # k.last /\ After(k, b) \notin F
        BY <1>10 DEF Coalesced
    <2>1. CASE b = a
        BY <2>1, <1>2, <1>6, <1>7, <1>12
    <2>2. CASE b # a
        BY <2>2, <1>1, <1>6, <1>7, <1>9 DEF After
    <2> QED BY <2>1, <2>2
<1>14. LinksMarkFree(k)
    <2>1. \A b \in F \ {n} : k.nextFree[b] # Wild
        <3> HIDE DEF n, F
        <3> QED BY <1>1, <1>11, RingLinks
    <2>2. \A b \in Addr \ F : k.nextFree[b] = Wild
        BY <1>1, <1>2, <1>6, <1>7 DEF LinksMarkFree
    <2> QED BY <2>1, <2>2, <1>1, <1>2, <1>6, <1>10 DEF LinksMarkFree
<1>15. \A b \in UsedBlocks(k) : k.size[b] = g.size[b]
    <2> TAKE b \in UsedBlocks(k)
    <2>1. b \in UsedBlocks(w) /\ b \in Addr /\ b # a /\ b # n
        BY <1>1, <1>2, <1>10 DEF UsedBlocks
    <2> QED BY <2>1, <1>1, <1>9
<1> QED BY <1>1, <1>6, <1>8, <1>10, <1>11, <1>13, <1>14, <1>15 DEF Sound, JoinFree, k, u, m

\* A block between others is freed.
LEMMA FreeInnerSound ==
    ASSUME NEW g, Sound(g), NEW q \in UsedBlocks(g), q # g.last
    PROVE  LET k == FreeInner(g, q)
           IN  /\ Sound(k)
               /\ UsedBlocks(k) = UsedBlocks(g) \ {q}
               /\ \A b \in UsedBlocks(k) : k.size[b] = g.size[b]
<1> DEFINE n == After(g, q)
           f == [g EXCEPT !.used[q] = FALSE]
           before == q # g.first /\ ~ g.used[g.prevReal[q]]
           a == IF before THEN g.prevReal[q] ELSE q
           w == IF before THEN Forget(Merge(f, g.prevReal[q], q), q) ELSE Insert(f, q)
           k == FreeInner(g, q)
<1>1. k = IF g.used[n] THEN w ELSE JoinFree(w, a, n)
    BY DEF FreeInner
<1>2. Listed(g, w, q, a)
    <2>1. CASE before
        BY <2>1, JoinPrevious
    <2>2. CASE ~ before
        BY <2>2, InsertListed
    <2> QED BY <2>1, <2>2
<1> HIDE DEF w, a, k
<1>3. After(w, a) = n
    BY <1>2 DEF Listed
<1>4. w.used[n] <=> g.used[n]
    <2>1. /\ n \in Blocks(w) /\ n # a
          /\ FreeBlocks(w) = FreeBlocks(g) \cup {a}
          /\ UsedBlocks(w) = UsedBlocks(g) \ {q}
        BY <1>2, <1>3 DEF Listed
    <2> HIDE DEF n
    <2> QED BY <2>1 DEF UsedBlocks, FreeBlocks
<1>5. CASE g.used[n]
    <2>1. k = w /\ Sound(w)
        BY <1>1, <1>2, <1>3, <1>4, <1>5, ListedSound
    <2> QED BY <2>1, <1>2 DEF Listed, k
<1>6. CASE ~ g.used[n]
    <2>1. k = JoinFree(w, a, After(w, a)) /\ ~ w.used[After(w, a)]
        BY <1>1, <1>3, <1>4, <1>6
    <2> QED BY <2>1, <1>2, JoinNext DEF k
<1> QED BY <1>5, <1>6

----------------------------------------------------------------------------
(* The search for a free block *)

\* The loop comes by free blocks only.
LEMMA VisitedFree ==
    ASSUME NEW g, Sound(g), NEW len, g.rover # Null
    PROVE  Visited(g, len) \subseteq FreeBlocks(g)
<1> DEFINE F == FreeBlocks(g)
<1>1. F \in SUBSET {x \in Addr : g.nextFree[x] # Wild}
    BY BlockFacts DEF Sound, LinksMarkFree, FreeBlocks, Blocks
<1>2. g.rover \in F /\ \A x \in F : g.nextFree[x] \in F
    BY DEF Sound, Ring, Linked
<1> HIDE DEF F
<1> QED BY <1>1, <1>2 DEF Visited, F

LEMMA NextFitFree ==
    ASSUME NEW g, Sound(g), NEW len, NEW q \in NextFit(g, len)
    PROVE  q \in FreeBlocks(g) /\ g.size[q] >= len
BY VisitedFree DEF NextFit

\* It stops without a block only when every free block is too small.
LEMMA NoFitMeansSmall ==
    ASSUME NEW g, Sound(g), NEW len \in Nat, NextFit(g, len) = {},
           NEW b \in FreeBlocks(g)
    PROVE  g.size[b] < len
<1> DEFINE F == FreeBlocks(g)
           V == Visited(g, len)
<1>1. /\ g.rover \in F /\ g.rover # Null /\ F \subseteq Addr
      /\ \A x \in F : g.nextFree[x] \in F
      /\ \A x \in Addr : g.size[x] \in Nat
    <2>1. g.rover \in F /\ F \subseteq Addr
        BY BlockFacts DEF Sound, Ring, FreeBlocks
    <2> QED BY <2>1, BlockFacts DEF Sound, Ring, Linked
<1>2. V \subseteq F
    BY <1>1, VisitedFree
<1>3. g.rover \in V
    BY <1>1 DEF Visited
<1>4. \A x \in V : g.size[x] < len
    <2> TAKE x \in V
    <2>1. ~ (g.size[x] >= len)
        BY <1>1 DEF NextFit
    <2> QED BY <2>1, <1>1, <1>2
<1>5. \A x \in V : g.nextFree[x] \in V
    <2> TAKE x \in V
    <2>1. g.nextFree[x] \in Addr /\ g.size[x] < len
        BY <1>1, <1>2, <1>4
    <2>2. ASSUME NEW S \in SUBSET {y \in Addr : g.nextFree[y] # Wild},
                 g.rover \in S, \A y \in S : g.size[y] < len => g.nextFree[y] \in S
          PROVE  g.nextFree[x] \in S
        <3>1. x \in S
            BY <2>2 DEF Visited
        <3> QED BY <3>1, <2>1, <2>2
    <2> QED BY <2>1, <2>2 DEF Visited
<1>6. V = F
    <2>1. OneCycle(g.nextFree, F)
        BY DEF Sound, Ring
    <2> HIDE DEF V, F
    <2> QED BY <2>1, <1>2, <1>3, <1>5 DEF OneCycle
<1> QED BY <1>4, <1>6

----------------------------------------------------------------------------
(* The invariant *)

IInv == TypeOK /\ Tiled /\ Joined /\ FreeRing

\* What the parts say together.
LEMMA IInvIsSound ==
    IInv <=> /\ Sound(h) /\ held = UsedBlocks(h)
             /\ held \subseteq Addr /\ refused \in Size \cup {0}
BY DEF IInv, TypeOK, Tiled, Joined, FreeRing, Sound, UsedBlocks, LinksMarkFree

LEMMA IInvIsSoundNext ==
    IInv' <=> (/\ Sound(h) /\ held = UsedBlocks(h)
               /\ held \subseteq Addr /\ refused \in Size \cup {0})'
BY IInvIsSound, PTL

\* No block, no ring, and nothing in a caller's hands.
LEMMA NewHeapSound == Sound(NewHeap) /\ UsedBlocks(NewHeap) = {}
<1> DEFINE g == NewHeap
<1>1. 0 \in 0..HeapSize
    BY BoundaryAssumption DEF BoundaryAssumption
<1>2. g \in Heap
    BY <1>1 DEF NewHeap, Heap, Pointer, Member
<1>3. Blocks(g) = {} /\ FreeBlocks(g) = {}
    BY DEF NewHeap, Blocks, FreeBlocks
<1>4. Tiles(g)
    BY <1>3 DEF Tiles, NewHeap
<1>5. Ring(g, {})
    <2>1. Linked(g, {}) /\ OneCycle(g.nextFree, {})
        BY DEF Linked, OneCycle
    <2>2. g.rover = Null
        BY DEF NewHeap
    <2> HIDE DEF g
    <2> QED BY <2>1, <2>2 DEF Ring
<1>6. LinksMarkFree(g)
    BY <1>3 DEF LinksMarkFree, NewHeap
<1> QED BY <1>2, <1>3, <1>4, <1>5, <1>6 DEF Sound, Coalesced, UsedBlocks

\* A block given to a caller is of the size asked for or a little longer, was in
\* nobody's hands, and the other callers' blocks are where and as long as they were.
Given(n) ==
    \E q \in Addr :
        /\ q \notin held
        /\ Sound(h') /\ UsedBlocks(h') = UsedBlocks(h) \cup {q}
        /\ held' = held \cup {q} /\ refused' = 0
        /\ Units(n) <= h'.size[q] /\ h'.size[q] < Units(n) + FreeHeader + Delta
        /\ \A b \in UsedBlocks(h) : h'.size[b] = h.size[b]

LEMMA PartialGiven ==
    ASSUME IInv, NEW n \in Size, AllocatePartial(n)
    PROVE  Given(n)
<1>1. Sound(h) /\ held = UsedBlocks(h)
    BY IInvIsSound
<1>2. /\ Units(n) \in Nat /\ FreeHeader <= Units(n)
      /\ FreeHeader \in Nat \ {0} /\ Delta \in Nat
    BY BoundaryAssumption DEF BoundaryAssumption
<1>3. PICK q \in NextFit(h, Units(n)) :
          /\ h.size[q] >= Units(n) + FreeHeader + Delta
          /\ Handed(Cut(h, q, Units(n)), After(h, q) - Units(n))
    BY DEF AllocatePartial
<1>4. q \in FreeBlocks(h) /\ q \in Addr /\ h.size[q] \in Nat
    BY <1>1, NextFitFree, BlockFacts DEF FreeBlocks, Sound, Blocks
<1> DEFINE b == After(h, q) - Units(n)
<1>5. h.size[q] >= Units(n) + FreeHeader
    BY <1>2, <1>3, <1>4
<1>6. /\ h' = Give(Cut(h, q, Units(n)), b)
      /\ held' = held \cup {b} /\ refused' = 0
    BY <1>3 DEF Handed
<1>7. /\ Sound(h') /\ b \in Addr /\ b \notin Blocks(h)
      /\ UsedBlocks(h') = UsedBlocks(h) \cup {b}
      /\ h'.size[b] = Units(n)
      /\ \A c \in UsedBlocks(h) : h'.size[c] = h.size[c]
    BY <1>1, <1>2, <1>4, <1>5, <1>6, PartialSound
<1> HIDE DEF b
<1>8. Units(n) <= h'.size[b] /\ h'.size[b] < Units(n) + FreeHeader + Delta
    <2>1. Units(n) <= Units(n) /\ Units(n) < Units(n) + FreeHeader + Delta
        BY <1>2
    <2> QED BY <2>1, <1>7
<1> QED BY <1>1, <1>6, <1>7, <1>8 DEF Given, UsedBlocks

LEMMA WholeGiven ==
    ASSUME IInv, NEW n \in Size, AllocateWhole(n)
    PROVE  Given(n)
<1>1. Sound(h) /\ held = UsedBlocks(h)
    BY IInvIsSound
<1>2. PICK q \in NextFit(h, Units(n)) :
          h.size[q] < Units(n) + FreeHeader + Delta /\ Handed(Pull(h, q), q)
    BY DEF AllocateWhole
<1>3. q \in FreeBlocks(h) /\ q \in Addr /\ h.size[q] \in Nat /\ h.size[q] >= Units(n)
    BY <1>1, NextFitFree, BlockFacts DEF FreeBlocks, Sound, Blocks
<1>4. h' = Give(Pull(h, q), q) /\ held' = held \cup {q} /\ refused' = 0
    BY <1>2 DEF Handed
<1>5. Sound(h') /\ UsedBlocks(h') = UsedBlocks(h) \cup {q} /\ h'.size = h.size
    BY <1>1, <1>3, <1>4, WholeSound
<1>6. q \notin held /\ Units(n) <= h'.size[q]
    BY <1>1, <1>3, <1>5, BoundaryAssumption DEF UsedBlocks, BoundaryAssumption
<1> QED BY <1>2, <1>3, <1>4, <1>5, <1>6 DEF Given

LEMMA ExtendGiven ==
    ASSUME IInv, NEW n \in Size, ExtendHeap(n)
    PROVE  Given(n)
<1>1. Sound(h) /\ held = UsedBlocks(h) /\ h \in Heap
    BY IInvIsSound DEF Sound
<1>2. /\ Units(n) \in Nat /\ FreeHeader <= Units(n) /\ FreeHeader \in Nat \ {0}
      /\ Delta \in Nat /\ HeapSize \in Nat /\ h.brk \in Nat
    BY <1>1, BoundaryAssumption, BlockFacts DEF BoundaryAssumption
<1> DEFINE b == h.brk
<1>3. /\ h' = Give(Extend(h, Units(n)), b) /\ held' = held \cup {b} /\ refused' = 0
      /\ h.brk + Units(n) <= HeapSize
    BY <1>2 DEF ExtendHeap, Handed, OutOfHeap
<1>4. /\ Sound(h') /\ b \in Addr /\ b \notin Blocks(h)
      /\ UsedBlocks(h') = UsedBlocks(h) \cup {b}
      /\ h'.size[b] = Units(n)
      /\ \A c \in UsedBlocks(h) : h'.size[c] = h.size[c]
    BY <1>1, <1>2, <1>3, ExtendSound
<1> HIDE DEF b
<1>5. Units(n) <= h'.size[b] /\ h'.size[b] < Units(n) + FreeHeader + Delta
    BY <1>2, <1>4
<1> QED BY <1>1, <1>3, <1>4, <1>5 DEF Given, UsedBlocks

\* A block comes back, and the others stay where and as long as they were.
LEMMA FreeTakesBack ==
    ASSUME IInv, NEW q \in held, Free(q)
    PROVE  /\ Sound(h') /\ UsedBlocks(h') = UsedBlocks(h) \ {q}
           /\ held' = held \ {q} /\ refused' = 0
           /\ \A b \in UsedBlocks(h') : h'.size[b] = h.size[b]
<1>1. Sound(h) /\ q \in UsedBlocks(h)
    BY IInvIsSound
<1>2. CASE q = h.last
    BY <1>1, <1>2, FreeLastSound DEF Free
<1>3. CASE q # h.last
    BY <1>1, <1>3, FreeInnerSound DEF Free
<1> QED BY <1>2, <1>3

LEMMA InitIInv == Init => IInv
<1> SUFFICES ASSUME Init PROVE IInv
    OBVIOUS
<1>1. Sound(h) /\ held = UsedBlocks(h) /\ held \subseteq Addr /\ refused \in Size \cup {0}
    BY NewHeapSound DEF Init
<1> QED BY <1>1, IInvIsSound

LEMMA NextKeepsIInv == IInv /\ [Next]_vars => IInv'
<1> SUFFICES ASSUME IInv, [Next]_vars PROVE IInv'
    OBVIOUS
<1>1. Sound(h) /\ held = UsedBlocks(h) /\ held \subseteq Addr /\ refused \in Size \cup {0}
    BY IInvIsSound
<1>2. SUFFICES Sound(h') /\ held' = UsedBlocks(h') /\ held' \subseteq Addr
               /\ refused' \in Size \cup {0}
    BY IInvIsSoundNext
<1>3. ASSUME NEW n \in Size, Malloc(n)
      PROVE  Sound(h') /\ held' = UsedBlocks(h') /\ held' \subseteq Addr
             /\ refused' \in Size \cup {0}
    <2>1. CASE Given(n)
        BY <1>1, <2>1 DEF Given
    <2>2. CASE Refuse(n)
        BY <1>1, <2>2 DEF Refuse
    <2> QED BY <1>3, <2>1, <2>2, PartialGiven, WholeGiven, ExtendGiven DEF Malloc
<1>4. ASSUME NEW q \in held, Free(q)
      PROVE  Sound(h') /\ held' = UsedBlocks(h') /\ held' \subseteq Addr
             /\ refused' \in Size \cup {0}
    BY <1>1, <1>4, FreeTakesBack
<1>5. CASE ResetHeap
    BY <1>5, NewHeapSound DEF ResetHeap
<1>6. CASE UNCHANGED vars
    BY <1>1, <1>6 DEF vars
<1> QED BY <1>3, <1>4, <1>5, <1>6 DEF Next

----------------------------------------------------------------------------
(* The theorems *)

\* The heap's members and header fields stay in their ranges, the break within the
\* heap included.
THEOREM TypeCorrect == Spec => []TypeOK
<1>1. IInv => TypeOK
    BY DEF IInv
<1> QED BY <1>1, InitIInv, NextKeepsIInv, PTL DEF Spec

\* Whatever is allocated and freed in whatever order, the blocks tile the heap.
THEOREM AlwaysTiled == Spec => []Tiled
<1>1. IInv => Tiled
    BY DEF IInv
<1> QED BY <1>1, InitIInv, NextKeepsIInv, PTL DEF Spec

\* The low bits say who has which block, and free memory never stays in two pieces
\* that touch.
THEOREM AlwaysJoined == Spec => []Joined
<1>1. IInv => Joined
    BY DEF IInv
<1> QED BY <1>1, InitIInv, NextKeepsIInv, PTL DEF Spec

\* The ring holds the free blocks, all of them and nothing else.
THEOREM AlwaysFreeRing == Spec => []FreeRing
<1>1. IInv => FreeRing
    BY DEF IInv
<1> QED BY <1>1, InitIInv, NextKeepsIInv, PTL DEF Spec

----------------------------------------------------------------------------
(* The heap implements the pool *)

\* A nonempty set of naturals has a least element.
LEMMA Smallest ==
    ASSUME NEW S \in SUBSET Nat, S # {}
    PROVE  \E m \in S : \A n \in S : m <= n
<1>1. PICK m \in S : \A n \in S : <<n, m>> \notin OpToRel(<, Nat)
    BY NatLessThanWellFounded, WFMin, Zenon
<1>2. \A n \in S : ~(n < m)
    <2> TAKE n \in S
    <2>1. <<n, m>> \in Nat \X Nat /\ <<n, m>>[1] = n /\ <<n, m>>[2] = m
        OBVIOUS
    <2> QED BY <1>1, <2>1 DEF OpToRel
<1> QED BY <1>2

\* Every unit below the break belongs to a block.
LEMMA BlockAt ==
    ASSUME NEW g \in Heap, Tiles(g), NEW at \in Nat, at < g.brk
    PROVE  \E c \in Blocks(g) : c <= at /\ at < After(g, c)
<1>f. /\ Blocks(g) \subseteq Addr /\ Addr \subseteq Nat
      /\ \A x \in Addr : g.size[x] \in Nat /\ After(g, x) \in Nat
      /\ g.brk \in Nat
    BY BlockFacts
<1>1. Blocks(g) # {} /\ 0 \in Blocks(g)
    BY <1>f DEF Tiles
<1> DEFINE D == {d \in Nat : \E c \in Blocks(g) : c + d = at}
<1>2. D \in SUBSET Nat /\ D # {}
    BY <1>1
<1>3. PICK d \in D : \A e \in D : d <= e
    BY <1>2, Smallest
<1>4. PICK c \in Blocks(g) : c + d = at
    BY <1>3
<1>5. c \in Nat /\ d \in Nat /\ c <= at
    <2>1. c \in Nat
        BY <1>4, <1>f
    <2>2. d \in Nat
        BY <1>2, <1>3
    <2> HIDE DEF D
    <2> QED BY <2>1, <2>2, <1>4
<1>6. at < After(g, c)
    <2>1. CASE c = g.last
        BY <2>1, <1>4 DEF Tiles
    <2>2. CASE c # g.last
        <3>1. After(g, c) \in Blocks(g) /\ After(g, c) > c /\ After(g, c) \in Nat
            BY <2>2, <1>4, <1>f DEF Tiles, Blocks, After
        <3>2. ~ (After(g, c) <= at)
            <4> SUFFICES ASSUME After(g, c) <= at PROVE FALSE
                OBVIOUS
            <4>1. \A y \in Nat : y > c /\ y <= at => at - y \in Nat /\ y + (at - y) = at /\ at - y < d
                BY <1>4, <1>5
            <4> DEFINE e == at - After(g, c)
            <4>2. e \in Nat /\ After(g, c) + e = at /\ e < d
                BY <4>1, <3>1
            <4> HIDE DEF e
            <4>3. e \in D
                BY <4>2, <3>1
            <4> QED BY <4>2, <4>3, <1>3, <1>5
        <3> QED BY <3>1, <3>2
    <2> QED BY <2>1, <2>2
<1> QED BY <1>4, <1>5, <1>6

\* When newmallocActual gives up, no gap of the heap is long enough.
LEMMA RefusedMeansFull ==
    ASSUME IInv, NEW n \in Size, NextFit(h, Units(n)) = {}, OutOfHeap(h, Units(n)),
           NEW at \in 0..HeapSize, at + Units(n) <= HeapSize
    PROVE  \E b \in held : ~ (at + Units(n) <= b \/ After(h, b) <= at)
<1> DEFINE len == Units(n)
<1>1. Sound(h) /\ held = UsedBlocks(h) /\ h \in Heap /\ Tiles(h) /\ Coalesced(h)
    BY IInvIsSound DEF Sound
<1>2. len \in Nat /\ len # 0 /\ HeapSize \in Nat /\ at \in Nat
    BY BoundaryAssumption DEF BoundaryAssumption
<1>f. /\ Blocks(h) \subseteq Addr /\ Addr \subseteq Nat
      /\ \A x \in Addr : h.size[x] \in Nat /\ After(h, x) \in Nat
      /\ h.brk \in Nat
    BY <1>1, BlockFacts
<1>3. at < h.brk
    BY <1>2, <1>f DEF OutOfHeap
<1>4. PICK c \in Blocks(h) : c <= at /\ at < After(h, c)
    BY <1>1, <1>2, <1>3, BlockAt
<1>5. c \in Nat /\ After(h, c) \in Nat /\ c \in Addr
    BY <1>f
<1> HIDE DEF len
<1>6. CASE c \notin FreeBlocks(h)
    <2>1. c \in held
        BY <1>1, <1>6 DEF UsedBlocks
    <2>2. ~ (at + len <= c \/ After(h, c) <= at)
        BY <1>2, <1>4, <1>5
    <2> QED BY <2>1, <2>2 DEF len
<1>7. CASE c \in FreeBlocks(h)
    <2> DEFINE b == After(h, c)
    <2>1. h.size[c] < len
        BY <1>1, <1>2, <1>7, NoFitMeansSmall DEF len
    <2>2. b \in Blocks(h) /\ b \notin FreeBlocks(h)
        BY <1>1, <1>4, <1>7 DEF Coalesced, Tiles
    <2>3. b \in held
        BY <2>2, <1>1 DEF UsedBlocks
    <2>4. b < at + len
        <3>1. b = c + h.size[c] /\ h.size[c] \in Nat
            BY <1>5, <1>f DEF After
        <3> HIDE DEF b
        <3> QED BY <3>1, <2>1, <1>2, <1>4, <1>5
    <2>5. b \in Nat /\ After(h, b) \in Nat /\ at < b /\ b < After(h, b)
        <3>1. b \in Nat /\ at < b /\ h.size[b] \in Nat /\ h.size[b] # 0
            BY <2>2, <1>4, <1>f DEF Blocks
        <3> HIDE DEF b
        <3> QED BY <3>1 DEF After
    <2>6. ~ (at + len <= b \/ After(h, b) <= at)
        <3> HIDE DEF b
        <3> QED BY <2>4, <2>5, <1>2
    <2> QED BY <2>3, <2>6 DEF len
<1> QED BY <1>6, <1>7

\* The regions in the callers' hands.
Regions == {<<b, h.size[b]>> : b \in held}

\* A block given is a vacant region of the pool.
LEMMA GivenIsVacant ==
    ASSUME IInv, NEW n \in Size, Given(n)
    PROVE  \E at \in 0..HeapSize, len \in Units(n)..(Units(n) + FreeHeader + Delta) :
               /\ len < Units(n) + FreeHeader + Delta
               /\ at + len <= HeapSize
               /\ \A b \in held : at + len <= b \/ b + h.size[b] <= at
               /\ Regions' = Regions \cup {<<at, len>>}
               /\ refused' = 0
<1>1. held = UsedBlocks(h) /\ held \subseteq Addr
    BY IInvIsSound
<1>2. /\ Units(n) \in Nat /\ FreeHeader \in Nat /\ Delta \in Nat /\ HeapSize \in Nat
    BY BoundaryAssumption DEF BoundaryAssumption
<1>3. PICK q \in Addr :
        /\ q \notin held
        /\ Sound(h') /\ UsedBlocks(h') = UsedBlocks(h) \cup {q}
        /\ held' = held \cup {q} /\ refused' = 0
        /\ Units(n) <= h'.size[q] /\ h'.size[q] < Units(n) + FreeHeader + Delta
        /\ \A b \in UsedBlocks(h) : h'.size[b] = h.size[b]
    BY DEF Given
<1> DEFINE len == h'.size[q]
<1>4. /\ h' \in Heap /\ Tiles(h')
      /\ q \in Blocks(h') /\ held \subseteq Blocks(h')
    BY <1>1, <1>3 DEF Sound, UsedBlocks
<1>5. /\ q \in Nat /\ len \in Nat /\ h'.brk \in 0..HeapSize
      /\ After(h', q) <= h'.brk
    BY <1>4, BlockFacts DEF Heap, Tiles
<1>6. q \in 0..HeapSize /\ q + len <= HeapSize
    BY <1>2, <1>5 DEF After
<1>7. len \in Units(n)..(Units(n) + FreeHeader + Delta)
    BY <1>2, <1>3, <1>5
<1>8. \A b \in held : q + len <= b \/ b + h.size[b] <= q
    <2> TAKE b \in held
    <2>1. b \in Blocks(h') /\ b \in Nat /\ b # q /\ h'.size[b] = h.size[b]
        BY <1>1, <1>3, <1>4, BlockFacts
    <2>2. b < q => After(h', b) <= q
        BY <2>1, <1>4 DEF Tiles
    <2>3. q < b => After(h', q) <= b
        BY <2>1, <1>4 DEF Tiles
    <2> QED BY <2>1, <2>2, <2>3, <1>5 DEF After
<1>9. Regions' = Regions \cup {<<q, len>>}
    <2>1. Regions' = {<<b, h'.size[b]>> : b \in held'}
        BY DEF Regions
    <2>2. \A b \in held : <<b, h'.size[b]>> = <<b, h.size[b]>>
        BY <1>1, <1>3
    <2> QED BY <2>1, <2>2, <1>3 DEF Regions
<1> HIDE DEF len
<1> QED BY <1>3, <1>6, <1>7, <1>8, <1>9 DEF len

LEMMA InitPool == Init => Pool!Init
BY DEF Init, Pool!Init

\* Every step of the heap is a step of the pool or leaves it alone.
LEMMA StepIsPoolStep ==
    IInv /\ [Next]_vars => [Pool!Next]_(Pool!poolVars)
<1> SUFFICES ASSUME IInv, [Next]_vars PROVE [Pool!Next]_(Pool!poolVars)
    OBVIOUS
<1>1. \A n \in Size : [m \in Size |-> Units(m)][n] = Units(n)
    OBVIOUS
<1>2. ASSUME NEW n \in Size, Malloc(n)
      PROVE  Pool!Next
    <2>1. CASE Given(n)
        <3>1. PICK at \in 0..HeapSize, len \in Units(n)..(Units(n) + FreeHeader + Delta) :
                /\ len < Units(n) + FreeHeader + Delta
                /\ at + len <= HeapSize
                /\ \A b \in held : at + len <= b \/ b + h.size[b] <= at
                /\ Regions' = Regions \cup {<<at, len>>}
                /\ refused' = 0
            BY <2>1, GivenIsVacant
        <3>2. Pool!Vacant(<<at, len>>)
            BY <3>1 DEF Pool!Vacant, Pool!Apart
        <3>3. Units(n) + FreeHeader + Delta = Units(n) + (FreeHeader + Delta)
            BY BoundaryAssumption DEF BoundaryAssumption
        <3>4. Pool!Take(n)
            BY <3>1, <3>2, <3>3, <1>1 DEF Pool!Take, Regions
        <3> QED BY <3>4 DEF Pool!Next
    <2>2. CASE Refuse(n)
        <3>1. NextFit(h, Units(n)) = {} /\ OutOfHeap(h, Units(n))
              /\ refused' = n /\ Regions' = Regions
            BY <2>2 DEF Refuse, Regions
        <3>2. ASSUME NEW at \in 0..HeapSize, Pool!Vacant(<<at, Units(n)>>)
              PROVE  FALSE
            <4>1. at + Units(n) <= HeapSize
                BY <3>2 DEF Pool!Vacant
            <4>2. PICK b \in held : ~ (at + Units(n) <= b \/ After(h, b) <= at)
                BY <3>1, <4>1, RefusedMeansFull
            <4>3. Pool!Apart(<<at, Units(n)>>, <<b, h.size[b]>>)
                BY <3>2 DEF Pool!Vacant
            <4> QED BY <4>2, <4>3 DEF Pool!Apart, After
        <3>3. Pool!Refuse(n)
            BY <3>1, <3>2, <1>1 DEF Pool!Refuse, Regions
        <3> QED BY <3>3 DEF Pool!Next
    <2> QED BY <1>2, <2>1, <2>2, PartialGiven, WholeGiven, ExtendGiven DEF Malloc
<1>3. ASSUME NEW q \in held, Free(q)
      PROVE  Pool!Next
    <2>1. /\ held' = held \ {q} /\ refused' = 0
          /\ \A b \in held' : h'.size[b] = h.size[b]
        <3>1. held = UsedBlocks(h)
            BY IInvIsSound
        <3> QED BY <3>1, <1>3, FreeTakesBack
    <2>2. Regions' = Regions \ {<<q, h.size[q]>>}
        <3>1. Regions' = {<<b, h.size[b]>> : b \in held \ {q}}
            BY <2>1 DEF Regions
        <3> QED BY <3>1 DEF Regions
    <2>3. <<q, h.size[q]>> \in Regions
        BY DEF Regions
    <2>4. PICK r \in Regions : r = <<q, h.size[q]>>
        BY <2>3
    <2>5. Pool!Release(r)
        BY <2>1, <2>2, <2>4 DEF Pool!Release, Regions
    <2> QED BY <2>5 DEF Pool!Next, Regions
<1>4. CASE ResetHeap
    BY <1>4 DEF ResetHeap, Pool!Next, Pool!Reset
<1>5. CASE UNCHANGED vars
    BY <1>5 DEF vars, Pool!poolVars
<1> QED BY <1>2, <1>3, <1>4, <1>5 DEF Next

\* The heap keeps the pool's promise, whatever its size and whatever is asked of it:
\* the callers' regions never overlap, and a request is refused only when no gap
\* between them is long enough.
THEOREM ImplementsPool == Spec => PoolSpec
<1> QED BY InitPool, InitIInv, NextKeepsIInv, StepIsPoolStep,
           PTL DEF Spec, PoolSpec, Pool!Spec
=============================================================================
