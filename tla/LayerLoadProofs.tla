-------------------------- MODULE LayerLoadProofs --------------------------
(***************************************************************************)
(* What is proved of LayerLoad for every number of threads, every heap and *)
(* every map file (LoadAssumption): each allocated block has exactly one   *)
(* pointer to it that some thread will still free, as long as no refused   *)
(* part leaves a gap in the array of a road or polygon (PartsInOrder).     *)
(***************************************************************************)
EXTENDS LayerLoad, FiniteSetTheorems, TLAPS

----------------------------------------------------------------------------
(* The pointers of a thread.  Owns(r, t, x, y, b): thread r will still free block b, to  *)
(* which entry y of x points; x is the thread for its local variables, a layer for its   *)
(* features, a feature for its parts and its name, as tag t says.                        *)

\* The entries of the layer that still hold a feature.
Left(r) ==
    IF loc[r].layer = Null THEN {}
    ELSE {i \in Slot : i <= hdr[loc[r].layer].cnt /\ (Destroying(r) => loc[r].n < i)}

\* The entry whose feature is being destroyed.
Current(r, i) == Destroying(r) /\ i = loc[r].n + 1

OwnsLocal(r, t, x, y, b) ==
    /\ t = "local" /\ x = r /\ b # Null
    /\ \/ y = "data" /\ b = loc[r].data
       \/ y = "zip" /\ b = loc[r].zip
       \/ y = "layer" /\ b = loc[r].layer
       \/ y = "ftr" /\ b = loc[r].ftr

OwnsFeature(r, t, x, y, b) ==
    t = "feature" /\ x = loc[r].layer /\ y \in Left(r) /\ b = arr[x][y]

OwnsPart(r, t, x, y, b) ==
    /\ t = "part" /\ y \in Slot
    /\ \/ x = loc[r].ftr
       \/ \E i \in Left(r) : /\ x = arr[loc[r].layer][i]
                             /\ Current(r, i) => loc[r].m < y
    /\ x \in Block /\ y <= hdr[x].cnt /\ b = arr[x][y]

OwnsName(r, t, x, y, b) ==
    /\ t = "name" /\ y = 0 /\ b # Null
    /\ \/ x = loc[r].ftr
       \/ \E i \in Left(r) : /\ x = arr[loc[r].layer][i]
                             /\ ~(Current(r, i) /\ pc[r] = "freeftr")
    /\ x \in Block /\ b = hdr[x].name

Owns(r, t, x, y, b) ==
    \/ OwnsLocal(r, t, x, y, b)
    \/ OwnsFeature(r, t, x, y, b)
    \/ OwnsPart(r, t, x, y, b)
    \/ OwnsName(r, t, x, y, b)

Holds(r, b) == \E t, x, y : Owns(r, t, x, y, b)

----------------------------------------------------------------------------
(* The inductive invariant *)

Label == {"idle", "seek", "read", "zip", "unzip", "layer", "drop", "feature", "part",
          "nextpart", "name", "close", "draw", "drawring", "freeparts", "freeftr"}

Pointer == Block \cup {Null}

Locals == [want : 0..NLayer, got : 0..NLayer, data : Pointer, zip : Pointer,
           layer : Pointer, ftr : Pointer, n : 0..Width, m : 0..Width]

Typed ==
    /\ free \subseteq Block
    /\ hdr \in [Block -> [cnt : 0..Width, name : Pointer]]
    /\ arr \in [Block -> [Slot -> Block \cup {Stale}]]
    /\ pos \in 1..NLayer + 1
    /\ pc \in [Request -> Label]
    /\ loc \in [Request -> Locals]

Loading == {"feature", "part", "nextpart", "name"}
Filling == {"part", "nextpart", "name"}

\* What a thread holds at each of its steps.
Shape(r) ==
    /\ pc[r] = "idle" => loc[r] = NoLocals
    /\ pc[r] \in {"idle", "draw", "freeparts", "freeftr"} => loc[r].data = Null
    /\ loc[r].data = Null => pc[r] \in {"idle", "draw", "drawring", "freeparts", "freeftr"}
    /\ loc[r].zip # Null <=> pc[r] = "unzip"
    /\ loc[r].layer # Null <=> pc[r] \in Loading \cup
                                   {"close", "draw", "drawring", "freeparts", "freeftr"}
    /\ loc[r].ftr # Null <=> pc[r] \in Filling
    /\ pc[r] = "seek" => loc[r].want \in Layer
    /\ pc[r] \in Loading \cup {"zip", "unzip", "layer", "close"} => loc[r].got \in Layer
    /\ pc[r] \in {"seek", "read", "zip", "unzip", "layer", "feature"} => loc[r].m = 0
    /\ pc[r] \in {"seek", "read", "zip", "unzip", "layer"} => loc[r].n = 0
    /\ pc[r] \in Loading =>
        loc[r].n < FeatureNum[loc[r].got] /\ hdr[loc[r].layer].cnt = loc[r].n
    /\ pc[r] \in {"part", "nextpart"} => loc[r].m < PartNum /\ GeomOf(r) # "point"
    /\ pc[r] \in Loading /\ GeomOf(r) = "other" => pc[r] = "feature" /\ loc[r].n = 0
    /\ pc[r] \in Filling => hdr[loc[r].ftr].name = Null
    /\ pc[r] = "drawring" => loc[r].m < Width
    /\ pc[r] = "freeparts" => /\ loc[r].n <= hdr[loc[r].layer].cnt
                              /\ More(r) => loc[r].m <= hdr[Ftr(r)].cnt
    /\ pc[r] = "freeftr" => More(r) /\ loc[r].m = hdr[Ftr(r)].cnt

\* A free block says of no array that it is filled.
Clean == \A b \in free : hdr[b] = NoHeader

OneOwner ==
    \A r, s \in Request : \A t, x, y, u, z, w, b :
        Owns(r, t, x, y, b) /\ Owns(s, u, z, w, b) => r = s /\ t = u /\ x = z /\ y = w

Exact == \A b : (b \in Block /\ b \notin free) <=> \E r \in Request : Holds(r, b)

IInv ==
    /\ Typed
    /\ \A r \in Request : Shape(r)
    /\ Clean /\ OneOwner /\ Exact

----------------------------------------------------------------------------
(* How a step changes what is owned *)

\* Thread r gives up its pointers to the blocks in Out, and has those in N, to free
\* blocks or to some of Out.
Change(r, Out, N) ==
    /\ \A t, x, y, b : Owns(r, t, x, y, b)' <=>
        (Owns(r, t, x, y, b) /\ b \notin Out) \/ <<t, x, y, b>> \in N
    /\ \A b \in Out : Holds(r, b)
    /\ \A t, x, y, b : <<t, x, y, b>> \in N => b \in free \/ b \in Out
    /\ \A t, x, y, u, z, w, b : <<t, x, y, b>> \in N /\ <<u, z, w, b>> \in N =>
        t = u /\ x = z /\ y = w
    /\ \A b : b \in free' <=>
        (b \in free \/ b \in Out) /\ ~\E t, x, y : <<t, x, y, b>> \in N

\* Thread r writes its own locals and blocks, and clears what it frees.
Frame(r) ==
    /\ \A s \in Request \ {r} : loc'[s] = loc[s] /\ pc'[s] = pc[s]
    /\ \A b \in Block : ~Holds(r, b) => hdr'[b] = hdr[b] /\ arr'[b] = arr[b]
    /\ \A b \in free' : b \in free \/ hdr'[b] = NoHeader

LEMMA NullIsNoBlock == Null \notin Block /\ Stale \notin Block
    BY LoadAssumption DEF LoadAssumption

\* The other threads own what they did, at the steps they were at.
LEMMA OthersKeep ==
    ASSUME IInv, NEW r \in Request, NEW s \in Request, s # r, Frame(r)
    PROVE  /\ Shape(s)'
           /\ \A t, x, y, b : Owns(s, t, x, y, b)' <=> Owns(s, t, x, y, b)
<1>1. loc'[s] = loc[s] /\ pc'[s] = pc[s]
    BY DEF Frame
<1>2. ASSUME NEW b, Holds(s, b)
      PROVE  b \in Block /\ hdr'[b] = hdr[b] /\ arr'[b] = arr[b]
    <2>1. b \in Block
        BY <1>2 DEF IInv, Exact
    <2>2. ~Holds(r, b)
        BY <1>2 DEF IInv, OneOwner, Holds
    <2> QED BY <2>1, <2>2 DEF Frame
<1>3. ASSUME loc[s].layer # Null
      PROVE  /\ hdr'[loc[s].layer] = hdr[loc[s].layer]
             /\ arr'[loc[s].layer] = arr[loc[s].layer]
             /\ loc[s].layer \in Block
    <2>1. Owns(s, "local", s, "layer", loc[s].layer)
        BY <1>3 DEF Owns, OwnsLocal
    <2> QED BY <2>1, <1>2 DEF Holds
<1>4. ASSUME loc[s].ftr # Null
      PROVE  /\ hdr'[loc[s].ftr] = hdr[loc[s].ftr]
             /\ arr'[loc[s].ftr] = arr[loc[s].ftr]
             /\ loc[s].ftr \in Block
    <2>1. Owns(s, "local", s, "ftr", loc[s].ftr)
        BY <1>4 DEF Owns, OwnsLocal
    <2> QED BY <2>1, <1>2 DEF Holds
<1>5. Left(s)' = Left(s)
    BY <1>1, <1>3 DEF Left, Destroying
<1>6. ASSUME NEW i \in Left(s)
      PROVE  LET f == arr[loc[s].layer][i]
             IN  f \in Block /\ hdr'[f] = hdr[f] /\ arr'[f] = arr[f]
    <2>1. Owns(s, "feature", loc[s].layer, i, arr[loc[s].layer][i])
        BY DEF Owns, OwnsFeature
    <2> QED BY <2>1, <1>2 DEF Holds
<1>7. ASSUME NEW i \in Left(s)
      PROVE  arr'[loc[s].layer][i] = arr[loc[s].layer][i]
    BY <1>3 DEF Left
<1>8. ASSUME NEW i
      PROVE  Current(s, i)' <=> Current(s, i)
    BY <1>1 DEF Current, Destroying
<1>9. ASSUME NEW t, NEW x, NEW y, NEW b
      PROVE  Owns(s, t, x, y, b)' <=> Owns(s, t, x, y, b)
    <2>1. OwnsLocal(s, t, x, y, b)' <=> OwnsLocal(s, t, x, y, b)
        BY <1>1 DEF OwnsLocal
    <2>2. OwnsFeature(s, t, x, y, b)' <=> OwnsFeature(s, t, x, y, b)
        BY <1>1, <1>5, <1>7 DEF OwnsFeature
    <2>3. OwnsPart(s, t, x, y, b)' <=> OwnsPart(s, t, x, y, b)
        BY <1>1, <1>4, <1>5, <1>6, <1>7, <1>8, NullIsNoBlock DEF OwnsPart
    <2>4. OwnsName(s, t, x, y, b)' <=> OwnsName(s, t, x, y, b)
        BY <1>1, <1>4, <1>5, <1>6, <1>7, <1>8, NullIsNoBlock DEF OwnsName
    <2> QED BY <2>1, <2>2, <2>3, <2>4 DEF Owns
<1>10. Shape(s)'
    <2>1. Shape(s)
        BY DEF IInv
    <2>2. ASSUME pc[s] \in {"freeparts", "freeftr"}
          PROVE  /\ More(s)' <=> More(s)
                 /\ More(s) => Ftr(s)' = Ftr(s) /\ hdr'[Ftr(s)] = hdr[Ftr(s)]
        <3>1. loc[s].layer # Null
            BY <2>1, <2>2 DEF Shape, GeomOf, Loading
        <3>2. More(s)' <=> More(s)
            BY <1>1, <1>3, <3>1 DEF More
        <3>3. More(s) => loc[s].n + 1 \in Left(s)
            BY <3>1, <2>2, <1>3, LoadAssumption
                DEF More, Left, Destroying, IInv, Typed, Locals, LoadAssumption, Slot
        <3>4. Ftr(s)' = Ftr(s)
            BY <1>1, <1>3, <3>1 DEF Ftr
        <3> QED BY <3>2, <3>3, <3>4, <1>6 DEF Ftr
    <2> QED BY <2>1, <2>2, <1>1, <1>3, <1>4 DEF Shape, GeomOf, Loading, Filling
<1> QED BY <1>9, <1>10

\* A step of thread r keeps the invariant when it changes what r owns, and nothing else.
LEMMA StepKeeps ==
    ASSUME IInv, NEW r \in Request, NEW Out, NEW N,
           Typed', Shape(r)', Frame(r), Change(r, Out, N)
    PROVE  IInv'
<1>1. ASSUME NEW s \in Request, s # r
      PROVE  /\ Shape(s)'
             /\ \A t, x, y, b : Owns(s, t, x, y, b)' <=> Owns(s, t, x, y, b)
    BY <1>1, OthersKeep
<1>2. ASSUME NEW s \in Request
      PROVE  Shape(s)'
    BY <1>1
<1>3. ASSUME NEW b, Holds(r, b)
      PROVE  b \in Block /\ b \notin free
    BY <1>3 DEF IInv, Exact
<1>4. Clean'
    <2>1. ASSUME NEW b \in free'
          PROVE  hdr'[b] = NoHeader
        <3>1. CASE b \in free
            <4>1. ~Holds(r, b)
                BY <3>1, <1>3
            <4>2. b \in Block
                BY <3>1 DEF IInv, Typed
            <4> QED BY <3>1, <4>1, <4>2 DEF Frame, IInv, Clean
        <3> QED BY <3>1 DEF Frame
    <2> QED BY <2>1 DEF Clean, NoHeader
<1>5. ASSUME NEW s \in Request, NEW u \in Request, NEW t, NEW x, NEW y, NEW v, NEW z, NEW w, NEW b,
             Owns(s, t, x, y, b)', Owns(u, v, z, w, b)'
      PROVE  s = u /\ t = v /\ x = z /\ y = w
    <2>1. CASE s # r /\ u # r
        <3>1. Owns(s, t, x, y, b) /\ Owns(u, v, z, w, b)
            BY <2>1, <1>5, <1>1
        <3> QED BY <3>1 DEF IInv, OneOwner
    <2>2. CASE s = r /\ u = r
        <3>1. \/ Owns(r, t, x, y, b) /\ b \notin Out
              \/ <<t, x, y, b>> \in N
            BY <2>2, <1>5 DEF Change
        <3>2. \/ Owns(r, v, z, w, b) /\ b \notin Out
              \/ <<v, z, w, b>> \in N
            BY <2>2, <1>5 DEF Change
        <3>3. ~((\E i, j, k : <<i, j, k, b>> \in N) /\ Holds(r, b) /\ b \notin Out)
            BY <1>3 DEF Change
        <3>4. CASE Owns(r, t, x, y, b) /\ Owns(r, v, z, w, b)
            BY <2>2, <3>4 DEF IInv, OneOwner
        <3>5. CASE <<t, x, y, b>> \in N /\ <<v, z, w, b>> \in N
            BY <2>2, <3>5 DEF Change
        <3> QED BY <3>1, <3>2, <3>3, <3>4, <3>5 DEF Holds
    <2>3. ASSUME NEW q \in Request, q # r, Holds(q, b), Holds(r, b)'
          PROVE  FALSE
        <3>1. b \notin free /\ ~Holds(r, b)
            BY <2>3 DEF IInv, Exact, OneOwner, Holds
        <3>2. b \notin Out
            BY <3>1 DEF Change
        <3>3. PICK t1, x1, y1 : Owns(r, t1, x1, y1, b)'
            BY <2>3 DEF Holds
        <3>4. ~Owns(r, t1, x1, y1, b)
            BY <3>1 DEF Holds
        <3>5. <<t1, x1, y1, b>> \in N
            BY <3>3, <3>4 DEF Change
        <3> QED BY <3>1, <3>2, <3>5 DEF Change
    <2>4. CASE s = r /\ u # r
        <3>1. Holds(r, b)' /\ Holds(u, b)
            BY <2>4, <1>5, <1>1 DEF Holds
        <3> QED BY <2>3, <2>4, <3>1
    <2>5. CASE s # r /\ u = r
        <3>1. Holds(r, b)' /\ Holds(s, b)
            BY <2>5, <1>5, <1>1 DEF Holds
        <3> QED BY <2>3, <2>5, <3>1
    <2> QED BY <2>1, <2>2, <2>4, <2>5
<1>6. OneOwner'
    BY <1>5 DEF OneOwner
<1>7. ASSUME NEW b
      PROVE  (b \in Block /\ b \notin free') <=> \E s \in Request : Holds(s, b)'
    <2>1. Holds(r, b)' <=> (Holds(r, b) /\ b \notin Out) \/ \E t, x, y : <<t, x, y, b>> \in N
        BY DEF Change, Holds
    <2>2. \A s \in Request \ {r} : Holds(s, b)' <=> Holds(s, b)
        BY <1>1 DEF Holds
    <2>3. (b \in Block /\ b \notin free) <=> \E s \in Request : Holds(s, b)
        BY DEF IInv, Exact
    <2>4. b \in free' <=> (b \in free \/ b \in Out) /\ ~\E t, x, y : <<t, x, y, b>> \in N
        BY DEF Change
    <2>5. (\E t, x, y : <<t, x, y, b>> \in N) => b \in free \/ b \in Out
        BY DEF Change
    <2>6. b \in Out => Holds(r, b)
        BY DEF Change
    <2>7. b \in free => b \in Block
        BY DEF IInv, Typed
    <2>8. ASSUME NEW s \in Request \ {r}, Holds(s, b)
          PROVE  ~Holds(r, b)
        BY <2>8 DEF IInv, OneOwner, Holds
    <2> QED BY <2>1, <2>2, <2>3, <2>4, <2>5, <2>6, <2>7, <2>8
<1>8. Exact'
    BY <1>7 DEF Exact
<1> QED BY <1>2, <1>4, <1>6, <1>8 DEF IInv

\* Nothing changes hands.
LEMMA NoChange ==
    ASSUME NEW r, free' = free, \A t, x, y, b : Owns(r, t, x, y, b)' <=> Owns(r, t, x, y, b)
    PROVE  Change(r, {}, {})
BY DEF Change

\* Thread r takes a free block.
LEMMA Taken ==
    ASSUME NEW r, NEW i, NEW j, NEW k, NEW c \in free, free' = free \ {c},
           \A t, x, y, b : Owns(r, t, x, y, b)' <=>
               Owns(r, t, x, y, b) \/ (t = i /\ x = j /\ y = k /\ b = c)
    PROVE  Change(r, {}, {<<i, j, k, c>>})
BY DEF Change

\* Thread r frees blocks it owns.
LEMMA Released ==
    ASSUME NEW r, NEW S, free' = free \cup S, \A b \in S : Holds(r, b),
           \A t, x, y, b : Owns(r, t, x, y, b)' <=> Owns(r, t, x, y, b) /\ b \notin S
    PROVE  Change(r, S, {})
BY DEF Change

----------------------------------------------------------------------------
(* The pieces of the steps *)

LEMMA NoLocalsTyped == NoLocals \in Locals
<1>1. 0 \in 0..NLayer /\ 0 \in 0..Width
    BY LoadAssumption DEF LoadAssumption
<1> QED BY <1>1 DEF NoLocals, Locals, Pointer

LEMMA Went ==
    ASSUME Typed, NEW r \in Request, NEW label \in Label, NEW locals \in Locals,
           Goto(r, label, locals)
    PROVE  /\ pc' \in [Request -> Label] /\ loc' \in [Request -> Locals]
           /\ pc'[r] = label /\ loc'[r] = locals
           /\ \A s \in Request \ {r} : loc'[s] = loc[s] /\ pc'[s] = pc[s]
BY DEF Goto, Typed

LEMMA FreedBlocks ==
    ASSUME Typed, NEW S \in SUBSET Block, Freed(S)
    PROVE  /\ free' = free \cup S /\ free' \subseteq Block
           /\ hdr' \in [Block -> [cnt : 0..Width, name : Pointer]]
           /\ arr' \in [Block -> [Slot -> Block \cup {Stale}]]
           /\ \A b \in S : hdr'[b] = NoHeader
           /\ \A b \in Block \ S : hdr'[b] = hdr[b] /\ arr'[b] = arr[b]
<1>1. NoHeader \in [cnt : 0..Width, name : Pointer]
    BY LoadAssumption DEF LoadAssumption, NoHeader, Pointer
<1>2. NoArray \in [Slot -> Block \cup {Stale}]
    BY DEF NoArray
<1>3. /\ free' = free \cup S
      /\ hdr' = [b \in Block |-> IF b \in S THEN NoHeader ELSE hdr[b]]
      /\ arr' = [b \in Block |-> IF b \in S THEN NoArray ELSE arr[b]]
    BY DEF Freed
<1>4. /\ hdr \in [Block -> [cnt : 0..Width, name : Pointer]]
      /\ arr \in [Block -> [Slot -> Block \cup {Stale}]]
      /\ free \subseteq Block
    BY DEF Typed
<1>5. hdr' \in [Block -> [cnt : 0..Width, name : Pointer]]
    BY <1>1, <1>3, <1>4
<1>6. arr' \in [Block -> [Slot -> Block \cup {Stale}]]
    BY <1>2, <1>3, <1>4
<1>7. \A b \in Block \ S : hdr'[b] = hdr[b] /\ arr'[b] = arr[b]
    BY <1>3
<1>8. \A b \in S : hdr'[b] = NoHeader
    BY <1>3
<1> QED BY <1>3, <1>4, <1>5, <1>6, <1>7, <1>8

\* A thread without a layer owns its buffers and no more.
LEMMA EarlyOwns ==
    ASSUME IInv, NEW r \in Request, loc[r].layer = Null,
           NEW t, NEW x, NEW y, NEW b
    PROVE  Owns(r, t, x, y, b) <=>
               /\ t = "local" /\ x = r /\ b # Null
               /\ (y = "data" /\ b = loc[r].data) \/ (y = "zip" /\ b = loc[r].zip)
<1>1. loc[r].ftr = Null
    BY DEF IInv, Shape, GeomOf, Loading, Filling
<1>2. Left(r) = {}
    BY DEF Left
<1>3. ~OwnsFeature(r, t, x, y, b)
    BY <1>2 DEF OwnsFeature
<1>4. ~OwnsPart(r, t, x, y, b)
    BY <1>1, <1>2, NullIsNoBlock DEF OwnsPart
<1>5. ~OwnsName(r, t, x, y, b)
    BY <1>1, <1>2, NullIsNoBlock DEF OwnsName
<1> QED BY <1>1, <1>3, <1>4, <1>5 DEF Owns, OwnsLocal

\* A thread that gives up what it owns, all of it, is idle.
LEMMA GaveUp ==
    ASSUME IInv, NEW r \in Request, NEW S \in SUBSET Block, GiveUp(r, S),
           \A b : b \in S <=> Holds(r, b)
    PROVE  IInv'
<1>1. Typed
    BY DEF IInv
<1>2. /\ pc' \in [Request -> Label] /\ loc' \in [Request -> Locals]
      /\ pc'[r] = "idle" /\ loc'[r] = NoLocals
      /\ \A s \in Request \ {r} : loc'[s] = loc[s] /\ pc'[s] = pc[s]
    BY <1>1, NoLocalsTyped, Went DEF GiveUp, Label
<1>3. /\ free' = free \cup S /\ free' \subseteq Block
      /\ hdr' \in [Block -> [cnt : 0..Width, name : Pointer]]
      /\ arr' \in [Block -> [Slot -> Block \cup {Stale}]]
      /\ \A b \in S : hdr'[b] = NoHeader
      /\ \A b \in Block \ S : hdr'[b] = hdr[b] /\ arr'[b] = arr[b]
    BY <1>1, FreedBlocks DEF GiveUp
<1>4. Typed'
    BY <1>1, <1>2, <1>3 DEF Typed, GiveUp
<1>5. Shape(r)'
    BY <1>2 DEF Shape, GeomOf, NoLocals, Loading, Filling
<1>6. Frame(r)
    BY <1>2, <1>3 DEF Frame
<1>7. ASSUME NEW t, NEW x, NEW y, NEW b
      PROVE  ~Owns(r, t, x, y, b)'
    <2>1. loc'[r].layer = Null /\ loc'[r].ftr = Null /\ loc'[r].data = Null /\ loc'[r].zip = Null
        BY <1>2 DEF NoLocals
    <2>2. Left(r)' = {}
        BY <2>1 DEF Left
    <2> QED BY <2>1, <2>2, NullIsNoBlock DEF Owns, OwnsLocal, OwnsFeature, OwnsPart, OwnsName
<1>8. Change(r, S, {})
    BY <1>3, <1>7, Released DEF Holds
<1> QED BY <1>4, <1>5, <1>6, <1>8, StepKeeps

\* A step of a thread that is loading, at which it takes and frees nothing.
LEMMA Passed ==
    ASSUME IInv, NEW r \in Request, NEW label \in Label, NEW locals \in Locals,
           Goto(r, label, locals), UNCHANGED <<free, hdr, arr>>, pos' \in 1..NLayer + 1,
           locals.data = loc[r].data, locals.zip = loc[r].zip,
           locals.layer = loc[r].layer, locals.ftr = loc[r].ftr,
           ~Destroying(r), ~Destroying(r)', Shape(r)'
    PROVE  IInv'
<1>1. Typed
    BY DEF IInv
<1>2. /\ pc' \in [Request -> Label] /\ loc' \in [Request -> Locals]
      /\ pc'[r] = label /\ loc'[r] = locals
      /\ \A s \in Request \ {r} : loc'[s] = loc[s] /\ pc'[s] = pc[s]
    BY <1>1, Went
<1>3. Typed'
    BY <1>1, <1>2 DEF Typed
<1>4. Frame(r)
    BY <1>2 DEF Frame
<1>5. Left(r)' = Left(r)
    BY <1>2 DEF Left
<1>6. ASSUME NEW i
      PROVE  ~Current(r, i) /\ ~Current(r, i)'
    BY DEF Current
<1>7. ASSUME NEW t, NEW x, NEW y, NEW b
      PROVE  Owns(r, t, x, y, b)' <=> Owns(r, t, x, y, b)
    <2>1. OwnsLocal(r, t, x, y, b)' <=> OwnsLocal(r, t, x, y, b)
        BY <1>2 DEF OwnsLocal
    <2>2. OwnsFeature(r, t, x, y, b)' <=> OwnsFeature(r, t, x, y, b)
        BY <1>2, <1>5 DEF OwnsFeature
    <2>3. OwnsPart(r, t, x, y, b)' <=> OwnsPart(r, t, x, y, b)
        BY <1>2, <1>5, <1>6 DEF OwnsPart
    <2>4. OwnsName(r, t, x, y, b)' <=> OwnsName(r, t, x, y, b)
        BY <1>2, <1>5, <1>6 DEF OwnsName
    <2> QED BY <2>1, <2>2, <2>3, <2>4 DEF Owns
<1>8. Change(r, {}, {})
    BY <1>7, NoChange
<1> QED BY <1>3, <1>4, <1>8, StepKeeps

\* A step of a thread that is loading, at which it takes block c for its local k.
LEMMA TookLocal ==
    ASSUME IInv, NEW r \in Request, NEW label \in Label, NEW locals \in Locals,
           NEW k \in {"data", "zip", "layer", "ftr"}, NEW c \in free,
           Goto(r, label, locals), free' = free \ {c}, UNCHANGED <<hdr, arr, pos>>,
           loc[r][k] = Null,
           \A j \in {"data", "zip", "layer", "ftr"} :
               locals[j] = IF j = k THEN c ELSE loc[r][j],
           ~Destroying(r), ~Destroying(r)', Shape(r)'
    PROVE  IInv'
<1>1. Typed /\ c \in Block /\ hdr[c].cnt = 0 /\ hdr[c].name = Null
    BY DEF IInv, Typed, Clean, NoHeader
<1>2. /\ pc' \in [Request -> Label] /\ loc' \in [Request -> Locals]
      /\ pc'[r] = label /\ loc'[r] = locals
      /\ \A s \in Request \ {r} : loc'[s] = loc[s] /\ pc'[s] = pc[s]
    BY <1>1, Went
<1>3. Typed'
    BY <1>1, <1>2 DEF Typed
<1>4. Frame(r)
    BY <1>2 DEF Frame
<1>5. \A i \in Slot : 0 < i
    BY LoadAssumption DEF LoadAssumption, Slot
<1>6. Left(r)' = Left(r) /\ (loc'[r].layer = loc[r].layer \/ Left(r) = {})
    <2>1. CASE k = "layer"
        <3>1. Left(r) = {}
            BY <2>1 DEF Left
        <3>2. loc'[r].layer = c
            BY <1>2, <2>1
        <3>3. Left(r)' = {}
            <4>1. ASSUME NEW i \in Slot
                  PROVE  ~(i <= 0)
                BY <1>5, LoadAssumption DEF LoadAssumption, Slot
            <4> QED BY <1>1, <3>2, <4>1 DEF Left
        <3> QED BY <3>1, <3>3
    <2>2. CASE k # "layer"
        <3>1. loc'[r].layer = loc[r].layer
            BY <1>2, <2>2
        <3> QED BY <3>1, <2>2 DEF Left
    <2> QED BY <2>1, <2>2
<1>7. ASSUME NEW i
      PROVE  ~Current(r, i) /\ ~Current(r, i)'
    BY DEF Current
<1>8. loc'[r].ftr = loc[r].ftr \/ (loc[r].ftr = Null /\ loc'[r].ftr = c)
    BY <1>2
<1>9. ASSUME NEW t, NEW x, NEW y, NEW b
      PROVE  Owns(r, t, x, y, b)' <=>
                 Owns(r, t, x, y, b) \/ (t = "local" /\ x = r /\ y = k /\ b = c)
    <2>1. OwnsLocal(r, t, x, y, b)' <=>
              OwnsLocal(r, t, x, y, b) \/ (t = "local" /\ x = r /\ y = k /\ b = c)
        BY <1>1, <1>2, NullIsNoBlock DEF OwnsLocal
    <2>2. OwnsFeature(r, t, x, y, b)' <=> OwnsFeature(r, t, x, y, b)
        BY <1>6 DEF OwnsFeature
    <2>3. OwnsPart(r, t, x, y, b)' <=> OwnsPart(r, t, x, y, b)
        <3>1. y \in Slot => ~(y <= hdr[c].cnt)
            BY <1>1, <1>5, LoadAssumption DEF LoadAssumption, Slot
        <3> QED BY <1>6, <1>7, <1>8, <3>1, NullIsNoBlock DEF OwnsPart
    <2>4. OwnsName(r, t, x, y, b)' <=> OwnsName(r, t, x, y, b)
        BY <1>1, <1>6, <1>7, <1>8, NullIsNoBlock DEF OwnsName
    <2> QED BY <2>1, <2>2, <2>3, <2>4 DEF Owns
<1>10. Change(r, {}, {<<"local", r, k, c>>})
    BY <1>9, Taken
<1> QED BY <1>3, <1>4, <1>10, StepKeeps

----------------------------------------------------------------------------
(* The steps of getLayer *)

LEMMA InitHolds == Init => IInv
<1> SUFFICES ASSUME Init
             PROVE  IInv
    OBVIOUS
<1>1. Typed
    <2>1. NoHeader \in [cnt : 0..Width, name : Pointer]
        BY LoadAssumption DEF LoadAssumption, NoHeader, Pointer
    <2>2. NoArray \in [Slot -> Block \cup {Stale}]
        BY DEF NoArray
    <2>3. 1 \in 1..NLayer + 1
        BY LoadAssumption DEF LoadAssumption
    <2> QED BY <2>1, <2>2, <2>3, NoLocalsTyped DEF Init, Typed, Label
<1>2. ASSUME NEW r \in Request
      PROVE  Shape(r)
    BY DEF Init, Shape, NoLocals, Loading, Filling
<1>3. Clean
    BY DEF Init, Clean
<1>4. ASSUME NEW r \in Request, NEW t, NEW x, NEW y, NEW b
      PROVE  ~Owns(r, t, x, y, b)
    <2>1. loc[r].layer = Null /\ loc[r].ftr = Null /\ loc[r].data = Null /\ loc[r].zip = Null
        BY DEF Init, NoLocals
    <2>2. Left(r) = {}
        BY <2>1 DEF Left
    <2> QED BY <2>1, <2>2, NullIsNoBlock DEF Owns, OwnsLocal, OwnsFeature, OwnsPart, OwnsName
<1>5. OneOwner /\ Exact
    BY <1>4 DEF OneOwner, Exact, Holds, Init
<1> QED BY <1>1, <1>2, <1>3, <1>5 DEF IInv

LEMMA GrantedIsFree == \A kind : Granted(kind) \subseteq free
BY DEF Granted

LEMMA MallocDataKeeps ==
    ASSUME IInv, NEW r \in Request, NEW l \in Layer, MallocData(r, l)
    PROVE  IInv'
<1>1. PICK b \in free : /\ free' = free \ {b}
                        /\ Goto(r, "seek", [NoLocals EXCEPT !.want = l, !.data = b])
    BY GrantedIsFree DEF MallocData
<1> DEFINE locals == [NoLocals EXCEPT !.want = l, !.data = b]
<1>2. pc[r] = "idle" /\ loc[r] = NoLocals /\ Typed /\ b \in Block
    BY DEF MallocData, IInv, Shape, Typed
<1>3. l \in 0..NLayer
    BY LoadAssumption DEF LoadAssumption, Layer
<1>4. locals \in Locals /\ "seek" \in Label
    BY <1>2, <1>3, NoLocalsTyped DEF NoLocals, Locals, Pointer, Label
<1>5. pc'[r] = "seek" /\ loc'[r] = locals
    BY <1>1, <1>2, <1>4, Went
<1>6. Shape(r)'
    BY <1>2, <1>5, NullIsNoBlock DEF Shape, GeomOf, NoLocals, Loading, Filling
<1>7. ~Destroying(r) /\ ~Destroying(r)'
    BY <1>2, <1>5 DEF Destroying
<1>8. \A j \in {"data", "zip", "layer", "ftr"} : locals[j] = IF j = "data" THEN b ELSE loc[r][j]
    BY <1>2 DEF NoLocals
<1>9. loc[r]["data"] = Null
    BY <1>2 DEF NoLocals
<1>10. UNCHANGED <<hdr, arr, pos>>
    BY DEF MallocData
<1> HIDE DEF locals
<1> QED BY <1>1, <1>4, <1>6, <1>7, <1>8, <1>9, <1>10, TookLocal DEF locals

\* What a thread that has no layer gives up is its buffers.
LEMMA GaveUpBuffers ==
    ASSUME IInv, NEW r \in Request, loc[r].layer = Null,
           GiveUp(r, {loc[r].data, loc[r].zip} \ {Null})
    PROVE  IInv'
<1> DEFINE S == {loc[r].data, loc[r].zip} \ {Null}
<1>1. S \in SUBSET Block
    BY DEF IInv, Typed, Locals, Pointer
<1>2. ASSUME NEW b
      PROVE  b \in S <=> Holds(r, b)
    <2>1. \A t, x, y : Owns(r, t, x, y, b) <=>
               /\ t = "local" /\ x = r /\ b # Null
               /\ (y = "data" /\ b = loc[r].data) \/ (y = "zip" /\ b = loc[r].zip)
        BY EarlyOwns
    <2>2. CASE b \in S
        <3>1. Owns(r, "local", r, "data", b) \/ Owns(r, "local", r, "zip", b)
            BY <2>1, <2>2
        <3> QED BY <2>2, <3>1 DEF Holds
    <2>3. CASE b \notin S
        BY <2>1, <2>3 DEF Holds
    <2> QED BY <2>2, <2>3
<1> HIDE DEF S
<1> QED BY <1>1, <1>2, GaveUp DEF S

LEMMA SeekKeeps ==
    ASSUME IInv, NEW r \in Request, Seek(r)
    PROVE  IInv'
<1>1. pc[r] = "seek" /\ Shape(r) /\ Typed /\ loc[r] \in Locals /\ "read" \in Label
    BY DEF Seek, IInv, Typed, Label
<1>2. pc'[r] = "read" /\ loc'[r] = loc[r]
    BY <1>1, Went DEF Seek
<1>3. Shape(r)'
    BY <1>1, <1>2 DEF Shape, GeomOf, Loading, Filling
<1>4. pos' \in 1..NLayer + 1
    BY <1>1, LoadAssumption DEF Seek, Shape, LoadAssumption, Layer
<1>5. ~Destroying(r) /\ ~Destroying(r)'
    BY <1>1, <1>2 DEF Destroying
<1> QED BY <1>1, <1>3, <1>4, <1>5, Passed DEF Seek

LEMMA ReadKeeps ==
    ASSUME IInv, NEW r \in Request, Read(r)
    PROVE  IInv'
<1>1. pc[r] = "read" /\ Shape(r) /\ Typed /\ loc[r] \in Locals
    BY DEF Read, IInv, Typed
<1>2. loc[r].layer = Null /\ loc[r].ftr = Null /\ loc[r].zip = Null /\ loc[r].data # Null
    BY <1>1 DEF Shape, GeomOf, Loading, Filling
<1>3. CASE GiveUp(r, {loc[r].data})
    <2>1. {loc[r].data} = {loc[r].data, loc[r].zip} \ {Null}
        BY <1>2
    <2> QED BY <1>2, <1>3, <2>1, GaveUpBuffers
<1>4. CASE /\ pos \in Layer /\ pos' = pos + 1
           /\ Goto(r, IF Compressed THEN "zip" ELSE "layer", [loc[r] EXCEPT !.got = pos])
           /\ UNCHANGED <<free, hdr, arr>>
    <2> DEFINE locals == [loc[r] EXCEPT !.got = pos]
               label == IF Compressed THEN "zip" ELSE "layer"
    <2>1. label \in {"zip", "layer"}
        OBVIOUS
    <2>2. locals \in Locals /\ label \in Label
        <3>1. pos \in 0..NLayer
            BY <1>4, LoadAssumption DEF LoadAssumption, Layer
        <3>2. locals \in Locals
            BY <1>1, <3>1 DEF Locals
        <3>3. label \in Label
            BY <2>1 DEF Label
        <3> QED BY <3>2, <3>3
    <2>3. /\ locals.data = loc[r].data /\ locals.zip = loc[r].zip /\ locals.n = loc[r].n
          /\ locals.layer = loc[r].layer /\ locals.ftr = loc[r].ftr /\ locals.m = loc[r].m
          /\ locals.got = pos
        BY <1>1 DEF Locals
    <2> HIDE DEF locals, label
    <2>4. Goto(r, label, locals)
        BY <1>4 DEF locals, label
    <2>5. pc'[r] = label /\ loc'[r] = locals
        BY <1>1, <2>2, <2>4, Went
    <2>6. Shape(r)'
        BY <1>1, <1>2, <1>4, <2>1, <2>3, <2>5 DEF Shape, GeomOf, Loading, Filling
    <2>7. ~Destroying(r) /\ ~Destroying(r)'
        BY <1>1, <2>1, <2>5 DEF Destroying
    <2>8. pos' \in 1..NLayer + 1
        BY <1>4, LoadAssumption DEF LoadAssumption, Layer
    <2> QED BY <1>4, <2>2, <2>3, <2>4, <2>6, <2>7, <2>8, Passed
<1> QED BY <1>3, <1>4 DEF Read

LEMMA MallocZipKeeps ==
    ASSUME IInv, NEW r \in Request, MallocZip(r)
    PROVE  IInv'
<1>1. pc[r] = "zip" /\ Shape(r) /\ Typed /\ loc[r] \in Locals
    BY DEF MallocZip, IInv, Typed
<1>2. loc[r].layer = Null /\ loc[r].ftr = Null /\ loc[r].zip = Null /\ loc[r].data # Null
    BY <1>1 DEF Shape, GeomOf, Loading, Filling
<1>3. CASE GiveUp(r, {loc[r].data})
    <2>1. {loc[r].data} = {loc[r].data, loc[r].zip} \ {Null}
        BY <1>2
    <2> QED BY <1>2, <1>3, <2>1, GaveUpBuffers
<1>4. ASSUME NEW b \in free, free' = free \ {b}, UNCHANGED <<hdr, arr, pos>>,
             Goto(r, "unzip", [loc[r] EXCEPT !.zip = b])
      PROVE  IInv'
    <2> DEFINE locals == [loc[r] EXCEPT !.zip = b]
    <2>1. b \in Block
        BY <1>1 DEF Typed
    <2>2. locals \in Locals /\ "unzip" \in Label
        BY <1>1, <2>1 DEF Locals, Pointer, Label
    <2>3. /\ \A j \in {"data", "zip", "layer", "ftr"} :
                locals[j] = IF j = "zip" THEN b ELSE loc[r][j]
          /\ locals.n = loc[r].n /\ locals.m = loc[r].m /\ locals.got = loc[r].got
        BY <1>1 DEF Locals
    <2> HIDE DEF locals
    <2>4. Goto(r, "unzip", locals)
        BY <1>4 DEF locals
    <2>5. pc'[r] = "unzip" /\ loc'[r] = locals
        BY <1>1, <2>2, <2>4, Went
    <2>6. locals.data # Null /\ locals.zip = b /\ locals.layer = Null /\ locals.ftr = Null
        BY <1>2, <2>3
    <2>7. Shape(r)'
        BY <1>1, <2>1, <2>3, <2>5, <2>6, NullIsNoBlock DEF Shape, GeomOf, Loading, Filling
    <2>8. ~Destroying(r) /\ ~Destroying(r)'
        BY <1>1, <2>5 DEF Destroying
    <2>9. loc[r]["zip"] = Null
        BY <1>2
    <2> QED BY <1>4, <2>2, <2>3, <2>4, <2>7, <2>8, <2>9, TookLocal
<1> QED BY <1>3, <1>4, GrantedIsFree DEF MallocZip

LEMMA UnzippedKeeps ==
    ASSUME IInv, NEW r \in Request, pc[r] = "unzip", Unzipped(r)
    PROVE  IInv'
<1>1. Shape(r) /\ Typed /\ loc[r] \in Locals
    BY DEF IInv, Typed
<1> DEFINE data == loc[r].data
           zip == loc[r].zip
           locals == [loc[r] EXCEPT !.data = zip, !.zip = Null]
<1>2. /\ loc[r].layer = Null /\ loc[r].ftr = Null /\ zip # Null /\ data # Null
      /\ zip \in Block /\ data \in Block
    BY <1>1 DEF Shape, GeomOf, Loading, Filling, Locals, Pointer
<1>3. locals \in Locals /\ "layer" \in Label
    BY <1>1 DEF Locals, Pointer, Label
<1>4. /\ locals.data = zip /\ locals.zip = Null /\ locals.n = loc[r].n
      /\ locals.layer = Null /\ locals.ftr = Null /\ locals.m = loc[r].m
      /\ locals.got = loc[r].got
    BY <1>1, <1>2 DEF Locals
<1> HIDE DEF locals
<1>5. Freed({data}) /\ Goto(r, "layer", locals) /\ pos' = pos
    BY DEF Unzipped, locals
<1>6. /\ pc' \in [Request -> Label] /\ loc' \in [Request -> Locals]
      /\ pc'[r] = "layer" /\ loc'[r] = locals
      /\ \A s \in Request \ {r} : loc'[s] = loc[s] /\ pc'[s] = pc[s]
    BY <1>1, <1>3, <1>5, Went
<1>7. /\ free' = free \cup {data} /\ free' \subseteq Block
      /\ hdr' \in [Block -> [cnt : 0..Width, name : Pointer]]
      /\ arr' \in [Block -> [Slot -> Block \cup {Stale}]]
      /\ \A b \in {data} : hdr'[b] = NoHeader
      /\ \A b \in Block \ {data} : hdr'[b] = hdr[b] /\ arr'[b] = arr[b]
    BY <1>1, <1>2, <1>5, FreedBlocks
<1>8. Typed'
    BY <1>1, <1>5, <1>6, <1>7 DEF Typed
<1>9. Shape(r)'
    BY <1>1, <1>2, <1>4, <1>6 DEF Shape, GeomOf, Loading, Filling
<1>10. \A t, x, y, b : Owns(r, t, x, y, b) <=>
           /\ t = "local" /\ x = r /\ b # Null
           /\ (y = "data" /\ b = data) \/ (y = "zip" /\ b = zip)
    BY <1>2, EarlyOwns
<1>11. Holds(r, data) /\ Holds(r, zip) /\ data # zip
    <2>1. Owns(r, "local", r, "data", data) /\ Owns(r, "local", r, "zip", zip)
        BY <1>2, <1>10
    <2> QED BY <2>1 DEF Holds, IInv, OneOwner
<1>12. Frame(r)
    BY <1>6, <1>7, <1>11 DEF Frame
<1>13. ASSUME NEW t, NEW x, NEW y, NEW b
       PROVE  Owns(r, t, x, y, b)' <=> t = "local" /\ x = r /\ y = "data" /\ b = zip
    <2>1. /\ loc'[r].layer = Null /\ loc'[r].ftr = Null
          /\ loc'[r].data = zip /\ loc'[r].zip = Null
        BY <1>4, <1>6
    <2>2. Left(r)' = {}
        BY <2>1 DEF Left
    <2> QED BY <1>2, <2>1, <2>2, NullIsNoBlock
            DEF Owns, OwnsLocal, OwnsFeature, OwnsPart, OwnsName
<1>14. Change(r, {data, zip}, {<<"local", r, "data", zip>>})
    <2> HIDE DEF data, zip
    <2>1. zip \notin free
        BY <1>11 DEF IInv, Exact
    <2>2. \A t, x, y, b : Owns(r, t, x, y, b)' <=>
              (Owns(r, t, x, y, b) /\ b \notin {data, zip})
              \/ <<t, x, y, b>> \in {<<"local", r, "data", zip>>}
        BY <1>10, <1>13
    <2> QED BY <1>7, <1>11, <2>1, <2>2 DEF Change
<1> QED BY <1>8, <1>9, <1>12, <1>14, StepKeeps

LEMMA UnzipKeeps ==
    ASSUME IInv, NEW r \in Request, Unzip(r)
    PROVE  IInv'
<1>1. pc[r] = "unzip" /\ Shape(r)
    BY DEF Unzip, IInv
<1>2. CASE UnzipFailed(r)
    <2>1. loc[r].layer = Null /\ loc[r].zip # Null /\ loc[r].data # Null
        BY <1>1 DEF Shape, GeomOf, Loading, Filling
    <2>2. {loc[r].data, loc[r].zip} = {loc[r].data, loc[r].zip} \ {Null}
        BY <2>1
    <2> QED BY <1>2, <2>1, <2>2, GaveUpBuffers DEF UnzipFailed
<1> QED BY <1>1, <1>2, UnzippedKeeps DEF Unzip

LEMMA CreateLayerKeeps ==
    ASSUME IInv, NEW r \in Request, CreateLayer(r)
    PROVE  IInv'
<1>1. pc[r] = "layer" /\ Shape(r) /\ Typed /\ loc[r] \in Locals
    BY DEF CreateLayer, IInv, Typed
<1>2. /\ loc[r].layer = Null /\ loc[r].ftr = Null /\ loc[r].zip = Null /\ loc[r].data # Null
      /\ loc[r].got \in Layer /\ loc[r].n = 0 /\ loc[r].m = 0
    BY <1>1 DEF Shape, GeomOf, Loading, Filling
<1>3. CASE GiveUp(r, {loc[r].data})
    <2>1. {loc[r].data} = {loc[r].data, loc[r].zip} \ {Null}
        BY <1>2
    <2> QED BY <1>2, <1>3, <2>1, GaveUpBuffers
<1>4. ASSUME NEW b \in free, free' = free \ {b}, UNCHANGED <<hdr, arr, pos>>,
             Goto(r, FeatureLoop(loc[r].got, 0), [loc[r] EXCEPT !.want = 0, !.layer = b])
      PROVE  IInv'
    <2> DEFINE locals == [loc[r] EXCEPT !.want = 0, !.layer = b]
               label == FeatureLoop(loc[r].got, 0)
    <2>1. b \in Block /\ hdr[b].cnt = 0
        BY <1>1 DEF Typed, IInv, Clean, NoHeader
    <2>2. locals \in Locals
        <3>1. 0 \in 0..NLayer
            BY LoadAssumption DEF LoadAssumption
        <3> QED BY <1>1, <2>1, <3>1 DEF Locals, Pointer
    <2>3. /\ \A j \in {"data", "zip", "layer", "ftr"} :
                locals[j] = IF j = "layer" THEN b ELSE loc[r][j]
          /\ locals.n = loc[r].n /\ locals.m = loc[r].m /\ locals.got = loc[r].got
        BY <1>1 DEF Locals
    <2>4. /\ label \in {"feature", "close"}
          /\ label = "feature" => 0 < FeatureNum[loc[r].got]
        BY DEF FeatureLoop
    <2>5. label \in Label
        BY <2>4 DEF Label
    <2> HIDE DEF locals, label
    <2>6. Goto(r, label, locals)
        BY <1>4 DEF locals, label
    <2>7. pc'[r] = label /\ loc'[r] = locals
        BY <1>1, <2>2, <2>5, <2>6, Went
    <2>8. locals.data # Null /\ locals.zip = Null /\ locals.layer = b /\ locals.ftr = Null
        BY <1>2, <2>3
    <2>9. Shape(r)'
        BY <1>2, <1>4, <2>1, <2>3, <2>4, <2>7, <2>8, NullIsNoBlock
           DEF Shape, GeomOf, Loading, Filling
    <2>10. ~Destroying(r) /\ ~Destroying(r)'
        BY <1>1, <2>4, <2>7 DEF Destroying
    <2>11. loc[r]["layer"] = Null
        BY <1>2
    <2> QED BY <1>4, <2>2, <2>3, <2>5, <2>6, <2>9, <2>10, <2>11, TookLocal
<1> QED BY <1>3, <1>4, GrantedIsFree DEF CreateLayer

\* Once it has a layer, a thread that is not done with the features can go on to close.
LEMMA CloseShape ==
    ASSUME IInv, NEW r \in Request, pc[r] \in Loading, loc[r].ftr = Null,
           pc'[r] = "close", loc'[r] = loc[r]
    PROVE  Shape(r)'
BY DEF IInv, Shape, GeomOf, Loading, Filling

LEMMA CreateFeatureKeeps ==
    ASSUME IInv, NEW r \in Request, CreateFeature(r)
    PROVE  IInv'
<1>1. pc[r] = "feature" /\ Shape(r) /\ Typed /\ loc[r] \in Locals
    BY DEF CreateFeature, IInv, Typed
<1>0. GeomOf(r) # "other"
    BY DEF CreateFeature
<1>2. /\ loc[r].layer # Null /\ loc[r].ftr = Null /\ loc[r].zip = Null /\ loc[r].data # Null
      /\ loc[r].got \in Layer /\ loc[r].m = 0
      /\ loc[r].n < FeatureNum[loc[r].got] /\ hdr[loc[r].layer].cnt = loc[r].n
    BY <1>1 DEF Shape, GeomOf, Loading, Filling
<1>3. CASE FeatureRefused(r) /\ UNCHANGED <<free, hdr, arr, pos>>
    <2>1. Goto(r, "close", loc[r]) /\ "close" \in Label
        BY <1>3 DEF FeatureRefused, Label
    <2>2. pc'[r] = "close" /\ loc'[r] = loc[r]
        BY <1>1, <2>1, Went
    <2>3. Shape(r)'
        BY <1>1, <1>2, <2>2, CloseShape DEF Loading
    <2>4. ~Destroying(r) /\ ~Destroying(r)'
        BY <1>1, <2>2 DEF Destroying
    <2>5. pos' \in 1..NLayer + 1
        BY <1>1, <1>3 DEF Typed
    <2> QED BY <1>1, <1>3, <2>1, <2>3, <2>4, <2>5, Passed
<1>4. ASSUME NEW b \in free, free' = free \ {b}, UNCHANGED <<hdr, arr, pos>>,
             Goto(r, IF GeomOf(r) = "point" THEN "name" ELSE "part", [loc[r] EXCEPT !.ftr = b])
      PROVE  IInv'
    <2> DEFINE locals == [loc[r] EXCEPT !.ftr = b]
               label == IF GeomOf(r) = "point" THEN "name" ELSE "part"
    <2>1. b \in Block /\ hdr[b].name = Null
        BY <1>1 DEF Typed, IInv, Clean, NoHeader
    <2>2. locals \in Locals
        BY <1>1, <2>1 DEF Locals, Pointer
    <2>3. /\ \A j \in {"data", "zip", "layer", "ftr"} :
                locals[j] = IF j = "ftr" THEN b ELSE loc[r][j]
          /\ locals.n = loc[r].n /\ locals.m = loc[r].m /\ locals.got = loc[r].got
        BY <1>1 DEF Locals
    <2>4. /\ label \in {"name", "part"} /\ label \in Label
          /\ label = "part" => GeomOf(r) # "point"
        BY DEF Label
    <2> HIDE DEF locals, label
    <2>5. Goto(r, label, locals)
        BY <1>4 DEF locals, label
    <2>6. pc'[r] = label /\ loc'[r] = locals
        BY <1>1, <2>2, <2>4, <2>5, Went
    <2>7. /\ locals.data # Null /\ locals.zip = Null /\ locals.ftr = b
          /\ locals.layer = loc[r].layer
        BY <1>2, <2>3
    <2>8. 0 < PartNum
        BY LoadAssumption DEF LoadAssumption
    <2>9. Shape(r)'
        BY <1>0, <1>2, <1>4, <2>1, <2>3, <2>4, <2>6, <2>7, <2>8, NullIsNoBlock
        DEF Shape, GeomOf, Loading, Filling
    <2>10. ~Destroying(r) /\ ~Destroying(r)'
        BY <1>1, <2>4, <2>6 DEF Destroying
    <2>11. loc[r]["ftr"] = Null
        BY <1>2
    <2> QED BY <1>4, <2>2, <2>3, <2>4, <2>5, <2>9, <2>10, <2>11, TookLocal
<1> QED BY <1>3, <1>4, GrantedIsFree DEF CreateFeature

\* A step from one part of a road or polygon to another, or to its name.
LEMMA PartPassed ==
    ASSUME IInv, NEW r \in Request, pc[r] \in {"part", "nextpart"},
           NEW label \in Filling, NEW k \in 0..Width,
           label \in {"part", "nextpart"} => k < PartNum,
           Goto(r, label, [loc[r] EXCEPT !.m = k]), UNCHANGED <<free, hdr, arr, pos>>
    PROVE  IInv'
<1> DEFINE locals == [loc[r] EXCEPT !.m = k]
<1>1. Shape(r) /\ Typed /\ loc[r] \in Locals
    BY DEF IInv, Typed
<1>2. locals \in Locals /\ label \in Label
    BY <1>1 DEF Locals, Label, Filling
<1>3. /\ locals.data = loc[r].data /\ locals.zip = loc[r].zip /\ locals.n = loc[r].n
      /\ locals.layer = loc[r].layer /\ locals.ftr = loc[r].ftr /\ locals.m = k
      /\ locals.got = loc[r].got
    BY <1>1 DEF Locals
<1> HIDE DEF locals
<1>4. Goto(r, label, locals)
    BY DEF locals
<1>5. pc'[r] = label /\ loc'[r] = locals
    BY <1>1, <1>2, <1>4, Went
<1>6. Shape(r)'
    BY <1>1, <1>3, <1>5 DEF Shape, GeomOf, Loading, Filling
<1>7. ~Destroying(r) /\ ~Destroying(r)'
    BY <1>5 DEF Destroying, Filling
<1>8. pos' \in 1..NLayer + 1
    BY <1>1 DEF Typed
<1> QED BY <1>2, <1>3, <1>4, <1>6, <1>7, <1>8, Passed

LEMMA NextPartKeeps ==
    ASSUME IInv, NEW r \in Request, NextPart(r)
    PROVE  IInv'
<1>1. pc[r] = "nextpart" /\ loc[r].m < PartNum /\ loc[r].m \in 0..Width
    BY DEF NextPart, IInv, Typed, Locals, Shape
<1>2. loc[r].m + 1 \in 0..Width
    BY <1>1, LoadAssumption DEF LoadAssumption
<1>3. PartLoop(loc[r].m + 1) \in Filling
    BY DEF PartLoop, Filling
<1>4. PartLoop(loc[r].m + 1) \in {"part", "nextpart"} => loc[r].m + 1 < PartNum
    BY DEF PartLoop
<1>5. [loc[r] EXCEPT !.m = @ + 1] = [loc[r] EXCEPT !.m = loc[r].m + 1]
    OBVIOUS
<1> QED BY <1>1, <1>2, <1>3, <1>4, <1>5, PartPassed DEF NextPart

\* The feature being filled is neither the layer nor one of those the layer has.
LEMMA FeatureApart ==
    ASSUME IInv, NEW r \in Request, loc[r].ftr # Null, loc[r].layer # Null
    PROVE  /\ loc[r].ftr \in Block /\ loc[r].layer \in Block
           /\ Holds(r, loc[r].ftr) /\ Holds(r, loc[r].layer)
           /\ loc[r].ftr \notin free /\ loc[r].layer \notin free
           /\ loc[r].ftr # loc[r].layer
           /\ \A i \in Left(r) : /\ arr[loc[r].layer][i] \in Block
                                 /\ arr[loc[r].layer][i] # loc[r].ftr
                                 /\ arr[loc[r].layer][i] # loc[r].layer
<1>1. /\ Owns(r, "local", r, "ftr", loc[r].ftr)
      /\ Owns(r, "local", r, "layer", loc[r].layer)
    BY DEF Owns, OwnsLocal
<1>2. \A i \in Left(r) : Owns(r, "feature", loc[r].layer, i, arr[loc[r].layer][i])
    BY DEF Owns, OwnsFeature
<1>3. loc[r].ftr # loc[r].layer
    BY <1>1 DEF IInv, OneOwner
<1>4. \A i \in Left(r) : /\ arr[loc[r].layer][i] # loc[r].ftr
                         /\ arr[loc[r].layer][i] # loc[r].layer
    BY <1>1, <1>2 DEF IInv, OneOwner
<1>5. \A b : Holds(r, b) => b \in Block /\ b \notin free
    BY DEF IInv, Exact
<1>6. \A i \in Left(r) : Holds(r, arr[loc[r].layer][i])
    BY <1>2 DEF Holds
<1>7. Holds(r, loc[r].ftr) /\ Holds(r, loc[r].layer)
    BY <1>1 DEF Holds
<1> QED BY <1>3, <1>4, <1>5, <1>6, <1>7

\* A part was loaded and put behind those the feature has.
LEMMA PartLoaded ==
    ASSUME IInv, PartsInOrder, NEW r \in Request, pc[r] = "part", NEW b \in free,
           LET f == loc[r].ftr
               m == loc[r].m
           IN  /\ free' = free \ {b}
               /\ arr' = [arr EXCEPT ![f][m + 1] = b]
               /\ hdr' = [hdr EXCEPT ![f].cnt = @ + 1]
               /\ Goto(r, PartLoop(m + 1), [loc[r] EXCEPT !.m = m + 1])
               /\ pos' = pos
    PROVE  IInv'
<1> DEFINE f == loc[r].ftr
           l == loc[r].layer
           m == loc[r].m
           locals == [loc[r] EXCEPT !.m = m + 1]
           label == PartLoop(m + 1)
<1>1. Shape(r) /\ Typed /\ loc[r] \in Locals /\ b \in Block
    BY DEF IInv, Typed
<1>2. f # Null /\ l # Null /\ m \in 0..Width /\ m < PartNum /\ hdr[f].cnt = m
    BY <1>1 DEF Shape, GeomOf, Loading, Filling, Locals, PartsInOrder
<1>3. m + 1 \in 0..Width /\ m + 1 \in Slot
    BY <1>2, LoadAssumption DEF LoadAssumption, Slot
<1>4. /\ f \in Block /\ l \in Block /\ f # l /\ Holds(r, f) /\ f \notin free
      /\ \A i \in Left(r) : arr[l][i] \in Block /\ arr[l][i] # f /\ arr[l][i] # l
    BY <1>2, FeatureApart
<1>5. /\ locals \in Locals
      /\ locals.data = loc[r].data /\ locals.zip = loc[r].zip /\ locals.n = loc[r].n
      /\ locals.layer = l /\ locals.ftr = f /\ locals.m = m + 1 /\ locals.got = loc[r].got
    BY <1>1, <1>3 DEF Locals
<1>6. /\ label \in {"part", "name"} /\ label \in Label
      /\ label = "part" => m + 1 < PartNum
    BY DEF PartLoop, Label
<1> HIDE DEF locals, label
<1>7. Goto(r, label, locals)
    BY DEF locals, label
<1>8. /\ pc' \in [Request -> Label] /\ loc' \in [Request -> Locals]
      /\ pc'[r] = label /\ loc'[r] = locals
      /\ \A s \in Request \ {r} : loc'[s] = loc[s] /\ pc'[s] = pc[s]
    BY <1>1, <1>5, <1>6, <1>7, Went
<1>9. /\ arr' \in [Block -> [Slot -> Block \cup {Stale}]]
      /\ \A c \in Block \ {f} : arr'[c] = arr[c]
      /\ arr'[f] = [arr[f] EXCEPT ![m + 1] = b]
    BY <1>1, <1>3, <1>4 DEF Typed
<1>10. /\ hdr' \in [Block -> [cnt : 0..Width, name : Pointer]]
       /\ \A c \in Block \ {f} : hdr'[c] = hdr[c]
       /\ hdr'[f].cnt = m + 1 /\ hdr'[f].name = hdr[f].name
    BY <1>1, <1>2, <1>3, <1>4 DEF Typed
<1>11. Typed'
    BY <1>1, <1>8, <1>9, <1>10 DEF Typed
<1>12. Shape(r)'
    BY <1>1, <1>2, <1>4, <1>5, <1>6, <1>8, <1>10 DEF Shape, GeomOf, Loading, Filling
<1>13. Frame(r)
    BY <1>4, <1>8, <1>9, <1>10 DEF Frame
<1>14. ~Destroying(r) /\ ~Destroying(r)'
    BY <1>6, <1>8 DEF Destroying
<1>15. \A i : ~Current(r, i) /\ ~Current(r, i)'
    BY <1>14 DEF Current
<1>16. Left(r)' = Left(r) /\ loc'[r].layer = l /\ loc'[r].ftr = f
    BY <1>4, <1>5, <1>8, <1>10, <1>14 DEF Left
<1>17. ASSUME NEW t, NEW x, NEW y, NEW c
       PROVE  Owns(r, t, x, y, c)' <=>
                  Owns(r, t, x, y, c) \/ (t = "part" /\ x = f /\ y = m + 1 /\ c = b)
    <2> HIDE DEF f, l, m
    <2>1. OwnsLocal(r, t, x, y, c)' <=> OwnsLocal(r, t, x, y, c)
        BY <1>5, <1>8 DEF OwnsLocal, l, f
    <2>2. OwnsFeature(r, t, x, y, c)' <=> OwnsFeature(r, t, x, y, c)
        BY <1>4, <1>9, <1>16 DEF OwnsFeature, l
    <2>3. OwnsPart(r, t, x, y, c)' <=>
              OwnsPart(r, t, x, y, c) \/ (t = "part" /\ x = f /\ y = m + 1 /\ c = b)
        <3>1. OwnsPart(r, t, x, y, c) <=>
                  /\ t = "part" /\ y \in Slot
                  /\ x = f \/ \E i \in Left(r) : x = arr[l][i]
                  /\ x \in Block /\ y <= hdr[x].cnt /\ c = arr[x][y]
            BY <1>15 DEF OwnsPart, l, f
        <3>2. OwnsPart(r, t, x, y, c)' <=>
                  /\ t = "part" /\ y \in Slot
                  /\ x = f \/ \E i \in Left(r) : x = arr[l][i]
                  /\ x \in Block /\ y <= hdr'[x].cnt /\ c = arr'[x][y]
            BY <1>4, <1>9, <1>15, <1>16 DEF OwnsPart
        <3>3. CASE x = f
            <4>1. y \in Slot => (y <= m + 1 <=> y <= m \/ y = m + 1)
                BY <1>2, LoadAssumption DEF LoadAssumption, Slot
            <4>2. y \in Slot => arr'[f][y] = IF y = m + 1 THEN b ELSE arr[f][y]
                BY <1>1, <1>4, <1>9 DEF Typed
            <4>3. ~(m + 1 <= m)
                BY <1>2
            <4> QED BY <1>2, <1>3, <1>4, <1>10, <3>1, <3>2, <3>3, <4>1, <4>2, <4>3
        <3>4. CASE x # f
            BY <1>9, <1>10, <3>1, <3>2, <3>4
        <3> QED BY <3>3, <3>4
    <2>4. OwnsName(r, t, x, y, c)' <=> OwnsName(r, t, x, y, c)
        <3> DEFINE at == \E i \in Left(r) : x = arr[l][i]
        <3>0. at <=> \E i \in Left(r) : /\ x = arr[loc[r].layer][i]
                                        /\ ~(Current(r, i) /\ pc[r] = "freeftr")
            BY <1>15 DEF l
        <3>1. at <=> \E i \in Left(r)' : /\ x = arr'[loc'[r].layer][i]
                                         /\ ~(Current(r, i)' /\ pc'[r] = "freeftr")
            BY <1>4, <1>9, <1>15, <1>16
        <3>2. x \in Block => hdr'[x].name = hdr[x].name
            BY <1>10
        <3> HIDE DEF at
        <3>3. OwnsName(r, t, x, y, c) <=> /\ t = "name" /\ y = 0 /\ c # Null
                                          /\ x = f \/ at
                                          /\ x \in Block /\ c = hdr[x].name
            BY <3>0 DEF OwnsName, f
        <3>4. OwnsName(r, t, x, y, c)' <=> /\ t = "name" /\ y = 0 /\ c # Null
                                           /\ x = f \/ at
                                           /\ x \in Block /\ c = hdr'[x].name
            BY <1>16, <3>1 DEF OwnsName
        <3> QED BY <3>2, <3>3, <3>4
    <2> QED BY <2>1, <2>2, <2>3, <2>4 DEF Owns
<1>18. Change(r, {}, {<<"part", f, m + 1, b>>})
    <2> HIDE DEF f, m
    <2> QED BY <1>17, Taken
<1> QED BY <1>11, <1>12, <1>13, <1>18, StepKeeps

LEMMA LoadPartKeeps ==
    ASSUME IInv, PartsInOrder, NEW r \in Request, LoadPart(r)
    PROVE  IInv'
<1>1. pc[r] = "part" /\ loc[r].m < PartNum /\ loc[r].m \in 0..Width /\ 0 \in 0..Width
      /\ 0 < PartNum
    BY LoadAssumption DEF LoadPart, IInv, Typed, Locals, Shape, LoadAssumption
<1>2. CASE /\ Goto(r, "nextpart", [loc[r] EXCEPT !.m = AfterRefused(r)])
           /\ UNCHANGED <<free, hdr, arr, pos>>
    <2>1. AfterRefused(r) \in 0..Width /\ AfterRefused(r) < PartNum
        BY <1>1 DEF AfterRefused
    <2>2. "nextpart" \in Filling
        BY DEF Filling
    <2> QED BY <1>1, <1>2, <2>1, <2>2, PartPassed
<1>3. CASE \E b \in PartBlock(r) :
                /\ free' = free \ {b}
                /\ arr' = [arr EXCEPT ![loc[r].ftr][loc[r].m + 1] = b]
                /\ hdr' = [hdr EXCEPT ![loc[r].ftr].cnt = @ + 1]
                /\ Goto(r, PartLoop(loc[r].m + 1), [loc[r] EXCEPT !.m = loc[r].m + 1])
                /\ pos' = pos
    BY <1>1, <1>3, PartLoaded, GrantedIsFree DEF PartBlock
<1> QED BY <1>2, <1>3 DEF LoadPart

\* The feature got its name, or none, and its entry in the layer.
LEMMA NameFeatureKeeps ==
    ASSUME IInv, NEW r \in Request, NameFeature(r)
    PROVE  IInv'
<1> DEFINE f == loc[r].ftr
           l == loc[r].layer
           k == loc[r].n + 1
           label == FeatureLoop(loc[r].got, k)
           locals == [loc[r] EXCEPT !.n = k, !.m = 0, !.ftr = Null]
<1>1. Shape(r) /\ Typed /\ loc[r] \in Locals /\ pc[r] = "name"
    BY DEF IInv, Typed, NameFeature
<1>2. /\ f # Null /\ l # Null /\ loc[r].n \in 0..Width /\ loc[r].got \in Layer
      /\ loc[r].n < FeatureNum[loc[r].got] /\ hdr[l].cnt = loc[r].n /\ hdr[f].name = Null
      /\ loc[r].data # Null /\ loc[r].zip = Null
    BY <1>1 DEF Shape, GeomOf, Loading, Filling, Locals
<1>3. k \in 0..Width /\ k \in Slot /\ 0 \in 0..Width
    <2>1. FeatureNum[loc[r].got] \in 0..Width
        BY <1>2, LoadAssumption DEF LoadAssumption
    <2> QED BY <1>2, <2>1, LoadAssumption DEF LoadAssumption, Slot
<1>4. /\ f \in Block /\ l \in Block /\ f # l
      /\ Holds(r, f) /\ Holds(r, l) /\ f \notin free /\ l \notin free
      /\ \A i \in Left(r) : arr[l][i] \in Block /\ arr[l][i] # f /\ arr[l][i] # l
    BY <1>2, FeatureApart
<1>5. PICK b : /\ b = Null \/ b \in free
               /\ free' = free \ {b}
               /\ arr' = [arr EXCEPT ![l][k] = f]
               /\ hdr' = [hdr EXCEPT ![f].name = b, ![l].cnt = k]
               /\ Goto(r, label, locals)
    BY <1>2, GrantedIsFree DEF NameFeature
<1>6. pos' = pos
    BY DEF NameFeature
<1>7. b \in Pointer
    BY <1>1, <1>5 DEF Typed, Pointer
<1>8. /\ locals \in Locals
      /\ locals.data = loc[r].data /\ locals.zip = loc[r].zip /\ locals.n = k
      /\ locals.layer = l /\ locals.ftr = Null /\ locals.m = 0 /\ locals.got = loc[r].got
    BY <1>1, <1>3 DEF Locals, Pointer
<1>9. /\ label \in {"feature", "close"} /\ label \in Label
      /\ label = "feature" => k < FeatureNum[loc[r].got]
    BY DEF FeatureLoop, Label
<1> HIDE DEF locals, label
<1>10. /\ pc' \in [Request -> Label] /\ loc' \in [Request -> Locals]
       /\ pc'[r] = label /\ loc'[r] = locals
       /\ \A s \in Request \ {r} : loc'[s] = loc[s] /\ pc'[s] = pc[s]
    BY <1>1, <1>5, <1>8, <1>9, Went
<1>11. /\ arr' \in [Block -> [Slot -> Block \cup {Stale}]]
       /\ \A c \in Block \ {l} : arr'[c] = arr[c]
       /\ arr'[l] = [arr[l] EXCEPT ![k] = f]
    BY <1>1, <1>3, <1>4, <1>5 DEF Typed
<1>12. /\ hdr' \in [Block -> [cnt : 0..Width, name : Pointer]]
       /\ \A c \in Block \ {f, l} : hdr'[c] = hdr[c]
       /\ hdr'[f].cnt = hdr[f].cnt /\ hdr'[f].name = b
       /\ hdr'[l].cnt = k /\ hdr'[l].name = hdr[l].name
    BY <1>1, <1>3, <1>4, <1>5, <1>7 DEF Typed
<1>13. Typed'
    BY <1>1, <1>5, <1>6, <1>10, <1>11, <1>12 DEF Typed
<1>14. Shape(r)'
    BY <1>1, <1>2, <1>4, <1>8, <1>9, <1>10, <1>12 DEF Shape, GeomOf, Loading, Filling
<1>15. Frame(r)
    <2>1. \A c \in Block : ~Holds(r, c) => c # f /\ c # l
        BY <1>4
    <2>2. \A c \in free' : c \in free
        BY <1>5
    <2> QED BY <1>10, <1>11, <1>12, <2>1, <2>2 DEF Frame
<1>16. \A i : ~Current(r, i) /\ ~Current(r, i)'
    BY <1>1, <1>9, <1>10 DEF Current, Destroying
<1>17. /\ Left(r) = {i \in Slot : i <= loc[r].n}
       /\ Left(r)' = {i \in Slot : i <= k}
       /\ loc'[r].layer = l /\ loc'[r].ftr = Null
    BY <1>1, <1>2, <1>4, <1>8, <1>9, <1>10, <1>12 DEF Left, Destroying
<1>18. k \notin Left(r) /\ \A i : i \in Left(r)' <=> i \in Left(r) \/ i = k
    <2>1. \A i \in Slot : i \in Int
        BY LoadAssumption DEF LoadAssumption, Slot
    <2>2. loc[r].n \in Int
        BY <1>2
    <2> QED BY <1>3, <1>17, <2>1, <2>2
<1>19. /\ \A i \in Left(r) : arr'[l][i] = arr[l][i]
       /\ arr'[l][k] = f
    <2>1. arr[l] \in [Slot -> Block \cup {Stale}]
        BY <1>1, <1>4 DEF Typed
    <2>2. \A i \in Left(r) : i \in Slot /\ i # k
        BY <1>17, <1>18
    <2> QED BY <1>3, <1>11, <2>1, <2>2
<1> DEFINE N == {<<"feature", l, k, f>>}
                \cup {<<"name", f, 0, c>> : c \in {b} \ {Null}}
<1> HIDE DEF f, l, k
<1>20. ASSUME NEW t, NEW x, NEW y, NEW c
       PROVE  Owns(r, t, x, y, c)' <=>
                  \/ Owns(r, t, x, y, c) /\ c # f
                  \/ t = "feature" /\ x = l /\ y = k /\ c = f
                  \/ t = "name" /\ x = f /\ y = 0 /\ c = b /\ b # Null
    <2>1. OwnsLocal(r, t, x, y, c)' <=> OwnsLocal(r, t, x, y, c) /\ c # f
        <3>1. loc'[r].data = loc[r].data /\ loc'[r].zip = loc[r].zip
            BY <1>8, <1>10
        <3>2. OwnsLocal(r, t, x, y, c) /\ c = f => y = "ftr"
            <4>1. Owns(r, "local", r, "ftr", f)
                BY <1>2 DEF Owns, OwnsLocal, f
            <4> QED BY <4>1 DEF Owns, IInv, OneOwner
        <3> QED BY <3>1, <3>2, <1>17, <1>2 DEF OwnsLocal, l, f
    <2>2. OwnsFeature(r, t, x, y, c) \/ OwnsPart(r, t, x, y, c) \/ OwnsName(r, t, x, y, c)
              => c # f
        <3>1. Owns(r, "local", r, "ftr", f)
            BY <1>2 DEF Owns, OwnsLocal, f
        <3>2. Owns(r, t, x, y, c) /\ c = f => t = "local"
            BY <3>1 DEF IInv, OneOwner
        <3> QED BY <3>2 DEF Owns, OwnsFeature, OwnsPart, OwnsName
    <2>3. OwnsFeature(r, t, x, y, c)' <=>
              OwnsFeature(r, t, x, y, c) \/ (t = "feature" /\ x = l /\ y = k /\ c = f)
        BY <1>17, <1>18, <1>19 DEF OwnsFeature, l
    <2>4. OwnsPart(r, t, x, y, c)' <=> OwnsPart(r, t, x, y, c)
        <3>1. OwnsPart(r, t, x, y, c) <=>
                  /\ t = "part" /\ y \in Slot
                  /\ x = f \/ \E i \in Left(r) : x = arr[l][i]
                  /\ x \in Block /\ y <= hdr[x].cnt /\ c = arr[x][y]
            BY <1>16 DEF OwnsPart, l, f
        <3>2. OwnsPart(r, t, x, y, c)' <=>
                  /\ t = "part" /\ y \in Slot
                  /\ \E i \in Left(r)' : x = arr'[l][i]
                  /\ x \in Block /\ y <= hdr'[x].cnt /\ c = arr'[x][y]
            BY <1>16, <1>17, NullIsNoBlock DEF OwnsPart
        <3>3. (\E i \in Left(r)' : x = arr'[l][i])
                  <=> x = f \/ \E i \in Left(r) : x = arr[l][i]
            BY <1>18, <1>19
        <3>4. x = f \/ (\E i \in Left(r) : x = arr[l][i]) =>
                  x \in Block /\ x # l /\ hdr'[x].cnt = hdr[x].cnt /\ arr'[x] = arr[x]
            BY <1>4, <1>11, <1>12
        <3> QED BY <3>1, <3>2, <3>3, <3>4
    <2>5. OwnsName(r, t, x, y, c)' <=>
              \/ OwnsName(r, t, x, y, c)
              \/ t = "name" /\ x = f /\ y = 0 /\ c = b /\ b # Null
        <3>1. OwnsName(r, t, x, y, c) <=>
                  /\ t = "name" /\ y = 0 /\ c # Null
                  /\ \E i \in Left(r) : x = arr[l][i]
                  /\ x \in Block /\ c = hdr[x].name
            BY <1>2, <1>16 DEF OwnsName, l, f
        <3>2. OwnsName(r, t, x, y, c)' <=>
                  /\ t = "name" /\ y = 0 /\ c # Null
                  /\ \E i \in Left(r)' : x = arr'[l][i]
                  /\ x \in Block /\ c = hdr'[x].name
            BY <1>16, <1>17, NullIsNoBlock DEF OwnsName
        <3>3. (\E i \in Left(r)' : x = arr'[l][i])
                  <=> x = f \/ \E i \in Left(r) : x = arr[l][i]
            BY <1>18, <1>19
        <3>4. (\E i \in Left(r) : x = arr[l][i]) =>
                  x \in Block /\ x # f /\ hdr'[x] = hdr[x]
            BY <1>4, <1>12
        <3> QED BY <3>1, <3>2, <3>3, <3>4, <1>4, <1>12
    <2> QED BY <2>1, <2>2, <2>3, <2>4, <2>5 DEF Owns
<1>21. \A t, x, y, c : <<t, x, y, c>> \in N <=>
           \/ t = "feature" /\ x = l /\ y = k /\ c = f
           \/ t = "name" /\ x = f /\ y = 0 /\ c = b /\ b # Null
    OBVIOUS
<1> HIDE DEF N
<1>22. \A c : (\E t, x, y : <<t, x, y, c>> \in N) <=> c = f \/ (c = b /\ b # Null)
    <2>1. <<"feature", l, k, f>> \in N /\ (b # Null => <<"name", f, 0, b>> \in N)
        BY <1>21
    <2>2. \A t, x, y, c : <<t, x, y, c>> \in N => c = f \/ (c = b /\ b # Null)
        BY <1>21
    <2> QED BY <2>1, <2>2
<1>23. Change(r, {f}, N)
    <2>1. b # Null => b # f
        BY <1>4, <1>5
    <2>2. ASSUME NEW c
          PROVE  c \in free' <=> (c \in free \/ c \in {f}) /\ ~\E t, x, y : <<t, x, y, c>> \in N
        <3>1. Null \notin free
            BY <1>1, NullIsNoBlock DEF Typed
        <3>2. c \in free' <=> c \in free /\ c # b
            BY <1>5
        <3> QED BY <3>1, <3>2, <1>4, <1>22
    <2>3. ASSUME NEW t, NEW x, NEW y, NEW c
          PROVE  Owns(r, t, x, y, c)' <=>
                     (Owns(r, t, x, y, c) /\ c \notin {f}) \/ <<t, x, y, c>> \in N
        <3>1. <<t, x, y, c>> \in N <=>
                  \/ t = "feature" /\ x = l /\ y = k /\ c = f
                  \/ t = "name" /\ x = f /\ y = 0 /\ c = b /\ b # Null
            BY <1>21
        <3> QED BY <1>20, <3>1
    <2>4. ASSUME NEW t, NEW x, NEW y, NEW u, NEW z, NEW w, NEW c,
                 <<t, x, y, c>> \in N, <<u, z, w, c>> \in N
          PROVE  t = u /\ x = z /\ y = w
        BY <1>21, <2>1, <2>4
    <2>5. \A t, x, y, c : <<t, x, y, c>> \in N => c \in free \/ c \in {f}
        BY <1>5, <1>21
    <2>6. \A c \in {f} : Holds(r, c)
        BY <1>4
    <2> QED BY <2>2, <2>3, <2>4, <2>5, <2>6 DEF Change
<1> QED BY <1>13, <1>14, <1>15, <1>23, StepKeeps

----------------------------------------------------------------------------
(* Giving up pointers, and the end of getLayer *)

\* A block thread r owns by one pointer is freed, and that pointer is given up.
LEMMA ReleasedOne ==
    ASSUME IInv, NEW r \in Request, NEW i, NEW j, NEW k, NEW c, Owns(r, i, j, k, c),
           free' = free \cup {c},
           \A t, x, y, b : Owns(r, t, x, y, b)' <=>
               Owns(r, t, x, y, b) /\ ~(t = i /\ x = j /\ y = k /\ b = c)
    PROVE  Change(r, {c}, {})
<1>1. Holds(r, c)
    BY DEF Holds
<1>2. ASSUME NEW t, NEW x, NEW y, NEW b
      PROVE  Owns(r, t, x, y, b)' <=> Owns(r, t, x, y, b) /\ b \notin {c}
    <2>1. Owns(r, t, x, y, b) /\ b = c => t = i /\ x = j /\ y = k
        BY DEF IInv, OneOwner
    <2> QED BY <2>1
<1> QED BY <1>1, <1>2, Released

\* What a thread with a layer, and no feature apart from it, knows of them.
LEMMA LayerApart ==
    ASSUME IInv, NEW r \in Request, loc[r].layer # Null, loc[r].ftr = Null
    PROVE  /\ loc[r].layer \in Block /\ Holds(r, loc[r].layer)
           /\ \A i \in Left(r) : /\ i \in Slot
                                 /\ arr[loc[r].layer][i] \in Block
                                 /\ arr[loc[r].layer][i] # loc[r].layer
                                 /\ Holds(r, arr[loc[r].layer][i])
           /\ \A i, j \in Left(r) : arr[loc[r].layer][i] = arr[loc[r].layer][j] => i = j
<1>1. Owns(r, "local", r, "layer", loc[r].layer)
    BY DEF Owns, OwnsLocal
<1>2. \A i \in Left(r) : Owns(r, "feature", loc[r].layer, i, arr[loc[r].layer][i])
    BY DEF Owns, OwnsFeature
<1>3. \A i, j \in Left(r) : arr[loc[r].layer][i] = arr[loc[r].layer][j] => i = j
    BY <1>2 DEF IInv, OneOwner
<1>4. \A i \in Left(r) : arr[loc[r].layer][i] # loc[r].layer
    BY <1>1, <1>2 DEF IInv, OneOwner
<1>5. \A b : Holds(r, b) => b \in Block
    BY DEF IInv, Exact
<1>6. \A i \in Left(r) : Holds(r, arr[loc[r].layer][i]) /\ i \in Slot
    BY <1>2 DEF Holds, Left
<1>7. Holds(r, loc[r].layer)
    BY <1>1 DEF Holds
<1> QED BY <1>3, <1>4, <1>5, <1>6, <1>7

\* Freeing a block that is neither the layer nor one of its features leaves them alone.
LEMMA FreedApart ==
    ASSUME IInv, NEW r \in Request, loc[r].layer # Null, loc[r].ftr = Null,
           NEW S \in SUBSET Block, Freed(S), loc[r].layer \notin S,
           \A i \in Left(r) : arr[loc[r].layer][i] \notin S
    PROVE  /\ hdr'[loc[r].layer] = hdr[loc[r].layer]
           /\ arr'[loc[r].layer] = arr[loc[r].layer]
           /\ \A i \in Left(r) : LET f == arr[loc[r].layer][i]
                                 IN  hdr'[f] = hdr[f] /\ arr'[f] = arr[f]
<1>1. \A b \in Block \ S : hdr'[b] = hdr[b] /\ arr'[b] = arr[b]
    BY FreedBlocks DEF IInv
<1> QED BY <1>1, LayerApart

\* A thread that has loaded its layer keeps the layer, and frees what else it holds.
LEMMA LayerKept ==
    ASSUME IInv, NEW r \in Request, pc[r] \in {"close", "draw", "drawring"},
           NEW label \in {"draw", "freeparts"}, NEW locals \in Locals,
           locals.data = Null, locals.zip = Null, locals.layer = loc[r].layer,
           locals.ftr = Null, label = "freeparts" => locals.n = 0 /\ locals.m = 0,
           Freed({loc[r].data} \ {Null}), Goto(r, label, locals), pos' = pos
    PROVE  IInv'
<1> DEFINE l == loc[r].layer
           c == loc[r].data
           S == {c} \ {Null}
<1>1. Shape(r) /\ Typed /\ loc[r] \in Locals /\ label \in Label
    BY DEF IInv, Typed, Label
<1>2. l # Null /\ loc[r].ftr = Null /\ loc[r].zip = Null /\ S \in SUBSET Block
    BY <1>1 DEF Shape, GeomOf, Loading, Filling, Locals, Pointer
<1>3. /\ l \in Block /\ Holds(r, l)
      /\ \A i \in Left(r) : /\ i \in Slot /\ arr[l][i] \in Block
                            /\ arr[l][i] # l /\ Holds(r, arr[l][i])
    BY <1>2, LayerApart
<1>4. \A b \in S : b = c /\ Owns(r, "local", r, "data", b)
    BY DEF Owns, OwnsLocal
<1>5. /\ \A b \in S : Holds(r, b)
      /\ l \notin S /\ \A i \in Left(r) : arr[l][i] \notin S
    <2>1. Owns(r, "local", r, "layer", l)
        BY <1>2 DEF Owns, OwnsLocal
    <2>2. \A i \in Left(r) : Owns(r, "feature", l, i, arr[l][i])
        BY DEF Owns, OwnsFeature
    <2> QED BY <1>4, <2>1, <2>2 DEF Holds, IInv, OneOwner
<1>8. /\ pc' \in [Request -> Label] /\ loc' \in [Request -> Locals]
      /\ pc'[r] = label /\ loc'[r] = locals
      /\ \A s \in Request \ {r} : loc'[s] = loc[s] /\ pc'[s] = pc[s]
    BY <1>1, Went
<1>9. /\ free' = free \cup S /\ free' \subseteq Block
      /\ hdr' \in [Block -> [cnt : 0..Width, name : Pointer]]
      /\ arr' \in [Block -> [Slot -> Block \cup {Stale}]]
      /\ \A b \in S : hdr'[b] = NoHeader
      /\ \A b \in Block \ S : hdr'[b] = hdr[b] /\ arr'[b] = arr[b]
    BY <1>1, <1>2, FreedBlocks
<1>10. /\ hdr'[l] = hdr[l] /\ arr'[l] = arr[l]
       /\ \A i \in Left(r) : hdr'[arr[l][i]] = hdr[arr[l][i]] /\ arr'[arr[l][i]] = arr[arr[l][i]]
    BY <1>2, <1>5, FreedApart
<1>11. Typed'
    BY <1>1, <1>8, <1>9 DEF Typed
<1>12. \A i \in Slot : i \in Int /\ 0 < i
    BY LoadAssumption DEF LoadAssumption, Slot
<1>13. /\ Left(r)' = Left(r) /\ loc'[r].layer = l /\ loc'[r].ftr = Null
       /\ Left(r) = {i \in Slot : i <= hdr[l].cnt}
    BY <1>1, <1>2, <1>8, <1>10, <1>12 DEF Left, Destroying
<1>14. Shape(r)'
    <2>1. hdr[l].cnt \in 0..Width
        BY <1>1, <1>3 DEF Typed
    <2>2. ASSUME More(r)', label = "freeparts"
          PROVE  0 <= hdr'[Ftr(r)'].cnt
        <3>1. 0 < hdr[l].cnt
            BY <2>2, <1>8, <1>10 DEF More
        <3>2. 1 \in Left(r)
            BY <2>1, <3>1, <1>13, LoadAssumption DEF LoadAssumption, Slot
        <3>3. Ftr(r)' = arr[l][1]
            BY <2>2, <1>8, <1>10 DEF Ftr
        <3> QED BY <1>3, <1>9, <3>2, <3>3
    <2> QED BY <1>2, <1>8, <1>10, <2>1, <2>2 DEF Shape, GeomOf, Loading, Filling
<1>15. Frame(r)
    BY <1>5, <1>8, <1>9 DEF Frame
<1>16. /\ \A i : ~Current(r, i)
       /\ \A i, y : y \in Slot => (Current(r, i)' => loc'[r].m < y)
       /\ pc'[r] # "freeftr"
    BY <1>1, <1>8, <1>12 DEF Current, Destroying
<1>17. ASSUME NEW t, NEW x, NEW y, NEW b
       PROVE  Owns(r, t, x, y, b)' <=>
                  Owns(r, t, x, y, b) /\ ~(t = "local" /\ y = "data")
    <2> HIDE DEF c, l, S
    <2>1. OwnsLocal(r, t, x, y, b)' <=>
              OwnsLocal(r, t, x, y, b) /\ ~(t = "local" /\ y = "data")
        BY <1>2, <1>8 DEF OwnsLocal, l
    <2>2. OwnsFeature(r, t, x, y, b)' <=> OwnsFeature(r, t, x, y, b)
        BY <1>10, <1>13 DEF OwnsFeature, l
    <2>3. OwnsPart(r, t, x, y, b)' <=> OwnsPart(r, t, x, y, b)
        BY <1>2, <1>10, <1>13, <1>16, NullIsNoBlock DEF OwnsPart, l
    <2>4. OwnsName(r, t, x, y, b)' <=> OwnsName(r, t, x, y, b)
        BY <1>2, <1>10, <1>13, <1>16, NullIsNoBlock DEF OwnsName, l
    <2>5. OwnsFeature(r, t, x, y, b) \/ OwnsPart(r, t, x, y, b) \/ OwnsName(r, t, x, y, b)
              => t # "local"
        BY DEF OwnsFeature, OwnsPart, OwnsName
    <2> QED BY <2>1, <2>2, <2>3, <2>4, <2>5 DEF Owns
<1>18. Change(r, S, {})
    <2>1. ASSUME NEW t, NEW x, NEW y, NEW b, Owns(r, t, x, y, b)
          PROVE  b \in S <=> t = "local" /\ y = "data"
        <3>1. b \in S => t = "local" /\ y = "data"
            BY <1>4, <2>1 DEF IInv, OneOwner
        <3>2. t = "local" /\ y = "data" => b \in S
            BY <2>1 DEF Owns, OwnsLocal, OwnsFeature, OwnsPart, OwnsName
        <3> QED BY <3>1, <3>2
    <2> HIDE DEF S
    <2> QED BY <1>5, <1>9, <1>17, <2>1, Released
<1> QED BY <1>11, <1>14, <1>15, <1>18, StepKeeps

LEMMA CloseDataKeeps ==
    ASSUME IInv, NEW r \in Request, CloseData(r)
    PROVE  IInv'
<1> DEFINE label == IF GeomOf(r) = "polygon" THEN "draw" ELSE "freeparts"
           locals == [NoLocals EXCEPT !.layer = loc[r].layer]
<1>1. Shape(r) /\ loc[r].layer \in Pointer /\ pc[r] = "close"
    BY DEF IInv, Typed, Locals, CloseData
<1>2. {loc[r].data} = {loc[r].data} \ {Null}
    BY <1>1 DEF Shape
<1>3. /\ locals \in Locals /\ locals.layer = loc[r].layer
      /\ locals.data = Null /\ locals.zip = Null /\ locals.ftr = Null
      /\ locals.n = 0 /\ locals.m = 0
    BY <1>1, NoLocalsTyped DEF NoLocals, Locals
<1>4. label \in {"draw", "freeparts"}
    OBVIOUS
<1>5. Freed({loc[r].data}) /\ Goto(r, label, locals) /\ pos' = pos
    BY DEF CloseData
<1> HIDE DEF label, locals
<1> QED BY <1>1, <1>2, <1>3, <1>4, <1>5, LayerKept

----------------------------------------------------------------------------
(* The steps that draw a layer of polygons *)

\* The ring whose turn it is to be drawn.
LEMMA RingInTurn ==
    ASSUME IInv, NEW r \in Request, pc[r] = "draw", More(r)
    PROVE  /\ loc[r].n + 1 \in 0..Width
           /\ Ftr(r) \in Block /\ hdr[Ftr(r)].cnt \in 0..Width
<1>1. Shape(r) /\ Typed /\ loc[r] \in Locals
    BY DEF IInv, Typed
<1>2. loc[r].layer # Null /\ loc[r].ftr = Null
    BY <1>1 DEF Shape, GeomOf, Loading, Filling
<1>3. loc[r].layer \in Block
    BY <1>2, LayerApart
<1>4. loc[r].n \in 0..Width /\ hdr[loc[r].layer].cnt \in 0..Width
      /\ loc[r].n < hdr[loc[r].layer].cnt
    BY <1>1, <1>3 DEF Typed, Locals, More
<1>5. loc[r].n + 1 \in Left(r) /\ loc[r].n + 1 \in 0..Width
    BY <1>2, <1>4, LoadAssumption DEF LoadAssumption, Left, Destroying, Slot
<1>6. Ftr(r) \in Block
    BY <1>2, <1>5, LayerApart DEF Ftr
<1> QED BY <1>1, <1>5, <1>6 DEF Typed

LEMMA MallocPointsKeeps ==
    ASSUME IInv, NEW r \in Request, MallocPoints(r)
    PROVE  IInv'
<1>1. Shape(r) /\ Typed /\ loc[r] \in Locals /\ pc[r] = "draw" /\ "drawring" \in Label
    BY DEF IInv, Typed, MallocPoints, Label
<1>2. loc[r].m < Width
    <2>1. More(r) /\ loc[r].m < hdr[Ftr(r)].cnt
        BY DEF MallocPoints
    <2> QED BY <1>1, <2>1, RingInTurn, LoadAssumption DEF LoadAssumption, Locals
<1>3. PICK b \in free \cup {Null} : /\ free' = free \ {b}
                                   /\ Goto(r, "drawring", [loc[r] EXCEPT !.data = b])
                                   /\ UNCHANGED <<hdr, arr, pos>>
    BY GrantedIsFree DEF MallocPoints
<1> DEFINE locals == [loc[r] EXCEPT !.data = b]
<1>4. b \in Pointer
    BY <1>1 DEF Typed, Pointer
<1>5. locals \in Locals
    BY <1>1, <1>4 DEF Locals
<1>6. /\ \A j \in {"data", "zip", "layer", "ftr"} :
            locals[j] = IF j = "data" THEN b ELSE loc[r][j]
      /\ locals.m = loc[r].m
    BY <1>1 DEF Locals
<1>7. Goto(r, "drawring", locals)
    BY <1>3
<1> HIDE DEF locals
<1>8. pc'[r] = "drawring" /\ loc'[r] = locals
    BY <1>1, <1>5, <1>7, Went
<1>9. loc[r].data = Null /\ loc[r].zip = Null /\ loc[r].layer # Null /\ loc[r].ftr = Null
    BY <1>1 DEF Shape, GeomOf, Loading, Filling
<1>10. Shape(r)'
    BY <1>2, <1>6, <1>8, <1>9 DEF Shape, GeomOf, Loading, Filling
<1>11. ~Destroying(r) /\ ~Destroying(r)'
    BY <1>1, <1>8 DEF Destroying
<1>12. CASE b \in free
    BY <1>1, <1>3, <1>5, <1>6, <1>7, <1>9, <1>10, <1>11, <1>12, TookLocal
<1>13. CASE b = Null
    <2>1. free' = free
        BY <1>1, <1>3, <1>13, NullIsNoBlock DEF Typed
    <2>2. pos' \in 1..NLayer + 1
        BY <1>1, <1>3 DEF Typed
    <2> QED BY <1>1, <1>3, <1>5, <1>6, <1>7, <1>9, <1>10, <1>11, <1>13, <2>1, <2>2, Passed
<1> QED BY <1>12, <1>13

LEMMA DrawRingKeeps ==
    ASSUME IInv, NEW r \in Request, DrawRing(r)
    PROVE  IInv'
<1> DEFINE locals == [loc[r] EXCEPT !.data = Null, !.m = loc[r].m + 1]
<1>1. Shape(r) /\ loc[r] \in Locals /\ pc[r] = "drawring" /\ loc[r].data # Null
    BY DEF IInv, Typed, DrawRing
<1>2. loc[r].m + 1 \in 0..Width /\ loc[r].zip = Null /\ loc[r].ftr = Null
    BY <1>1, LoadAssumption
        DEF LoadAssumption, Shape, GeomOf, Loading, Filling, Locals
<1>3. /\ locals \in Locals /\ locals.layer = loc[r].layer
      /\ locals.data = Null /\ locals.zip = Null /\ locals.ftr = Null
    BY <1>1, <1>2 DEF Locals, Pointer
<1>4. {loc[r].data} = {loc[r].data} \ {Null}
    BY <1>1
<1>5. Freed({loc[r].data}) /\ Goto(r, "draw", locals) /\ pos' = pos
    BY DEF DrawRing
<1> HIDE DEF locals
<1> QED BY <1>1, <1>3, <1>4, <1>5, LayerKept

\* To free nothing is to change nothing.
LEMMA NothingFreed ==
    ASSUME Typed, UNCHANGED <<free, hdr, arr>>
    PROVE  Freed({})
BY DEF Freed, Typed

LEMMA DrawNextKeeps ==
    ASSUME IInv, NEW r \in Request, DrawNext(r)
    PROVE  IInv'
<1> DEFINE locals == [loc[r] EXCEPT !.n = loc[r].n + 1, !.m = 0]
<1>1. Shape(r) /\ Typed /\ loc[r] \in Locals /\ pc[r] = "draw" /\ More(r)
    BY DEF IInv, Typed, DrawNext
<1>2. /\ loc[r].n + 1 \in 0..Width /\ 0 \in 0..Width
      /\ loc[r].data = Null /\ loc[r].zip = Null /\ loc[r].ftr = Null
    BY <1>1, RingInTurn, LoadAssumption
        DEF LoadAssumption, Shape, GeomOf, Loading, Filling
<1>3. /\ locals \in Locals /\ locals.layer = loc[r].layer
      /\ locals.data = Null /\ locals.zip = Null /\ locals.ftr = Null
    BY <1>1, <1>2 DEF Locals
<1>4. {} = {loc[r].data} \ {Null}
    BY <1>2
<1>5. Freed({}) /\ Goto(r, "draw", locals) /\ pos' = pos
    BY <1>1, NothingFreed DEF DrawNext
<1> HIDE DEF locals
<1> QED BY <1>1, <1>3, <1>4, <1>5, LayerKept

LEMMA DrawnKeeps ==
    ASSUME IInv, NEW r \in Request, Drawn(r)
    PROVE  IInv'
<1> DEFINE locals == [loc[r] EXCEPT !.n = 0, !.m = 0]
<1>1. Shape(r) /\ Typed /\ loc[r] \in Locals /\ pc[r] = "draw"
    BY DEF IInv, Typed, Drawn
<1>2. /\ 0 \in 0..Width
      /\ loc[r].data = Null /\ loc[r].zip = Null /\ loc[r].ftr = Null
    BY <1>1, LoadAssumption DEF LoadAssumption, Shape, GeomOf, Loading, Filling
<1>3. /\ locals \in Locals /\ locals.layer = loc[r].layer
      /\ locals.data = Null /\ locals.zip = Null /\ locals.ftr = Null
      /\ locals.n = 0 /\ locals.m = 0
    BY <1>1, <1>2 DEF Locals
<1>4. {} = {loc[r].data} \ {Null}
    BY <1>2
<1>5. Freed({}) /\ Goto(r, "freeparts", locals) /\ pos' = pos
    BY <1>1, NothingFreed DEF Drawn
<1> HIDE DEF locals
<1> QED BY <1>1, <1>3, <1>4, <1>5, LayerKept

----------------------------------------------------------------------------
(* The steps that free a layer *)

LEMMA DropDataKeeps ==
    ASSUME IInv, NEW r \in Request, DropData(r)
    PROVE  IInv'
<1>1. pc[r] = "drop" /\ Shape(r)
    BY DEF DropData, IInv
<1>2. loc[r].layer = Null /\ loc[r].zip = Null /\ loc[r].data # Null
    BY <1>1 DEF Shape, GeomOf, Loading, Filling
<1>3. {loc[r].data} = {loc[r].data, loc[r].zip} \ {Null}
    BY <1>2
<1> QED BY <1>2, <1>3, GaveUpBuffers DEF DropData

LEMMA UnknownGeometryKeeps ==
    ASSUME IInv, NEW r \in Request, UnknownGeometry(r)
    PROVE  IInv'
<1> DEFINE l == loc[r].layer
           locals == [loc[r] EXCEPT !.layer = Null]
<1>1. Shape(r) /\ Typed /\ loc[r] \in Locals /\ pc[r] = "feature" /\ "drop" \in Label
    BY DEF IInv, Typed, UnknownGeometry, Label
<1>2. /\ l # Null /\ loc[r].ftr = Null /\ loc[r].zip = Null /\ loc[r].data # Null
      /\ hdr[l].cnt = 0
    <2>1. GeomOf(r) = "other"
        BY DEF UnknownGeometry
    <2> QED BY <1>1, <2>1 DEF Shape, Loading, Filling
<1>3. l \in Block /\ Owns(r, "local", r, "layer", l)
    BY <1>2, LayerApart DEF Owns, OwnsLocal
<1>4. Left(r) = {}
    BY <1>2, LoadAssumption DEF Left, LoadAssumption, Slot
<1>5. /\ locals \in Locals /\ locals.layer = Null
      /\ locals.data = loc[r].data /\ locals.zip = Null /\ locals.ftr = Null
    BY <1>1, <1>2 DEF Locals, Pointer
<1>6. Freed({l}) /\ Goto(r, "drop", locals) /\ pos' = pos
    BY DEF UnknownGeometry
<1> HIDE DEF locals
<1>7. /\ pc' \in [Request -> Label] /\ loc' \in [Request -> Locals]
      /\ pc'[r] = "drop" /\ loc'[r] = locals
      /\ \A s \in Request \ {r} : loc'[s] = loc[s] /\ pc'[s] = pc[s]
    BY <1>1, <1>5, <1>6, Went
<1>8. /\ free' = free \cup {l} /\ free' \subseteq Block
      /\ hdr' \in [Block -> [cnt : 0..Width, name : Pointer]]
      /\ arr' \in [Block -> [Slot -> Block \cup {Stale}]]
      /\ \A b \in {l} : hdr'[b] = NoHeader
      /\ \A b \in Block \ {l} : hdr'[b] = hdr[b] /\ arr'[b] = arr[b]
    BY <1>1, <1>3, <1>6, FreedBlocks
<1>9. Typed'
    BY <1>1, <1>6, <1>7, <1>8 DEF Typed
<1>10. Shape(r)'
    BY <1>2, <1>5, <1>7 DEF Shape, GeomOf, Loading, Filling
<1>11. Frame(r)
    BY <1>3, <1>7, <1>8 DEF Frame, Holds
<1>12. Left(r)' = {}
    BY <1>5, <1>7 DEF Left
<1>13. ASSUME NEW t, NEW x, NEW y, NEW b
       PROVE  Owns(r, t, x, y, b)' <=>
                  Owns(r, t, x, y, b) /\ ~(t = "local" /\ x = r /\ y = "layer" /\ b = l)
    BY <1>2, <1>4, <1>5, <1>7, <1>12, NullIsNoBlock
       DEF Owns, OwnsLocal, OwnsFeature, OwnsPart, OwnsName
<1>14. Change(r, {l}, {})
    <2> HIDE DEF l
    <2> QED BY <1>3, <1>8, <1>13, ReleasedOne
<1> QED BY <1>9, <1>10, <1>11, <1>14, StepKeeps

LEMMA FreeLayerKeeps ==
    ASSUME IInv, NEW r \in Request, FreeLayer(r)
    PROVE  IInv'
<1> DEFINE l == loc[r].layer
<1>1. Shape(r) /\ Typed /\ loc[r] \in Locals /\ pc[r] = "freeparts" /\ ~More(r)
    BY DEF IInv, Typed, FreeLayer
<1>2. l # Null /\ loc[r].ftr = Null /\ loc[r].zip = Null /\ loc[r].data = Null
    BY <1>1 DEF Shape, GeomOf, Loading, Filling
<1>3. l \in Block
    BY <1>2, LayerApart
<1>4. Left(r) = {}
    <2>1. loc[r].n \in 0..Width /\ hdr[l].cnt \in 0..Width
        BY <1>1, <1>3 DEF Typed, Locals
    <2> QED BY <1>1, <2>1, LoadAssumption DEF More, Left, Destroying, LoadAssumption, Slot
<1>5. \A t, x, y, b : Owns(r, t, x, y, b) <=> t = "local" /\ x = r /\ y = "layer" /\ b = l
    BY <1>2, <1>4, NullIsNoBlock DEF Owns, OwnsLocal, OwnsFeature, OwnsPart, OwnsName
<1>6. \A b : b \in {l} <=> Holds(r, b)
    BY <1>5 DEF Holds
<1> QED BY <1>3, <1>6, GaveUp DEF FreeLayer

\* The feature whose turn it is to be destroyed.
LEMMA InTurn ==
    ASSUME IInv, NEW r \in Request, Destroying(r), More(r)
    PROVE  /\ loc[r].layer # Null /\ loc[r].ftr = Null /\ loc[r].data = Null /\ loc[r].zip = Null
           /\ loc[r].n \in 0..Width /\ loc[r].m \in 0..Width
           /\ loc[r].n + 1 \in Left(r) /\ Ftr(r) = arr[loc[r].layer][loc[r].n + 1]
           /\ Left(r) = {i \in Slot : i <= hdr[loc[r].layer].cnt /\ loc[r].n < i}
           /\ \A i : Current(r, i) <=> i = loc[r].n + 1
           /\ Owns(r, "feature", loc[r].layer, loc[r].n + 1, Ftr(r))
           /\ Ftr(r) \in Block /\ Ftr(r) # loc[r].layer
           /\ \A i \in Left(r) : arr[loc[r].layer][i] = Ftr(r) => i = loc[r].n + 1
<1> DEFINE l == loc[r].layer
           k == loc[r].n + 1
<1>1. Shape(r) /\ Typed /\ loc[r] \in Locals /\ pc[r] \in {"freeparts", "freeftr"}
    BY DEF IInv, Typed, Destroying
<1>2. /\ l # Null /\ loc[r].ftr = Null /\ loc[r].zip = Null /\ loc[r].data = Null
      /\ loc[r].n \in 0..Width /\ loc[r].m \in 0..Width
    BY <1>1 DEF Shape, GeomOf, Loading, Filling, Locals
<1>3. l \in Block
    BY <1>2, LayerApart
<1>4. Left(r) = {i \in Slot : i <= hdr[l].cnt /\ loc[r].n < i}
    BY <1>2 DEF Left
<1>5. k \in Left(r)
    <2>1. hdr[l].cnt \in 0..Width /\ loc[r].n < hdr[l].cnt
        BY <1>1, <1>3 DEF Typed, More
    <2> QED BY <1>2, <1>4, <2>1, LoadAssumption DEF LoadAssumption, Slot
<1>6. Ftr(r) = arr[l][k]
    BY DEF Ftr
<1>7. Owns(r, "feature", l, k, Ftr(r))
    BY <1>5, <1>6 DEF Owns, OwnsFeature
<1>8. \A i : Current(r, i) <=> i = k
    BY DEF Current
<1>9. /\ Ftr(r) \in Block /\ Ftr(r) # l
      /\ \A i \in Left(r) : arr[l][i] = Ftr(r) => i = k
    BY <1>2, <1>5, <1>6, LayerApart
<1> QED BY <1>2, <1>4, <1>5, <1>6, <1>7, <1>8, <1>9

\* The entry after the first m of an array that has more.
LEMMA NextInSlot ==
    ASSUME NEW m \in 0..Width, NEW n \in 0..Width, m < n
    PROVE  m + 1 \in Slot /\ m + 1 \in 0..Width /\ m + 1 <= n
BY LoadAssumption DEF LoadAssumption, Slot

LEMMA FreePartKeeps ==
    ASSUME IInv, NEW r \in Request, FreePart(r)
    PROVE  IInv'
<1> DEFINE l == loc[r].layer
           k == loc[r].n + 1
           f == Ftr(r)
           m == loc[r].m
           c == arr[f][m + 1]
           locals == [loc[r] EXCEPT !.m = m + 1]
<1>1. /\ Shape(r) /\ Typed /\ loc[r] \in Locals /\ pc[r] = "freeparts"
      /\ More(r) /\ m < hdr[f].cnt /\ Destroying(r)
    BY DEF IInv, Typed, FreePart, Destroying
<1>2. /\ l # Null /\ loc[r].ftr = Null /\ loc[r].data = Null /\ loc[r].zip = Null
      /\ loc[r].n \in 0..Width /\ m \in 0..Width
      /\ k \in Left(r) /\ f = arr[l][k]
      /\ Left(r) = {i \in Slot : i <= hdr[l].cnt /\ loc[r].n < i}
      /\ \A i : Current(r, i) <=> i = k
      /\ Owns(r, "feature", l, k, f)
      /\ f \in Block /\ f # l
      /\ \A i \in Left(r) : arr[l][i] = f => i = k
    BY <1>1, InTurn
<1>3. m + 1 \in Slot /\ m + 1 \in 0..Width /\ m + 1 <= hdr[f].cnt
    <2>1. hdr[f].cnt \in 0..Width /\ m \in 0..Width /\ m < hdr[f].cnt
        BY <1>1, <1>2 DEF Typed
    <2> HIDE DEF f, m
    <2> QED BY <2>1, NextInSlot
<1>4. Owns(r, "part", f, m + 1, c)
    <2>1. f = arr[loc[r].layer][k] /\ k \in Left(r) /\ f \in Block
        BY <1>2
    <2> HIDE DEF f, k
    <2>2. \E i \in Left(r) : f = arr[loc[r].layer][i] /\ (Current(r, i) => loc[r].m < m + 1)
        BY <1>2, <2>1
    <2>3. OwnsPart(r, "part", f, m + 1, c)
        BY <1>3, <2>1, <2>2 DEF OwnsPart
    <2> QED BY <2>3 DEF Owns
<1>5. Holds(r, c) /\ c \in Block /\ l # c /\ \A i \in Left(r) : arr[l][i] # c
    <2>1. Owns(r, "local", r, "layer", l)
        BY <1>2 DEF Owns, OwnsLocal
    <2>2. \A i \in Left(r) : Owns(r, "feature", l, i, arr[l][i])
        BY DEF Owns, OwnsFeature
    <2>3. Holds(r, c)
        BY <1>4 DEF Holds
    <2> HIDE DEF c, l, f, m
    <2> QED BY <1>4, <2>1, <2>2, <2>3 DEF IInv, OneOwner, Exact
<1>6. /\ locals \in Locals /\ "freeparts" \in Label
      /\ locals.data = Null /\ locals.zip = Null /\ locals.layer = l /\ locals.ftr = Null
      /\ locals.n = loc[r].n /\ locals.m = m + 1
    BY <1>1, <1>2, <1>3 DEF Locals, Label
<1> HIDE DEF locals
<1>7. Freed({c}) /\ Goto(r, "freeparts", locals) /\ pos' = pos
    <2>1. [loc[r] EXCEPT !.m = @ + 1] = [loc[r] EXCEPT !.m = m + 1]
        OBVIOUS
    <2> QED BY <2>1 DEF FreePart, locals
<1> HIDE DEF c
<1>8. /\ pc' \in [Request -> Label] /\ loc' \in [Request -> Locals]
      /\ pc'[r] = "freeparts" /\ loc'[r] = locals
      /\ \A s \in Request \ {r} : loc'[s] = loc[s] /\ pc'[s] = pc[s]
    BY <1>1, <1>6, <1>7, Went
<1>9. /\ free' = free \cup {c} /\ free' \subseteq Block
      /\ hdr' \in [Block -> [cnt : 0..Width, name : Pointer]]
      /\ arr' \in [Block -> [Slot -> Block \cup {Stale}]]
      /\ \A b \in {c} : hdr'[b] = NoHeader
      /\ \A b \in Block \ {c} : hdr'[b] = hdr[b] /\ arr'[b] = arr[b]
    BY <1>1, <1>5, <1>7, FreedBlocks
<1>10. /\ hdr'[l] = hdr[l] /\ arr'[l] = arr[l]
       /\ \A i \in Left(r) : hdr'[arr[l][i]] = hdr[arr[l][i]] /\ arr'[arr[l][i]] = arr[arr[l][i]]
    BY <1>2, <1>5, <1>7, FreedApart
<1>11. Typed'
    BY <1>1, <1>7, <1>8, <1>9 DEF Typed
<1>12. /\ Left(r)' = Left(r) /\ loc'[r].layer = l /\ loc'[r].ftr = Null
       /\ Ftr(r)' = f /\ hdr'[f] = hdr[f]
       /\ \A i : Current(r, i)' <=> i = k
    <2>1. Destroying(r)' /\ loc'[r].n = loc[r].n /\ loc'[r].layer = l /\ loc'[r].ftr = Null
        BY <1>6, <1>8 DEF Destroying
    <2>2. Left(r)' = Left(r)
        BY <1>1, <1>10, <2>1 DEF Left
    <2>3. Ftr(r)' = f
        BY <1>10, <2>1 DEF Ftr
    <2>4. hdr'[f] = hdr[f]
        BY <1>2, <1>10
    <2>5. \A i : Current(r, i)' <=> i = k
        BY <2>1 DEF Current
    <2> QED BY <2>1, <2>2, <2>3, <2>4, <2>5
<1>13. Shape(r)'
    BY <1>1, <1>2, <1>3, <1>6, <1>8, <1>10, <1>12 DEF Shape, GeomOf, Loading, Filling
<1>14. Frame(r)
    BY <1>5, <1>8, <1>9 DEF Frame
<1>15. ASSUME NEW t, NEW x, NEW y, NEW b
       PROVE  Owns(r, t, x, y, b)' <=>
                  Owns(r, t, x, y, b) /\ ~(t = "part" /\ x = f /\ y = m + 1 /\ b = c)
    <2> HIDE DEF l, f, k, m
    <2>1. OwnsLocal(r, t, x, y, b)' <=> OwnsLocal(r, t, x, y, b)
        BY <1>2, <1>6, <1>8 DEF OwnsLocal, l
    <2>2. OwnsFeature(r, t, x, y, b)' <=> OwnsFeature(r, t, x, y, b)
        BY <1>10, <1>12 DEF OwnsFeature, l
    <2>3. OwnsName(r, t, x, y, b)' <=> OwnsName(r, t, x, y, b)
        <3> DEFINE at == \E i \in Left(r) : x = arr[l][i]
        <3>1. at => hdr'[x] = hdr[x]
            BY <1>10
        <3>2. /\ ~(x = loc[r].ftr /\ x \in Block)
              /\ ~((x = loc[r].ftr)' /\ x \in Block)
            BY <1>2, <1>8, <1>12, NullIsNoBlock
        <3>3. at <=> \E i \in Left(r) : /\ x = arr[loc[r].layer][i]
                                        /\ ~(Current(r, i) /\ pc[r] = "freeftr")
            BY <1>1 DEF l
        <3>4. at <=> \E i \in Left(r)' : /\ x = arr'[loc'[r].layer][i]
                                         /\ ~(Current(r, i)' /\ pc'[r] = "freeftr")
            BY <1>8, <1>10, <1>12 DEF l
        <3> HIDE DEF at
        <3>5. OwnsName(r, t, x, y, b) <=> /\ t = "name" /\ y = 0 /\ b # Null /\ at
                                          /\ x \in Block /\ b = hdr[x].name
            BY <3>2, <3>3 DEF OwnsName
        <3>6. OwnsName(r, t, x, y, b)' <=> /\ t = "name" /\ y = 0 /\ b # Null /\ at
                                           /\ x \in Block /\ b = hdr'[x].name
            BY <3>2, <3>4 DEF OwnsName
        <3> QED BY <3>1, <3>5, <3>6
    <2>4. OwnsPart(r, t, x, y, b)' <=>
              OwnsPart(r, t, x, y, b) /\ ~(t = "part" /\ x = f /\ y = m + 1 /\ b = c)
        <3>1. OwnsPart(r, t, x, y, b) <=>
                  /\ t = "part" /\ y \in Slot
                  /\ \E i \in Left(r) : x = arr[l][i] /\ (i = k => m < y)
                  /\ x \in Block /\ y <= hdr[x].cnt /\ b = arr[x][y]
            BY <1>2, NullIsNoBlock DEF OwnsPart, l, m
        <3>2. OwnsPart(r, t, x, y, b)' <=>
                  /\ t = "part" /\ y \in Slot
                  /\ \E i \in Left(r) : x = arr[l][i] /\ (i = k => m + 1 < y)
                  /\ x \in Block /\ y <= hdr[x].cnt /\ b = arr[x][y]
            BY <1>6, <1>8, <1>10, <1>12, NullIsNoBlock DEF OwnsPart
        <3>3. y \in Slot => (m < y <=> m + 1 < y \/ y = m + 1) /\ ~(m + 1 < m + 1)
            BY <1>2, LoadAssumption DEF LoadAssumption, Slot
        <3>4. CASE x = f
            <4>1. \A i \in Left(r) : x = arr[l][i] <=> i = k
                BY <1>2, <3>4
            <4> QED BY <1>2, <3>1, <3>2, <3>3, <3>4, <4>1 DEF c
        <3>5. CASE x # f
            <4>1. \A i \in Left(r) : x = arr[l][i] => i # k
                BY <1>2, <3>5
            <4> QED BY <3>1, <3>2, <3>5, <4>1
        <3> QED BY <3>4, <3>5
    <2>5. OwnsLocal(r, t, x, y, b) \/ OwnsFeature(r, t, x, y, b) \/ OwnsName(r, t, x, y, b)
              => t # "part"
        BY DEF OwnsLocal, OwnsFeature, OwnsName
    <2> QED BY <2>1, <2>2, <2>3, <2>4, <2>5 DEF Owns
<1>16. Change(r, {c}, {})
    <2> HIDE DEF f, m
    <2> QED BY <1>4, <1>9, <1>15, ReleasedOne
<1> QED BY <1>11, <1>13, <1>14, <1>16, StepKeeps

\* A thread that has freed the parts and the name of a feature.
LEMMA FreeingShape ==
    ASSUME NEW r \in Request, pc'[r] = "freeftr",
           loc'[r].data = Null, loc'[r].zip = Null, loc'[r].ftr = Null, loc'[r].layer # Null,
           More(r)', loc'[r].m = hdr'[Ftr(r)'].cnt
    PROVE  Shape(r)'
BY DEF Shape, Loading, Filling

LEMMA FreeNameKeeps ==
    ASSUME IInv, NEW r \in Request, FreeName(r)
    PROVE  IInv'
<1> DEFINE l == loc[r].layer
           k == loc[r].n + 1
           f == Ftr(r)
           c == hdr[f].name
           S == {c} \ {Null}
<1>1. /\ Shape(r) /\ Typed /\ loc[r] \in Locals /\ pc[r] = "freeparts"
      /\ More(r) /\ loc[r].m = hdr[f].cnt /\ Destroying(r) /\ "freeftr" \in Label
    BY DEF IInv, Typed, FreeName, Destroying, Label
<1>2. /\ l # Null /\ loc[r].ftr = Null /\ loc[r].data = Null /\ loc[r].zip = Null
      /\ loc[r].n \in 0..Width /\ loc[r].m \in 0..Width
      /\ k \in Left(r) /\ f = arr[l][k]
      /\ Left(r) = {i \in Slot : i <= hdr[l].cnt /\ loc[r].n < i}
      /\ \A i : Current(r, i) <=> i = k
      /\ Owns(r, "feature", l, k, f)
      /\ f \in Block /\ f # l
      /\ \A i \in Left(r) : arr[l][i] = f => i = k
    BY <1>1, InTurn
<1>3. c # Null => Owns(r, "name", f, 0, c)
    <2>1. c # Null => OwnsName(r, "name", f, 0, c)
        BY <1>1, <1>2 DEF OwnsName
    <2> QED BY <2>1 DEF Owns
<1>4. S \in SUBSET Block /\ (\A b \in S : Holds(r, b)) /\ l \notin S
      /\ \A i \in Left(r) : arr[l][i] \notin S
    <2>1. Owns(r, "local", r, "layer", l)
        BY <1>2 DEF Owns, OwnsLocal
    <2>2. \A i \in Left(r) : Owns(r, "feature", l, i, arr[l][i])
        BY DEF Owns, OwnsFeature
    <2>3. c # Null => Holds(r, c)
        BY <1>3 DEF Holds
    <2> HIDE DEF c, l, f
    <2>4. c # Null => c \in Block /\ l # c /\ \A i \in Left(r) : arr[l][i] # c
        BY <1>3, <2>1, <2>2, <2>3 DEF IInv, OneOwner, Exact
    <2> QED BY <2>3, <2>4
<1>5. Freed(S) /\ Goto(r, "freeftr", loc[r]) /\ pos' = pos
    BY DEF FreeName
<1> HIDE DEF S, c
<1>6. /\ pc' \in [Request -> Label] /\ loc' \in [Request -> Locals]
      /\ pc'[r] = "freeftr" /\ loc'[r] = loc[r]
      /\ \A s \in Request \ {r} : loc'[s] = loc[s] /\ pc'[s] = pc[s]
    BY <1>1, <1>5, Went
<1>7. /\ free' = free \cup S /\ free' \subseteq Block
      /\ hdr' \in [Block -> [cnt : 0..Width, name : Pointer]]
      /\ arr' \in [Block -> [Slot -> Block \cup {Stale}]]
      /\ \A b \in S : hdr'[b] = NoHeader
      /\ \A b \in Block \ S : hdr'[b] = hdr[b] /\ arr'[b] = arr[b]
    BY <1>1, <1>4, <1>5, FreedBlocks
<1>8. /\ hdr'[l] = hdr[l] /\ arr'[l] = arr[l]
      /\ \A i \in Left(r) : hdr'[arr[l][i]] = hdr[arr[l][i]] /\ arr'[arr[l][i]] = arr[arr[l][i]]
    BY <1>2, <1>4, <1>5, FreedApart
<1>9. Typed'
    BY <1>1, <1>5, <1>6, <1>7 DEF Typed
<1>10. /\ Left(r)' = Left(r) /\ Ftr(r)' = f /\ hdr'[f] = hdr[f] /\ More(r)'
       /\ \A i : Current(r, i)' <=> i = k
    <2>1. Destroying(r)' /\ loc'[r] = loc[r]
        BY <1>6 DEF Destroying
    <2>2. Left(r)' = Left(r)
        BY <1>1, <1>8, <2>1 DEF Left
    <2>3. Ftr(r)' = f
        BY <1>8, <2>1 DEF Ftr
    <2>4. hdr'[f] = hdr[f]
        BY <1>2, <1>8
    <2>5. More(r)'
        BY <1>1, <1>8, <2>1 DEF More
    <2>6. \A i : Current(r, i)' <=> i = k
        BY <2>1 DEF Current
    <2> QED BY <2>2, <2>3, <2>4, <2>5, <2>6
<1>11. Shape(r)'
    <2>1. /\ loc'[r].data = Null /\ loc'[r].zip = Null /\ loc'[r].ftr = Null
          /\ loc'[r].layer # Null
        BY <1>2, <1>6
    <2>2. More(r)' /\ loc'[r].m = hdr'[Ftr(r)'].cnt
        BY <1>1, <1>6, <1>10
    <2> QED BY <1>6, <2>1, <2>2, FreeingShape
<1>12. Frame(r)
    BY <1>4, <1>6, <1>7 DEF Frame
<1>13. ASSUME NEW t, NEW x, NEW y, NEW b
       PROVE  Owns(r, t, x, y, b)' <=>
                  Owns(r, t, x, y, b) /\ ~(t = "name" /\ x = f /\ y = 0 /\ b = c)
    <2> HIDE DEF l, f, k
    <2>1. OwnsLocal(r, t, x, y, b)' <=> OwnsLocal(r, t, x, y, b)
        BY <1>6 DEF OwnsLocal
    <2>2. OwnsFeature(r, t, x, y, b)' <=> OwnsFeature(r, t, x, y, b)
        BY <1>6, <1>8, <1>10 DEF OwnsFeature, l
    <2>3. OwnsPart(r, t, x, y, b)' <=> OwnsPart(r, t, x, y, b)
        <3> DEFINE at == \E i \in Left(r) : x = arr[l][i] /\ (i = k => loc[r].m < y)
        <3>1. at => hdr'[x] = hdr[x] /\ arr'[x] = arr[x]
            BY <1>8
        <3>2. /\ ~(x = loc[r].ftr /\ x \in Block)
              /\ ~((x = loc[r].ftr)' /\ x \in Block)
            BY <1>2, <1>6, NullIsNoBlock
        <3>3. at <=> \E i \in Left(r) : x = arr[loc[r].layer][i] /\ (Current(r, i) => loc[r].m < y)
            BY <1>2 DEF l
        <3>4. at <=> \E i \in Left(r)' : /\ x = arr'[loc'[r].layer][i]
                                         /\ Current(r, i)' => loc'[r].m < y
            <4>1. loc'[r].layer = l /\ loc'[r].m = loc[r].m
                BY <1>6 DEF l
            <4>2. Left(r)' = Left(r) /\ arr'[l] = arr[l] /\ \A i : Current(r, i)' <=> i = k
                BY <1>8, <1>10
            <4>3. \A i : (Current(r, i)' => loc'[r].m < y) <=> (i = k => loc[r].m < y)
                BY <4>1, <4>2
            <4> QED BY <4>1, <4>2, <4>3
        <3> HIDE DEF at
        <3>5. OwnsPart(r, t, x, y, b) <=> /\ t = "part" /\ y \in Slot /\ at
                                          /\ x \in Block /\ y <= hdr[x].cnt /\ b = arr[x][y]
            BY <3>2, <3>3 DEF OwnsPart
        <3>6. OwnsPart(r, t, x, y, b)' <=> /\ t = "part" /\ y \in Slot /\ at
                                           /\ x \in Block /\ y <= hdr'[x].cnt /\ b = arr'[x][y]
            BY <3>2, <3>4 DEF OwnsPart
        <3> QED BY <3>1, <3>5, <3>6
    <2>4. OwnsName(r, t, x, y, b)' <=>
              OwnsName(r, t, x, y, b) /\ ~(t = "name" /\ x = f /\ y = 0 /\ b = c)
        <3>1. OwnsName(r, t, x, y, b) <=>
                  /\ t = "name" /\ y = 0 /\ b # Null
                  /\ \E i \in Left(r) : x = arr[l][i]
                  /\ x \in Block /\ b = hdr[x].name
            BY <1>1, <1>2, NullIsNoBlock DEF OwnsName, l
        <3>2. OwnsName(r, t, x, y, b)' <=>
                  /\ t = "name" /\ y = 0 /\ b # Null
                  /\ \E i \in Left(r) : x = arr[l][i] /\ i # k
                  /\ x \in Block /\ b = hdr[x].name
            <4> DEFINE at == \E i \in Left(r) : x = arr[l][i] /\ i # k
            <4>1. at => hdr'[x] = hdr[x]
                BY <1>8
            <4>2. (x = loc[r].ftr)' /\ x \in Block <=> FALSE
                BY <1>2, <1>6, NullIsNoBlock
            <4>3. at <=> \E i \in Left(r)' : /\ x = arr'[loc'[r].layer][i]
                                             /\ ~(Current(r, i)' /\ pc'[r] = "freeftr")
                BY <1>6, <1>8, <1>10 DEF l
            <4> HIDE DEF at
            <4>4. OwnsName(r, t, x, y, b)' <=> /\ t = "name" /\ y = 0 /\ b # Null /\ at
                                               /\ x \in Block /\ b = hdr'[x].name
                BY <4>2, <4>3 DEF OwnsName
            <4> QED BY <4>1, <4>4 DEF at
        <3>3. CASE x = f
            <4>1. \A i \in Left(r) : x = arr[l][i] <=> i = k
                BY <1>2, <3>3
            <4> QED BY <3>1, <3>2, <3>3, <4>1 DEF c
        <3>4. CASE x # f
            <4>1. \A i \in Left(r) : x = arr[l][i] => i # k
                BY <1>2, <3>4
            <4> QED BY <3>1, <3>2, <3>4, <4>1
        <3> QED BY <3>3, <3>4
    <2>5. OwnsLocal(r, t, x, y, b) \/ OwnsFeature(r, t, x, y, b) \/ OwnsPart(r, t, x, y, b)
              => t # "name"
        BY DEF OwnsLocal, OwnsFeature, OwnsPart
    <2> QED BY <2>1, <2>2, <2>3, <2>4, <2>5 DEF Owns
<1>14. CASE c = Null
    <2>1. free' = free
        BY <1>7, <1>14 DEF S
    <2>2. \A t, x, y, b : Owns(r, t, x, y, b) => b # Null
        BY NullIsNoBlock DEF IInv, Exact, Holds
    <2>3. \A t, x, y, b : Owns(r, t, x, y, b)' <=> Owns(r, t, x, y, b)
        BY <1>13, <1>14, <2>2
    <2>4. Change(r, {}, {})
        BY <2>1, <2>3, NoChange
    <2> QED BY <1>9, <1>11, <1>12, <2>4, StepKeeps
<1>15. CASE c # Null
    <2> HIDE DEF f
    <2>1. free' = free \cup {c}
        BY <1>7, <1>15 DEF S
    <2>2. Change(r, {c}, {})
        BY <1>3, <1>13, <1>15, <2>1, ReleasedOne
    <2> QED BY <1>9, <1>11, <1>12, <2>2, StepKeeps
<1> QED BY <1>14, <1>15

LEMMA FreeFeatureKeeps ==
    ASSUME IInv, NEW r \in Request, FreeFeature(r)
    PROVE  IInv'
<1> DEFINE l == loc[r].layer
           k == loc[r].n + 1
           f == Ftr(r)
           locals == [loc[r] EXCEPT !.n = k, !.m = 0]
<1>1. /\ Shape(r) /\ Typed /\ loc[r] \in Locals /\ pc[r] = "freeftr"
      /\ More(r) /\ loc[r].m = hdr[f].cnt /\ Destroying(r)
    BY DEF IInv, Typed, FreeFeature, Destroying, Shape
<1>2. /\ l # Null /\ loc[r].ftr = Null /\ loc[r].data = Null /\ loc[r].zip = Null
      /\ loc[r].n \in 0..Width /\ loc[r].m \in 0..Width
      /\ k \in Left(r) /\ f = arr[l][k]
      /\ Left(r) = {i \in Slot : i <= hdr[l].cnt /\ loc[r].n < i}
      /\ \A i : Current(r, i) <=> i = k
      /\ Owns(r, "feature", l, k, f)
      /\ f \in Block /\ f # l
      /\ \A i \in Left(r) : arr[l][i] = f => i = k
    BY <1>1, InTurn
<1>3. /\ l \in Block
      /\ \A i \in Left(r) : i \in Slot /\ arr[l][i] \in Block
    BY <1>2, LayerApart
<1>4. hdr[l].cnt \in 0..Width /\ k <= hdr[l].cnt /\ k \in 0..Width /\ 0 \in 0..Width
    <2>1. hdr[l].cnt \in 0..Width
        BY <1>1, <1>3 DEF Typed
    <2> QED BY <1>2, <2>1, LoadAssumption DEF LoadAssumption, Slot
<1>5. /\ locals \in Locals /\ "freeparts" \in Label
      /\ locals.data = Null /\ locals.zip = Null /\ locals.layer = l /\ locals.ftr = Null
      /\ locals.n = k /\ locals.m = 0
    BY <1>1, <1>2, <1>4 DEF Locals, Label
<1> HIDE DEF locals
<1>6. Freed({f}) /\ Goto(r, "freeparts", locals) /\ pos' = pos
    <2>1. [loc[r] EXCEPT !.n = @ + 1, !.m = 0] = [loc[r] EXCEPT !.n = k, !.m = 0]
        OBVIOUS
    <2> QED BY <2>1 DEF FreeFeature, locals
<1>7. /\ pc' \in [Request -> Label] /\ loc' \in [Request -> Locals]
      /\ pc'[r] = "freeparts" /\ loc'[r] = locals
      /\ \A s \in Request \ {r} : loc'[s] = loc[s] /\ pc'[s] = pc[s]
    BY <1>1, <1>5, <1>6, Went
<1>8. /\ free' = free \cup {f} /\ free' \subseteq Block
      /\ hdr' \in [Block -> [cnt : 0..Width, name : Pointer]]
      /\ arr' \in [Block -> [Slot -> Block \cup {Stale}]]
      /\ \A b \in {f} : hdr'[b] = NoHeader
      /\ \A b \in Block \ {f} : hdr'[b] = hdr[b] /\ arr'[b] = arr[b]
    BY <1>1, <1>2, <1>6, FreedBlocks
<1>9. Typed'
    BY <1>1, <1>6, <1>7, <1>8 DEF Typed
<1>10. hdr'[l] = hdr[l] /\ arr'[l] = arr[l]
    BY <1>2, <1>3, <1>8
<1>11. \A i : i \in Left(r)' <=> i \in Left(r) /\ i # k
    <2>1. Left(r)' = {i \in Slot : i <= hdr[l].cnt /\ k < i}
        BY <1>2, <1>5, <1>7, <1>10 DEF Left, Destroying
    <2>2. \A i \in Slot : k < i <=> loc[r].n < i /\ i # k
        BY <1>2, LoadAssumption DEF LoadAssumption, Slot
    <2> QED BY <1>2, <2>1, <2>2
<1>12. \A i \in Left(r)' : /\ i \in Left(r) /\ arr'[l][i] = arr[l][i]
                           /\ LET g == arr[l][i]
                              IN  g \in Block /\ g # f /\ hdr'[g] = hdr[g] /\ arr'[g] = arr[g]
    BY <1>2, <1>3, <1>8, <1>10, <1>11
<1>13. Shape(r)'
    <2>1. More(r)' => 0 <= hdr'[Ftr(r)'].cnt
        <3>1. ASSUME k < hdr[l].cnt
              PROVE  k + 1 \in Left(r)'
            <4>1. k + 1 \in Slot /\ k + 1 <= hdr[l].cnt /\ loc[r].n < k + 1 /\ k + 1 # k
                BY <1>2, <1>4, <3>1, LoadAssumption DEF LoadAssumption, Slot
            <4> QED BY <1>2, <1>11, <4>1
        <3>2. Ftr(r)' = arr[l][k + 1] /\ (More(r)' <=> k < hdr[l].cnt)
            BY <1>5, <1>7, <1>10 DEF Ftr, More
        <3>3. k < hdr[l].cnt => arr[l][k + 1] \in Block
            BY <3>1, <1>12
        <3> QED BY <1>8, <3>2, <3>3
    <2> QED BY <1>2, <1>4, <1>5, <1>7, <1>10, <2>1 DEF Shape, GeomOf, Loading, Filling
<1>14. Frame(r)
    <2>1. Holds(r, f)
        BY <1>2 DEF Holds
    <2> QED BY <1>7, <1>8, <2>1 DEF Frame
<1>15. /\ \A i : Current(r, i)' => i = k + 1
       /\ \A i, y : y \in Slot => (Current(r, i)' => loc'[r].m < y)
       /\ pc'[r] # "freeftr" /\ loc'[r].layer = l /\ loc'[r].ftr = Null
    BY <1>5, <1>7, LoadAssumption DEF Current, LoadAssumption, Slot
<1>16. ASSUME NEW t, NEW x, NEW y, NEW b
       PROVE  Owns(r, t, x, y, b)' <=>
                  Owns(r, t, x, y, b) /\ ~(t = "feature" /\ x = l /\ y = k /\ b = f)
    <2> DEFINE others == \E i \in Left(r) : i # k /\ x = arr[l][i]
    <2>1. (\E i \in Left(r)' : x = arr'[l][i]) <=> others
        BY <1>11, <1>12
    <2>2. others => x \in Block /\ hdr'[x] = hdr[x] /\ arr'[x] = arr[x]
        BY <1>11, <1>12
    <2> HIDE DEF others
    <2>3. OwnsLocal(r, t, x, y, b)' <=> OwnsLocal(r, t, x, y, b)
        BY <1>2, <1>5, <1>7 DEF OwnsLocal
    <2>4. OwnsFeature(r, t, x, y, b)' <=>
              OwnsFeature(r, t, x, y, b) /\ ~(t = "feature" /\ x = l /\ y = k /\ b = f)
        BY <1>2, <1>10, <1>11, <1>15 DEF OwnsFeature
    <2>5. OwnsPart(r, t, x, y, b)' <=> OwnsPart(r, t, x, y, b)
        <3>1. OwnsPart(r, t, x, y, b)' <=>
                  /\ t = "part" /\ y \in Slot /\ others
                  /\ x \in Block /\ y <= hdr'[x].cnt /\ b = arr'[x][y]
            BY <1>15, <2>1, NullIsNoBlock DEF OwnsPart
        <3>2. OwnsPart(r, t, x, y, b) <=>
                  /\ t = "part" /\ y \in Slot
                  /\ others \/ (x = f /\ loc[r].m < y)
                  /\ x \in Block /\ y <= hdr[x].cnt /\ b = arr[x][y]
            BY <1>2, NullIsNoBlock DEF OwnsPart, others
        <3>3. y \in Slot => ~(x = f /\ loc[r].m < y /\ y <= hdr[x].cnt)
            <4>1. loc[r].m = hdr[f].cnt
                BY <1>1
            <4>2. loc[r].m \in Nat
                BY <1>2, LoadAssumption DEF LoadAssumption
            <4> HIDE DEF f
            <4> QED BY <4>1, <4>2 DEF Slot
        <3> QED BY <3>1, <3>2, <3>3, <2>2
    <2>6. OwnsName(r, t, x, y, b)' <=> OwnsName(r, t, x, y, b)
        <3>1. OwnsName(r, t, x, y, b)' <=>
                  /\ t = "name" /\ y = 0 /\ b # Null /\ others
                  /\ x \in Block /\ b = hdr'[x].name
            BY <1>15, <2>1, NullIsNoBlock DEF OwnsName
        <3>2. OwnsName(r, t, x, y, b) <=>
                  /\ t = "name" /\ y = 0 /\ b # Null /\ others
                  /\ x \in Block /\ b = hdr[x].name
            BY <1>1, <1>2, NullIsNoBlock DEF OwnsName, others
        <3> QED BY <3>1, <3>2, <2>2
    <2>7. OwnsLocal(r, t, x, y, b) \/ OwnsPart(r, t, x, y, b) \/ OwnsName(r, t, x, y, b)
              => t # "feature"
        BY DEF OwnsLocal, OwnsPart, OwnsName
    <2> QED BY <2>3, <2>4, <2>5, <2>6, <2>7 DEF Owns
<1>17. Change(r, {f}, {})
    <2> HIDE DEF f, l, k
    <2> QED BY <1>2, <1>8, <1>16, ReleasedOne
<1> QED BY <1>9, <1>13, <1>14, <1>17, StepKeeps

----------------------------------------------------------------------------
(* All steps *)

LEMMA NextKeeps == IInv /\ PartsInOrder /\ [Next]_vars => IInv'
<1> SUFFICES ASSUME IInv, PartsInOrder, [Next]_vars
             PROVE  IInv'
    OBVIOUS
<1>1. CASE UNCHANGED vars
    <2>1. free' = free /\ hdr' = hdr /\ arr' = arr /\ pos' = pos /\ pc' = pc /\ loc' = loc
        BY <1>1 DEF vars
    <2>2. Typed' /\ Clean'
        BY <2>1 DEF IInv, Typed, Clean
    <2>3. ASSUME NEW r \in Request
          PROVE  Shape(r)'
        BY <2>1 DEF IInv, Shape, GeomOf, More, Ftr
    <2>4. ASSUME NEW r \in Request, NEW t, NEW x, NEW y, NEW b
          PROVE  Owns(r, t, x, y, b)' <=> Owns(r, t, x, y, b)
        <3>1. Left(r)' = Left(r) /\ \A i : Current(r, i)' <=> Current(r, i)
            BY <2>1 DEF Left, Current, Destroying
        <3> QED BY <2>1, <3>1 DEF Owns, OwnsLocal, OwnsFeature, OwnsPart, OwnsName
    <2>5. OneOwner'
        BY <2>4 DEF IInv, OneOwner
    <2>6. Exact'
        BY <2>1, <2>4 DEF IInv, Exact, Holds
    <2> QED BY <2>2, <2>3, <2>5, <2>6 DEF IInv
<1>2. ASSUME NEW r \in Request, NEW l \in Layer, MallocData(r, l)
      PROVE  IInv'
    BY <1>2, MallocDataKeeps
<1>3. ASSUME NEW r \in Request, Step(r)
      PROVE  IInv'
    <2>1. CASE Seek(r)          BY <2>1, SeekKeeps
    <2>2. CASE Read(r)          BY <2>2, ReadKeeps
    <2>3. CASE MallocZip(r)     BY <2>3, MallocZipKeeps
    <2>4. CASE Unzip(r)         BY <2>4, UnzipKeeps
    <2>5. CASE CreateLayer(r)   BY <2>5, CreateLayerKeeps
    <2>6. CASE CreateFeature(r) BY <2>6, CreateFeatureKeeps
    <2>7. CASE LoadPart(r)      BY <2>7, LoadPartKeeps
    <2>8. CASE NextPart(r)      BY <2>8, NextPartKeeps
    <2>9. CASE NameFeature(r)   BY <2>9, NameFeatureKeeps
    <2>10. CASE CloseData(r)    BY <2>10, CloseDataKeeps
    <2>11. CASE FreePart(r)     BY <2>11, FreePartKeeps
    <2>12. CASE FreeName(r)     BY <2>12, FreeNameKeeps
    <2>13. CASE FreeFeature(r)  BY <2>13, FreeFeatureKeeps
    <2>14. CASE FreeLayer(r)    BY <2>14, FreeLayerKeeps
    <2>15. CASE UnknownGeometry(r) BY <2>15, UnknownGeometryKeeps
    <2>16. CASE DropData(r)     BY <2>16, DropDataKeeps
    <2>17. CASE MallocPoints(r) BY <2>17, MallocPointsKeeps
    <2>18. CASE DrawRing(r)     BY <2>18, DrawRingKeeps
    <2>19. CASE DrawNext(r)     BY <2>19, DrawNextKeeps
    <2>20. CASE Drawn(r)        BY <2>20, DrawnKeeps
    <2> QED BY <1>3, <2>1, <2>2, <2>3, <2>4, <2>5, <2>6, <2>7, <2>8, <2>9, <2>10, <2>11,
               <2>12, <2>13, <2>14, <2>15, <2>16, <2>17, <2>18, <2>19, <2>20 DEF Step
<1> QED BY <1>1, <1>2, <1>3 DEF Next

----------------------------------------------------------------------------
(* The pointers of the properties are those a thread owns *)

LEMMA FeatureRefsAre ==
    ASSUME NEW f, NEW m, NEW named \in BOOLEAN, NEW p
    PROVE  p \in FeatureRefs(f, m, named) <=>
               \/ \E y \in Slot : m < y /\ y <= hdr[f].cnt /\ p = <<f, y, arr[f][y]>>
               \/ named /\ hdr[f].name # Null /\ p = <<f, 0, hdr[f].name>>
BY DEF FeatureRefs

LEMMA RefsAreOwned ==
    ASSUME IInv, NEW r \in Request, NEW p
    PROVE  p \in Refs(r) <=> \E t, x, y, b : p = <<x, y, b>> /\ Owns(r, t, x, y, b)
<1> DEFINE l == loc[r].layer
           f(i) == arr[l][i]
           from(i) == IF Current(r, i) THEN loc[r].m ELSE 0
           named(i) == ~(Current(r, i) /\ pc[r] = "freeftr")
           Vars == {<<"data", loc[r].data>>, <<"zip", loc[r].zip>>, <<"layer", l>>,
                    <<"ftr", loc[r].ftr>>} \cap ({"data", "zip", "layer", "ftr"} \X Block)
           A == {<<r, v[1], v[2]>> : v \in Vars}
           B == {<<l, i, arr[l][i]>> : i \in Left(r)}
           C == UNION {FeatureRefs(f(i), from(i), named(i))
                       : i \in {j \in Left(r) : f(j) \in Block}}
           D == IF loc[r].ftr = Null THEN {} ELSE FeatureRefs(loc[r].ftr, 0, TRUE)
<1>1. Refs(r) = A \cup B \cup C \cup D
    BY DEF Refs, Left, Current
<1>2. p \in A <=> \E y, b : p = <<r, y, b>> /\ OwnsLocal(r, "local", r, y, b)
    <2>1. /\ loc[r].data \in Pointer /\ loc[r].zip \in Pointer
          /\ loc[r].layer \in Pointer /\ loc[r].ftr \in Pointer
        BY DEF IInv, Typed, Locals
    <2>2. \A y, b : OwnsLocal(r, "local", r, y, b) <=> <<y, b>> \in Vars
        BY <2>1, NullIsNoBlock DEF OwnsLocal, Pointer
    <2>3. \A v \in Vars : v = <<v[1], v[2]>>
        OBVIOUS
    <2> HIDE DEF Vars
    <2>4. p \in A <=> \E v \in Vars : p = <<r, v[1], v[2]>>
        OBVIOUS
    <2>5. ASSUME NEW v \in Vars, p = <<r, v[1], v[2]>>
          PROVE  \E y, b : p = <<r, y, b>> /\ <<y, b>> \in Vars
        BY <2>3, <2>5
    <2>6. ASSUME NEW y, NEW b, p = <<r, y, b>>, <<y, b>> \in Vars
          PROVE  \E v \in Vars : p = <<r, v[1], v[2]>>
        <3>1. <<y, b>>[1] = y /\ <<y, b>>[2] = b
            OBVIOUS
        <3> QED BY <2>6, <3>1
    <2> QED BY <2>2, <2>4, <2>5, <2>6
<1>3. p \in B <=> \E x, y, b : p = <<x, y, b>> /\ OwnsFeature(r, "feature", x, y, b)
    BY DEF OwnsFeature
<1>4. p \in C <=>
          \E i \in Left(r) : /\ f(i) \in Block
                             /\ \/ \E y \in Slot : /\ from(i) < y /\ y <= hdr[f(i)].cnt
                                                   /\ p = <<f(i), y, arr[f(i)][y]>>
                                \/ /\ named(i) /\ hdr[f(i)].name # Null
                                   /\ p = <<f(i), 0, hdr[f(i)].name>>
    <2>1. p \in C <=> \E i \in Left(r) :
                      f(i) \in Block /\ p \in FeatureRefs(f(i), from(i), named(i))
        OBVIOUS
    <2>2. ASSUME NEW i
          PROVE  p \in FeatureRefs(f(i), from(i), named(i)) <=>
                     \/ \E y \in Slot : /\ from(i) < y /\ y <= hdr[f(i)].cnt
                                        /\ p = <<f(i), y, arr[f(i)][y]>>
                     \/ /\ named(i) /\ hdr[f(i)].name # Null
                        /\ p = <<f(i), 0, hdr[f(i)].name>>
        <3>1. named(i) \in BOOLEAN
            OBVIOUS
        <3> HIDE DEF named, from, f
        <3> QED BY <3>1, FeatureRefsAre
    <2> HIDE DEF C, f, from, named
    <2> QED BY <2>1, <2>2
<1>5. p \in D <=>
          /\ loc[r].ftr # Null
          /\ \/ \E y \in Slot : /\ 0 < y /\ y <= hdr[loc[r].ftr].cnt
                                /\ p = <<loc[r].ftr, y, arr[loc[r].ftr][y]>>
             \/ hdr[loc[r].ftr].name # Null /\ p = <<loc[r].ftr, 0, hdr[loc[r].ftr].name>>
    <2>1. p \in FeatureRefs(loc[r].ftr, 0, TRUE) <=>
              \/ \E y \in Slot : /\ 0 < y /\ y <= hdr[loc[r].ftr].cnt
                                 /\ p = <<loc[r].ftr, y, arr[loc[r].ftr][y]>>
              \/ hdr[loc[r].ftr].name # Null /\ p = <<loc[r].ftr, 0, hdr[loc[r].ftr].name>>
        BY DEF FeatureRefs
    <2> QED BY <2>1
<1>6. \A y \in Slot : 0 < y
    BY LoadAssumption DEF LoadAssumption, Slot
<1>7. loc[r].ftr # Null <=> loc[r].ftr \in Block
    BY NullIsNoBlock DEF IInv, Typed, Locals, Pointer
<1>8. p \in C \/ p \in D <=>
          \E x, y, b : /\ p = <<x, y, b>>
                       /\ OwnsPart(r, "part", x, y, b) \/ OwnsName(r, "name", x, y, b)
    <2>1. ASSUME NEW x, NEW y, NEW b
          PROVE  OwnsPart(r, "part", x, y, b) <=>
                     /\ y \in Slot /\ x \in Block /\ y <= hdr[x].cnt /\ b = arr[x][y]
                     /\ x = loc[r].ftr \/ \E i \in Left(r) : x = f(i) /\ from(i) < y
        <3>1. ASSUME NEW i, y \in Slot
              PROVE  (Current(r, i) => loc[r].m < y) <=> from(i) < y
            BY <1>6, <3>1
        <3> HIDE DEF from
        <3> QED BY <3>1 DEF OwnsPart
    <2>2. ASSUME NEW x, NEW y, NEW b
          PROVE  OwnsName(r, "name", x, y, b) <=>
                     /\ y = 0 /\ b # Null /\ x \in Block /\ b = hdr[x].name
                     /\ x = loc[r].ftr \/ \E i \in Left(r) : x = f(i) /\ named(i)
        BY DEF OwnsName
    <2> HIDE DEF f, from, named, C, D
    <2>3. ASSUME p \in C
          PROVE  \E x, y, b : /\ p = <<x, y, b>>
                              /\ OwnsPart(r, "part", x, y, b) \/ OwnsName(r, "name", x, y, b)
        BY <2>3, <1>4, <2>1, <2>2
    <2>4. ASSUME p \in D
          PROVE  \E x, y, b : /\ p = <<x, y, b>>
                              /\ OwnsPart(r, "part", x, y, b) \/ OwnsName(r, "name", x, y, b)
        BY <2>4, <1>5, <1>7, <2>1, <2>2
    <2>5. ASSUME NEW x, NEW y, NEW b, p = <<x, y, b>>, OwnsPart(r, "part", x, y, b)
          PROVE  p \in C \/ p \in D
        BY <2>5, <1>4, <1>5, <1>6, <1>7, <2>1
    <2>6. ASSUME NEW x, NEW y, NEW b, p = <<x, y, b>>, OwnsName(r, "name", x, y, b)
          PROVE  p \in C \/ p \in D
        BY <2>6, <1>4, <1>5, <1>7, <2>2
    <2> QED BY <2>3, <2>4, <2>5, <2>6
<1> HIDE DEF A, B, C, D, l
<1>9. ASSUME NEW t, NEW x, NEW y, NEW b, p = <<x, y, b>>, Owns(r, t, x, y, b)
      PROVE  p \in A \/ p \in B \/ p \in C \/ p \in D
    <2>1. CASE OwnsLocal(r, t, x, y, b)
        <3>1. x = r /\ OwnsLocal(r, "local", r, y, b)
            BY <2>1 DEF OwnsLocal
        <3> QED BY <1>2, <1>9, <3>1
    <2>2. CASE OwnsFeature(r, t, x, y, b)
        <3>1. OwnsFeature(r, "feature", x, y, b)
            BY <2>2 DEF OwnsFeature
        <3> QED BY <1>3, <1>9, <3>1
    <2>3. CASE OwnsPart(r, t, x, y, b)
        <3>1. OwnsPart(r, "part", x, y, b)
            BY <2>3 DEF OwnsPart
        <3> QED BY <1>8, <1>9, <3>1
    <2>4. CASE OwnsName(r, t, x, y, b)
        <3>1. OwnsName(r, "name", x, y, b)
            BY <2>4 DEF OwnsName
        <3> QED BY <1>8, <1>9, <3>1
    <2> QED BY <1>9, <2>1, <2>2, <2>3, <2>4 DEF Owns
<1>10. ASSUME p \in A \/ p \in B \/ p \in C \/ p \in D
       PROVE  \E t, x, y, b : p = <<x, y, b>> /\ Owns(r, t, x, y, b)
    BY <1>2, <1>3, <1>8, <1>10 DEF Owns
<1> QED BY <1>1, <1>9, <1>10

----------------------------------------------------------------------------
(* What the invariant says *)

LEMMA InvariantTypes == IInv => TypeOK
<1> SUFFICES ASSUME IInv
             PROVE  TypeOK
    OBVIOUS
<1>1. Typed
    BY DEF IInv
<1>2. ASSUME NEW r \in Request
      PROVE  /\ pc[r] = "idle" <=> loc[r] = NoLocals
             /\ loc[r].n \in 0..Width /\ loc[r].m \in 0..Width
    <2>1. loc[r].n \in 0..Width /\ loc[r].m \in 0..Width /\ pc[r] \in Label
        BY <1>1 DEF Typed, Locals
    <2>2. loc[r] = NoLocals => loc[r].data = Null /\ loc[r].layer = Null
        BY DEF NoLocals
    <2>3. loc[r] = NoLocals => pc[r] = "idle"
        BY <2>2 DEF IInv, Shape
    <2>4. pc[r] = "idle" => loc[r] = NoLocals
        BY DEF IInv, Shape
    <2> QED BY <2>1, <2>3, <2>4
<1> QED BY <1>1, <1>2 DEF Typed, TypeOK, Pointer

LEMMA AllRefsAreOwned ==
    ASSUME IInv, NEW p
    PROVE  p \in AllRefs <=>
               \E r \in Request : \E t, x, y, b : p = <<x, y, b>> /\ Owns(r, t, x, y, b)
BY RefsAreOwned DEF AllRefs

LEMMA InvariantNoLeaks == IInv => NothingLeaks
<1> SUFFICES ASSUME IInv, NEW b \in Block \ free
             PROVE  \E p \in AllRefs : b = p[3]
    BY DEF NothingLeaks
<1>1. PICK r, t, x, y : r \in Request /\ Owns(r, t, x, y, b)
    BY DEF IInv, Exact, Holds
<1>2. <<x, y, b>> \in AllRefs
    BY <1>1, AllRefsAreOwned
<1> QED BY <1>2

LEMMA InvariantNoDangling == IInv => NothingDangles
<1> SUFFICES ASSUME IInv
             PROVE  NothingDangles
    OBVIOUS
<1> DEFINE refs == AllRefs
           targets == {p[3] : p \in refs}
<1>1. ASSUME NEW p \in refs
      PROVE  p[3] \in Block \ free
    <2>1. PICK r, t, x, y, b : r \in Request /\ p = <<x, y, b>> /\ Owns(r, t, x, y, b)
        BY AllRefsAreOwned
    <2> QED BY <2>1 DEF IInv, Exact, Holds
<1>2. ASSUME NEW p \in refs, NEW q \in refs, p[3] = q[3]
      PROVE  p = q
    <2>1. PICK r, t, x, y, b : r \in Request /\ p = <<x, y, b>> /\ Owns(r, t, x, y, b)
        BY AllRefsAreOwned
    <2>2. PICK s, u, z, w, c : s \in Request /\ q = <<z, w, c>> /\ Owns(s, u, z, w, c)
        BY AllRefsAreOwned
    <2>3. b = c
        BY <1>2, <2>1, <2>2
    <2> QED BY <2>1, <2>2, <2>3 DEF IInv, OneOwner
<1> HIDE DEF refs
<1>3. targets \subseteq Block \ free
    BY <1>1
<1>4. IsFiniteSet(targets)
    <2>1. IsFiniteSet(Block)
        BY FS_Interval, LoadAssumption DEF LoadAssumption, Block
    <2> QED BY <1>3, <2>1, FS_Subset
<1>5. ExistsBijection(targets, refs)
    <2> DEFINE pointer == [b \in targets |-> CHOOSE p \in refs : p[3] = b]
    <2>1. ASSUME NEW b \in targets
          PROVE  pointer[b] \in refs /\ pointer[b][3] = b
        OBVIOUS
    <2>2. ASSUME NEW p \in refs
          PROVE  p[3] \in targets /\ pointer[p[3]] = p
        BY <1>2, <2>1
    <2> HIDE DEF pointer, targets
    <2>3. pointer \in [targets -> refs]
        BY <2>1 DEF pointer
    <2>4. pointer \in Bijection(targets, refs)
        BY <2>1, <2>2, <2>3 DEF Bijection, Injection, Surjection, IsInjective
    <2> QED BY <2>4 DEF ExistsBijection
<1>6. Cardinality(targets) = Cardinality(refs)
    <2> HIDE DEF targets
    <2> QED BY <1>4, <1>5, FS_Bijection
<1> QED BY <1>3, <1>6 DEF NothingDangles, refs

\* The invariant holds as long as the parts of roads and polygons are put in order.
LEMMA OwnersKept == Spec /\ []PartsInOrder => []IInv
<1>1. Init => IInv
    BY InitHolds
<1>2. IInv /\ PartsInOrder /\ [Next]_vars => IInv'
    BY NextKeeps
<1> QED BY <1>1, <1>2, PTL DEF Spec

----------------------------------------------------------------------------
(* Theorems *)

\* While no refused part leaves a gap in an array, the state has its type: an array is
\* never filled beyond its end, and what is freed is always a block.
THEOREM TypeCorrect == Spec /\ []PartsInOrder => []TypeOK
BY OwnersKept, InvariantTypes, PTL

\* While no refused part leaves a gap in an array, no thread has a pointer to a block that
\* is free or another's, or two pointers to one block, whatever else the heap refuses
\* or the file does not hold.
THEOREM NeverDangles == Spec /\ []PartsInOrder => []NothingDangles
BY OwnersKept, InvariantNoDangling, PTL

\* While no refused part leaves a gap in an array, every error path of getLayer frees what
\* it allocated: a block that is not free is one some thread will still free.
THEOREM NeverLeaks == Spec /\ []PartsInOrder => []NothingLeaks
BY OwnersKept, InvariantNoLeaks, PTL

----------------------------------------------------------------------------
(* Layers whose features have one part at most need no assumption *)

Simple == PartNum = 1 \/ \A l \in Layer : Geom[l] = "point"

\* A step writes the header of a block its thread fills, or of blocks it frees.
LEMMA HeadersWritten ==
    ASSUME IInv, NEW r \in Request, Step(r) \/ \E l \in Layer : MallocData(r, l)
    PROVE  /\ \A s \in Request \ {r} : loc'[s] = loc[s] /\ pc'[s] = pc[s]
           /\ \/ \A b \in Block : hdr'[b] = hdr[b] \/ b \in free'
              \/ /\ pc[r] \in Filling
                 /\ \A b \in Block \ {loc[r].ftr, loc[r].layer} : hdr'[b] = hdr[b]
<1>1. hdr \in [Block -> [cnt : 0..Width, name : Pointer]]
    BY DEF IInv, Typed
<1>2. ASSUME NEW label, NEW locals, Goto(r, label, locals)
      PROVE  \A s \in Request \ {r} : loc'[s] = loc[s] /\ pc'[s] = pc[s]
    BY <1>2 DEF Goto, IInv, Typed
<1>3. ASSUME NEW S, Freed(S)
      PROVE  \A b \in Block : hdr'[b] = hdr[b] \/ b \in free'
    BY <1>3 DEF Freed
<1>4. ASSUME NEW S, GiveUp(r, S)
      PROVE  /\ \A s \in Request \ {r} : loc'[s] = loc[s] /\ pc'[s] = pc[s]
             /\ \A b \in Block : hdr'[b] = hdr[b] \/ b \in free'
    BY <1>2, <1>3, <1>4 DEF GiveUp
<1>5. CASE \E l \in Layer : MallocData(r, l)
    BY <1>2, <1>5 DEF MallocData
<1>6. CASE Seek(r)
    BY <1>2, <1>6 DEF Seek
<1>7. CASE Read(r)
    BY <1>2, <1>4, <1>7 DEF Read
<1>8. CASE MallocZip(r)
    BY <1>2, <1>4, <1>8 DEF MallocZip
<1>9. CASE Unzip(r)
    BY <1>2, <1>3, <1>4, <1>9 DEF Unzip, Unzipped, UnzipFailed
<1>10. CASE CreateLayer(r)
    BY <1>2, <1>4, <1>10 DEF CreateLayer
<1>11. CASE CreateFeature(r)
    BY <1>2, <1>11 DEF CreateFeature, FeatureRefused
<1>12. CASE LoadPart(r)
    BY <1>1, <1>2, <1>12 DEF LoadPart, Filling
<1>13. CASE NextPart(r)
    BY <1>2, <1>13 DEF NextPart
<1>14. CASE NameFeature(r)
    BY <1>1, <1>2, <1>14 DEF NameFeature, Filling
<1>15. CASE CloseData(r)
    BY <1>2, <1>3, <1>15 DEF CloseData
<1>16. CASE FreePart(r)
    BY <1>2, <1>3, <1>16 DEF FreePart
<1>17. CASE FreeName(r)
    BY <1>2, <1>3, <1>17 DEF FreeName
<1>18. CASE FreeFeature(r)
    BY <1>2, <1>3, <1>18 DEF FreeFeature
<1>19. CASE FreeLayer(r)
    BY <1>4, <1>19 DEF FreeLayer
<1>20. CASE UnknownGeometry(r)
    BY <1>2, <1>3, <1>20 DEF UnknownGeometry
<1>21. CASE DropData(r)
    BY <1>4, <1>21 DEF DropData
<1>22. CASE MallocPoints(r)
    BY <1>2, <1>22 DEF MallocPoints
<1>23. CASE DrawRing(r)
    BY <1>2, <1>3, <1>23 DEF DrawRing
<1>24. CASE DrawNext(r) \/ Drawn(r)
    BY <1>2, <1>24 DEF DrawNext, Drawn
<1> QED BY <1>5, <1>6, <1>7, <1>8, <1>9, <1>10, <1>11, <1>12, <1>13, <1>14, <1>15, <1>16,
           <1>17, <1>18, <1>19, <1>20, <1>21, <1>22, <1>23, <1>24 DEF Step

\* The only step to a part is the one that creates the feature.
LEMMA FirstPart ==
    ASSUME IInv, PartNum = 1, NEW r \in Request, pc'[r] = "part",
           Step(r) \/ \E l \in Layer : MallocData(r, l)
    PROVE  hdr'[loc'[r].ftr].cnt = 0
<1>1. loc[r] \in Locals /\ loc \in [Request -> Locals] /\ pc \in [Request -> Label]
    BY DEF IInv, Typed
<1>2. ASSUME NEW label, NEW locals, Goto(r, label, locals)
      PROVE  label = "part"
    BY <1>1, <1>2 DEF Goto
<1>3. ASSUME NEW S
      PROVE  ~GiveUp(r, S)
    BY <1>2 DEF GiveUp
<1>4. CASE CreateFeature(r)
    <2>1. ~FeatureRefused(r)
        BY <1>2 DEF FeatureRefused
    <2>2. PICK b \in free : /\ UNCHANGED hdr
                            /\ loc' = [loc EXCEPT ![r] = [loc[r] EXCEPT !.ftr = b]]
        BY <1>4, <2>1, GrantedIsFree DEF CreateFeature, Goto
    <2>3. loc'[r].ftr = b
        BY <1>1, <2>2 DEF Locals
    <2>4. hdr[b].cnt = 0
        BY DEF IInv, Clean, NoHeader
    <2> QED BY <2>2, <2>3, <2>4
<1>5. ~(/\ pc[r] \in {"part", "nextpart"}
        /\ Goto(r, PartLoop(loc[r].m + 1), [loc[r] EXCEPT !.m = loc[r].m + 1]))
    <2>1. loc[r].m \in 0..Width
        BY <1>1 DEF Locals
    <2>2. PartLoop(loc[r].m + 1) = "name"
        BY <2>1, LoadAssumption DEF PartLoop, LoadAssumption
    <2> QED BY <1>2, <2>2
<1>10. ~UnknownGeometry(r) /\ ~DropData(r) /\ ~CloseData(r)
    BY <1>2, <1>3 DEF UnknownGeometry, DropData, CloseData
<1>11. ~MallocPoints(r) /\ ~DrawRing(r) /\ ~DrawNext(r) /\ ~Drawn(r)
    BY <1>2 DEF MallocPoints, DrawRing, DrawNext, Drawn
<1>6. ~Seek(r) /\ ~FreePart(r) /\ ~FreeName(r) /\ ~FreeFeature(r)
      /\ ~\E l \in Layer : MallocData(r, l)
    BY <1>2 DEF Seek, FreePart, FreeName, FreeFeature, MallocData
<1>7. ~Read(r) /\ ~MallocZip(r) /\ ~Unzip(r) /\ ~FreeLayer(r)
    BY <1>2, <1>3 DEF Read, MallocZip, Unzip, Unzipped, UnzipFailed, FreeLayer
<1>8. ~CreateLayer(r) /\ ~NameFeature(r)
    <2>1. \A l, n : FeatureLoop(l, n) # "part"
        BY DEF FeatureLoop
    <2> QED BY <1>2, <1>3, <2>1 DEF CreateLayer, NameFeature
<1>9. ~LoadPart(r) /\ ~NextPart(r)
    <2>1. [loc[r] EXCEPT !.m = @ + 1] = [loc[r] EXCEPT !.m = loc[r].m + 1]
        OBVIOUS
    <2>2. ~NextPart(r)
        BY <1>5, <2>1 DEF NextPart
    <2>3. ~LoadPart(r)
        BY <1>2, <1>5 DEF LoadPart
    <2> QED BY <2>2, <2>3
<1> QED BY <1>4, <1>6, <1>7, <1>8, <1>9, <1>10, <1>11 DEF Step

LEMMA SimpleKept ==
    ASSUME Simple, IInv, PartsInOrder, IInv', [Next]_vars
    PROVE  PartsInOrder'
<1>1. CASE UNCHANGED vars
    BY <1>1 DEF vars, PartsInOrder
<1>2. CASE \A l \in Layer : Geom[l] = "point"
    <2>1. ASSUME NEW s \in Request
          PROVE  pc'[s] # "part"
        BY <1>2 DEF IInv, Shape, GeomOf, Loading, Filling
    <2> QED BY <2>1 DEF PartsInOrder
<1>3. ASSUME PartNum = 1, Next
      PROVE  PartsInOrder'
    <2>1. PICK r \in Request : Step(r) \/ \E l \in Layer : MallocData(r, l)
        BY <1>3 DEF Next
    <2>2. ASSUME NEW s \in Request, pc'[s] = "part"
          PROVE  hdr'[loc'[s].ftr].cnt = loc'[s].m
        <3>1. loc'[s].m = 0 /\ loc'[s].ftr # Null
            <4>1. loc'[s].m \in 0..Width /\ loc'[s].m < 1 /\ loc'[s].ftr # Null
                BY <1>3, <2>2 DEF IInv, Typed, Locals, Shape, Filling
            <4> QED BY <4>1, LoadAssumption DEF LoadAssumption
        <3>2. CASE s = r
            BY <1>3, <2>1, <2>2, <3>1, <3>2, FirstPart
        <3>3. CASE s # r
            <4>1. loc'[s] = loc[s] /\ pc[s] = "part"
                BY <2>1, <2>2, <3>3, HeadersWritten
            <4>2. Owns(s, "local", s, "ftr", loc[s].ftr)
                BY <3>1, <4>1 DEF Owns, OwnsLocal
            <4>3. loc[s].ftr \in Block /\ loc[s].ftr \notin free'
                <5>1. Owns(s, "local", s, "ftr", loc[s].ftr)'
                    BY <3>1, <4>1 DEF Owns, OwnsLocal
                <5> QED BY <5>1, <4>1 DEF IInv, Exact, Holds
            <4>4. pc[r] \in Filling => loc[s].ftr # loc[r].ftr /\ loc[s].ftr # loc[r].layer
                <5>1. ASSUME pc[r] \in Filling
                      PROVE  /\ Owns(r, "local", r, "ftr", loc[r].ftr)
                             /\ Owns(r, "local", r, "layer", loc[r].layer)
                    BY <5>1 DEF IInv, Shape, Loading, Filling, Owns, OwnsLocal
                <5> QED BY <3>3, <4>2, <5>1 DEF IInv, OneOwner
            <4>5. hdr'[loc[s].ftr] = hdr[loc[s].ftr]
                BY <2>1, <4>3, <4>4, HeadersWritten
            <4> QED BY <3>1, <4>1, <4>5 DEF PartsInOrder
        <3> QED BY <3>2, <3>3
    <2> QED BY <2>2 DEF PartsInOrder
<1> QED BY <1>1, <1>2, <1>3 DEF Simple

\* In a map file of points, or of roads and polygons of one part, no refusal of the heap
\* and no fault of the file ever makes a thread dangle or leak.
THEOREM SimpleIsSafe ==
    ASSUME Simple
    PROVE  Spec => [](NothingDangles /\ NothingLeaks)
<1>1. Init => IInv /\ PartsInOrder
    <2>1. Init => PartsInOrder
        BY DEF Init, PartsInOrder
    <2> QED BY <2>1, InitHolds
<1>2. IInv /\ PartsInOrder /\ [Next]_vars => (IInv /\ PartsInOrder)'
    BY NextKeeps, SimpleKept
<1>3. IInv => NothingDangles /\ NothingLeaks
    BY InvariantNoDangling, InvariantNoLeaks
<1> QED BY <1>1, <1>2, <1>3, PTL DEF Spec

\* Nor does a refusal leave a gap in an array: there is no second part to go in behind it.
THEOREM SimpleInOrder ==
    ASSUME Simple
    PROVE  Spec => []PartsInOrder
<1>1. Init => IInv /\ PartsInOrder
    <2>1. Init => PartsInOrder
        BY DEF Init, PartsInOrder
    <2> QED BY <2>1, InitHolds
<1>2. IInv /\ PartsInOrder /\ [Next]_vars => (IInv /\ PartsInOrder)'
    BY NextKeeps, SimpleKept
<1> QED BY <1>1, <1>2, PTL DEF Spec

----------------------------------------------------------------------------
(* A single thread reads the layer it wants: the file's position is not shared *)

Fields == {"want", "got", "data", "zip", "layer", "ftr", "n", "m"}

\* Between seek and read, the position is that of the layer that is wanted.
AtItsLayer ==
    /\ DOMAIN pc = Request /\ DOMAIN loc = Request
    /\ \A r \in Request :
        /\ DOMAIN loc[r] = Fields
        /\ pc[r] = "read" => pos = loc[r].want
        /\ pc[r] \in {"seek", "read"} => loc[r].got = 0
        /\ loc[r].want # 0 /\ loc[r].got # 0 => loc[r].got = loc[r].want

LEMMA AtItsLayerKept ==
    ASSUME NEW r, Request = {r}, AtItsLayer, [Next]_vars
    PROVE  AtItsLayer'
<1>1. /\ DOMAIN pc = {r} /\ DOMAIN loc = {r} /\ DOMAIN loc[r] = Fields
      /\ pc[r] = "read" => pos = loc[r].want
      /\ pc[r] \in {"seek", "read"} => loc[r].got = 0
      /\ loc[r].want # 0 /\ loc[r].got # 0 => loc[r].got = loc[r].want
    BY DEF AtItsLayer
<1>2. ASSUME NEW label, NEW locals, Goto(r, label, locals), DOMAIN locals = Fields,
             label = "read" => pos' = locals.want,
             label \in {"seek", "read"} => locals.got = 0,
             locals.want # 0 /\ locals.got # 0 => locals.got = locals.want
      PROVE  AtItsLayer'
    <2>1. /\ DOMAIN pc' = {r} /\ DOMAIN loc' = {r}
          /\ pc'[r] = label /\ loc'[r] = locals
        BY <1>1, <1>2 DEF Goto
    <2> QED BY <1>2, <2>1 DEF AtItsLayer
\* Most steps leave what is wanted and what was read.
<1>3. ASSUME NEW label, NEW locals, Goto(r, label, locals), DOMAIN locals = Fields,
             label \notin {"seek", "read"}, locals.want = loc[r].want, locals.got = loc[r].got
      PROVE  AtItsLayer'
    BY <1>1, <1>2, <1>3
<1>4. DOMAIN NoLocals = Fields /\ NoLocals.want = 0 /\ NoLocals.got = 0
    BY DEF NoLocals, Fields
<1>5. ASSUME NEW S, GiveUp(r, S)
      PROVE  AtItsLayer'
    BY <1>2, <1>4, <1>5 DEF GiveUp
<1>6. CASE UNCHANGED vars
    BY <1>6 DEF vars, AtItsLayer
<1>7. ASSUME NEW l \in Layer, MallocData(r, l)
      PROVE  AtItsLayer'
    <2>1. PICK b : Goto(r, "seek", [NoLocals EXCEPT !.want = l, !.data = b])
        BY <1>7 DEF MallocData
    <2> DEFINE locals == [NoLocals EXCEPT !.want = l, !.data = b]
    <2>2. DOMAIN locals = Fields /\ locals.got = 0
        BY <1>4 DEF Fields
    <2> HIDE DEF locals
    <2>3. Goto(r, "seek", locals)
        BY <2>1 DEF locals
    <2> QED BY <1>2, <2>2, <2>3
<1>8. CASE Seek(r)
    BY <1>1, <1>2, <1>8 DEF Seek
<1>9. CASE Read(r)
    <2>1. CASE /\ pos \in Layer
               /\ Goto(r, IF Compressed THEN "zip" ELSE "layer", [loc[r] EXCEPT !.got = pos])
        <3> DEFINE locals == [loc[r] EXCEPT !.got = pos]
                   label == IF Compressed THEN "zip" ELSE "layer"
        <3>1. /\ DOMAIN locals = Fields /\ locals.want = loc[r].want /\ locals.got = pos
              /\ label \notin {"seek", "read"}
            BY <1>1 DEF Fields
        <3>2. pos = loc[r].want
            BY <1>1, <1>9 DEF Read
        <3> HIDE DEF locals, label
        <3>3. Goto(r, label, locals)
            BY <2>1 DEF locals, label
        <3> QED BY <1>2, <3>1, <3>2, <3>3
    <2> QED BY <1>5, <1>9, <2>1 DEF Read
<1>10. CASE MallocZip(r)
    <2>1. ASSUME NEW b, Goto(r, "unzip", [loc[r] EXCEPT !.zip = b])
          PROVE  AtItsLayer'
        BY <1>1, <1>3, <2>1 DEF Fields
    <2> QED BY <1>5, <1>10, <2>1 DEF MallocZip
<1>11. CASE Unzip(r)
    <2>1. CASE Unzipped(r)
        BY <1>1, <1>3, <2>1 DEF Unzipped, Fields
    <2> QED BY <1>5, <1>11, <2>1 DEF Unzip, UnzipFailed
<1>12. CASE CreateLayer(r)
    <2>1. ASSUME NEW b, Goto(r, FeatureLoop(loc[r].got, 0), [loc[r] EXCEPT !.want = 0, !.layer = b])
          PROVE  AtItsLayer'
        <3> DEFINE locals == [loc[r] EXCEPT !.want = 0, !.layer = b]
        <3>1. DOMAIN locals = Fields /\ locals.want = 0
            BY <1>1 DEF Fields
        <3>2. FeatureLoop(loc[r].got, 0) \notin {"seek", "read"}
            BY DEF FeatureLoop
        <3> HIDE DEF locals
        <3>3. Goto(r, FeatureLoop(loc[r].got, 0), locals)
            BY <2>1 DEF locals
        <3> QED BY <1>2, <3>1, <3>2, <3>3
    <2> QED BY <1>5, <1>12, <2>1 DEF CreateLayer
<1>13. CASE CreateFeature(r)
    <2>1. ASSUME NEW b, NEW label \in {"name", "part"}, Goto(r, label, [loc[r] EXCEPT !.ftr = b])
          PROVE  AtItsLayer'
        BY <1>1, <1>3, <2>1 DEF Fields
    <2>2. CASE FeatureRefused(r)
        BY <1>1, <1>3, <2>2 DEF FeatureRefused
    <2> QED BY <1>13, <2>1, <2>2 DEF CreateFeature
<1>14. ASSUME NEW k, NEW label \in {"part", "nextpart", "name", "freeparts"},
              Goto(r, label, [loc[r] EXCEPT !.m = k])
       PROVE  AtItsLayer'
    BY <1>1, <1>3, <1>14 DEF Fields
<1>15. CASE LoadPart(r)
    BY <1>14, <1>15 DEF LoadPart, PartLoop
<1>16. CASE NextPart(r)
    <2>1. [loc[r] EXCEPT !.m = @ + 1] = [loc[r] EXCEPT !.m = loc[r].m + 1]
        OBVIOUS
    <2> QED BY <1>14, <1>16, <2>1 DEF NextPart, PartLoop
<1>17. CASE NameFeature(r)
    <2> DEFINE locals == [loc[r] EXCEPT !.n = loc[r].n + 1, !.m = 0, !.ftr = Null]
               label == FeatureLoop(loc[r].got, loc[r].n + 1)
    <2>1. DOMAIN locals = Fields /\ locals.want = loc[r].want /\ locals.got = loc[r].got
        BY <1>1 DEF Fields
    <2>2. label \notin {"seek", "read"}
        BY DEF FeatureLoop
    <2>3. Goto(r, label, locals)
        BY <1>17 DEF NameFeature
    <2> HIDE DEF label, locals
    <2> QED BY <1>3, <2>1, <2>2, <2>3
<1>18. CASE CloseData(r)
    <2> DEFINE locals == [NoLocals EXCEPT !.layer = loc[r].layer]
    <2>1. DOMAIN locals = Fields /\ locals.want = 0
        BY <1>4 DEF Fields
    <2> DEFINE label == IF GeomOf(r) = "polygon" THEN "draw" ELSE "freeparts"
    <2>2. Goto(r, label, locals) /\ label \notin {"seek", "read"}
        BY <1>18 DEF CloseData
    <2> HIDE DEF locals, label
    <2> QED BY <1>2, <2>1, <2>2
<1>19. CASE FreePart(r)
    <2>1. [loc[r] EXCEPT !.m = @ + 1] = [loc[r] EXCEPT !.m = loc[r].m + 1]
        OBVIOUS
    <2> QED BY <1>14, <1>19, <2>1 DEF FreePart
<1>20. CASE FreeName(r)
    BY <1>1, <1>3, <1>20 DEF FreeName
<1>21. CASE FreeFeature(r)
    <2> DEFINE locals == [loc[r] EXCEPT !.n = @ + 1, !.m = 0]
    <2>1. DOMAIN locals = Fields /\ locals.want = loc[r].want /\ locals.got = loc[r].got
        BY <1>1 DEF Fields
    <2>2. Goto(r, "freeparts", locals)
        BY <1>21 DEF FreeFeature
    <2> HIDE DEF locals
    <2> QED BY <1>3, <2>1, <2>2
<1>22. CASE FreeLayer(r)
    BY <1>5, <1>22 DEF FreeLayer
<1>23. CASE UnknownGeometry(r)
    BY <1>1, <1>3, <1>23 DEF UnknownGeometry, Fields
<1>24. CASE DropData(r)
    BY <1>5, <1>24 DEF DropData
<1>25. CASE MallocPoints(r)
    <2>1. PICK b : Goto(r, "drawring", [loc[r] EXCEPT !.data = b])
        BY <1>25 DEF MallocPoints
    <2> QED BY <1>1, <1>3, <2>1 DEF Fields
<1>26. CASE DrawRing(r)
    <2> DEFINE locals == [loc[r] EXCEPT !.data = Null, !.m = @ + 1]
    <2>1. DOMAIN locals = Fields /\ locals.want = loc[r].want /\ locals.got = loc[r].got
        BY <1>1 DEF Fields
    <2>2. Goto(r, "draw", locals)
        BY <1>26 DEF DrawRing
    <2> HIDE DEF locals
    <2> QED BY <1>3, <2>1, <2>2
<1>27. CASE DrawNext(r)
    <2> DEFINE locals == [loc[r] EXCEPT !.n = @ + 1, !.m = 0]
    <2>1. DOMAIN locals = Fields /\ locals.want = loc[r].want /\ locals.got = loc[r].got
        BY <1>1 DEF Fields
    <2>2. Goto(r, "draw", locals)
        BY <1>27 DEF DrawNext
    <2> HIDE DEF locals
    <2> QED BY <1>3, <2>1, <2>2
<1>28. CASE Drawn(r)
    <2> DEFINE locals == [loc[r] EXCEPT !.n = 0, !.m = 0]
    <2>1. DOMAIN locals = Fields /\ locals.want = loc[r].want /\ locals.got = loc[r].got
        BY <1>1 DEF Fields
    <2>2. Goto(r, "freeparts", locals)
        BY <1>28 DEF Drawn
    <2> HIDE DEF locals
    <2> QED BY <1>3, <2>1, <2>2
<1> QED BY <1>6, <1>7, <1>8, <1>9, <1>10, <1>11, <1>12, <1>13, <1>15, <1>16, <1>17, <1>18,
           <1>19, <1>20, <1>21, <1>22, <1>23, <1>24, <1>25, <1>26, <1>27, <1>28 DEF Next, Step

\* A thread that has the map file to itself draws the data of the layer it asked for: it
\* is the shared position that makes two threads read each other's.
THEOREM AloneReadsItsLayer ==
    ASSUME NEW r, Request = {r}
    PROVE  Spec => []ReadsItsLayer
<1>1. Init => AtItsLayer
    BY DEF Init, AtItsLayer, NoLocals, Fields
<1>2. AtItsLayer /\ [Next]_vars => AtItsLayer'
    BY AtItsLayerKept
<1>3. AtItsLayer => ReadsItsLayer
    BY DEF AtItsLayer, ReadsItsLayer
<1> QED BY <1>1, <1>2, <1>3, PTL DEF Spec
=============================================================================
