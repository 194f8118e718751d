----------------------------- MODULE LayerLoad -----------------------------
(***************************************************************************)
(* Loading a map layer into the heap and freeing it again: each dispatch   *)
(* thread of the server runs getLayer / render / freeObject for one grid   *)
(* cell after the other (persist.cpp, layer.cpp, geo_*.cpp, object.cpp).   *)
(*                                                                         *)
(* A heap call is one step (MemHeap): it answers the lowest free block of  *)
(* those large enough, and is refused when they are all taken, possibly by *)
(* objects of other threads.  A layer's block ends in the array of its     *)
(* features, a road's or polygon's in the array of its parts.  No          *)
(* constructor clears the arrays: an entry nobody has written is Stale,    *)
(* whatever the block's last object left there (or zero).                  *)
(***************************************************************************)
EXTENDS Integers, FiniteSets

CONSTANTS
    Request,        \* the threads that draw layers
    NBlock,         \* blocks of the heap
    NLayer,         \* layers of the map file, stored one after the other
    Geom,           \* Geom[l]: "point", "line", "polygon" or any other geometry type
    FeatureNum,     \* FeatureNum[l]: features of layer l
    Named,          \* Named[l]: the features of layer l have names
    PartNum,        \* parts of a road or polygon
    Width,          \* entries of the arrays
    Compressed,     \* the map file is compressed
    Fits,           \* Fits[kind]: the blocks large enough for an object of the kind
    Null, Stale

Block == 1..NBlock
Layer == 1..NLayer
Slot == 1..Width

ASSUME LoadAssumption ==
    /\ NBlock \in Nat /\ NLayer \in Nat /\ Width \in Nat
    /\ Geom \in [Layer -> {"point", "line", "polygon", "other"}]
    /\ FeatureNum \in [Layer -> 0..Width]
    /\ Named \in [Layer -> BOOLEAN]
    /\ PartNum \in 1..Width
    /\ Compressed \in BOOLEAN
    /\ Fits \in [{"data", "layer", "feature", "line", "ring", "name", "drawing"}
                    -> SUBSET Block]
    /\ Null \notin Block /\ Stale \notin Block /\ Null # Stale

VARIABLES
    free,           \* the heap's free blocks
    hdr,            \* hdr[b]: _ftrcnt and _name of the object in b
    arr,            \* arr[b]: the array behind that object
    pos,            \* the position of the file the threads share
    pc, loc         \* each thread's next step and locals

vars == <<free, hdr, arr, pos, pc, loc>>

NoLocals == [want |-> 0, got |-> 0, data |-> Null, zip |-> Null, layer |-> Null,
             ftr |-> Null, n |-> 0, m |-> 0]

----------------------------------------------------------------------------
(* The heap *)

\* The block malloc answers, if there is one.
Granted(kind) == {b \in Fits[kind] \cap free : \A c \in Fits[kind] \cap free : b <= c}

NoHeader == [cnt |-> 0, name |-> Null]
NoArray == [i \in Slot |-> Stale]

\* Mutant: the constructors leave the count and name of the block's last object.
FreedKeepsHeader(S) ==
    /\ free' = free \cup S
    /\ hdr' = hdr
    /\ arr' = [b \in Block |-> IF b \in S THEN NoArray ELSE arr[b]]

Freed(S) ==
    /\ free' = free \cup S
    /\ hdr' = [b \in Block |-> IF b \in S THEN NoHeader ELSE hdr[b]]
    /\ arr' = [b \in Block |-> IF b \in S THEN NoArray ELSE arr[b]]

Goto(r, label, locals) ==
    /\ pc' = [pc EXCEPT ![r] = label]
    /\ loc' = [loc EXCEPT ![r] = locals]

GiveUp(r, blocks) ==
    /\ Freed(blocks)
    /\ Goto(r, "idle", NoLocals)
    /\ UNCHANGED pos

----------------------------------------------------------------------------
(* swMapPersistContainer::getLayer and getLayerData *)

\* A refusal here ends the call with nothing changed.
MallocData(r, l) ==
    /\ pc[r] = "idle"
    /\ \E b \in Granted("data") :
        /\ free' = free \ {b}
        /\ Goto(r, "seek", [NoLocals EXCEPT !.want = l, !.data = b])
    /\ UNCHANGED <<hdr, arr, pos>>

\* Mutant: the offset is the one of the layer before.
SeekBefore(r) ==
    /\ pc[r] = "seek"
    /\ pos' = loc[r].want - 1
    /\ Goto(r, "read", loc[r])
    /\ UNCHANGED <<free, hdr, arr>>

Seek(r) ==
    /\ pc[r] = "seek"
    /\ pos' = loc[r].want
    /\ Goto(r, "read", loc[r])
    /\ UNCHANGED <<free, hdr, arr>>

\* The layer the file stands at, or too few bytes.
Read(r) ==
    /\ pc[r] = "read"
    /\ \/ /\ pos \in Layer
          /\ pos' = pos + 1
          /\ Goto(r, IF Compressed THEN "zip" ELSE "layer", [loc[r] EXCEPT !.got = pos])
          /\ UNCHANGED <<free, hdr, arr>>
       \/ GiveUp(r, {loc[r].data})

MallocZip(r) ==
    /\ pc[r] = "zip"
    /\ \/ \E b \in Granted("data") :
            /\ free' = free \ {b}
            /\ Goto(r, "unzip", [loc[r] EXCEPT !.zip = b])
            /\ UNCHANGED <<hdr, arr, pos>>
       \/ Granted("data") = {} /\ GiveUp(r, {loc[r].data})

\* Mutant: both buffers are freed whether uncompress() succeeded or not.
UnzippedFreesBoth(r) ==
    /\ Freed({loc[r].data, loc[r].zip})
    /\ Goto(r, "layer", [loc[r] EXCEPT !.data = loc[r].zip, !.zip = Null])
    /\ UNCHANGED pos

\* uncompress() succeeded: the compressed data is freed.
Unzipped(r) ==
    /\ Freed({loc[r].data})
    /\ Goto(r, "layer", [loc[r] EXCEPT !.data = loc[r].zip, !.zip = Null])
    /\ UNCHANGED pos

\* Mutant: the buffer it could not fill is not freed.
UnzipFailedLeaks(r) == GiveUp(r, {loc[r].data})

\* It failed: both buffers are freed.
UnzipFailed(r) == GiveUp(r, {loc[r].data, loc[r].zip})

Unzip(r) == pc[r] = "unzip" /\ (Unzipped(r) \/ UnzipFailed(r))

\* The loop over the features of layer l, with n of them done.
FeatureLoop(l, n) == IF n < FeatureNum[l] THEN "feature" ELSE "close"

CreateLayer(r) ==
    /\ pc[r] = "layer"
    /\ \/ \E b \in Granted("layer") :
            /\ free' = free \ {b}
            /\ Goto(r, FeatureLoop(loc[r].got, 0), [loc[r] EXCEPT !.want = 0, !.layer = b])
            /\ UNCHANGED <<hdr, arr, pos>>
       \/ Granted("layer") = {} /\ GiveUp(r, {loc[r].data})

----------------------------------------------------------------------------
(* swMapLayer::loadFeatures and the features' operator<< *)

GeomOf(r) == Geom[loc[r].got]

\* Mutant: the thread waits for a block instead.
FeatureRetried(r) == Goto(r, "feature", loc[r])

\* if(!f) return true: the layer keeps the features it has.
FeatureRefused(r) == Goto(r, "close", loc[r])

\* No feature class for the geometry: the first turn of the loop returns false, and getLayer
\* frees the layer, which has no feature yet.
UnknownGeometry(r) ==
    /\ pc[r] = "feature" /\ GeomOf(r) = "other"
    /\ Freed({loc[r].layer})
    /\ Goto(r, "drop", [loc[r] EXCEPT !.layer = Null])
    /\ UNCHANGED pos

\* ... and then the data, to return NULL.
DropData(r) == pc[r] = "drop" /\ GiveUp(r, {loc[r].data})

CreateFeature(r) ==
    /\ pc[r] = "feature" /\ GeomOf(r) # "other"
    /\ \/ \E b \in Granted("feature") :
            /\ free' = free \ {b}
            /\ Goto(r, IF GeomOf(r) = "point" THEN "name" ELSE "part",
                    [loc[r] EXCEPT !.ftr = b])
            /\ UNCHANGED <<hdr, arr, pos>>
       \/ /\ Granted("feature") = {}
          /\ FeatureRefused(r)
          /\ UNCHANGED <<free, hdr, arr, pos>>

\* The loop over the parts of a road or polygon, at part m.
PartLoop(m) == IF m < PartNum THEN "part" ELSE "name"

\* The loop variable after a part was refused: a polygon starts again from 0, a road goes
\* on and leaves the part's entry as it is.
AfterRefused(r) == IF GeomOf(r) = "polygon" THEN 0 ELSE loc[r].m

\* The blocks for the next line of a road or ring of a polygon.
PartBlock(r) == Granted(IF GeomOf(r) = "polygon" THEN "ring" ELSE "line")

LoadPart(r) ==
    /\ pc[r] = "part"
    /\ LET f == loc[r].ftr
           m == loc[r].m
       IN  \/ \E b \in PartBlock(r) :
                /\ free' = free \ {b}
                /\ arr' = [arr EXCEPT ![f][m + 1] = b]
                /\ hdr' = [hdr EXCEPT ![f].cnt = @ + 1]
                /\ Goto(r, PartLoop(m + 1), [loc[r] EXCEPT !.m = m + 1])
           \/ /\ PartBlock(r) = {}
              /\ Goto(r, "nextpart", [loc[r] EXCEPT !.m = AfterRefused(r)])
              /\ UNCHANGED <<free, hdr, arr>>
    /\ UNCHANGED pos

\* The loop's n++ after a part was refused.
NextPart(r) ==
    /\ pc[r] = "nextpart"
    /\ Goto(r, PartLoop(loc[r].m + 1), [loc[r] EXCEPT !.m = @ + 1])
    /\ UNCHANGED <<free, hdr, arr, pos>>

\* The feature's name, if it has one and the heap a block for it, and then its entry in
\* the layer: _features[_ftrcnt++] = f.
NameFeature(r) ==
    /\ pc[r] = "name"
    /\ LET f == loc[r].ftr
           l == loc[r].layer
           next == hdr[l].cnt + 1
           named == IF Named[loc[r].got] THEN Granted("name") ELSE {}
           n == loc[r].n + 1
       IN  \E b \in IF named = {} THEN {Null} ELSE named :
            /\ free' = free \ {b}
            /\ arr' = [arr EXCEPT ![l][next] = f]
            /\ hdr' = [hdr EXCEPT ![f].name = b, ![l].cnt = next]
            /\ Goto(r, FeatureLoop(loc[r].got, n),
                    [loc[r] EXCEPT !.n = n, !.m = 0, !.ftr = Null])
    /\ UNCHANGED pos

\* getLayer returns: of its locals only the layer lives on, with its caller, who draws it.
\* Points and roads are drawn without the heap.
CloseData(r) ==
    /\ pc[r] = "close"
    /\ Freed({loc[r].data})
    /\ Goto(r, IF GeomOf(r) = "polygon" THEN "draw" ELSE "freeparts",
            [NoLocals EXCEPT !.layer = loc[r].layer])
    /\ UNCHANGED pos

----------------------------------------------------------------------------
(* layer->render of polygons: a block for the points of each ring while it is drawn *)

Ftr(r) == arr[loc[r].layer][loc[r].n + 1]

More(r) == loc[r].n < hdr[loc[r].layer].cnt

\* Nobody looks whether there was a block.
MallocPoints(r) ==
    /\ pc[r] = "draw" /\ More(r) /\ loc[r].m < hdr[Ftr(r)].cnt
    /\ LET granted == Granted("drawing")
       IN  \E b \in IF granted = {} THEN {Null} ELSE granted :
            /\ free' = free \ {b}
            /\ Goto(r, "drawring", [loc[r] EXCEPT !.data = b])
    /\ UNCHANGED <<hdr, arr, pos>>

\* The points are written to the block and drawn, and the block is freed.  To write them
\* through a null pointer is the end: no next step.
DrawRing(r) ==
    /\ pc[r] = "drawring" /\ loc[r].data # Null
    /\ Freed({loc[r].data})
    /\ Goto(r, "draw", [loc[r] EXCEPT !.data = Null, !.m = @ + 1])
    /\ UNCHANGED pos

DrawNext(r) ==
    /\ pc[r] = "draw" /\ More(r) /\ loc[r].m = hdr[Ftr(r)].cnt
    /\ Goto(r, "draw", [loc[r] EXCEPT !.n = @ + 1, !.m = 0])
    /\ UNCHANGED <<free, hdr, arr, pos>>

Drawn(r) ==
    /\ pc[r] = "draw" /\ ~More(r)
    /\ Goto(r, "freeparts", [loc[r] EXCEPT !.n = 0, !.m = 0])
    /\ UNCHANGED <<free, hdr, arr, pos>>

----------------------------------------------------------------------------
(* freeObject(layer): the destroy() of the layer and of each feature *)

FreePart(r) ==
    /\ pc[r] = "freeparts" /\ More(r) /\ loc[r].m < hdr[Ftr(r)].cnt
    /\ Freed({arr[Ftr(r)][loc[r].m + 1]})
    /\ Goto(r, "freeparts", [loc[r] EXCEPT !.m = @ + 1])
    /\ UNCHANGED pos

FreeName(r) ==
    /\ pc[r] = "freeparts" /\ More(r) /\ loc[r].m = hdr[Ftr(r)].cnt
    /\ Freed({hdr[Ftr(r)].name} \ {Null})
    /\ Goto(r, "freeftr", loc[r])
    /\ UNCHANGED pos

FreeFeature(r) ==
    /\ pc[r] = "freeftr"
    /\ Freed({Ftr(r)})
    /\ Goto(r, "freeparts", [loc[r] EXCEPT !.n = @ + 1, !.m = 0])
    /\ UNCHANGED pos

FreeLayer(r) ==
    /\ pc[r] = "freeparts" /\ ~More(r)
    /\ GiveUp(r, {loc[r].layer})

----------------------------------------------------------------------------

Init ==
    /\ free = Block
    /\ hdr = [b \in Block |-> NoHeader]
    /\ arr = [b \in Block |-> NoArray]
    /\ pos = 1
    /\ pc = [r \in Request |-> "idle"]
    /\ loc = [r \in Request |-> NoLocals]

\* The steps of a getLayer / freeObject under way.
Step(r) ==
    \/ Seek(r) \/ Read(r) \/ MallocZip(r) \/ Unzip(r) \/ CreateLayer(r)
    \/ UnknownGeometry(r) \/ DropData(r)
    \/ CreateFeature(r) \/ LoadPart(r) \/ NextPart(r) \/ NameFeature(r)
    \/ CloseData(r) \/ MallocPoints(r) \/ DrawRing(r) \/ DrawNext(r) \/ Drawn(r)
    \/ FreePart(r) \/ FreeName(r) \/ FreeFeature(r) \/ FreeLayer(r)

Next == \E r \in Request : Step(r) \/ \E l \in Layer : MallocData(r, l)

\* A thread is not suspended for ever inside a call.
Spec == Init /\ [][Next]_vars /\ \A r \in Request : WF_vars(Step(r))
----------------------------------------------------------------------------
(* Properties *)

TypeOK ==
    /\ free \subseteq Block
    /\ hdr \in [Block -> [cnt : 0..Width, name : Block \cup {Null}]]
    /\ arr \in [Block -> [Slot -> Block \cup {Stale}]]
    /\ pos \in 1..NLayer + 1
    /\ \A r \in Request :
        /\ pc[r] = "idle" <=> loc[r] = NoLocals
        /\ loc[r].n \in 0..Width /\ loc[r].m \in 0..Width

\* A part is put right behind those loaded before it: the parts refused so far, if any,
\* left no gap in the array.
PartsInOrder == \A r \in Request : pc[r] = "part" => hdr[loc[r].ftr].cnt = loc[r].m

Destroying(r) == pc[r] \in {"freeparts", "freeftr"}

\* What is left of feature f from part m on: its parts, and its name before that is freed.
FeatureRefs(f, m, named) ==
    {<<f, i, arr[f][i]>> : i \in {j \in Slot : m < j /\ j <= hdr[f].cnt}}
    \cup {<<f, 0, b>> : b \in IF named THEN {hdr[f].name} \ {Null} ELSE {}}

\* Every pointer thread r will still follow or free, as <<where it stands, its target>>.
Refs(r) ==
    LET l == loc[r].layer
        rest == IF l = Null THEN {}
                ELSE {i \in Slot : /\ i <= hdr[l].cnt
                                   /\ Destroying(r) => loc[r].n < i}
        current(i) == Destroying(r) /\ i = loc[r].n + 1
    IN  {<<r, v[1], v[2]>> : v \in {<<"data", loc[r].data>>, <<"zip", loc[r].zip>>,
                                    <<"layer", l>>, <<"ftr", loc[r].ftr>>}
                                   \cap ({"data", "zip", "layer", "ftr"} \X Block)}
        \cup {<<l, i, arr[l][i]>> : i \in rest}
        \cup (UNION {FeatureRefs(arr[l][i], IF current(i) THEN loc[r].m ELSE 0,
                                 ~(current(i) /\ pc[r] = "freeftr"))
                     : i \in {j \in rest : arr[l][j] \in Block}})
        \cup (IF loc[r].ftr = Null THEN {} ELSE FeatureRefs(loc[r].ftr, 0, TRUE))

AllRefs == UNION {Refs(r) : r \in Request}

\* No thread keeps a pointer to anything but a block that is allocated to it, and to no
\* block twice: "a limited number of features" or of parts may be loaded when the heap
\* is short (layer.cpp:77, geo_road.cpp:26) and what is loaded can be drawn and freed.
NothingDangles ==
    LET refs == AllRefs
        targets == {p[3] : p \in refs}
    IN  targets \subseteq Block \ free /\ Cardinality(targets) = Cardinality(refs)

\* Every allocated block is one some thread will free, whichever of its calls failed.
NothingLeaks == Block \ free \subseteq {p[3] : p \in AllRefs}

\* A layer that was asked for is drawn or given up, and freed.
LoadEnds == \A r \in Request : pc[r] # "idle" ~> pc[r] = "idle"

\* The data a thread read is that of the layer it seeked to ("readData: read size bytes
\* of the file from offset", persist.cpp:198).
ReadsItsLayer ==
    \A r \in Request : loc[r].want # 0 /\ loc[r].got # 0 => loc[r].got = loc[r].want
=============================================================================
