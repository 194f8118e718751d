# MMapSDE: models, checks and proofs

MMapSDE draws road maps. The repository holds two engines: `libsw/sde`, a large
single-threaded engine for embedded navigation, and `libsw/swNew`, a map **server**
(an Ice service that renders bitmap tiles) with its **client** view. `libsw/MemoryMngLib`
has the heaps of the old engine, `libsw/FILEDATASTRUCT` its file parsers. This project
models the parts where state is shared, cached or rebuilt step by step: of `swNew` the
server's heap, the loading of layers and the client's view; of the old engine its
boundary-tag heap and its route search.

## 1. Inventory

| Part | State | Operations | What is hard | What makes it correct |
|---|---|---|---|---|
| Memory heap `swNew/memheap` | list of bucket sets, per bucket a bitmap and `_freenum`, map from id to bucket | `createBucketSet`, `malloc`, `free` | shared by up to 100 dispatch threads with no lock; bitmap rounded to bytes; ids and indices of 8 and 16 bits | bitmap and count agree; a block has one owner; a request is refused only if nothing fits; smallest fitting block first |
| Layer loading `persist.cpp`, `layer.cpp`, `geo_*.cpp`, `object.cpp` | objects in heap blocks that point to each other; the position of the map file | `getLayer`, `getLayerData`, `readData`, `loadFeatures`, `freeObject` | any allocation, the read and the decompression may fail; the heap and the file are shared by the threads | no dangling pointer, no leak, no double free; the call ends; the bytes are the layer's |
| Client view `view_end.cpp`, `rpc_client.cpp` | two bitmaps, what the first shows, what is wanted | `render`, `sizeChanged`, `setCenterPoint`, `setScaleLevel`, `rotate` | long sequences of small moves in a bitmap that is never redrawn as a whole; failed requests | after `render` the bitmap shows what was wanted |
| Server view `view.cpp`, `render.cpp` | size, center and scale of the tile being drawn | `getBitmapTiles`, setters, `heartBeat` | one view object may serve several calls at once | each tile is drawn with its own request's values |
| Server, sessions `server.cpp` | list of views, time of the last heart beats | `init`, `createView`, `getBitmapTiles`, `evictView` | eviction against calls in progress, eviction switched off | a view in use is not removed; an abandoned one is |
| Breadth grid `map.cpp` | none (computation) | `getBreadthMap`, `getBreadthes`, `getBreadthRect` | rounding and corners of the grid | the cells returned cover the rectangle |
| Boundary-tag heap `MemoryMngV3A.cpp` | blocks with headers, ring of free blocks, break | `newmalloc`, `newfree`, `ResetHeap` | splitting, joining, the last block, the rover | blocks tile the heap, no two free neighbours, ring complete; refused only when no gap is long enough |
| Route search `GIS_MapBreadthNetwork.cpp`, `IGIS_MapNetwork.cpp` | open and closed list, marks in the vertices, ring of loaded sheets | `CalculateNavigatePathShortLeg`, `CalculateOptimalPathRut`, `CalculateNetworkNode`, `ReadBreadthNetwork`, `ClearNWBreadth` | pointers between lists, vertices and sheets that come and go; limits; borders; several legs | found is a drive, not found does not exist, nothing in use is freed, it ends |
| Cell pool `MemoryMng2V1.cpp` | free list of cells | `newmalloc`, `newfree`, `ResetHeap` | no check on free | a cell is free or owned |
| Rest of the old engine `sde` | map data caches, views, queries, guidance | many | size (64,000 lines) | cache replacement, geometry |
| `base`, `image`, `swbox`, `FILEDATASTRUCT`, `DEBUGFUNCTIONLIB`, `SDETEST`, zlib, libjpeg | - | decoding, pixels, GUI, logging | - | not modelled: data conversion, toolkit or third-party code |

**How they interact.** The client's `render` asks for tiles over Ice. A dispatch thread of the
server makes a view for the call and draws each tile: for every layer and every grid cell of the
tile it loads the layer from the map file into the heap (`getLayers`), draws it and frees it. So
at any time as many layers are in the heap as threads are drawing; the heap engine, and the file
object of each map, are the state the threads share. The old engine runs in one thread: a route
is calculated leg by leg, each search asks for sheets of the road network as it crosses their
borders, and a sheet's vertices and roads come from the heaps of `MemoryMngLib`.

`PROJECT.json` lists the hazards of this code line by line, those of parts that are not
modelled included.

## 2. Modules

| Module | Models |
|---|---|
| `BlockPool` | what an allocator promises: a pool of blocks that grows, each block with one owner, a request refused only when no free block is large enough |
| `MemHeap` | the heap, one call a step; implements `BlockPool` |
| `MemHeapProofs` | theorems about `MemHeap` |
| `MemHeapThreads` | the heap, one memory access a step, for several threads; with one thread implements `MemHeap` |
| `MemHeapThreadsProofs` | theorems about `MemHeapThreads`: what a lock would restore |
| `LayerLoad` | threads that load, draw and free layers, one heap or file call a step |
| `LayerLoadProofs` | theorems about `LayerLoad` |
| `ViewEnd` | the client view and its tile cache |
| `ViewEndProofs` | theorems about `ViewEnd` |
| `RegionPool` | what a heap of bytes promises: disjoint regions, little waste, a request refused only when no gap is long enough |
| `BoundaryHeap` | the boundary-tag heap, one call a step; implements `RegionPool` |
| `BoundaryHeapProofs` | theorems about `BoundaryHeap` |
| `RouteSearch` | the search of a short leg, one road or border a step, with the sheets it loads |
| `RouteSearchProofs` | theorems about `RouteSearch`: its lists, marks and sheets |
| `RouteDriveProofs` | the theorem about the drives it finds |
| `RouteReachProofs` | the theorem about the searches that find nothing |
| `MC...` | values for TLC |

### MemHeap

`used[b]` is the set of bits set in bucket `b`'s `_bitmap`, `freenum[b]` its `_freenum`,
`created` the length of `_buckset_list`, `held[o]` the block number a caller's object keeps.
The scan is by its result: `FirstClear(b)` is the first clear bit in the bitmap *with its
spare bits*, `Marks(b)` the early return on `_freenum == 0`, `Serves(b)` whether `ptr()`
then answers a pointer. The two nested loops over sets and buckets are the order `Before`;
`Asked(n)` are the buckets visited, `Winners(n)` the one that answers. Buckets are numbered
as created; `BucketId` is the byte they are registered under, with its wrap-around, and
`Lookup` what `free` and `ptr` find under it.
Callers free an object once: that they do is checked in `LayerLoad`.

### MemHeapThreads

Every load and store of `_freenum` and of a bitmap byte is a step; `pc[t]` names the next
one and `job[t]` holds the locals of the call. Marking a bit loads the byte and stores it.
With one thread `CallsAreAtomic` shows the steps to implement `MemHeap`: a call takes effect
when it counts, so `UsedBefore` hides a bit that is set and not yet counted.

### LayerLoad

A block holds an object: `hdr[b]` has its `_ftrcnt` and `_name`, `arr[b]` the array of
pointers behind it. The constructors leave that array as it is, so its entries are `Stale`
until written. `Fits[kind]` are the blocks large enough for an object of a kind; `malloc`
answers the first of them that is free or refuses. Each action is one call that other
threads can come in between: the seek, the read, each allocation, each free. `loc[r]` are
the locals; `want` is the layer asked for and `got` the one whose bytes were read.
The heap is atomic here. Its own race is `memheap_race`. Reading values from the loaded
bytes always succeeds, as in `base.cpp`, whose check of the bounds is commented out (so the
returns of `false` behind it, which free the half-read feature, are never taken).
`Named[l]` says whether the features of a layer have names; a refused name is not missed.
A layer of a geometry type the code does not know is freed with its data (`UnknownGeometry`,
`DropData`). Between loading and freeing, a layer of polygons is drawn: each ring in a block of
its own (`MallocPoints`, `DrawRing`), of which nobody looks whether it was granted. A refusal is
written through a null pointer and ends the program; the model's thread then has no next step.

### ViewEnd

`cache[p]` and `tmp[p]` say for each pixel of `_cachedc` and `_tmpdc` which place of the map,
at which scale and rotation, it shows. `center`, `scale`, `rotate` are `_props.centerXY`,
`_props.scale`, `_rotate`; `newCenter`, `newScale`, `newRotate` are what the setters note.
`Render` has the code's branches in their order: the bitwise test for an empty bitmap,
nothing new, whole redraw (`Refresh`), a move of less than a pixel, a move too far, and
`Pan` (shift into `tmp`, request the tiles of `Exposed`, copy back). What the server draws is
`Drawn`, from `swMapView::getBitmapTiles` and `swMapRender::transform_point`; rotations are
quarter turns, which are exact on pixels. Blitting to the window is output and left out.

### BoundaryHeap

A heap is a record: the header fields as functions of the address of the header, and the
manager's members (`first`, `last`, `rover`, `brk` for `last_valid_address`). Sizes and
addresses are in units of 8 bytes, to which the code rounds every size; `used` is the low
bit of the stored size. Each private helper is an operator from heaps to heaps, composed as
the calls are: `Pull`, `Insert`, `JoinFree`, `Cut`, `Extend`, `FreeLast`, `FreeInner`.
`AllocatePartial`, `AllocateWhole`, `ExtendHeap` and `Refuse` are the ways out of
`newmallocActual` in their order. Its loop along the ring is `NextFit`: the blocks the rover
comes by are `Visited`, the least set with the rover that follows `nextFree` past every
block that is too small, and the one large enough is the answer. Fields
whose memory belongs to a caller or is past the break are `Wild` (a pointer) or 0 (a size),
so a use of one shows. `ResetHeap` takes the callers' pointers too: the dispatcher clears
its tables before it resets.

### RouteSearch

`open` and `closed` are the lists of nodes, heads first; a node's `parent` is its place in
`closed`, as nodes are never taken out of it during a leg. `status[v]` is
`byStatusOfNormalSearch`, `posOHead[v]` says that the vertex has a `POSITION`; `PlaceOf` is
what it points to, so a stale one cannot go unnoticed: `OpenIndexed` says there is none.
`cache` is what `m_pVtxList` and `m_pRutList` hold, with the load counters (`counted`) and
the sheets in the order of `m_pELBID` (`ring`). `stage` is the place in the loop of
`CalculateNavigatePath_SingleSourceSearch`: looking at the head of `open`, crossing a border,
or at road `next` of the vertex being expanded; then `found`, `disconnected`
(`ERROR_NETWORK_DISCONNECT`), `failed` (another error), or `undefined` where the code reads a
destination that was freed. `Arrive` to `Disconnect` are the head of
`CalculateOptimalPathRut` and of the loop, `LoadFails`, `NothingBehind` and `Cross` its
branch for borders, `PassOver` and `Follow` one turn of its loop over roads; `MarkFails` is the
throw of `GetVtxSInfo` when there is no memory for a vertex's marks. `NextLeg`
deletes the lists as `CLocalNodeListMng` does and starts on the next way point with the sheets
that are loaded; after `LegsLoaded` legs (`AllFreed`: the code's five) `NextLegReloaded` starts
from an empty cache instead, as `ClearNetwork` frees everything. The code does so after 500 km
as well.

The network is data: `Init` chooses one of `Maps`. Its `sheets` are those that can be read: a
sheet that is missing and one that lies outside the route's buffer, which `ReadBreadthNetwork`
passes over with the same answer, are both left out of it. A vertex on a border exists once in each
of the two sheets; `Abut[v]` is the road that goes on in the other one and `Twin` the end of
that road that is the same place. Costs are whole numbers given per road; which limits
with hours are in force is left open. Directions are as `GetNextRutVtx` reads them, 1 from
start to end; the comment at `GIS_NetworkRut.h:210` has 1 and 2 the other way round.

## 3. Runs

| Run | Expect | Instance | Shows |
|---|---|---|---|
| `memheap` | pass | 3 buckets in 2 sets, 5 blocks, 6 objects, 3 sizes | books, ownership, best fit, refinement of `BlockPool` |
| `memheap_steps` | pass | 1 thread, 4 blocks, 5 objects | the accesses add up to atomic calls |
| `memheap_race` | violation of `NoSharedBlock` | 2 threads, 2 objects | two threads get one block |
| `layer_load` | pass | 2 threads, 4 layers (points; a road; a polygon; unknown), 17 blocks, compressed | no dangling pointer, no leak, every call ends |
| `layer_lines` | violation of `NothingDangles` | 2 threads, one road each, 2 blocks for lines | a refused line leaves a hole |
| `layer_polygons` | violation of `LoadEnds` | 1 thread, a polygon of two rings, 1 block for rings | the reader starts over for ever |
| `layer_file_race` | violation of `ReadsItsLayer` | as `layer_load` | seek and read of two threads interleave |
| `view_pan` | pass | windows of 2x2 and 3x2 tiles, 2 scales, 2 rotations, 9 centers | the bitmap shows what was wanted |
| `view_vertical` | violation of `RenderShows` | one move straight down | no tile is requested |
| `view_window` | violation of `RenderShows` | a window of 1024 by 768 | it is never drawn |
| `boundary_heap` | pass | 14 units, blocks of 2, 3 and 4 | tiling, joining, the ring, refinement of `RegionPool` |
| `route_search` | pass | 10 vertices, 8 roads, 3 sheets, a ring of one sheet, 36 networks, 3 legs | lists and marks agree, nothing in use is freed, nodes and routes are drives, "not found" is true, every search ends |

**Bounds.** *memheap*: one object more than blocks, so that requests are refused; block sizes 1
and 2 and requests of 1, 2 and 3 bytes, so that a request fits both sets, the second or none;
both bitmaps have spare bits (4 bits for 2 blocks, 2 for 1); the id range is 4 and three buckets
use all but the null id. *memheap_steps*: two bits a byte and three blocks, so that a bitmap has
a full byte to skip and a byte that is half used; five objects for four blocks. *layer_load*:
there are data blocks for both threads to fill a layer at once, and data, feature and name
blocks run out while they do, as do blocks for the second line of a road. The first line is
never refused: a line that is refused before one that is stored is the violation of
`layer_lines`, so the passing run is about all the other refusals. Rings and the blocks they are
drawn in are never refused either: the one is the violation of `layer_polygons`, the other a
hazard of its own (`geo_polygon.cpp:66`), with which `LoadEnds` would fail. That the run keeps
to them is the invariant `PartsInOrder`: as long as parts are granted, each is put right behind
those before it. `LayerLoadProofs` has it as a hypothesis, and proves it of files whose roads
and polygons have one part; with the blocks of `layer_lines` or `layer_polygons` it fails.
*view_pan*: two by two tiles is the least with a tile that stays, three by two lets a move
uncover one column or two; scale 1 shows twice as much as scale 0, so one center move is two
pixels or one; the last row of centers is too far to keep anything. One pixel of the model is 75
by 50 of the screen, so sizes keep the 150 by 100 of a tile in the bitwise test. The limits of
what passes are `WithinLimits`, which TLC evaluates for this instance (`MCViewEndPan`). They are
in the moves: whole pixels, none straight up or down that keeps part of the bitmap
(`view_vertical`), none in a rotated view that keeps part of it (the code shifts and requests as
if it were not rotated), and every request answered. `Lossy` and other moves make `RenderShows`
fail at once; they are listed as hazards.

*boundary_heap*: seven of the smallest blocks fit, so a
free block can have free or used blocks on both sides, be first or last; the ring has up to
three blocks; free blocks are given whole, cut, and passed over; requests are refused with
free memory left in pieces. Header sizes are in the proportions of the release build.
*route_search*: the three sheets form a circuit, so each border is crossed from both sides and
a sheet is come back to; there are parallel roads of different cost (an open node is replaced),
a dead end, a road that spans a sheet, and a vertex too far away. A ring of one sheet
forgets on nearly every border; the code's has 768 places (`GIS_MapBreadthNetwork.h:17`),
which a route of several long legs can fill. The second of the three legs starts with what the
first left loaded and marked, the third after everything was freed. The networks vary directions,
roads inside junctions, residential areas, limits and missing sheets, a few at a time. They
satisfy `LimitsStayInside` and `BorderPlaces`, the hypotheses of the theorems about
`FoundIsADrive` and `DisconnectIsReal`, which the run evaluates.

Every passing run but `route_search` may go on for ever, and deadlock is checked in it;
`route_search` stops after its last leg.

**Fairness.** `RouteSearch` has weak fairness of `SearchStep`, the turns of a loop in one thread
that waits for nothing; whether there is another leg is up to the caller. `SearchEnds` says that
the loop ends. It is checked for the 36 networks only, and in none of them do roads inside a
junction form a circuit: in a network with such a circuit, a search whose destination cannot be
reached goes around it for ever (`GIS_MapBreadthNetwork.cpp:2709`). `LayerLoad` has weak
fairness of `Step(r)` for each thread. A dispatch thread in a call runs on (nothing in it waits
for a lock or for another thread), and starting a call (`MallocData`) is not fair. `LoadEnds`
therefore says that what the code does itself never keeps a call from ending.

## 4. Proofs

`MemHeapProofs` proves, for every number of sets, buckets, blocks and objects:

| Theorem | Says |
|---|---|
| `TypeCorrect` | `Spec => []TypeOK` |
| `BooksAlwaysBalance` | `Spec => []BooksBalance` |
| `BlocksOwnedOnce` | `Spec => []MarkedIffHeld` |
| `SortedMeansBestFit` | `SortedSets /\ BitmapCovers => (Spec => BestFit)` |
| `ImplementsPool` | `BitmapCovers => (Spec => PoolSpec)` |

Assumptions (`HeapAssumption`, `NoHandleAssumption`, evaluated by TLC in `memheap`): the
limits the headers state, fewer buckets than ids and no more blocks in a bucket than indices
(`memheap.h:38`, `bucket.h:36`), and that the two answers that are not blocks are not blocks.
`SortedSets` and `BitmapCovers` are not assumptions of the model but hypotheses of the two
theorems that need them: the code does not enforce either. `etc/mapserv.xml` satisfies both.

Argument. None of the three invariants is inductive alone. The count being right does not keep
a spare bit clear unless some block's bit is clear when the count is not zero, which needs the
count; that a freed block was marked, so that counting it keeps the books, needs the ownership;
that ownership survives `malloc` needs the first clear bit not to be held by anybody. The
inductive invariant is `IInv == TypeOK /\ BooksBalance /\ Marked`: the type, the books and the
ownership, this last with the bucket lookups of `MarkedIffHeld` resolved. It holds initially
(`InitIInv`), each action keeps it (`CreateKeepsIInv`, `MallocKeepsIInv`,
`MallocFailsKeepsIInv`, `FreeKeepsIInv`, joined in `NextKeepsIInv`), on two lemmas that the
`Asked` buckets mark the winner's bit (`WinnerAloneMarks`) or none (`NoWinnerNoMarks`), and it
implies each property. `LeastElement` gives the ends of the scans; `LoopOrder` turns the loops'
order into the order of bucket numbers while ids do not wrap. The refinement maps
`createBucketSet` to `Grow`, `malloc` to `Take` or `Refuse` and `free` to `Release`.

`MemHeapThreadsProofs` proves, for every number of threads as well:

| Theorem | Says |
|---|---|
| `LockMakesCallsAtomic` | `ThreadSpec /\ []CallsDoNotOverlap => CallsAreAtomic` |
| `OneThreadIsAtomic` | with one thread, `ThreadSpec => CallsAreAtomic` |
| `LockKeepsBlocksApart` | `ThreadSpec /\ []CallsDoNotOverlap => []NoSharedBlock` |
| `LockImplementsPool` | `BitmapCovers => (ThreadSpec /\ []CallsDoNotOverlap => Books!PoolSpec)` |

`CallsDoNotOverlap` is what the mutex `_mutex_bucket`, declared and never taken, would ensure;
`memheap_race` is a behaviour without it, so the hypothesis is needed and the missing lock is
all that is wrong. `CountAssumption` (evaluated in both runs of the module) says that a byte is
wide enough for `_freenum`.

Argument. A call takes effect at its last access, the store of `_freenum`; until then the
bitmap is read as `UsedBefore`, so that a bit set and not yet counted does not show. `ThreadInv`
is the inductive invariant of `MemHeapProofs` under that mapping, and what the locals of the
one call under way say: every bucket passed had nothing left (`PassedForNothing`), every bit
passed in this one was set (`ScannedInOrder`), the block being freed is the one the handle names
(`FreesItsBlock`). So the scan ends at the block that `MemHeap`
names (`ScanFindsWinner`, `StoreCountIsMalloc`) or at none (`MallocNullIsMallocFails`), and the
theorems of `MemHeapProofs` apply to the mapped heap.

`BoundaryHeapProofs` proves, for every size of the heap, of the headers and of the requests:

| Theorem | Says |
|---|---|
| `TypeCorrect` | `Spec => []TypeOK` |
| `AlwaysTiled` | `Spec => []Tiled` |
| `AlwaysJoined` | `Spec => []Joined` |
| `AlwaysFreeRing` | `Spec => []FreeRing` |
| `ImplementsPool` | `Spec => PoolSpec` |

`BoundaryAssumption` (evaluated by TLC in `boundary_heap`) says that every request, rounded
up with its header, leaves room for the header of a free block, which `newmallocActual`
does not check but holds for the sizes of both headers, and that `Null` and `Wild` are no
addresses.

Argument. `IInv` is the conjunction of the four properties; none is inductive alone, as what
a helper does to the tiling depends on the links it follows being those of real blocks, and
that a join keeps the ring depends on the header it reads belonging to a free
neighbour. A ring is stated without induction: links are inverse to each other and no proper
part of the free blocks is closed under them (`OneCycle`); `PullRing` and `InsertRing` show
that taking a block off and putting one behind the rover keep that. `MergeTiles`, `CutTiles`,
`ExtendTiles` and `ShrinkTiles` are the four ways the tiling changes. Each helper has a lemma
from these (`PartialSound`, `WholeSound`, `ExtendSound`, `FreeLastSound`, `FreeInnerSound`), and
`NextKeepsIInv` joins them. For the refinement, `NoFitMeansSmall` shows that a search that
finds nothing has seen every free block and that all are too small; as no two are neighbours,
a vacant region lies in one of them or past the break (`RefusedMeansFull`), and there it
does not fit.

`RouteSearchProofs` proves, for every network, cost, length of the ring of sheets and number
of legs:

| Theorem | Says |
|---|---|
| `TypeCorrect` | `Spec => []TypeOK` |
| `AlwaysIndexed` | `Spec => []OpenIndexed` |
| `AlwaysKept` | `Spec => []NodesKept` |
| `AlwaysLead` | `Spec => []ParentsLead` |

`NetworkAssumption` says that the network is one (roads end at vertices and are listed at both
ends, which lie in one sheet), `BorderAssumption` that the two vertices of a place on a border
name each other's roads; the file format is meant to have it so, and `route_search` evaluates
both.

Argument. That nothing in use is freed needs that every listed vertex was *seen* by the search,
since `ClearNWBreadth` spares those; that needs the marks, whose agreement with the open list
needs that a vertex is offered only while it agrees, and that clearing the lists between legs
leaves none behind. A leg that starts from an empty cache is a beginning like `Init`: both are
`Begins`, for which the invariant is shown once (`BeginsInv`). `Inv` is the conjunction: type,
order and uniqueness of the list, `Marked` (the marks) and `Seen` (marked, loaded and an end of
its road). The start is the exception throughout, for it is put in the list without a mark:
until the first node is closed (`Fresh`) the list is that node and no vertex has a place in it.
`InsertNodePlaces`, `InsertKeeps` and `RemoveKeeps` are the facts about lists, `ClearKeeps` and
`ReadKeeps` those about sheets, `OfferKeeps` joins them for `CalculateNetworkNode`; then each
action keeps `Inv`. `ParentsLead` is inductive with `Inv` and `InLoop`, which says that the
vertex being crossed from is on a border and the one being expanded is not, as the two branches
follow roads differently.

`RouteDriveProofs` proves `AlwaysADrive`: `LimitsStayInside => (Spec => []FoundIsADrive)`. The
hypothesis is there because the code looks up no limit when it crosses a border
(`GIS_MapBreadthNetwork.cpp:2722-2783`): where a limit applies to the road behind it, the answer
may break it. It says that no drive over a junction's own roads leads from the first road of
a limit to the border that the second lies behind.

Argument. The code's two loops along parents are recursive functions in the model, which say
nothing until they are shown to exist: `LastOutsideExists` and `WayExists`, from parents going
back (`Backwards`), by the least place where they would not. Closing a node only adds to what
they are defined on (`LastOutsideStays`, `LimitStays`). `WayIsChain` and `DriveIsChain`
turn the recursion into a statement about neighbours, and `ChainLimit` says that the last road
outside junctions, followed along a drive, is what `LimitingRoad` looks up at its end. The
invariant `LimitsKept` says that no node on the lists was reached against a limit; at a border
this rests on `LimitEncloses` and `BorderIsFree`: a drive from a limited road is still within
the set that `LimitsStayInside` names, and the border is not. `AtDestination` adds the road of
the way point. `FoundDrive` puts the answer together from these and `ParentsLead`.

`RouteReachProofs` proves `AlwaysReal`: `BorderPlaces => (Spec => [](start.vtx \notin Edge /\
dest.vtx \notin Edge => DisconnectIsReal))`. `BorderPlaces` is about the file: a vertex on a border
has one road, and no other place on the border joins that road to the same road behind it.
That both way points lie inside their sheets is needed: a vertex is closed once, with
the road it was first reached on, and not left over that road. From a start on a border, a
drive that must turn around in the sheet behind it and come back is therefore missed; and a
destination on a border is looked for on its other side only, and missed if a drive can only
come to it from this one. From a start inside a sheet the drive needs no such turn: what is
behind it was already offered where it was first passed, which is what the proof shows.

Argument. As long as the ring forgot nothing, all of a loaded sheet is loaded (`Loaded`), so a
road that may be driven is one that `GetNextRutVtx` finds (`SheetsLoaded`, `LeadsNext`).
`Expanded` is the core: wherever the loop has looked at a road (`Done`) from a closed
node, and the road leads on, not back, and not too far, the vertex it leads to is on a list.
It needs that what is offered is listed or was closed before (`OfferListed`, `ClosedListed`), that
nothing leaves the lists (`StepListed`), and that the road behind a border is found by the
right twin (`BorderTwin`). When the open list is empty, what is closed, with the other sides of
its border vertices (`Known`), is closed under every road: over the road a node was reached on
back to its parent (`ParentKnown`, which only the start does not have, `Rooted`), over all others
by `Expanded` (`KnownCloses`). So all that `Reached` collects is known (`ReachedExists`,
`ReachedKnown`), and the destination is not (`Underway`).

`LayerLoadProofs` proves, for every number of threads, layers, features and blocks, whatever
sizes are large enough for what, with and without compression:

| Theorem | Says |
|---|---|
| `TypeCorrect` | `Spec /\ []PartsInOrder => []TypeOK` |
| `NeverDangles` | `Spec /\ []PartsInOrder => []NothingDangles` |
| `NeverLeaks` | `Spec /\ []PartsInOrder => []NothingLeaks` |
| `SimpleIsSafe` | if roads and polygons have one part, or there are only points, `Spec => [](NothingDangles /\ NothingLeaks)` |
| `SimpleInOrder` | in the same files, `Spec => []PartsInOrder` |
| `AloneReadsItsLayer` | with one thread, `Spec => []ReadsItsLayer` |

`LoadAssumption` (evaluated by TLC in `layer_load`) is about the map file: no layer has more
features, and no road or polygon more parts, than there is room for in their arrays, which are
allocated for just as many. `PartsInOrder` is a hypothesis because the code does not ensure it:
it says that a part is put right behind those loaded before it, so no part was refused before
one that is granted. `layer_lines` shows a pointer that dangles where it fails. So the first
three theorems say that this is the only way: a refusal of anything else, a short read and a
failed decompression, in any thread and at any moment, are cleaned up after. In files that
satisfy `Simple` it cannot fail and is not assumed.

Argument. `NothingDangles` counts pointers over all threads, so it is stated anew as ownership:
`Owns(r, t, x, y, b)` says that thread `r` will free block `b` through the pointer at `y` of
`x`, of the kind `t`. `IInv` has five parts: the types; `Shape`, what a thread holds at each
step of the call (a feature it is filling, a second buffer it unzips to, a ring it draws);
`Clean`, that free blocks have no count and no name left, so that a new feature owns nothing
yet; `OneOwner`, that a block is owned by one thread through one pointer; and `Exact`, that a
block is allocated just if it is owned. None holds without the others: a thread that frees what
its arrays name leaves other threads' objects alone because owners differ, and owners stay
different because what is granted was free and therefore nobody's. `OthersKeep` shows this once
for all actions, from `Change`, which says what the moving thread owns afterwards: `TookLocal`,
`GaveUp`, `Passed`, `ReleasedOne`, `LayerKept` and `PartLoaded` are the shapes of such a change,
and there is a lemma for each action (joined in `NextKeeps`). `RefsAreOwned` shows that `Refs`
are what is owned. As owners are unique, pointers and their targets are then equally many.
`AloneReadsItsLayer` needs an invariant of its own, `AtItsLayer`: between seek and read the file
stands at the wanted layer.

`ViewEndProofs` proves, for every size of tiles and windows, every map and number of scales:

| Theorem | Says |
|---|---|
| `TypeCorrect` | `Spec => []TypeOK` |
| `AlwaysShows` | `WithinLimits => (Spec => []RenderShows)` |

`ViewAssumption` is about the values: tiles are not empty, a pixel is a positive number of map
units at each scale, and there are at most 240 scales, as the code writes 0xf0 for none.
`WithinLimits` is a hypothesis because the code is wrong outside it, and every part of it has a
run or a hazard that says so: a window whose width and height, rounded to tiles, have no bit in
common (`view_window`), moves straight up or down (`view_vertical`), of part of a pixel or in a
rotated view, and requests that fail (`Lossy`).

Argument. `Shows` says of the bitmap what `RenderShows` says after a render, with the values of
the last one instead of those wanted; `OneMove` that since then the center was moved once, by
a move of `Moves`, and `UpToDate` that a render leaves nothing new. A whole redraw keeps `Shows`
because whole tiles cover the window (`TilesCover`, `RefreshShows`). For a pan every pixel is
one of two: its place was shown before and is shifted to where it belongs (`ShiftIsAway`,
`KeptFits`), or it is in a tile that is requested (`UncoveredTile`, `RequestFits`); truncation
and rounding of sizes to tiles are the lemmas about division.

Only model-checked: liveness (`LoadEnds`, `SearchEnds`), which is out of the prover's reach, and
`DisconnectIsReal` for way points on a border, which the networks of `route_search` have and
which holds in them but not in all. The two refinements and every safety invariant of the
passing runs are proved, under the hypotheses named above.

## 5. Findings

Each violation run quotes a statement of the repository and shows the code to contradict it;
`PROJECT.json` has the quotes.

1. Two threads are given the same heap block (`bucket.cpp:59-61`, no lock).
2. A road with a refused line draws and frees an entry nobody wrote (`geo_road.cpp:46`).
3. A polygon with a refused part loops for ever (`geo_polygon.cpp:44`).
4. Two threads read each other's layers from the shared file (`persist.cpp:202`).
5. A vertical move leaves uncovered rows undrawn (`view_end.cpp:308-406`).
6. A 1024 by 768 window is never drawn (`view_end.cpp:204`).

## 6. Hazards without a property

`PROJECT.json` gives the reason for each. The most important: a destination whose sheet the
ring forgets before it is reached is read after it was freed (the model has the state and
stops there); `goto step1` of the search from both ends counts nothing; the way out of a
residential area unmarks nodes that are still needed; junction roads that form a circuit keep
a search that cannot arrive going for ever; two calls on one view of the server
overwrite each other's tile; a polygon is drawn through a null pointer when the heap is short;
`ClearNetwork`
(`GIS_MapBreadthNetwork.cpp:1006`) frees its arrays and keeps their lengths, so a sheet
outside the route's buffer is looked up in them later.

## 7. Not modelled

- **Sessions and eviction of the server.** The client view's tiles are drawn by a view made for
  the call. The views that `createView` registers for remote calls have a `getBitmapTiles` of
  their own, which two calls can be in at once (`view.cpp:223`, listed as a hazard); no client in
  this repository makes such calls. The evictor thread is never started: the list only grows.
- **The rest of the routing.** Way points in residential areas, the searches from both ends
  and over trunk roads, `GIS_MBBNetwork`: variants of the loop in `RouteSearch` with further
  lists that share its helpers; the second search direction doubles every mark.
- **Memory dispatch of the old engine.** Its retry after a reset rests on exceptions that
  are commented out and a flag nobody sets.
- **Cell pools, breadth grid, queries, drawing, parsers, images, controls, vendored code.**
  No state beyond a cursor, or floating-point geometry, or other people's code.

The repository has 184,000 lines of implementation, by far most of it of these last kinds; the
mapped lines are a small share of them and cover the parts named in section 2.
