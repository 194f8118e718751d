---------------------------- MODULE RouteSearch ----------------------------
(***************************************************************************)
(* The old engine's search for a drive between two way points              *)
(* (CGIS_MapBreadthNetwork, short legs): A* over the vertices of the road  *)
(* network, with a list of open nodes sorted by estimate, a list of closed *)
(* ones, and the state of the search kept inside the vertices.  The        *)
(* network is cut into sheets, loaded when the search crosses their border *)
(* and remembered in a ring; a full ring takes from the sheet it forgets   *)
(* what the search does not mark as used.                                  *)
(*                                                                         *)
(* Costs are whole numbers; the weight of a turn, toll and the user's      *)
(* preferences are part of a road's cost.  Positions are on a line.        *)
(***************************************************************************)
EXTENDS Integers, FiniteSets, Sequences, SequencesExt

CONSTANTS
    Vertex, Road, Sheet,
    Ends,           \* Ends[r]: the start and the end vertex of a road
    RutList,        \* RutList[v]: the roads at v, in order
    SheetOf,        \* SheetOf[v]: the sheet of a vertex, and of its roads
    Abut,           \* Abut[v]: the road that goes on behind the border, for a vertex on it
    Cost,           \* Cost[r]: what a road costs
    Place,          \* Place[v]: where a vertex is
    MaxDis,         \* vertices further from the destination are left out (m_dbMaxDis)
    MaxSheets,      \* length of the ring of loaded sheets (m_nMaxELBNum)
    Maps,           \* the networks considered, see Init
    LegsLoaded,     \* legs after which all sheets are freed (5: nWPNum > 5)
    WayPoints,      \* bound: the roads way points lie on
    Legs            \* bound: the number of legs of a route

Edge == DOMAIN Abut

RoadsAt(v) == ToSet(RutList[v])

RoadSheet(r) == SheetOf[Ends[r][1]]

ASSUME NetworkAssumption ==
    /\ Vertex \subseteq Nat \ {0} /\ Road \subseteq Nat \ {0}
    /\ Ends \in [Road -> Vertex \X Vertex] /\ SheetOf \in [Vertex -> Sheet]
    /\ RutList \in [Vertex -> Seq(Road) \ {<<>>}]
    /\ \A v \in Vertex : RoadsAt(v) = {r \in Road : v \in {Ends[r][1], Ends[r][2]}}
    /\ \A r \in Road : SheetOf[Ends[r][1]] = SheetOf[Ends[r][2]]
    /\ Edge \subseteq Vertex /\ Abut \in [Edge -> Road]
    /\ Cost \in [Road -> Nat] /\ Place \in [Vertex -> Int]
    /\ MaxDis \in Nat /\ MaxSheets \in Nat \ {0} /\ WayPoints \subseteq Road
    /\ LegsLoaded \in Nat \ {0} /\ Legs \in Nat \ {0}
    /\ Maps \subseteq [dir : [Road -> 0..3],          \* both ways, forwards, backwards, closed
                       junction : SUBSET Road,        \* GetRutType() = 4: inside a junction
                       residential : SUBSET Road,     \* GetRutLevel() < 1
                       always : SUBSET (Road \X Road),\* <<r, s>>: from r no drive may enter s
                       hours : SUBSET (Road \X Road), \* the same, at some hours
                       sheets : SUBSET Sheet]         \* in the file and in the route's buffer

VARIABLES
    net,            \* the network
    start, dest,    \* m_pDestRut and pEndVtx, and the same for the start
    open, closed,   \* lists of nodes; a node's parent is its place in closed
    status,         \* byStatusOfNormalSearch: 0 never seen, 1 open, 2 closed
    posOHead,       \* the vertex knows the place of its node in open
    cache,          \* what is loaded
    stage,          \* where CalculateNavigatePath_SingleSourceSearch is
    next,           \* the next road of the vertex being expanded
    leg

vars == <<net, start, dest, open, closed, status, posOHead, cache, stage, next, leg>>

None == 0

Min2(S) == CHOOSE x \in S : \A y \in S : x <= y

\* Mutant: the sign is kept.
SignedDistance(v, w) == Place[v] - Place[w]

Distance(v, w) == IF Place[v] < Place[w] THEN Place[w] - Place[v] ELSE Place[v] - Place[w]

----------------------------------------------------------------------------
(* Loaded sheets.  cache.ring: the sheets loaded by this search and the last, oldest     *)
(* first; a sheet's load counter never returns to 0, so none is in it twice.             *)

\* Mutant: closed vertices are forgotten too.
ClearAllButOpen(c, sheet, st) ==
    LET kept == {v \in c.vtx : SheetOf[v] = sheet /\ (st[v] = 1 \/ v \in Edge)}
    IN  [c EXCEPT !.vtx = {v \in c.vtx : SheetOf[v] # sheet} \cup kept,
                  !.rut = {r \in c.rut : RoadSheet(r) # sheet \/ \E v \in kept : r \in RoadsAt(v)}]

\* ClearNWBreadth: keeps the vertices a search has seen, those on the border, and their
\* roads.
ClearNWBreadth(c, sheet, st) ==
    LET kept == {v \in c.vtx : SheetOf[v] = sheet /\ (st[v] # 0 \/ v \in Edge)}
    IN  [c EXCEPT !.vtx = {v \in c.vtx : SheetOf[v] # sheet} \cup kept,
                  !.rut = {r \in c.rut : RoadSheet(r) # sheet \/ \E v \in kept : r \in RoadsAt(v)}]

\* ReadBreadthNetwork of a sheet that can be read.
ReadBreadthNetwork(c, sheet, st) ==
    IF sheet \in c.counted THEN c
    ELSE LET full == Len(c.ring) >= MaxSheets
             room == IF full THEN ClearNWBreadth(c, c.ring[Len(c.ring) - MaxSheets + 1], st)
                     ELSE c
         IN  [ring |-> Append(c.ring, sheet),
              counted |-> c.counted \cup {sheet},
              vtx |-> room.vtx \cup {v \in Vertex : SheetOf[v] = sheet},
              rut |-> room.rut \cup {r \in Road : RoadSheet(r) = sheet}]

----------------------------------------------------------------------------
(* Roads *)

\* Mutant: one-way roads are driven both ways.
EitherWay(v, r, c) ==
    LET w == IF v = Ends[r][1] THEN Ends[r][2] ELSE Ends[r][1]
    IN  IF net.dir[r] # 3 /\ w \in c.vtx THEN w ELSE None

\* GetNextRutVtx: the vertex at the other end of r, when r may be driven from v and that
\* vertex is loaded.
GetNextRutVtx(v, r, c) ==
    LET w == IF v = Ends[r][1] THEN Ends[r][2] ELSE Ends[r][1]
        way == IF v = Ends[r][1] THEN {0, 1} ELSE {0, 2}
    IN  IF net.dir[r] \in way /\ w \in c.vtx THEN w ELSE None

\* GetVAbutVtx and GetNextRutVtx2: the end of road r that is vertex v seen from the
\* other side of the border.
Twin(v, r) ==
    LET S == Ends[r][1]
        E == Ends[r][2]
    IN  IF S \in Edge /\ (E \in Edge => Abut[S] = RutList[v][1]) THEN S ELSE E

\* The two vertices of a place on a border name each other's roads.
ASSUME BorderAssumption ==
    \A v \in Edge : /\ Twin(v, Abut[v]) \in Edge
                    /\ Abut[Twin(v, Abut[v])] = RutList[v][1]

\* Mutant: roads inside a junction are not looked past.
RoadJustDriven(r, parent) == r

\* GET_LIMIT_INFO_V3: the last road driven outside junctions, for a node that came over
\* road r from the node closed[parent].
LimitingRoad(r, parent) ==
    LET up[k \in 0..Len(closed)] ==
            IF k = 0 THEN None
            ELSE IF closed[k].rut \notin net.junction THEN closed[k].rut
            ELSE up[closed[k].parent]
    IN  IF r \notin net.junction THEN r ELSE up[parent]

----------------------------------------------------------------------------
(* The open list *)

\* InsertNode: before the first node with a larger estimate.
InsertNode(node, list) ==
    LET later == {k \in DOMAIN list : node.f < list[k].f}
    IN  IF later = {} THEN Append(list, node) ELSE InsertAt(list, Min2(later), node)

\* The place in open the vertex v knows.
PlaceOf(v) == CHOOSE k \in DOMAIN open : open[k].vtx = v

\* The list, and what GetVtxSInfo answers for each vertex.
Lists == [open |-> open, status |-> status, posOHead |-> posOHead]

\* CalculateNetworkNode and CalculateCarRutVal: the lists once the drive over road r, from
\* the last closed node to vertex v, has been offered.
CalculateNetworkNode(r, v) ==
    LET parent == Last(closed)
        g == parent.g + Cost[r]
        node == [rut |-> r, vtx |-> v, g |-> g, f |-> g + Distance(v, dest.vtx),
                 parent |-> Len(closed)]
    IN  CASE Distance(v, dest.vtx) > MaxDis \/ status[v] = 2 -> Lists
          [] Distance(v, dest.vtx) <= MaxDis /\ status[v] = 1 /\ posOHead[v] ->
                IF g < open[PlaceOf(v)].g
                THEN [Lists EXCEPT !.open = InsertNode(node, RemoveAt(open, PlaceOf(v)))]
                ELSE Lists
          [] OTHER -> [open |-> InsertNode(node, open),
                       status |-> [status EXCEPT ![v] = 1],
                       posOHead |-> [posOHead EXCEPT ![v] = TRUE]]

----------------------------------------------------------------------------
(* A leg *)

\* GetRealVtx: where a drive along r may enter the network (for a start) or leave it.
\* Of the two ends of a road open both ways the nearer is taken, not a dead end if that
\* can be avoided.
RealVtx(r, way) ==
    LET S == Ends[r][1]
        E == Ends[r][2]
        dead(v) == Len(RutList[v]) <= 1
    IN  CASE net.dir[r] = 0 -> {v \in {S, E} : dead(v) => dead(S) /\ dead(E)}
          [] net.dir[r] = way -> {E}
          [] OTHER -> {S}

Starts(r) == {[rut |-> r, vtx |-> v] : v \in RealVtx(r, 1)}

\* The destination on a border is looked for on its other side (GetVAbutVtx).
Across(v) ==
    IF v \in Edge /\ RoadSheet(Abut[v]) \in net.sheets THEN Twin(v, Abut[v]) ELSE v

Stops(r) == {[rut |-> r, vtx |-> Across(v)] : v \in RealVtx(r, 2)}

StartNode(s) == [rut |-> s.rut, vtx |-> s.vtx, g |-> 0, f |-> 0, parent |-> None]

Whole(sheet) == [ring |-> <<>>, counted |-> {sheet},
                 vtx |-> {v \in Vertex : SheetOf[v] = sheet},
                 rut |-> {r \in Road : RoadSheet(r) = sheet}]

\* The cache once the sheets of a destination have been read.
WithDestination(c, d, st) ==
    ReadBreadthNetwork(ReadBreadthNetwork(c, RoadSheet(d.rut), st), SheetOf[d.vtx], st)

\* GetWPProjRut: where a way point may be.  The way out of a residential area
\* (LeaveResidentialArea) is not modelled.
Drivable ==
    {r \in WayPoints : /\ net.dir[r] # 3 /\ r \notin net.residential
                       /\ RoadSheet(r) \in net.sheets
                       /\ net.dir[r] # 0 =>
                            \A v \in {Ends[r][1], Ends[r][2]} : Len(RutList[v]) > 1 \/ v \in Edge}

Init ==
    /\ net \in Maps
    /\ \E r \in Drivable : start \in Starts(r)
    /\ \E r \in Drivable : dest \in Stops(r)
    /\ open = <<StartNode(start)>> /\ closed = <<>>
    /\ status = [v \in Vertex |-> 0] /\ posOHead = [v \in Vertex |-> FALSE]
    /\ cache = WithDestination(Whole(RoadSheet(start.rut)), dest, status)
    /\ stage = "next" /\ next = 1 /\ leg = 1

\* Mutants: the vertices are not reset.
StatusKept == status

PosKept == posOHead

\* CLocalNodeListMng: what the vertices remember after the lists are cleared.
ClearedStatus ==
    [v \in Vertex |->
        IF \E node \in ToSet(open) \cup ToSet(closed) : node.vtx = v
        THEN IF v \in Edge THEN 1 ELSE 0
        ELSE status[v]]

ClearedPos ==
    [v \in Vertex |->
        posOHead[v] /\ ~ \E node \in ToSet(open) \cup ToSet(closed) : node.vtx = v]

\* nWPNum > 5, counted from 1 on the first time and from 0 on later.
AllFreed == leg % (LegsLoaded + 1) = LegsLoaded

\* The next leg starts where this one ended, with what is loaded.
NextLeg ==
    /\ stage = "found" /\ leg < Legs /\ ~AllFreed
    /\ start' \in Starts(dest.rut)
    /\ \E r \in Drivable : dest' \in Stops(r)
    /\ open' = <<StartNode(start')>> /\ closed' = <<>>
    /\ status' = ClearedStatus /\ posOHead' = ClearedPos
    /\ cache' = WithDestination(cache, dest', ClearedStatus)
    /\ stage' = IF {start.vtx, dest.vtx}' \subseteq cache'.vtx /\ {start.rut, dest.rut}' \subseteq cache'.rut
                THEN "next" ELSE "failed"
    /\ next' = 1 /\ leg' = leg + 1
    /\ UNCHANGED net

\* Or ClearNetwork has freed all sheets, vertices and their marks, and the way point is
\* looked up again.
NextLegReloaded ==
    /\ stage = "found" /\ leg < Legs /\ AllFreed
    /\ start' \in Starts(dest.rut)
    /\ \E r \in Drivable : dest' \in Stops(r)
    /\ open' = <<StartNode(start')>> /\ closed' = <<>>
    /\ status' = [v \in Vertex |-> 0] /\ posOHead' = [v \in Vertex |-> FALSE]
    /\ cache' = WithDestination(Whole(RoadSheet(start'.rut)), dest', status')
    /\ stage' = "next" /\ next' = 1 /\ leg' = leg + 1
    /\ UNCHANGED net

\* The next way point has no road near it, or its sheet cannot be read.
LegFails ==
    /\ stage = "found" /\ leg < Legs
    /\ open' = <<>> /\ closed' = <<>>
    /\ status' = ClearedStatus /\ posOHead' = ClearedPos
    /\ stage' = "failed"
    /\ UNCHANGED <<net, start, dest, cache, next, leg>>

----------------------------------------------------------------------------
(* CalculateOptimalPathRut *)

Top == open[1]

\* IfAbsoluteLimit for the way point's road, at its vertex inside a sheet.
DestinationBarred ==
    /\ Top.vtx \notin Edge
    /\ <<LimitingRoad(Top.rut, Top.parent), dest.rut>> \in net.always

\* The head of the open list is the destination.
Arrive ==
    /\ stage = "next" /\ open # <<>>
    /\ Top.vtx = dest.vtx /\ ~DestinationBarred
    /\ status' = [status EXCEPT ![Top.vtx] = 2]
    /\ posOHead' = [posOHead EXCEPT ![Top.vtx] = FALSE]
    /\ stage' = "found"
    /\ UNCHANGED <<net, start, dest, open, closed, cache, next, leg>>

\* Otherwise it is closed, to be expanded.  A vertex reached inside a junction, and a
\* destination that may not be entered from there, may be opened again.
CloseTop ==
    /\ stage = "next" /\ open # <<>>
    /\ Top.vtx = dest.vtx => DestinationBarred
    /\ open' = Tail(open) /\ closed' = Append(closed, Top)
    /\ status' = [status EXCEPT ![Top.vtx] =
                    IF Top.vtx = dest.vtx \/ Top.rut \in net.junction THEN 1 ELSE 2]
    /\ posOHead' = [posOHead EXCEPT ![Top.vtx] = FALSE]
    /\ stage' = IF Top.vtx \in Edge THEN "cross" ELSE "expand"
    /\ next' = 1
    /\ UNCHANGED <<net, start, dest, cache, leg>>

\* The open list is empty: ERROR_NETWORK_DISCONNECT.
Disconnect ==
    /\ stage = "next" /\ open = <<>>
    /\ stage' = "disconnected"
    /\ UNCHANGED <<net, start, dest, open, closed, status, posOHead, cache, next, leg>>

\* The lists are those of l, with the vertices in back to be opened again.
Become(l, back) ==
    /\ open' = l.open /\ posOHead' = l.posOHead
    /\ status' = [v \in Vertex |-> IF v \in back THEN 1 ELSE l.status[v]]

\* A vertex on the border leads to the road behind it.
Behind == Abut[Last(closed).vtx]

\* The sheet behind the border cannot be read: ERROR_OUT_OF_MEMORY.
LoadFails ==
    /\ stage = "cross"
    /\ RoadSheet(Behind) \in net.sheets \ cache.counted
    /\ stage' = "failed"
    /\ UNCHANGED <<net, start, dest, open, closed, status, posOHead, cache, next, leg>>

\* There is no such sheet, or it lies outside the route's buffer and is not read.
NothingBehind ==
    /\ stage = "cross"
    /\ RoadSheet(Behind) \notin net.sheets
    /\ stage' = "next"
    /\ UNCHANGED <<net, start, dest, open, closed, status, posOHead, cache, next, leg>>

\* It is read and the road behind the border is followed, if it may be.
Cross ==
    /\ stage = "cross"
    /\ RoadSheet(Behind) \in net.sheets
    /\ cache' = ReadBreadthNetwork(cache, RoadSheet(Behind), status)
    /\ LET ends == {Ends[Behind][1], Ends[Behind][2]}
           far == GetNextRutVtx(Twin(Last(closed).vtx, Behind), Behind, cache')
           loaded == Behind \in cache'.rut /\ ends \subseteq cache'.vtx
       IN  IF loaded /\ far # None /\ Behind \notin net.residential
           THEN IF dest.vtx \in cache'.vtx
                THEN Become(CalculateNetworkNode(Behind, far), ends \cap Edge) /\ stage' = "next"
                ELSE stage' = "undefined" /\ UNCHANGED <<open, status, posOHead>>
           ELSE stage' = "next" /\ UNCHANGED <<open, status, posOHead>>
    /\ UNCHANGED <<net, start, dest, closed, next, leg>>

\* The road of the vertex being expanded that is looked at.
This == RutList[Last(closed).vtx][next]

\* The road may be driven, limits apart.  Back along the road the vertex was reached on
\* only from the start.
Open ==
    /\ This \in cache.rut \ net.residential
    /\ This = Last(closed).rut => Len(closed) = 1
    /\ GetNextRutVtx(Last(closed).vtx, This, cache) # None

\* IfAbsoluteLimit and IfLimit: whether a limit with hours is in force is left open.
Turn == <<LimitingRoad(Last(closed).rut, Last(closed).parent), This>>

\* Mutant: the loop does not go on to the next road.
SameRoadAgain ==
    /\ next' = next
    /\ stage' = "expand"

Onwards ==
    /\ next' = next + 1
    /\ stage' = IF next = Len(RutList[Last(closed).vtx]) THEN "next" ELSE "expand"

PassOver ==
    /\ stage = "expand"
    /\ Open => Turn \in net.always \cup net.hours
    /\ Onwards
    /\ UNCHANGED <<net, start, dest, open, closed, status, posOHead, cache, leg>>

Follow ==
    /\ stage = "expand"
    /\ Open /\ Turn \notin net.always
    /\ dest.vtx \in cache.vtx
    /\ Become(CalculateNetworkNode(This, GetNextRutVtx(Last(closed).vtx, This, cache)), {})
    /\ Onwards
    /\ UNCHANGED <<net, start, dest, closed, cache, leg>>

\* The destination's position is read after its sheet was cleared.
ReadFreedDestination ==
    /\ stage = "expand"
    /\ Open /\ Turn \notin net.always
    /\ dest.vtx \notin cache.vtx
    /\ stage' = "undefined"
    /\ UNCHANGED <<net, start, dest, open, closed, status, posOHead, cache, next, leg>>

\* GetVtxSInfo allocates a vertex's marks when they are first asked for, and throws when it
\* cannot: for the start, for the vertices behind a border, for the end of a road that is
\* followed.  A vertex that is marked has them.
MarkFails ==
    /\ \/ stage = "next" /\ open # <<>> /\ status[Top.vtx] = 0
       \/ LET c == ReadBreadthNetwork(cache, RoadSheet(Behind), status)
              ends == {Ends[Behind][1], Ends[Behind][2]}
          IN  /\ stage = "cross" /\ RoadSheet(Behind) \in net.sheets
              /\ Behind \in c.rut \ net.residential /\ ends \cup {dest.vtx} \subseteq c.vtx
              /\ GetNextRutVtx(Twin(Last(closed).vtx, Behind), Behind, c) # None
              /\ \E v \in ends : status[v] = 0
       \/ LET v == GetNextRutVtx(Last(closed).vtx, This, cache)
          IN  /\ stage = "expand" /\ Open /\ Turn \notin net.always /\ dest.vtx \in cache.vtx
              /\ Distance(v, dest.vtx) <= MaxDis /\ status[v] = 0
    /\ stage' = "failed"
    /\ UNCHANGED <<net, start, dest, open, closed, status, posOHead, cache, next, leg>>

\* One turn of the loop, or part of one.
SearchStep ==
    \/ Arrive \/ CloseTop \/ Disconnect
    \/ LoadFails \/ NothingBehind \/ Cross
    \/ PassOver \/ Follow \/ ReadFreedDestination \/ MarkFails

Next == SearchStep \/ NextLeg \/ NextLegReloaded \/ LegFails

Spec == Init /\ [][Next]_vars /\ WF_vars(SearchStep)

----------------------------------------------------------------------------
(* Properties *)

Stage == {"next", "cross", "expand", "found", "disconnected", "failed", "undefined"}

Node == [rut : Road, vtx : Vertex, g : Nat, f : Nat, parent : Nat]

WayPoint == [rut : Road, vtx : Vertex]

\* The variables have their types.
TypeOK ==
    /\ net \in Maps /\ start \in WayPoint /\ dest \in WayPoint
    /\ open \in Seq(Node) /\ closed \in Seq(Node)
    /\ status \in [Vertex -> 0..2] /\ posOHead \in [Vertex -> BOOLEAN]
    /\ cache \in [ring : Seq(Sheet), counted : SUBSET Sheet, vtx : SUBSET Vertex, rut : SUBSET Road]
    /\ stage \in Stage /\ next \in Nat \ {0} /\ leg \in 1..Legs

\* The start is put in the list by CalculateNavigatePath_SingleSourceSearch itself, which
\* does not mark its vertex.
Fresh == closed = <<>>

\* The open list is sorted by estimate; and the marks in the vertices agree with it: a
\* vertex knows a place in it exactly when a node of the list is for that vertex, there is
\* one such node, and the vertex is marked open.  CalculateNetworkNode replaces the node at
\* that place without a further check.
OpenIndexed ==
    /\ \A j, k \in DOMAIN open : j < k => open[j].f <= open[k].f
    /\ \A j, k \in DOMAIN open : open[j].vtx = open[k].vtx => j = k
    /\ \A v \in Vertex : posOHead[v] => status[v] = 1
    /\ stage # "found" /\ ~Fresh =>
          \A v \in Vertex : posOHead[v] <=> \E k \in DOMAIN open : open[k].vtx = v

\* Whatever sheets the ring forgets while the search goes on, the vertex and the road of
\* every node on its lists stay loaded: the drive is put together from them at the end.
NodesKept ==
    stage # "failed" =>
        \A node \in ToSet(open) \cup ToSet(closed) :
            node.vtx \in cache.vtx /\ node.rut \in cache.rut

\* The nodes from the start to the destination.
Drive ==
    LET to[k \in 0..Len(closed)] == IF k = 0 THEN <<>> ELSE Append(to[closed[k].parent], closed[k])
    IN  Append(to[Top.parent], Top)

\* Road r may be driven from its end v to its end w.
Leads(r, v, w) ==
    \/ <<v, w>> = Ends[r] /\ net.dir[r] \in {0, 1}
    \/ <<w, v>> = Ends[r] /\ net.dir[r] \in {0, 2}

\* Road r goes on from vertex v to w: directly, or behind the border.
GoesOn(r, v, w) ==
    /\ r \notin net.residential
    /\ IF v \in Edge
       THEN /\ r = Abut[v] /\ RoadSheet(r) \in net.sheets
            /\ \E u \in Edge : Abut[u] \in RoadsAt(v) /\ Leads(r, u, w)
       ELSE Leads(r, v, w)

\* The drives the lists stand for are drives from the start, at any time and however nodes
\* were replaced or opened again: a node that is not the start was reached over its road from
\* a node closed before it, with that node's cost and the road's.
ParentsLead ==
    /\ \A node \in ToSet(open) \cup ToSet(closed) :
          \/ node = StartNode(start)
          \/ /\ node.parent \in DOMAIN closed
             /\ GoesOn(node.rut, closed[node.parent].vtx, node.vtx)
             /\ node.g = closed[node.parent].g + Cost[node.rut]
    /\ \A k \in DOMAIN closed : closed[k].parent < k

\* What the search finds is a drive from the start to the destination: every road goes on
\* from the last, one-way roads are followed in their direction, and a road that may never
\* be entered from another is not entered from it, not even by way of a junction's own roads.
FoundIsADrive ==
    stage = "found" =>
        LET d == Drive
            road(k) == IF k > Len(d) THEN dest.rut ELSE d[k].rut
            last == IF dest.vtx \in Edge THEN Len(d) ELSE Len(d) + 1
        IN  /\ d[1] = StartNode(start) /\ d[Len(d)].vtx = dest.vtx
            /\ \A k \in 2..Len(d) : GoesOn(d[k].rut, d[k - 1].vtx, d[k].vtx)
            /\ \A j \in 1..Len(d), k \in 2..last :
                  /\ j < k
                  /\ d[j].rut \notin net.junction
                  /\ \A i \in j + 1..k - 1 : d[i].rut \in net.junction
                  => <<d[j].rut, road(k)>> \notin net.always

\* A drive that goes on from road r over roads inside junctions stays within S.
Encloses(S, m, r) ==
    /\ {Ends[r][1], Ends[r][2]} \subseteq S
    /\ \A v \in S : \A q \in m.junction \cap (IF v \in Edge THEN {Abut[v]} ELSE RoadsAt(v)) :
          {Ends[q][1], Ends[q][2]} \subseteq S

\* What limits must be like for FoundIsADrive, as no limit is looked up at a border: where a
\* road behind a border may not be entered from r, r does not lead to that border.
LimitsStayInside ==
    \A m \in Maps : \A p \in m.always, v \in Edge :
        p[2] = Abut[v] => \E S \in SUBSET Vertex : Encloses(S, m, p[1]) /\ v \notin S

\* The vertices a drive can reach that does not turn back on a road.
Reached ==
    LET onwards(S) ==
            {p \in {<<Ends[r][i], r>> : r \in Road, i \in 1..2} :
                /\ Distance(p[1], dest.vtx) <= MaxDis
                /\ \E q \in S : q[2] # p[2] /\ GoesOn(p[2], q[1], p[1])}
        after[n \in 0..Cardinality(Vertex)] ==
            IF n = 0 THEN {<<start.vtx, None>>} ELSE LET S == after[n - 1] IN S \cup onwards(S)
    IN  {p[1] : p \in after[Cardinality(Vertex)]}

\* What a border is like: a vertex on it has one road, which no other place on the border
\* joins to the same road behind it.
BorderPlaces ==
    /\ IsFiniteSet(Vertex)
    /\ \A v \in Edge : Len(RutList[v]) = 1 /\ Ends[Abut[v]][1] # Ends[Abut[v]][2]
    /\ \A u, v \in Edge : Abut[u] = Abut[v] /\ RutList[u][1] = RutList[v][1] => u = v

\* The search only reports a disconnected network when no drive reaches the destination,
\* as long as no turn is limited and no sheet has been forgotten.
\* (In a network where a drive must come back to a way point's own border it may be wrong.)
DisconnectIsReal ==
    stage = "disconnected" /\ net.always = {} /\ net.hours = {} /\ Len(cache.ring) <= MaxSheets
        => dest.vtx \notin Reached

Searching == stage \in {"next", "cross", "expand"}

\* Every search in the networks of Maps ends, though the vertices reached inside junctions
\* and those on borders are opened again.  In none of them do a junction's own roads form a
\* circuit: a search may go around one for ever.
SearchEnds == Searching ~> ~Searching
=============================================================================
