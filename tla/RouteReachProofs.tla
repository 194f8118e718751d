------------------------- MODULE RouteReachProofs -------------------------
(***************************************************************************)
(* What is proved of the searches of RouteSearch that find nothing: the    *)
(* destination cannot be reached, as long as no turn is limited, no sheet  *)
(* was forgotten, and neither way point lies on a border.  The vertices    *)
(* the search knows at its end are shown to be closed under every road     *)
(* that leads on; so all that Reached collects, which is a recursive       *)
(* function first shown to be one, is among them.                          *)
(***************************************************************************)
EXTENDS RouteSearchProofs, FiniteSetTheorems

----------------------------------------------------------------------------
(* The invariant *)

\* A node on the lists is for vertex v.
Listed(v) == Has(open, v) \/ Has(closed, v)

\* Only counted sheets are loaded; all of them is, as long as the ring forgot none.
Loaded(c) ==
    /\ \A v \in c.vtx : SheetOf[v] \in c.counted
    /\ Len(c.ring) <= MaxSheets =>
          /\ \A v \in Vertex : SheetOf[v] \in c.counted => v \in c.vtx
          /\ \A r \in Road : RoadSheet(r) \in c.counted => r \in c.rut

\* The loop has looked at road r from the node at place k.
Done(k, r) ==
    \/ k # Len(closed) \/ stage \in {"next", "disconnected"}
    \/ stage = "expand" /\ \E i \in 1..next - 1 : RutList[closed[k].vtx][i] = r

Unlimited == net.always = {} /\ net.hours = {} /\ Len(cache.ring) <= MaxSheets

\* Road r leads from the node at place k to w, not back along the road it was reached on
\* (but from the start), and not too far.
Leaves(k, r, w) ==
    /\ GoesOn(r, closed[k].vtx, w) /\ Distance(w, dest.vtx) <= MaxDis
    /\ closed[k].vtx \in Edge \/ r # closed[k].rut \/ k = 1

\* Where such a road leads is listed once it was looked at.
Expanded ==
    Unlimited /\ stage \in {"next", "cross", "expand", "disconnected"} =>
        \A k \in DOMAIN closed, r \in Road, w \in Vertex :
            Leaves(k, r, w) /\ Done(k, r) => Listed(w)

\* A vertex that may not be opened again is listed.
ClosedListed == \A v \in Vertex : status[v] = 2 => Listed(v)

\* Only the first node has no parent.
Rooted ==
    /\ ~Fresh => \A n \in ToSet(open) : n.parent # None
    /\ \A k \in DOMAIN closed : k # 1 => closed[k].parent # None

\* The start is on the lists, and what has been passed is not the destination.
Underway ==
    /\ stage = "disconnected" => open = <<>>
    /\ stage # "failed" => Listed(start.vtx)
    /\ net.always = {} => ~Has(closed, dest.vtx)

----------------------------------------------------------------------------
(* Sheets *)

LEMMA ReadLoads ==
    ASSUME NEW c \in Cache, Loaded(c), NEW sheet \in Sheet, NEW st
    PROVE  LET d == ReadBreadthNetwork(c, sheet, st)
           IN  Loaded(d) /\ Len(c.ring) <= Len(d.ring) /\ sheet \in d.counted
<1> DEFINE d == ReadBreadthNetwork(c, sheet, st)
           full == Len(c.ring) >= MaxSheets
           old == c.ring[Len(c.ring) - MaxSheets + 1]
           room == IF full THEN ClearNWBreadth(c, old, st) ELSE c
<1>1. Len(c.ring) \in Nat /\ c.ring \in Seq(Sheet) /\ MaxSheets \in Nat
    BY LenProperties, NetworkAssumption DEF Cache
<1>2. CASE sheet \in c.counted
    <2>1. d = c
        BY <1>2 DEF ReadBreadthNetwork
    <2> QED BY <1>1, <1>2, <2>1
<1>3. CASE sheet \notin c.counted
    <2>1. d = [ring |-> Append(c.ring, sheet), counted |-> c.counted \cup {sheet},
               vtx |-> room.vtx \cup {v \in Vertex : SheetOf[v] = sheet},
               rut |-> room.rut \cup {r \in Road : RoadSheet(r) = sheet}]
        BY <1>3 DEF ReadBreadthNetwork
    <2>2. Len(Append(c.ring, sheet)) = Len(c.ring) + 1
        BY <1>1, AppendProperties
    <2>3. room.vtx \subseteq c.vtx
        BY DEF ClearNWBreadth, Cache
    <2>4. Len(c.ring) + 1 <= MaxSheets => room = c
        BY <1>1
    <2> HIDE DEF room
    <2>5. /\ d.ring = Append(c.ring, sheet) /\ d.counted = c.counted \cup {sheet}
          /\ d.vtx = room.vtx \cup {v \in Vertex : SheetOf[v] = sheet}
          /\ d.rut = room.rut \cup {r \in Road : RoadSheet(r) = sheet}
        BY <2>1
    <2> HIDE DEF d
    <2>6. \A v \in d.vtx : SheetOf[v] \in d.counted
        BY <2>3, <2>5 DEF Loaded
    <2>7. ASSUME Len(d.ring) <= MaxSheets
          PROVE  /\ \A v \in Vertex : SheetOf[v] \in d.counted => v \in d.vtx
                 /\ \A r \in Road : RoadSheet(r) \in d.counted => r \in d.rut
        <3>1. room = c /\ Len(c.ring) <= MaxSheets
            BY <1>1, <2>2, <2>4, <2>5, <2>7
        <3> QED BY <2>5, <3>1 DEF Loaded
    <2>8. Len(c.ring) <= Len(d.ring)
        BY <1>1, <2>2, <2>5
    <2> QED BY <2>5, <2>6, <2>7, <2>8 DEF Loaded, d
<1> QED BY <1>2, <1>3

LEMMA DestinationLoads ==
    ASSUME NEW c \in Cache, Loaded(c), NEW d \in WayPoint, NEW st
    PROVE  Loaded(WithDestination(c, d, st))
<1> DEFINE c1 == ReadBreadthNetwork(c, RoadSheet(d.rut), st)
<1>1. RoadSheet(d.rut) \in Sheet /\ SheetOf[d.vtx] \in Sheet
    BY Network DEF WayPoint
<1>2. c1 \in Cache /\ Loaded(c1)
    BY <1>1, ReadKeeps, ReadLoads
<1>3. WithDestination(c, d, st) = ReadBreadthNetwork(c1, SheetOf[d.vtx], st)
    BY DEF WithDestination
<1> HIDE DEF c1
<1> QED BY <1>1, <1>2, <1>3, ReadLoads

LEMMA BeginsLoaded == Begins => Loaded(cache)
<1> SUFFICES ASSUME Begins PROVE Loaded(cache)
    OBVIOUS
<1> DEFINE w == Whole(RoadSheet(start.rut))
<1>1. /\ start.rut \in Road /\ dest \in WayPoint
      /\ cache = WithDestination(w, dest, status)
    BY DEF Begins, WayPoint
<1>2. w \in Cache
    BY <1>1, Network DEF Whole, Cache
<1>3. Loaded(w)
    BY DEF Whole, Loaded
<1> HIDE DEF w
<1> QED BY <1>1, <1>2, <1>3, DestinationLoads

\* The cache stays so, and its ring only grows.
LEMMA StepLoaded ==
    Inv /\ Loaded(cache) /\ [Next]_vars =>
        Loaded(cache)' /\ (SearchStep => Len(cache.ring) <= Len(cache'.ring))
<1> SUFFICES ASSUME Inv, Loaded(cache), [Next]_vars
             PROVE  Loaded(cache)' /\ (SearchStep => Len(cache.ring) <= Len(cache'.ring))
    OBVIOUS
<1>1. cache \in Cache /\ Len(cache.ring) \in Nat
    BY LenProperties DEF Inv, TypeOK, Cache
<1>2. CASE Cross
    <2>1. cache' = ReadBreadthNetwork(cache, RoadSheet(Behind), status)
        BY <1>2 DEF Cross
    <2>2. RoadSheet(Behind) \in Sheet
        BY <1>2, NetworkAssumption DEF Cross, Inv, TypeOK
    <2> QED BY <1>1, <2>1, <2>2, ReadLoads
<1>3. CASE NextLeg
    <2>1. cache' = WithDestination(cache, dest', ClearedStatus)
        BY <1>3 DEF NextLeg
    <2>2. dest' \in WayPoint
        <3>1. Drivable \subseteq Road
            BY NetworkAssumption DEF Drivable
        <3> QED BY <1>3, <3>1, StopsType DEF NextLeg
    <2>3. Loaded(cache')
        BY <1>1, <2>1, <2>2, DestinationLoads
    <2>4. ~SearchStep
        BY <1>3 DEF NextLeg, SearchStep, Arrive, CloseTop, Disconnect, LoadFails, MarkFails,
                    NothingBehind, Cross, PassOver, Follow, ReadFreedDestination
    <2> QED BY <2>3, <2>4
<1>4. CASE NextLegReloaded
    <2>1. Begins'
        BY <1>4, ReloadBegins
    <2>2. Loaded(cache)'
        BY <2>1, BeginsLoaded, PTL
    <2>3. ~SearchStep
        BY <1>4 DEF NextLegReloaded, SearchStep, Arrive, CloseTop, Disconnect, LoadFails,
                    MarkFails, NothingBehind, Cross, PassOver, Follow, ReadFreedDestination
    <2> QED BY <2>2, <2>3
<1>5. CASE UNCHANGED cache
    BY <1>1, <1>5
<1>6. Cross \/ NextLeg \/ NextLegReloaded \/ UNCHANGED cache
    BY DEF Next, SearchStep, Arrive, CloseTop, Disconnect, LoadFails, MarkFails, NothingBehind,
           PassOver, Follow, ReadFreedDestination, LegFails, vars
<1> QED BY <1>2, <1>3, <1>4, <1>5, <1>6

----------------------------------------------------------------------------
(* What is listed *)

\* A drive that is offered is listed, unless it is too far; nothing else is taken off.
LEMMA OfferListed ==
    ASSUME Inv, ClosedListed, stage \in {"cross", "expand"}, UNCHANGED closed,
           NEW r \in Road, NEW v \in Vertex, NEW back \in SUBSET Vertex,
           Become(CalculateNetworkNode(r, v), back)
    PROVE  /\ \A w \in Vertex : Listed(w) => Listed(w)'
           /\ \A w \in Vertex : status'[w] = 2 => status[w] = 2
           /\ Distance(v, dest.vtx) <= MaxDis => Listed(v)'
<1> DEFINE l == CalculateNetworkNode(r, v)
<1>1. Agree(Lists) /\ closed # <<>> /\ TypeOK
    BY Agreeing DEF Inv
<1>2. /\ \A w \in Vertex : Has(open, w) => Has(l.open, w)
      /\ \A w \in Vertex : l.status[w] = 2 => status[w] = 2
      /\ Distance(v, dest.vtx) <= MaxDis => Has(l.open, v) \/ status[v] = 2
    BY <1>1, OfferKeeps
<1>3. /\ open' = l.open /\ closed' = closed
      /\ status' = [w \in Vertex |-> IF w \in back THEN 1 ELSE l.status[w]]
    BY DEF Become
<1> HIDE DEF l
<1>4. \A w \in Vertex : Listed(w) => Listed(w)'
    BY <1>2, <1>3 DEF Listed
<1>5. \A w \in Vertex : status'[w] = 2 => status[w] = 2
    BY <1>2, <1>3
<1>6. Distance(v, dest.vtx) <= MaxDis => Listed(v)'
    BY <1>2, <1>3, <1>4 DEF Listed, ClosedListed
<1> QED BY <1>4, <1>5, <1>6

LEMMA CloseTopLists ==
    ASSUME Inv, CloseTop
    PROVE  /\ Top \in Node /\ Top \in ToSet(open)
           /\ closed' \in Seq(Node) /\ Len(closed') = Len(closed) + 1
           /\ Len(closed) \in Nat /\ DOMAIN closed = 1..Len(closed)
           /\ DOMAIN closed' = 1..Len(closed) + 1
           /\ \A k \in DOMAIN closed : closed'[k] = closed[k]
           /\ closed'[Len(closed) + 1] = Top
           /\ ToSet(open') \subseteq ToSet(open)
           /\ \A w : Has(closed', w) <=> Has(closed, w) \/ w = Top.vtx
           /\ \A w : Listed(w) => Listed(w)'
<1>1. /\ open \in Seq(Node) /\ closed \in Seq(Node) /\ open # <<>> /\ Len(open) \in Nat \ {0}
    BY EmptySeq DEF Inv, TypeOK, CloseTop
<1>2. Top \in Node /\ Top \in ToSet(open) /\ Top = open[1]
    BY <1>1, ElementOfSeq, LenProperties DEF Top, ToSet
<1>3. open' = Tail(open) /\ closed' = Append(closed, Top)
    BY DEF CloseTop
<1>4. /\ ToSet(open') \subseteq ToSet(open)
      /\ \A w : w # Top.vtx => (Has(open', w) <=> Has(open, w))
    <2>1. 1 \in DOMAIN open /\ open' = RemoveAt(open, 1)
        BY <1>1, <1>3, TailIsRemove
    <2> QED BY <1>1, <1>2, <2>1, RemoveKeeps
<1> HIDE DEF Top
<1>5. /\ closed' \in Seq(Node) /\ Len(closed') = Len(closed) + 1
      /\ \A i \in 1..Len(closed) : closed'[i] = closed[i]
      /\ closed'[Len(closed) + 1] = Top
    BY <1>1, <1>2, <1>3, AppendProperties
<1>6. Len(closed) \in Nat /\ DOMAIN closed = 1..Len(closed) /\ DOMAIN closed' = 1..Len(closed) + 1
    BY <1>1, <1>5, LenProperties
<1>7. \A k \in DOMAIN closed' : k \in DOMAIN closed \/ k = Len(closed) + 1
    BY <1>6
<1>8. \A k \in DOMAIN closed : k \in DOMAIN closed' /\ closed'[k] = closed[k]
    BY <1>5, <1>6
<1>9. Len(closed) + 1 \in DOMAIN closed'
    BY <1>6
<1>10. \A w : Has(closed', w) <=> Has(closed, w) \/ w = Top.vtx
    BY <1>5, <1>7, <1>8, <1>9 DEF Has
<1>11. \A w : Listed(w) => Listed(w)'
    <2> SUFFICES ASSUME NEW w, Listed(w) PROVE Has(open', w) \/ Has(closed', w)
        BY DEF Listed
    <2>1. CASE w = Top.vtx
        BY <1>10, <2>1
    <2>2. CASE w # Top.vtx
        BY <1>2, <1>4, <1>10, <2>2 DEF Listed
    <2> QED BY <2>1, <2>2
<1> QED BY <1>2, <1>4, <1>5, <1>6, <1>8, <1>10, <1>11

\* What Cross does to the lists, if it does anything.
LEMMA CrossOffers ==
    ASSUME Inv, InLoop, Cross
    PROVE  LET far == GetNextRutVtx(Twin(Last(closed).vtx, Behind), Behind, cache')
               ends == {Ends[Behind][1], Ends[Behind][2]}
           IN  /\ UNCHANGED <<net, start, dest, closed>> /\ stage = "cross"
               /\ stage' \in {"next", "undefined"}
               /\ cache' \in Cache /\ Behind \in Road /\ Last(closed).vtx \in Edge
               /\ ends \cap Edge \in SUBSET Vertex
               /\ \/ UNCHANGED <<open, status>>
                  \/ /\ far \in Vertex /\ Become(CalculateNetworkNode(Behind, far), ends \cap Edge)
                     /\ stage' = "next"
<1> DEFINE sheet == RoadSheet(Behind)
           v == Last(closed).vtx
           far == GetNextRutVtx(Twin(v, Behind), Behind, cache')
           ends == {Ends[Behind][1], Ends[Behind][2]}
<1>1. /\ cache \in Cache /\ net \in Maps /\ stage = "cross" /\ v \in Edge
      /\ sheet \in net.sheets /\ UNCHANGED <<net, start, dest, closed>>
      /\ cache' = ReadBreadthNetwork(cache, sheet, status)
      /\ stage' \in {"next", "undefined"}
    BY DEF Inv, TypeOK, Cache, Cross, InLoop
<1>2. cache' \in Cache
    <2>1. sheet \in Sheet
        BY <1>1, NetworkAssumption
    <2> QED BY <1>1, <2>1, ReadKeeps
<1>3. Behind \in Road
    BY <1>1, NetworkAssumption DEF Behind
<1>4. ends \cap Edge \in SUBSET Vertex
    BY <1>3, Network
<1>5. far # None => far \in Vertex
    BY <1>2, <1>3, NextVertex
<1>6. \/ UNCHANGED <<open, status>>
      \/ far # None /\ Become(CalculateNetworkNode(Behind, far), ends \cap Edge) /\ stage' = "next"
    BY DEF Cross
<1> HIDE DEF far, ends, sheet
<1>7. QED
    BY <1>1, <1>2, <1>3, <1>4, <1>5, <1>6 DEF far, ends

\* What Follow does to them.
LEMMA FollowOffers ==
    ASSUME Inv, Follow
    PROVE  LET w == GetNextRutVtx(Last(closed).vtx, This, cache)
           IN  /\ UNCHANGED <<net, start, dest, closed, cache>> /\ stage = "expand"
               /\ This \in Road /\ w \in Vertex /\ w # None
               /\ Become(CalculateNetworkNode(This, w), {})
<1> DEFINE w == GetNextRutVtx(Last(closed).vtx, This, cache)
<1>1. cache \in Cache /\ stage = "expand" /\ UNCHANGED <<net, start, dest, closed, cache>>
    BY DEF Inv, TypeOK, Cache, Follow
<1>2. This \in Road /\ w # None
    BY <1>1 DEF Follow, Open, Cache
<1>3. w \in Vertex
    BY <1>1, <1>2, NextVertex
<1>4. Become(CalculateNetworkNode(This, w), {})
    BY DEF Follow
<1> HIDE DEF w
<1> QED BY <1>1, <1>2, <1>3, <1>4 DEF w

\* During a leg nothing that is listed is taken off.
LEMMA StepListed ==
    ASSUME Inv, InLoop, ClosedListed, SearchStep
    PROVE  /\ \A v \in Vertex : Listed(v) => Listed(v)'
           /\ ClosedListed'
<1>1. CASE CloseTop
    <2>1. Top \in Node /\ \A w : Listed(w) => Listed(w)'
        BY <1>1, CloseTopLists
    <2>2. \A w : w = Top.vtx => Listed(w)'
        BY <1>1, CloseTopLists DEF Listed
    <2>3. \A v \in Vertex : v # Top.vtx => status'[v] = status[v]
        BY <1>1 DEF CloseTop, Inv, TypeOK
    <2> HIDE DEF Top
    <2> QED BY <2>1, <2>2, <2>3 DEF ClosedListed
<1>2. CASE Arrive
    <2>1. open \in Seq(Node) /\ open # <<>>
        BY <1>2 DEF Arrive, Inv, TypeOK
    <2>2. Has(open, Top.vtx)
        BY <2>1, EmptySeq, LenProperties DEF Has, Top
    <2>3. UNCHANGED <<open, closed>> /\ \A v \in Vertex : v # Top.vtx => status'[v] = status[v]
        BY <1>2 DEF Arrive, Inv, TypeOK
    <2> HIDE DEF Top
    <2> QED BY <2>2, <2>3 DEF ClosedListed, Listed
<1>3. CASE Cross
    <2> DEFINE far == GetNextRutVtx(Twin(Last(closed).vtx, Behind), Behind, cache')
               ends == {Ends[Behind][1], Ends[Behind][2]}
    <2>1. CASE UNCHANGED <<open, status>>
        <3>1. closed' = closed
            BY <1>3, CrossOffers
        <3> QED BY <2>1, <3>1 DEF ClosedListed, Listed
    <2>2. CASE far \in Vertex /\ Become(CalculateNetworkNode(Behind, far), ends \cap Edge)
        <3>1. /\ UNCHANGED closed /\ Behind \in Road /\ stage = "cross"
              /\ ends \cap Edge \in SUBSET Vertex
            BY <1>3, CrossOffers
        <3> HIDE DEF far, ends
        <3>2. /\ \A w \in Vertex : Listed(w) => Listed(w)'
              /\ \A w \in Vertex : status'[w] = 2 => status[w] = 2
            BY <2>2, <3>1, OfferListed
        <3> QED BY <3>2 DEF ClosedListed
    <2> QED BY <1>3, <2>1, <2>2, CrossOffers
<1>4. CASE Follow
    <2> DEFINE w == GetNextRutVtx(Last(closed).vtx, This, cache)
    <2>1. /\ UNCHANGED closed /\ stage = "expand" /\ This \in Road /\ w \in Vertex
          /\ Become(CalculateNetworkNode(This, w), {})
        BY <1>4, FollowOffers
    <2> HIDE DEF w
    <2>2. /\ \A v \in Vertex : Listed(v) => Listed(v)'
          /\ \A v \in Vertex : status'[v] = 2 => status[v] = 2
        BY <2>1, OfferListed
    <2> QED BY <2>2 DEF ClosedListed
<1>5. CASE UNCHANGED <<open, closed, status>>
    BY <1>5 DEF ClosedListed, Listed
<1> QED BY <1>1, <1>2, <1>3, <1>4, <1>5 DEF SearchStep, Disconnect, LoadFails, MarkFails,
                                             NothingBehind, PassOver, ReadFreedDestination

\* Only the first node closed has no parent.
LEMMA StepRooted == Inv /\ InLoop /\ Rooted /\ [Next]_vars => Rooted'
<1> SUFFICES ASSUME Inv, InLoop, Rooted, [Next]_vars PROVE Rooted'
    OBVIOUS
<1>1. CASE CloseTop
    <2>1. /\ Top \in ToSet(open) /\ ToSet(open') \subseteq ToSet(open)
          /\ Len(closed) \in Nat /\ DOMAIN closed = 1..Len(closed)
          /\ DOMAIN closed' = 1..Len(closed) + 1
          /\ \A k \in DOMAIN closed : closed'[k] = closed[k]
          /\ closed'[Len(closed) + 1] = Top
        BY <1>1, CloseTopLists
    <2> HIDE DEF Top
    <2>2. \A n \in ToSet(open') : n.parent # None
        <3>1. CASE Fresh
            <4>1. open \in Seq(Node) /\ open # <<>> /\ Len(open) <= 1
                BY <1>1, <3>1 DEF Inv, Marked, TypeOK, CloseTop
            <4>2. Len(open) = 1
                <5>1. Len(open) \in Nat
                    BY <4>1, LenProperties
                <5>2. Len(open) # 0
                    BY <4>1, EmptySeq
                <5> QED BY <4>1, <5>1, <5>2
            <4>3. open' = Tail(open) /\ Len(Tail(open)) = 0 /\ Tail(open) \in Seq(Node)
                BY <1>1, <4>1, <4>2, HeadTailProperties DEF CloseTop
            <4>4. ToSet(open') = {}
                BY <4>3, EmptySeq DEF ToSet
            <4> QED BY <4>4
        <3>2. CASE ~Fresh
            BY <2>1, <3>2 DEF Rooted
        <3> QED BY <3>1, <3>2
    <2>3. ASSUME NEW k \in DOMAIN closed', k # 1 PROVE closed'[k].parent # None
        <3>1. CASE k \in DOMAIN closed
            BY <2>1, <2>3, <3>1 DEF Rooted
        <3>2. CASE k = Len(closed) + 1
            <4>1. ~Fresh
                BY <2>1, <2>3, <3>2 DEF Fresh
            <4> QED BY <2>1, <3>2, <4>1 DEF Rooted
        <3> QED BY <2>1, <2>3, <3>1, <3>2
    <2> QED BY <2>2, <2>3 DEF Rooted
<1>2. ASSUME stage \in {"cross", "expand"}, UNCHANGED closed,
             NEW r \in Road, NEW v \in Vertex, NEW back \in SUBSET Vertex,
             Become(CalculateNetworkNode(r, v), back)
      PROVE  Rooted'
    <2> DEFINE l == CalculateNetworkNode(r, v)
    <2>1. Agree(Lists) /\ closed # <<>> /\ TypeOK
        BY <1>2, Agreeing DEF Inv
    <2>2. \A n \in ToSet(l.open) : n \in ToSet(open) \/ n.parent = Len(closed)
        BY <2>1, OfferKeeps
    <2>3. open' = l.open
        BY <1>2 DEF Become
    <2>4. Len(closed) # None
        BY <2>1, EmptySeq DEF TypeOK, None
    <2> HIDE DEF l
    <2> QED BY <1>2, <2>1, <2>2, <2>3, <2>4 DEF Rooted, Fresh
<1>3. CASE UNCHANGED <<open, closed>>
    BY <1>3 DEF Rooted, Fresh
<1>4. CASE Cross
    <2> DEFINE far == GetNextRutVtx(Twin(Last(closed).vtx, Behind), Behind, cache')
               ends == {Ends[Behind][1], Ends[Behind][2]}
    <2>1. /\ UNCHANGED closed /\ Behind \in Road /\ stage = "cross"
          /\ ends \cap Edge \in SUBSET Vertex
          /\ \/ UNCHANGED open
             \/ far \in Vertex /\ Become(CalculateNetworkNode(Behind, far), ends \cap Edge)
        BY <1>4, CrossOffers
    <2> HIDE DEF far, ends
    <2> QED BY <1>2, <1>3, <2>1
<1>5. CASE Follow
    <2> DEFINE w == GetNextRutVtx(Last(closed).vtx, This, cache)
    <2>1. /\ UNCHANGED closed /\ stage = "expand" /\ This \in Road /\ w \in Vertex
          /\ Become(CalculateNetworkNode(This, w), {})
        BY <1>5, FollowOffers
    <2> HIDE DEF w
    <2> QED BY <1>2, <2>1
<1>6. CASE NextLeg \/ NextLegReloaded \/ LegFails
    <2>1. closed' = <<>>
        BY <1>6 DEF NextLeg, NextLegReloaded, LegFails
    <2>2. Fresh' /\ DOMAIN closed' = {}
        BY <2>1 DEF Fresh
    <2> QED BY <2>2 DEF Rooted
<1>7. \/ CloseTop \/ UNCHANGED <<open, closed>> \/ Cross \/ Follow
      \/ NextLeg \/ NextLegReloaded \/ LegFails
    BY DEF Next, SearchStep, Arrive, Disconnect, LoadFails, MarkFails, NothingBehind, PassOver,
           ReadFreedDestination, vars
<1> QED BY <1>1, <1>3, <1>4, <1>5, <1>6, <1>7

\* What a step of a search leaves as it is.
LEMMA SearchUnmoved ==
    ASSUME Inv, SearchStep
    PROVE  /\ UNCHANGED <<net, start, dest>> /\ stage \in {"next", "cross", "expand"}
           /\ UNCHANGED closed \/ CloseTop
           /\ stage' = "disconnected" => Disconnect
BY DEF SearchStep, Arrive, CloseTop, Disconnect, LoadFails, MarkFails, NothingBehind, Cross,
       PassOver, Follow, ReadFreedDestination, Onwards

LEMMA StepUnderway ==
    Inv /\ InLoop /\ ClosedListed /\ Underway /\ SearchStep => Underway'
<1> SUFFICES ASSUME Inv, InLoop, ClosedListed, Underway, SearchStep PROVE Underway'
    OBVIOUS
<1>1. /\ UNCHANGED <<net, start, dest>> /\ stage \in {"next", "cross", "expand"}
      /\ UNCHANGED closed \/ CloseTop
      /\ stage' = "disconnected" => Disconnect
    BY SearchUnmoved
<1>2. (stage = "disconnected" => open = <<>>)'
    BY <1>1 DEF Disconnect
<1>3. Listed(start.vtx)'
    <2>1. start.vtx \in Vertex
        BY DEF Inv, TypeOK, WayPoint
    <2>2. Listed(start.vtx)
        BY <1>1 DEF Underway
    <2>3. \A v \in Vertex : Listed(v) => Listed(v)'
        BY StepListed
    <2> QED BY <1>1, <2>1, <2>2, <2>3
<1>4. (net.always = {} => ~Has(closed, dest.vtx))'
    <2>1. CASE UNCHANGED closed
        BY <1>1, <2>1 DEF Underway, Has
    <2>2. CASE CloseTop
        <3>1. \A w : Has(closed', w) <=> Has(closed, w) \/ w = Top.vtx
            BY <2>2, CloseTopLists
        <3>2. net.always = {} => Top.vtx # dest.vtx
            BY <2>2 DEF CloseTop, DestinationBarred
        <3> HIDE DEF Top
        <3> QED BY <1>1, <3>1, <3>2 DEF Underway, Has
    <2> QED BY <1>1, <2>1, <2>2
<1> QED BY <1>2, <1>3, <1>4 DEF Underway

----------------------------------------------------------------------------
(* What has been looked at *)

\* GetNextRutVtx finds the vertex a road leads to, once it is loaded.
LEMMA LeadsNext ==
    ASSUME NEW r \in Road, NEW v \in Vertex, NEW w \in Vertex, Leads(r, v, w), v # w,
           NEW c, w \in c.vtx
    PROVE  GetNextRutVtx(v, r, c) = w /\ w # None /\ v \in {Ends[r][1], Ends[r][2]}
<1>1. w # None
    BY Network
<1>2. CASE <<v, w>> = Ends[r] /\ net.dir[r] \in {0, 1}
    <2>1. Ends[r][1] = v /\ Ends[r][2] = w
        BY <1>2
    <2> QED BY <1>1, <1>2, <2>1 DEF GetNextRutVtx
<1>3. CASE <<w, v>> = Ends[r] /\ net.dir[r] \in {0, 2}
    <2>1. Ends[r][1] = w /\ Ends[r][2] = v
        BY <1>3
    <2> QED BY <1>1, <1>3, <2>1 DEF GetNextRutVtx
<1> QED BY <1>2, <1>3 DEF Leads

\* A vertex on the border is known by its road and the one behind it.
LEMMA BorderTwin ==
    ASSUME BorderPlaces, NEW v \in Edge, NEW u \in Edge, Abut[u] \in RoadsAt(v),
           Abut[v] \in RoadsAt(u)
    PROVE  Twin(v, Abut[v]) = u /\ RoadsAt(u) = {Abut[v]} /\ RoadsAt(v) = {Abut[u]}
<1>1. v \in Vertex /\ u \in Vertex
    BY NetworkAssumption
<1>2. \A e \in Edge : RutList[e] \in Seq(Road) /\ Len(RutList[e]) = 1
    BY NetworkAssumption DEF BorderPlaces
<1>3. \A e \in Edge : RoadsAt(e) = {RutList[e][1]}
    <2> SUFFICES ASSUME NEW e \in Edge PROVE RoadsAt(e) = {RutList[e][1]}
        OBVIOUS
    <2>1. DOMAIN RutList[e] = {1}
        BY <1>2, LenProperties
    <2> QED BY <2>1 DEF RoadsAt, ToSet
<1>4. RutList[u][1] = Abut[v] /\ RutList[v][1] = Abut[u]
    BY <1>3
<1> DEFINE t == Twin(v, Abut[v])
<1>5. t \in Edge /\ Abut[t] = RutList[v][1] /\ t \in {Ends[Abut[v]][1], Ends[Abut[v]][2]}
    BY BorderAssumption DEF Twin
<1> HIDE DEF t
<1>6. Abut[v] \in RoadsAt(t)
    <2>1. Abut[v] \in Road
        BY NetworkAssumption
    <2> QED BY <1>5, <2>1, Network
<1>7. RutList[t][1] = RutList[u][1] /\ Abut[t] = Abut[u]
    BY <1>3, <1>4, <1>5, <1>6
<1>8. t = u
    BY <1>5, <1>7 DEF BorderPlaces
<1> QED BY <1>3, <1>4, <1>8 DEF t

\* What GoesOn says of a vertex on the border.
LEMMA GoesOnBorder ==
    ASSUME BorderPlaces, NEW v \in Edge, NEW r \in Road, NEW w \in Vertex, GoesOn(r, v, w)
    PROVE  /\ r = Abut[v] /\ RoadSheet(r) \in net.sheets /\ r \notin net.residential
           /\ Twin(v, r) \in Edge /\ Leads(r, Twin(v, r), w) /\ Twin(v, r) # w
           /\ RoadsAt(v) = {Abut[Twin(v, r)]} /\ RoadsAt(Twin(v, r)) = {r}
<1>1. PICK u \in Edge : Abut[u] \in RoadsAt(v) /\ Leads(r, u, w)
    BY DEF GoesOn
<1>2. r = Abut[v] /\ RoadSheet(r) \in net.sheets /\ r \notin net.residential
    BY DEF GoesOn
<1>3. <<u, w>> = Ends[r] \/ <<w, u>> = Ends[r]
    BY <1>1 DEF Leads
<1>4. r \in RoadsAt(u)
    BY <1>3, Network
<1>5. Twin(v, r) = u /\ RoadsAt(u) = {r} /\ RoadsAt(v) = {Abut[u]}
    BY <1>1, <1>2, <1>4, BorderTwin
<1>6. u # w
    BY <1>2, <1>3 DEF BorderPlaces
<1> QED BY <1>1, <1>2, <1>5, <1>6

\* As long as nothing was forgotten, the sheets of the listed vertices are loaded.
LEMMA SheetsLoaded ==
    ASSUME Inv, Loaded(cache), Unlimited, stage # "failed",
           NEW k \in DOMAIN closed
    PROVE  /\ closed[k] \in Node /\ closed[k].rut \in RoadsAt(closed[k].vtx)
           /\ \A r \in RoadsAt(closed[k].vtx) :
                r \in cache.rut /\ Ends[r][1] \in cache.vtx /\ Ends[r][2] \in cache.vtx
<1> DEFINE n == closed[k]
<1>1. n \in ToSet(closed)
    BY DEF ToSet
<1>2. n \in Node /\ n.vtx \in Vertex
    BY <1>1, NodesOfLists DEF Node
<1>3. n.vtx \in cache.vtx /\ n.rut \in RoadsAt(n.vtx)
    BY <1>1 DEF Inv, Seen, Held
<1>4. SheetOf[n.vtx] \in cache.counted
    BY <1>3 DEF Loaded
<1> HIDE DEF n
<1>5. ASSUME NEW r \in RoadsAt(n.vtx)
      PROVE  r \in cache.rut /\ Ends[r][1] \in cache.vtx /\ Ends[r][2] \in cache.vtx
    <2>1. r \in Road /\ Ends[r][1] \in Vertex /\ Ends[r][2] \in Vertex
        BY <1>2, Network
    <2>2. RoadSheet(r) = SheetOf[n.vtx]
        BY <1>2, Network
    <2>3. SheetOf[Ends[r][1]] = SheetOf[n.vtx] /\ SheetOf[Ends[r][2]] = SheetOf[n.vtx]
        BY <2>1, <2>2, NetworkAssumption DEF RoadSheet
    <2> QED BY <1>4, <2>1, <2>2, <2>3 DEF Loaded, Unlimited
<1> QED BY <1>2, <1>3, <1>5 DEF n

\* A search that is unlimited after a step was so before, and what a road led to it still does.
LEMMA StillUnlimited ==
    ASSUME Inv, Loaded(cache), SearchStep, Unlimited'
    PROVE  Unlimited
<1>1. Len(cache.ring) <= Len(cache'.ring)
    BY StepLoaded DEF Next
<1>2. Len(cache.ring) \in Nat /\ Len(cache'.ring) \in Nat /\ MaxSheets \in Nat
    <2>1. TypeOK'
        BY StepInv DEF Next, Inv
    <2> QED BY <2>1, LenProperties, NetworkAssumption DEF Inv, TypeOK
<1> QED BY <1>1, <1>2, SearchUnmoved DEF Unlimited

LEMMA StillListed ==
    ASSUME Inv, InLoop, Loaded(cache), ClosedListed, Expanded, SearchStep, Unlimited',
           NEW k \in DOMAIN closed, NEW r \in Road, NEW w \in Vertex,
           closed'[k] = closed[k], Leaves(k, r, w)', Done(k, r)
    PROVE  Listed(w)'
<1>1. Unlimited
    BY StillUnlimited
<1>2. UNCHANGED <<net, dest>> /\ stage \in {"next", "cross", "expand"}
    BY SearchUnmoved
<1>3. Leaves(k, r, w)
    BY <1>2 DEF Leaves, GoesOn, Leads
<1>4. Listed(w)
    BY <1>1, <1>2, <1>3 DEF Expanded
<1> QED BY <1>4, StepListed

\* A search that crosses a border lists where the road behind it leads.
LEMMA CrossLists ==
    ASSUME Inv, InLoop, BorderPlaces, Loaded(cache), ClosedListed, Cross,
           stage' # "undefined", Len(cache'.ring) <= MaxSheets,
           NEW r \in Road, NEW w \in Vertex, GoesOn(r, Last(closed).vtx, w),
           Distance(w, dest.vtx) <= MaxDis
    PROVE  Listed(w)'
<1> DEFINE v == Last(closed).vtx
           far == GetNextRutVtx(Twin(v, Behind), Behind, cache')
           ends == {Ends[Behind][1], Ends[Behind][2]}
<1>1. /\ v \in Edge /\ UNCHANGED closed /\ stage = "cross" /\ cache' \in Cache
      /\ ends \cap Edge \in SUBSET Vertex
    BY CrossOffers
<1>2. /\ r = Behind /\ r \notin net.residential
      /\ Twin(v, r) \in Edge /\ Leads(r, Twin(v, r), w) /\ Twin(v, r) # w
    BY <1>1, GoesOnBorder DEF Behind
<1>3. Loaded(cache') /\ RoadSheet(r) \in cache'.counted
    <2>1. cache' = ReadBreadthNetwork(cache, RoadSheet(r), status)
        BY <1>2 DEF Cross
    <2>2. RoadSheet(r) \in Sheet /\ cache \in Cache
        BY NetworkAssumption DEF Cross, Inv, TypeOK, Cache, RoadSheet
    <2> QED BY <2>1, <2>2, ReadLoads
<1>4. r \in cache'.rut /\ ends \subseteq cache'.vtx /\ w \in ends
    <2>1. Ends[r][1] \in Vertex /\ Ends[r][2] \in Vertex /\ SheetOf[Ends[r][2]] = RoadSheet(r)
        BY Network, NetworkAssumption DEF RoadSheet
    <2>2. Ends[r][1] \in cache'.vtx /\ Ends[r][2] \in cache'.vtx /\ r \in cache'.rut
        BY <1>3, <2>1 DEF Loaded, RoadSheet
    <2>3. w = Ends[r][1] \/ w = Ends[r][2]
        <3>1. <<Twin(v, r), w>> = Ends[r] \/ <<w, Twin(v, r)>> = Ends[r]
            BY <1>2 DEF Leads
        <3> QED BY <3>1
    <2> QED BY <1>2, <2>2, <2>3
<1>5. far = w /\ w # None
    <2>1. Twin(v, r) \in Vertex /\ w \in cache'.vtx
        BY <1>2, <1>4, NetworkAssumption
    <2> HIDE DEF v
    <2> QED BY <1>2, <2>1, LeadsNext
<1>6. Become(CalculateNetworkNode(Behind, far), ends \cap Edge)
    BY <1>2, <1>4, <1>5 DEF Cross
<1> HIDE DEF far, ends, v
<1>7. Become(CalculateNetworkNode(r, w), ends \cap Edge)
    BY <1>2, <1>5, <1>6
<1> QED BY <1>1, <1>7, OfferListed

\* A search that has looked at a road of a vertex lists where it leads.
LEMMA ExpandLists ==
    ASSUME Inv, InLoop, Loaded(cache), ClosedListed, Unlimited, PassOver \/ Follow,
           NEW w \in Vertex, GoesOn(This, Last(closed).vtx, w),
           This # Last(closed).rut \/ Len(closed) = 1, Distance(w, dest.vtx) <= MaxDis
    PROVE  Listed(w)'
<1> DEFINE n == Last(closed)
           v == n.vtx
           k == Len(closed)
<1>1. stage = "expand" /\ UNCHANGED <<closed, net, dest>>
    BY DEF PassOver, Follow
<1>2. k \in DOMAIN closed /\ n = closed[k]
    <2>1. closed # <<>> /\ closed \in Seq(Node)
        BY <1>1 DEF Inv, TypeOK, Fresh
    <2> QED BY <2>1, EmptySeq, LenProperties DEF Last
<1>3. v \notin Edge /\ next \in DOMAIN RutList[v] /\ This = RutList[v][next]
    BY <1>1 DEF InLoop, This
<1>4. This \in RoadsAt(v)
    BY <1>3 DEF RoadsAt, ToSet
<1>5. /\ v \in Vertex /\ This \in cache.rut
      /\ Ends[This][1] \in cache.vtx /\ Ends[This][2] \in cache.vtx
    <2>1. n \in Node /\ This \in cache.rut
          /\ Ends[This][1] \in cache.vtx /\ Ends[This][2] \in cache.vtx
        BY <1>1, <1>2, <1>4, SheetsLoaded
    <2> QED BY <2>1 DEF Node
<1>6. This \in Road
    BY <1>5 DEF Inv, TypeOK
<1>7. Leads(This, v, w) /\ This \notin net.residential
    BY <1>3 DEF GoesOn
<1>8. CASE v = w
    BY <1>1, <1>2, <1>8 DEF Listed, Has
<1>9. CASE v # w
    <2>1. w \in cache.vtx
        <3>1. <<v, w>> = Ends[This] \/ <<w, v>> = Ends[This]
            BY <1>7 DEF Leads
        <3>2. w = Ends[This][1] \/ w = Ends[This][2]
            BY <3>1
        <3> QED BY <1>5, <3>2
    <2> HIDE DEF v
    <2>2. GetNextRutVtx(v, This, cache) = w /\ w # None
        BY <1>5, <1>6, <1>7, <1>9, <2>1, LeadsNext
    <2>3. Open
        BY <1>5, <1>7, <2>2 DEF Open, v
    <2>4. ~PassOver
        BY <2>3 DEF PassOver, Unlimited
    <2>5. Become(CalculateNetworkNode(This, w), {})
        BY <2>2, <2>4, FollowOffers DEF v
    <2> QED BY <1>1, <1>6, <2>5, OfferListed
<1> QED BY <1>8, <1>9

\* Closing a node leaves all its roads to be looked at.
LEMMA CloseTopExpands ==
    ASSUME Inv, CloseTop,
           NEW k \in DOMAIN closed', NEW r \in Road, Done(k, r)'
    PROVE  k \in DOMAIN closed /\ closed'[k] = closed[k] /\ Done(k, r)
<1>1. /\ Len(closed') = Len(closed) + 1 /\ Len(closed) \in Nat
      /\ DOMAIN closed = 1..Len(closed) /\ DOMAIN closed' = 1..Len(closed) + 1
      /\ \A j \in DOMAIN closed : closed'[j] = closed[j]
    BY CloseTopLists
<1>2. stage = "next" /\ stage' \in {"cross", "expand"} /\ next' = 1
    BY DEF CloseTop
<1>3. k # Len(closed')
    BY <1>2 DEF Done
<1>4. k \in DOMAIN closed
    BY <1>1, <1>3
<1> QED BY <1>1, <1>2, <1>4 DEF Done

\* What the loop has looked at after a step that it had not looked at before.
LEMMA LooksAt ==
    ASSUME Inv, InLoop, SearchStep, UNCHANGED closed,
           stage' \in {"next", "cross", "expand", "disconnected"},
           NEW k \in DOMAIN closed, NEW r \in Road, r \in RoadsAt(closed[k].vtx) \/ stage = "cross",
           Done(k, r)', ~Done(k, r)
    PROVE  /\ k = Len(closed) /\ closed[k] = Last(closed)
           /\ \/ stage = "cross" /\ (NothingBehind \/ Cross)
              \/ stage = "expand" /\ (PassOver \/ Follow) /\ r = This
<1>1. k = Len(closed) /\ closed[k] = Last(closed) /\ stage \in {"cross", "expand"}
    BY SearchUnmoved DEF Done, Last
<1>2. CASE stage = "cross"
    BY <1>1, <1>2 DEF SearchStep, Arrive, CloseTop, Disconnect, LoadFails, MarkFails, PassOver,
                      Follow, ReadFreedDestination
<1>3. CASE stage = "expand"
    <2>1. PassOver \/ Follow
        BY <1>3 DEF SearchStep, Arrive, CloseTop, Disconnect, LoadFails, MarkFails, NothingBehind,
                    Cross, ReadFreedDestination
    <2> DEFINE v == Last(closed).vtx
    <2>2. next \in DOMAIN RutList[v] /\ v \in Vertex /\ r \in RoadsAt(v)
        <3>1. Last(closed) \in ToSet(closed)
            BY <1>1 DEF ToSet
        <3>2. Last(closed) \in Node
            BY <3>1, NodesOfLists
        <3> QED BY <1>1, <1>3, <3>2 DEF InLoop, Node
    <2>3. DOMAIN RutList[v] = 1..Len(RutList[v]) /\ Len(RutList[v]) \in Nat /\ next \in Nat
        <3>1. RutList[v] \in Seq(Road)
            BY <2>2, NetworkAssumption
        <3> QED BY <2>2, <3>1, LenProperties
    <2>4. Onwards
        BY <2>1 DEF PassOver, Follow
    <2>5. \E i \in 1..next : RutList[v][i] = r
        <3>1. CASE stage' = "next"
            <4>1. PICK i \in DOMAIN RutList[v] : RutList[v][i] = r
                BY <2>2 DEF RoadsAt, ToSet
            <4>2. next = Len(RutList[v])
                BY <2>4, <3>1 DEF Onwards
            <4> QED BY <2>3, <4>1, <4>2
        <3>2. CASE stage' = "expand"
            <4>1. next' - 1 = next
                BY <2>3, <2>4 DEF Onwards
            <4>2. \E i \in 1..next' - 1 : RutList[closed'[k].vtx][i] = r
                BY <1>1, <3>2 DEF Done
            <4> QED BY <1>1, <4>1, <4>2
        <3> QED BY <2>4, <3>1, <3>2 DEF Onwards
    <2>6. PICK i \in 1..next : RutList[v][i] = r
        BY <2>5
    <2>7. ~(i \in 1..next - 1)
        BY <1>1, <1>3, <2>6 DEF Done
    <2>8. i = next
        BY <2>3, <2>6, <2>7
    <2> QED BY <1>1, <1>3, <2>1, <2>6, <2>8 DEF This
<1> QED BY <1>1, <1>2, <1>3

LEMMA StepExpanded ==
    ASSUME BorderPlaces,
           Inv, InLoop, Loaded(cache), ClosedListed, Expanded, SearchStep
    PROVE  Expanded'
<1> SUFFICES ASSUME Unlimited', stage' \in {"next", "cross", "expand", "disconnected"},
                    NEW k \in DOMAIN closed', NEW r \in Road, NEW w \in Vertex,
                    Leaves(k, r, w)', Done(k, r)'
             PROVE  Listed(w)'
    BY DEF Expanded
<1>1. UNCHANGED <<net, dest>> /\ (UNCHANGED closed \/ CloseTop)
    BY SearchUnmoved
<1>2. Unlimited
    BY StillUnlimited
<1>3. CASE CloseTop
    <2>1. k \in DOMAIN closed /\ closed'[k] = closed[k] /\ Done(k, r)
        BY <1>3, CloseTopExpands
    <2> QED BY <2>1, StillListed
<1>4. CASE UNCHANGED closed
    <2>1. k \in DOMAIN closed /\ closed'[k] = closed[k]
        BY <1>4
    <2>2. CASE Done(k, r)
        BY <2>1, <2>2, StillListed
    <2>3. CASE ~Done(k, r)
        <3>1. /\ GoesOn(r, closed[k].vtx, w) /\ Distance(w, dest.vtx) <= MaxDis
              /\ closed[k].vtx \in Edge \/ r # closed[k].rut \/ k = 1
            BY <1>1, <1>4 DEF Leaves, GoesOn, Leads
        <3>2. r \in RoadsAt(closed[k].vtx) \/ stage = "cross"
            <4>1. ASSUME closed[k].vtx \notin Edge PROVE r \in RoadsAt(closed[k].vtx)
                <5>1. Leads(r, closed[k].vtx, w)
                    BY <3>1, <4>1 DEF GoesOn
                <5>2. closed[k].vtx \in Vertex
                    <6>1. closed[k] \in ToSet(closed)
                        BY <2>1 DEF ToSet
                    <6>2. closed[k] \in Node
                        BY <6>1, NodesOfLists
                    <6> QED BY <6>2 DEF Node
                <5>3. closed[k].vtx = Ends[r][1] \/ closed[k].vtx = Ends[r][2]
                    <6>1. <<closed[k].vtx, w>> = Ends[r] \/ <<w, closed[k].vtx>> = Ends[r]
                        BY <5>1 DEF Leads
                    <6> QED BY <6>1
                <5>4. RoadsAt(closed[k].vtx) =
                        {s \in Road : closed[k].vtx \in {Ends[s][1], Ends[s][2]}}
                    BY <5>2, NetworkAssumption
                <5> QED BY <5>3, <5>4
            <4>2. stage # "cross" => closed[k].vtx \notin Edge
                BY <2>1, <2>3, SearchUnmoved DEF Done, InLoop, Last
            <4> QED BY <4>1, <4>2
        <3>3. /\ k = Len(closed) /\ closed[k] = Last(closed)
              /\ \/ stage = "cross" /\ (NothingBehind \/ Cross)
                 \/ stage = "expand" /\ (PassOver \/ Follow) /\ r = This
            BY <1>4, <2>1, <2>3, <3>2, LooksAt
        <3>4. CASE NothingBehind
            <4>1. Last(closed).vtx \in Edge /\ RoadSheet(Behind) \notin net.sheets
                BY <3>4 DEF NothingBehind, InLoop
            <4>2. r = Behind /\ RoadSheet(r) \in net.sheets
                BY <3>1, <3>3, <4>1 DEF GoesOn, Behind
            <4> QED BY <4>1, <4>2
        <3>5. CASE Cross
            BY <3>1, <3>3, <3>5, CrossLists DEF Unlimited
        <3>6. CASE stage = "expand" /\ (PassOver \/ Follow) /\ r = This
            <4>1. Last(closed).vtx \notin Edge
                BY <3>6 DEF InLoop
            <4> QED BY <1>2, <3>1, <3>3, <3>6, <4>1, ExpandLists
        <3> QED BY <3>3, <3>4, <3>5, <3>6
    <2> QED BY <2>2, <2>3
<1> QED BY <1>1, <1>3, <1>4

----------------------------------------------------------------------------
(* The invariant holds *)

ReachInv ==
    /\ Inv /\ ParentsLead /\ InLoop /\ Loaded(cache)
    /\ ClosedListed /\ Expanded /\ Rooted /\ Underway

LEMMA InitReach == Init => ReachInv
<1> SUFFICES ASSUME Init PROVE ReachInv
    OBVIOUS
<1>1. Inv /\ ParentsLead /\ InLoop /\ Loaded(cache)
    BY InitBegins, BeginsInv, InitLeads, BeginsLoaded
<1>2. open = <<StartNode(start)>> /\ closed = <<>> /\ stage = "next" /\ Fresh /\ DOMAIN closed = {}
    BY DEF Init, Fresh
<1>3. ClosedListed
    BY DEF Init, ClosedListed
<1>4. Expanded /\ Rooted
    BY <1>2 DEF Expanded, Rooted
<1>5. Has(open, start.vtx)
    BY <1>2 DEF Has, StartNode
<1>6. Underway
    BY <1>2, <1>5 DEF Underway, Listed, Has
<1> QED BY <1>1, <1>3, <1>4, <1>6 DEF ReachInv

\* A new leg starts with empty lists, and no vertex closed.
LEMMA LegReach ==
    ASSUME ReachInv, NextLeg \/ NextLegReloaded \/ LegFails
    PROVE  ClosedListed' /\ Expanded' /\ Underway'
<1>1. /\ closed' = <<>> /\ DOMAIN closed' = {} /\ stage' \in {"next", "failed"}
      /\ status' = ClearedStatus \/ status' = [v \in Vertex |-> 0]
    BY DEF NextLeg, NextLegReloaded, LegFails
<1>2. \A v \in Vertex : ClearedStatus[v] # 2
    <2> SUFFICES ASSUME NEW v \in Vertex PROVE ClearedStatus[v] # 2
        OBVIOUS
    <2>1. CASE \E n \in ToSet(open) \cup ToSet(closed) : n.vtx = v
        BY <2>1 DEF ClearedStatus
    <2>2. CASE ~ \E n \in ToSet(open) \cup ToSet(closed) : n.vtx = v
        <3>1. ~Listed(v)
            BY <2>2 DEF Listed, Has, ToSet
        <3> QED BY <2>2, <3>1 DEF ClearedStatus, ReachInv, ClosedListed
    <2> QED BY <2>1, <2>2
<1>3. ClosedListed'
    BY <1>1, <1>2 DEF ClosedListed
<1>4. Expanded'
    BY <1>1 DEF Expanded
<1>5. Underway'
    <2>1. ~Has(closed', dest'.vtx)
        BY <1>1 DEF Has
    <2>2. (stage # "failed" => Listed(start.vtx))'
        <3>1. CASE NextLeg \/ NextLegReloaded
            <4>1. open' = <<StartNode(start')>>
                BY <3>1 DEF NextLeg, NextLegReloaded
            <4>2. Has(open', start'.vtx)
                BY <4>1 DEF Has, StartNode
            <4> QED BY <4>2 DEF Listed
        <3>2. CASE LegFails
            BY <3>2 DEF LegFails
        <3> QED BY <3>1, <3>2
    <2> QED BY <1>1, <2>1, <2>2 DEF Underway
<1> QED BY <1>3, <1>4, <1>5

LEMMA StepReach == BorderPlaces => (ReachInv /\ [Next]_vars => ReachInv')
<1> SUFFICES ASSUME BorderPlaces, ReachInv, [Next]_vars PROVE ReachInv'
    OBVIOUS
<1>1. (Inv /\ ParentsLead /\ InLoop /\ Loaded(cache) /\ Rooted)'
    BY StepInv, StepLeads, StepLoaded, StepRooted DEF ReachInv
<1>2. (ClosedListed /\ Expanded /\ Underway)'
    <2>1. CASE SearchStep
        BY <2>1, StepListed, StepExpanded, StepUnderway DEF ReachInv
    <2>2. CASE NextLeg \/ NextLegReloaded \/ LegFails
        BY <2>2, LegReach
    <2>3. CASE UNCHANGED vars
        BY <2>3 DEF vars, ReachInv, ClosedListed, Expanded, Underway, Listed, Has, Unlimited,
                    Leaves, Done, GoesOn, Leads
    <2> QED BY <2>1, <2>2, <2>3 DEF Next
<1> QED BY <1>1, <1>2 DEF ReachInv

----------------------------------------------------------------------------
(* A search that found nothing *)

\* Vertex u is where the search knows it: on the list, or on a border as another that is.
Known(u) ==
    \/ Has(closed, u)
    \/ \E t \in Edge : /\ Has(closed, t)
                       /\ u \in Edge /\ Abut[t] \in RoadsAt(u) /\ Abut[u] \in RoadsAt(t)

\* The other end of the road a vertex was reached on is known.
LEMMA ParentKnown ==
    ASSUME BorderPlaces, ReachInv,
           NEW k \in DOMAIN closed, closed[k] # StartNode(start),
           NEW w \in Vertex, Leads(closed[k].rut, closed[k].vtx, w)
    PROVE  Known(w)
<1> DEFINE n == closed[k]
           p == closed[n.parent]
           r == n.rut
<1>1. n.parent \in DOMAIN closed /\ GoesOn(r, p.vtx, n.vtx)
    <2>1. n \in ToSet(closed)
        BY DEF ToSet
    <2> QED BY <2>1 DEF ReachInv, ParentsLead
<1>2. r \in Road /\ n.vtx \in Vertex /\ p.vtx \in Vertex
    <2>1. n \in ToSet(closed) /\ p \in ToSet(closed)
        BY <1>1 DEF ToSet
    <2>2. n \in Node /\ p \in Node
        BY <2>1, NodesOfLists DEF ReachInv
    <2> QED BY <2>2 DEF Node
<1>3. Has(closed, n.vtx) /\ Has(closed, p.vtx)
    BY <1>1 DEF Has
<1>4. <<n.vtx, w>> = Ends[r] \/ <<w, n.vtx>> = Ends[r]
    BY DEF Leads
<1>5. CASE p.vtx \notin Edge
    <2>1. <<p.vtx, n.vtx>> = Ends[r] \/ <<n.vtx, p.vtx>> = Ends[r]
        BY <1>1, <1>5 DEF GoesOn, Leads
    <2>2. w = p.vtx \/ w = n.vtx
        BY <1>4, <2>1
    <2> QED BY <1>3, <2>2 DEF Known
<1>6. CASE p.vtx \in Edge
    <2> DEFINE u == Twin(p.vtx, r)
    <2>1. /\ r = Abut[p.vtx] /\ u \in Edge /\ Leads(r, u, n.vtx)
          /\ RoadsAt(p.vtx) = {Abut[u]} /\ RoadsAt(u) = {r}
        BY <1>1, <1>2, <1>6, GoesOnBorder
    <2>2. <<u, n.vtx>> = Ends[r] \/ <<n.vtx, u>> = Ends[r]
        BY <2>1 DEF Leads
    <2>3. w = u \/ w = n.vtx
        BY <1>4, <2>2
    <2>4. Known(u)
        BY <1>3, <1>6, <2>1 DEF Known
    <2> HIDE DEF u, n
    <2> QED BY <1>3, <2>3, <2>4 DEF Known
<1> QED BY <1>5, <1>6

\* When the open list is empty, every road from a known vertex leads to a known one.
LEMMA KnownCloses ==
    ASSUME BorderPlaces, ReachInv, stage = "disconnected", Unlimited, start.vtx \notin Edge,
           NEW v \in Vertex, Known(v),
           NEW r \in Road, NEW w \in Vertex, GoesOn(r, v, w), Distance(w, dest.vtx) <= MaxDis
    PROVE  Known(w)
<1>1. \A u \in Vertex : Listed(u) => Has(closed, u)
    BY EmptySeq DEF ReachInv, Underway, Listed, Has
<1>2. \A j \in Nat : Done(j, r)
    BY DEF Done
<1>3. ASSUME NEW k \in DOMAIN closed, Leaves(k, r, w) PROVE Known(w)
    <2>1. Listed(w)
        BY <1>3 DEF ReachInv, Expanded, Done
    <2> QED BY <1>1, <2>1 DEF Known
<1>4. CASE Has(closed, v)
    <2>1. PICK k \in DOMAIN closed : closed[k].vtx = v
        BY <1>4 DEF Has
    <2>2. CASE v \in Edge \/ r # closed[k].rut \/ k = 1
        <3>1. Leaves(k, r, w)
            BY <2>1, <2>2 DEF Leaves
        <3> QED BY <1>3, <3>1
    <2>3. CASE v \notin Edge /\ r = closed[k].rut /\ k # 1
        <3>1. Leads(r, v, w)
            BY <2>3 DEF GoesOn
        <3>2. closed[k] # StartNode(start)
            BY <2>3 DEF ReachInv, Rooted, StartNode
        <3> QED BY <2>1, <2>3, <3>1, <3>2, ParentKnown
    <2> QED BY <2>2, <2>3
<1>5. CASE ~Has(closed, v)
    <2>1. PICK t \in Edge : /\ Has(closed, t)
                            /\ v \in Edge /\ Abut[t] \in RoadsAt(v) /\ Abut[v] \in RoadsAt(t)
        BY <1>5 DEF Known
    <2>2. Twin(v, Abut[v]) = t
        BY <2>1, BorderTwin
    <2>3. r = Abut[v] /\ Leads(r, t, w) /\ RoadsAt(t) = {r}
        BY <2>1, <2>2, GoesOnBorder
    <2>4. PICK k \in DOMAIN closed : closed[k].vtx = t
        BY <2>1 DEF Has
    <2>5. closed[k] \in ToSet(closed)
        BY DEF ToSet
    <2>6. closed[k].rut = r
        <3>1. closed[k].rut \in RoadsAt(t)
            BY <2>4, <2>5 DEF ReachInv, Inv, Seen, Held
        <3> QED BY <2>3, <3>1
    <2>7. closed[k] # StartNode(start)
        BY <2>1, <2>4 DEF StartNode
    <2> QED BY <2>3, <2>4, <2>6, <2>7, ParentKnown
<1> QED BY <1>4, <1>5

\* What Reached adds to places already reached.
OnwardsFrom(S) ==
    {p \in {<<Ends[r][i], r>> : r \in Road, i \in 1..2} :
        /\ Distance(p[1], dest.vtx) <= MaxDis
        /\ \E q \in S : q[2] # p[2] /\ GoesOn(p[2], q[1], p[1])}

\* f gives what is reached over n roads, for n up to m.
ReachedUpto(f, m) ==
    f = [n \in 0..m |-> IF n = 0 THEN {<<start.vtx, None>>}
                        ELSE f[n - 1] \cup OnwardsFrom(f[n - 1])]

LEMMA ReachedExists ==
    ASSUME NEW N \in Nat
    PROVE  \E f : ReachedUpto(f, N)
<1> DEFINE Bad == {m \in 0..N : ~ \E f : ReachedUpto(f, m)}
<1>1. ASSUME Bad # {} PROVE FALSE
    <2> DEFINE m == Min2(Bad)
    <2>1. m \in Bad /\ \A n \in Bad : m <= n
        <3>1. Bad \in SUBSET Nat
            OBVIOUS
        <3> HIDE DEF Bad
        <3> QED BY <1>1, <3>1, LeastOfSome
    <2> HIDE DEF m
    <2>2. m \in 0..N /\ m \in Nat
        BY <2>1
    <2>3. CASE m = 0
        <3>1. ReachedUpto([n \in 0..0 |-> {<<start.vtx, None>>}], 0)
            BY SMT DEF ReachedUpto
        <3> QED BY <2>1, <2>3, <3>1
    <2>4. CASE m # 0
        <3>1. m - 1 \in 0..N /\ ~(m <= m - 1)
            BY <2>2, <2>4
        <3>2. PICK g : ReachedUpto(g, m - 1)
            BY <2>1, <3>1
        <3>3. \A n \in 0..m - 1 : g[n] = IF n = 0 THEN {<<start.vtx, None>>}
                                         ELSE g[n - 1] \cup OnwardsFrom(g[n - 1])
            BY <3>2 DEF ReachedUpto
        <3> DEFINE x == g[m - 1] \cup OnwardsFrom(g[m - 1])
                   h == [n \in 0..m |-> IF n = m THEN x ELSE g[n]]
        <3>4. \A n \in 0..m - 1 : h[n] = g[n]
            BY <2>2
        <3>5. h[m] = x
            BY <2>2
        <3>6. h = [n \in 0..m |-> h[n]]
            OBVIOUS
        <3> HIDE DEF h
        <3>7. \A n \in 0..m : h[n] = IF n = 0 THEN {<<start.vtx, None>>}
                                     ELSE h[n - 1] \cup OnwardsFrom(h[n - 1])
            <4> SUFFICES ASSUME NEW n \in 0..m
                         PROVE  h[n] = IF n = 0 THEN {<<start.vtx, None>>}
                                       ELSE h[n - 1] \cup OnwardsFrom(h[n - 1])
                OBVIOUS
            <4>1. CASE n = m
                <5>1. m - 1 \in 0..m - 1
                    BY <2>2, <2>4
                <5>2. h[m - 1] = g[m - 1]
                    BY <3>4, <5>1
                <5> QED BY <2>4, <3>5, <4>1, <5>2
            <4>2. CASE n # m
                <5>1. n \in 0..m - 1 /\ (n # 0 => n - 1 \in 0..m - 1)
                    BY <2>2, <4>2
                <5>2. h[n] = g[n] /\ (n # 0 => h[n - 1] = g[n - 1])
                    BY <3>4, <5>1
                <5> QED BY <3>3, <5>1, <5>2
            <4> QED BY <4>1, <4>2
        <3>8. ReachedUpto(h, m)
            BY <3>6, <3>7, Zenon DEF ReachedUpto
        <3> QED BY <2>1, <3>8
    <2> QED BY <2>3, <2>4
<1>2. N \in 0..N
    OBVIOUS
<1> QED BY <1>1, <1>2

\* Whatever a drive reaches is known.
LEMMA ReachedKnown ==
    ASSUME BorderPlaces, ReachInv, stage = "disconnected", Unlimited, start.vtx \notin Edge,
           NEW N \in Nat, NEW f, ReachedUpto(f, N)
    PROVE  \A n \in 0..N : \A q \in f[n] : q[1] \in Vertex /\ Known(q[1])
<1> DEFINE Bad == {n \in 0..N : ~ \A q \in f[n] : q[1] \in Vertex /\ Known(q[1])}
<1>1. \A n \in 0..N : f[n] = IF n = 0 THEN {<<start.vtx, None>>}
                             ELSE f[n - 1] \cup OnwardsFrom(f[n - 1])
    BY DEF ReachedUpto
<1>2. start.vtx \in Vertex /\ Known(start.vtx)
    <2>1. start.vtx \in Vertex
        BY DEF ReachInv, Inv, TypeOK, WayPoint
    <2>2. Listed(start.vtx) /\ open = <<>>
        BY DEF ReachInv, Underway
    <2> QED BY <2>1, <2>2 DEF Known, Listed, Has
<1>3. ASSUME Bad # {} PROVE FALSE
    <2> DEFINE m == Min2(Bad)
    <2>1. m \in Bad /\ \A n \in Bad : m <= n
        <3>1. Bad \in SUBSET Nat
            OBVIOUS
        <3> HIDE DEF Bad
        <3> QED BY <1>3, <3>1, LeastOfSome
    <2> HIDE DEF m
    <2>2. PICK p \in f[m] : ~(p[1] \in Vertex /\ Known(p[1]))
        BY <2>1
    <2>3. m \in 0..N
        BY <2>1
    <2>4. m # 0
        <3> SUFFICES ASSUME m = 0 PROVE FALSE
            OBVIOUS
        <3>1. p = <<start.vtx, None>>
            BY <1>1, <2>2, <2>3
        <3> QED BY <1>2, <2>2, <3>1
    <2>5. m - 1 \in 0..N /\ ~(m <= m - 1)
        BY <2>3, <2>4
    <2>6. \A q \in f[m - 1] : q[1] \in Vertex /\ Known(q[1])
        BY <2>1, <2>5
    <2>7. p \in OnwardsFrom(f[m - 1])
        BY <1>1, <2>2, <2>3, <2>4, <2>6
    <2>8. PICK q \in f[m - 1] : GoesOn(p[2], q[1], p[1])
        BY <2>7 DEF OnwardsFrom
    <2>9. Distance(p[1], dest.vtx) <= MaxDis
        BY <2>7 DEF OnwardsFrom
    <2>10. p[2] \in Road /\ p[1] \in Vertex
        <3>1. PICK r \in Road, i \in 1..2 : p = <<Ends[r][i], r>>
            BY <2>7 DEF OnwardsFrom
        <3>2. i = 1 \/ i = 2
            OBVIOUS
        <3>3. Ends[r][i] \in Vertex
            BY <3>2, Network
        <3> QED BY <3>1, <3>3
    <2>11. Known(p[1])
        BY <2>6, <2>8, <2>9, <2>10, KnownCloses
    <2> QED BY <2>2, <2>10, <2>11
<1> QED BY <1>3

\* A search that finds nothing leaves the destination unreached.
LEMMA ReachInvReal ==
    ASSUME BorderPlaces, ReachInv, start.vtx \notin Edge, dest.vtx \notin Edge
    PROVE  DisconnectIsReal
<1> SUFFICES ASSUME stage = "disconnected", Unlimited PROVE dest.vtx \notin Reached
    BY DEF DisconnectIsReal, Unlimited
<1> DEFINE N == Cardinality(Vertex)
           f == CHOOSE g : ReachedUpto(g, N)
<1>1. N \in Nat
    BY FS_CardinalityType DEF BorderPlaces
<1>2. ReachedUpto(f, N)
    <2> HIDE DEF N
    <2> QED BY <1>1, ReachedExists
<1>3. Reached = {p[1] : p \in f[N]}
    BY DEF Reached, ReachedUpto, OnwardsFrom
<1>4. \A q \in f[N] : Known(q[1])
    <2> HIDE DEF N, f
    <2>1. N \in 0..N
        BY <1>1
    <2> QED BY <1>1, <1>2, <2>1, ReachedKnown
<1>5. ~Known(dest.vtx)
    BY DEF Known, ReachInv, Underway, Unlimited
<1> HIDE DEF f, N
<1> QED BY <1>3, <1>4, <1>5

----------------------------------------------------------------------------
(* Theorem *)

\* A search between way points inside their sheets only reports a disconnected network when
\* no drive reaches the destination, as long as no turn is limited and no sheet has been
\* forgotten: CalculateOptimalPathRut never passes over a vertex it would have to open.  With
\* a way point on a border it may: the search leaves a start only over the road behind it, and
\* does not come back to the place over the road it was left on.
THEOREM AlwaysReal ==
    ASSUME BorderPlaces
    PROVE  Spec => [](start.vtx \notin Edge /\ dest.vtx \notin Edge => DisconnectIsReal)
<1>1. Init => ReachInv
    BY InitReach
<1>2. ReachInv /\ [Next]_vars => ReachInv'
    BY StepReach
<1>3. ReachInv => (start.vtx \notin Edge /\ dest.vtx \notin Edge => DisconnectIsReal)
    BY ReachInvReal
<1> QED BY <1>1, <1>2, <1>3, PTL DEF Spec
=============================================================================
