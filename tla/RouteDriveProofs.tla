------------------------- MODULE RouteDriveProofs -------------------------
(***************************************************************************)
(* What is proved of the drives RouteSearch answers, for every network     *)
(* where no limit applies across a border (LimitsStayInside).  The code    *)
(* follows parents in two loops: back to the last road outside junctions,  *)
(* for a limit, and back to the start, for the answer.  Both are recursive *)
(* functions in the model; here they are first shown to be functions.      *)
(***************************************************************************)
EXTENDS RouteSearchProofs

----------------------------------------------------------------------------
(* Following parents *)

\* Every node of list c was reached from an earlier one, or from none.
Backwards(c) == c \in Seq(Node) /\ \A k \in DOMAIN c : c[k].parent < k

\* f says for each place of c, and for none, which road outside J was driven last.
IsLastOutside(f, c, J) ==
    f = [k \in 0..Len(c) |-> IF k = 0 THEN None
                             ELSE IF c[k].rut \notin J THEN c[k].rut
                             ELSE f[c[k].parent]]

\* f gives for each place of c the nodes from the start to it.
IsWay(f, c) ==
    f = [k \in 0..Len(c) |-> IF k = 0 THEN <<>> ELSE Append(f[c[k].parent], c[k])]

LastOutside(c, J) == CHOOSE f : IsLastOutside(f, c, J)

Way(c) == CHOOSE f : IsWay(f, c)

\* LimitingRoad of a node whose parent is in c, where J are the roads inside junctions.
Limit(c, J, node) == IF node.rut \notin J THEN node.rut ELSE LastOutside(c, J)[node.parent]

\* A node's parent is a place in the list or none.
LEMMA ParentPlace ==
    ASSUME NEW c, Backwards(c), NEW k \in DOMAIN c
    PROVE  c[k] \in Node /\ c[k].parent \in 0..k - 1 /\ k \in 1..Len(c) /\ Len(c) \in Nat
<1>1. c \in Seq(Node) /\ DOMAIN c = 1..Len(c) /\ Len(c) \in Nat
    BY LenProperties DEF Backwards
<1>2. c[k] \in Node
    BY <1>1, ElementOfSeq
<1>3. c[k].parent \in Nat /\ c[k].parent < k
    BY <1>2 DEF Backwards, Node
<1> QED BY <1>1, <1>2, <1>3

\* The code's first loop is a function: it always goes back.
LEMMA LastOutsideExists ==
    ASSUME NEW c, NEW J, Backwards(c)
    PROVE  IsLastOutside(LastOutside(c, J), c, J)
<1> DEFINE Upto(f, n) ==
              f = [k \in 0..n |-> IF k = 0 THEN None
                                  ELSE IF c[k].rut \notin J THEN c[k].rut
                                  ELSE f[c[k].parent]]
           Bad == {n \in 0..Len(c) : ~ \E f : Upto(f, n)}
<1>1. Len(c) \in Nat /\ DOMAIN c = 1..Len(c)
    BY LenProperties DEF Backwards
<1>2. Bad = {}
    <2> SUFFICES ASSUME Bad # {} PROVE FALSE
        OBVIOUS
    <2>1. Bad \in SUBSET Nat
        BY <1>1
    <2> DEFINE m == Min2(Bad)
    <2>2. m \in Bad /\ \A n \in Bad : m <= n
        BY <2>1, LeastOfSome
    <2> HIDE DEF m
    <2>3. m \in 0..Len(c)
        BY <2>2
    <2>4. CASE m = 0
        <3>1. Upto([k \in 0..0 |-> None], 0)
            BY SMT
        <3> QED BY <2>2, <2>4, <3>1
    <2>5. CASE m # 0
        <3>0. m - 1 \in 0..Len(c) /\ ~(m <= m - 1)
            BY <1>1, <2>3, <2>5
        <3>1. m - 1 \in 0..Len(c) /\ m - 1 \notin Bad
            BY <2>2, <3>0
        <3>2. PICK g : Upto(g, m - 1)
            BY <3>1
        <3>3. m \in DOMAIN c
            BY <1>1, <2>3, <2>5
        <3>4. \A k \in 1..m : c[k].parent \in 0..k - 1
            BY <1>1, <2>3, ParentPlace
        <3> DEFINE x == IF c[m].rut \notin J THEN c[m].rut ELSE g[c[m].parent]
                   h == [k \in 0..m |-> IF k = m THEN x ELSE g[k]]
        <3>5. \A k \in 0..m - 1 : h[k] = g[k]
            BY <2>3
        <3>6. h[m] = x
            BY <2>3
        <3>7. \A k \in 0..m - 1 : g[k] = IF k = 0 THEN None
                                         ELSE IF c[k].rut \notin J THEN c[k].rut
                                         ELSE g[c[k].parent]
            BY <3>2
        <3>8. h = [k \in 0..m |-> h[k]]
            OBVIOUS
        <3> HIDE DEF h
        <3>9. \A k \in 0..m : h[k] = IF k = 0 THEN None
                                     ELSE IF c[k].rut \notin J THEN c[k].rut
                                     ELSE h[c[k].parent]
            <4> SUFFICES ASSUME NEW k \in 0..m
                         PROVE  h[k] = IF k = 0 THEN None
                                       ELSE IF c[k].rut \notin J THEN c[k].rut
                                       ELSE h[c[k].parent]
                OBVIOUS
            <4>1. CASE k = 0
                <5>1. 0 \in 0..m - 1
                    BY <2>3, <2>5
                <5> QED BY <3>5, <3>7, <4>1, <5>1
            <4>2. CASE k \in 1..m - 1
                <5>1. c[k].parent \in 0..m - 1 /\ k \in 0..m - 1 /\ k # 0
                    BY <2>3, <3>4, <4>2
                <5> QED BY <3>5, <3>7, <5>1
            <4>3. CASE k = m
                <5>1. c[m].parent \in 0..m - 1
                    BY <2>3, <2>5, <3>4
                <5> QED BY <2>5, <3>5, <3>6, <4>3, <5>1
            <4> QED BY <2>3, <4>1, <4>2, <4>3
        <3>10. Upto(h, m)
            BY <3>8, <3>9, Zenon
        <3> QED BY <2>2, <3>10
    <2> QED BY <2>4, <2>5
<1>3. \E f : Upto(f, Len(c))
    BY <1>1, <1>2
<1>4. \E f : IsLastOutside(f, c, J)
    BY <1>3 DEF IsLastOutside
<1> QED BY <1>4 DEF LastOutside

\* What it answers at a place of the list is what it answers for the node there.
LEMMA LastOutsideIs ==
    ASSUME NEW c, NEW J, Backwards(c)
    PROVE  /\ LastOutside(c, J)[0] = None
           /\ \A k \in DOMAIN c : LastOutside(c, J)[k] = Limit(c, J, c[k])
<1> DEFINE f == LastOutside(c, J)
<1>1. IsLastOutside(f, c, J)
    BY LastOutsideExists
<1>2. Len(c) \in Nat /\ DOMAIN c = 1..Len(c)
    BY LenProperties DEF Backwards
<1>3. \A k \in 0..Len(c) : f[k] = IF k = 0 THEN None
                                  ELSE IF c[k].rut \notin J THEN c[k].rut
                                  ELSE f[c[k].parent]
    <2> HIDE DEF f
    <2> QED BY <1>1 DEF IsLastOutside
<1> HIDE DEF f
<1>4. f[0] = None
    BY <1>2, <1>3
<1>5. \A k \in DOMAIN c : f[k] = IF c[k].rut \notin J THEN c[k].rut ELSE f[c[k].parent]
    BY <1>2, <1>3
<1> QED BY <1>4, <1>5 DEF f, Limit

\* A longer list does not change what is answered at the places it had.
LEMMA LastOutsideStays ==
    ASSUME NEW c, NEW d, NEW J, Backwards(c), Backwards(d), Len(c) <= Len(d),
           \A k \in DOMAIN c : d[k] = c[k]
    PROVE  \A k \in 0..Len(c) : LastOutside(d, J)[k] = LastOutside(c, J)[k]
<1> DEFINE f == LastOutside(c, J)
           g == LastOutside(d, J)
           Bad == {k \in 0..Len(c) : g[k] # f[k]}
<1>1. Len(c) \in Nat /\ DOMAIN c = 1..Len(c) /\ Len(d) \in Nat /\ DOMAIN d = 1..Len(d)
    BY LenProperties DEF Backwards
<1>2. f[0] = None /\ g[0] = None
    BY LastOutsideIs
<1>3. \A k \in DOMAIN c : f[k] = IF c[k].rut \notin J THEN c[k].rut ELSE f[c[k].parent]
    BY LastOutsideIs DEF Limit
<1>4. \A k \in DOMAIN c : g[k] = IF c[k].rut \notin J THEN c[k].rut ELSE g[c[k].parent]
    <2>1. \A k \in DOMAIN d : g[k] = IF d[k].rut \notin J THEN d[k].rut ELSE g[d[k].parent]
        BY LastOutsideIs DEF Limit
    <2>2. DOMAIN c \subseteq DOMAIN d
        BY <1>1
    <2> QED BY <2>1, <2>2
<1> HIDE DEF f, g
<1>5. Bad = {}
    <2> SUFFICES ASSUME Bad # {} PROVE FALSE
        OBVIOUS
    <2>1. Bad \in SUBSET Nat
        BY <1>1
    <2> DEFINE m == Min2(Bad)
    <2>2. m \in Bad /\ \A k \in Bad : m <= k
        BY <2>1, LeastOfSome
    <2> HIDE DEF m
    <2>3. m # 0 /\ m \in 0..Len(c)
        BY <1>2, <2>2
    <2>4. m \in DOMAIN c
        BY <1>1, <2>3
    <2>5. c[m].parent \in 0..m - 1
        BY <2>4, ParentPlace
    <2>6. c[m].parent \notin Bad
        BY <1>1, <2>2, <2>3, <2>5
    <2>7. c[m].parent \in 0..Len(c)
        BY <1>1, <2>3, <2>5
    <2>8. g[c[m].parent] = f[c[m].parent]
        BY <2>6, <2>7
    <2>9. g[m] = f[m]
        BY <1>3, <1>4, <2>4, <2>8
    <2> QED BY <2>2, <2>9
<1> QED BY <1>5 DEF f, g

\* So does the limit of a node that was reached from one of them.
LEMMA LimitStays ==
    ASSUME NEW c, NEW d, NEW J, Backwards(c), Backwards(d), Len(c) <= Len(d),
           \A k \in DOMAIN c : d[k] = c[k],
           NEW node, node.parent \in 0..Len(c)
    PROVE  Limit(d, J, node) = Limit(c, J, node)
BY LastOutsideStays DEF Limit

\* The code's second loop is a function too.
LEMMA WayExists ==
    ASSUME NEW c, Backwards(c)
    PROVE  IsWay(Way(c), c)
<1> DEFINE Upto(f, n) ==
              f = [k \in 0..n |-> IF k = 0 THEN <<>> ELSE Append(f[c[k].parent], c[k])]
           Bad == {n \in 0..Len(c) : ~ \E f : Upto(f, n)}
<1>1. Len(c) \in Nat /\ DOMAIN c = 1..Len(c)
    BY LenProperties DEF Backwards
<1>2. Bad = {}
    <2> SUFFICES ASSUME Bad # {} PROVE FALSE
        OBVIOUS
    <2>1. Bad \in SUBSET Nat
        BY <1>1
    <2> DEFINE m == Min2(Bad)
    <2>2. m \in Bad /\ \A n \in Bad : m <= n
        BY <2>1, LeastOfSome
    <2> HIDE DEF m
    <2>3. m \in 0..Len(c)
        BY <2>2
    <2>4. CASE m = 0
        <3>1. Upto([k \in 0..0 |-> <<>>], 0)
            BY SMT
        <3> QED BY <2>2, <2>4, <3>1
    <2>5. CASE m # 0
        <3>0. m - 1 \in 0..Len(c) /\ ~(m <= m - 1)
            BY <1>1, <2>3, <2>5
        <3>1. m - 1 \in 0..Len(c) /\ m - 1 \notin Bad
            BY <2>2, <3>0
        <3>2. PICK g : Upto(g, m - 1)
            BY <3>1
        <3>3. \A k \in 1..m : c[k].parent \in 0..k - 1
            BY <1>1, <2>3, ParentPlace
        <3> DEFINE x == Append(g[c[m].parent], c[m])
                   h == [k \in 0..m |-> IF k = m THEN x ELSE g[k]]
        <3>4. \A k \in 0..m - 1 : h[k] = g[k]
            BY <2>3
        <3>5. h[m] = x
            BY <2>3
        <3>6. \A k \in 0..m - 1 :
                    g[k] = IF k = 0 THEN <<>> ELSE Append(g[c[k].parent], c[k])
            BY <3>2
        <3>7. h = [k \in 0..m |-> h[k]]
            OBVIOUS
        <3> HIDE DEF h
        <3>8. \A k \in 0..m : h[k] = IF k = 0 THEN <<>> ELSE Append(h[c[k].parent], c[k])
            <4> SUFFICES ASSUME NEW k \in 0..m
                         PROVE  h[k] = IF k = 0 THEN <<>> ELSE Append(h[c[k].parent], c[k])
                OBVIOUS
            <4>1. CASE k = 0
                <5>1. 0 \in 0..m - 1
                    BY <2>3, <2>5
                <5> QED BY <3>4, <3>6, <4>1, <5>1
            <4>2. CASE k \in 1..m - 1
                <5>1. c[k].parent \in 0..m - 1 /\ k \in 0..m - 1 /\ k # 0
                    BY <2>3, <3>3, <4>2
                <5> QED BY <3>4, <3>6, <5>1
            <4>3. CASE k = m
                <5>1. c[m].parent \in 0..m - 1
                    BY <2>3, <2>5, <3>3
                <5> QED BY <2>5, <3>4, <3>5, <4>3, <5>1
            <4> QED BY <2>3, <4>1, <4>2, <4>3
        <3>9. Upto(h, m)
            BY <3>7, <3>8, Zenon
        <3> QED BY <2>2, <3>9
    <2> QED BY <2>4, <2>5
<1>3. \E f : Upto(f, Len(c))
    BY <1>1, <1>2
<1>4. \E f : IsWay(f, c)
    BY <1>3 DEF IsWay
<1> QED BY <1>4 DEF Way

----------------------------------------------------------------------------
(* Drives *)

\* d goes from node to node along the parents in c, from one that has none.
Chain(d, c) ==
    /\ d \in Seq(Node) /\ Len(d) >= 1
    /\ d[1].parent = None
    /\ \A i \in 2..Len(d) : d[i].parent \in DOMAIN c /\ c[d[i].parent] = d[i - 1]

LEMMA ChainGrows ==
    ASSUME NEW c, Backwards(c), NEW d, Chain(d, c), NEW node \in Node,
           node.parent \in DOMAIN c, d[Len(d)] = c[node.parent]
    PROVE  LET e == Append(d, node) IN Chain(e, c) /\ e[Len(e)] = node
<1> DEFINE e == Append(d, node)
<1>1. d \in Seq(Node) /\ Len(d) \in Nat /\ Len(d) >= 1
    BY LenProperties DEF Chain
<1>2. /\ e \in Seq(Node) /\ Len(e) = Len(d) + 1 /\ e[Len(d) + 1] = node
      /\ \A i \in 1..Len(d) : e[i] = d[i]
    BY <1>1, AppendProperties
<1> HIDE DEF e
<1>3. e[1].parent = None
    BY <1>1, <1>2 DEF Chain
<1>4. ASSUME NEW i \in 2..Len(e)
      PROVE  e[i].parent \in DOMAIN c /\ c[e[i].parent] = e[i - 1]
    <2>1. CASE i = Len(d) + 1
        BY <1>1, <1>2, <2>1
    <2>2. CASE i # Len(d) + 1
        <3>1. i \in 2..Len(d) /\ i - 1 \in 1..Len(d) /\ i \in 1..Len(d)
            BY <1>1, <1>2, <2>2
        <3> QED BY <1>2, <3>1 DEF Chain
    <2> QED BY <2>1, <2>2
<1> QED BY <1>1, <1>2, <1>3, <1>4 DEF Chain, e

\* The nodes from a place back to the start are a chain that ends with the node there.
LEMMA WayIsChain ==
    ASSUME NEW c, Backwards(c), NEW k \in DOMAIN c
    PROVE  Chain(Way(c)[k], c) /\ Way(c)[k][Len(Way(c)[k])] = c[k]
<1> DEFINE f == Way(c)
           Good(n) == Chain(f[n], c) /\ f[n][Len(f[n])] = c[n]
           Bad == {n \in DOMAIN c : ~Good(n)}
<1>1. Len(c) \in Nat /\ DOMAIN c = 1..Len(c)
    BY LenProperties DEF Backwards
<1>2. IsWay(f, c)
    BY WayExists
<1> HIDE DEF f
<1>3. \A n \in 0..Len(c) : f[n] = IF n = 0 THEN <<>> ELSE Append(f[c[n].parent], c[n])
    BY <1>2 DEF IsWay
<1>4. f[0] = <<>>
    BY <1>1, <1>3
<1>5. \A n \in DOMAIN c : f[n] = Append(f[c[n].parent], c[n])
    <2>1. \A n \in DOMAIN c : n \in 0..Len(c) /\ n # 0
        BY <1>1
    <2> QED BY <1>3, <2>1
<1>6. Bad = {}
    <2> SUFFICES ASSUME Bad # {} PROVE FALSE
        OBVIOUS
    <2>1. Bad \in SUBSET Nat
        BY <1>1
    <2> DEFINE m == Min2(Bad)
    <2>2. m \in Bad /\ \A n \in Bad : m <= n
        BY <2>1, LeastOfSome
    <2> HIDE DEF m
    <2>3. m \in DOMAIN c /\ m \in Nat /\ ~Good(m)
        BY <1>1, <2>2
    <2>4. c[m] \in Node /\ c[m].parent \in 0..m - 1
        BY <2>3, ParentPlace
    <2>5. f[m] = Append(f[c[m].parent], c[m])
        BY <1>5, <2>3
    <2>6. CASE c[m].parent = 0
        <3>1. f[m] = Append(<<>>, c[m])
            BY <1>4, <2>5, <2>6
        <3>2. f[m] \in Seq(Node) /\ Len(f[m]) = 1 /\ f[m][1] = c[m]
            BY <2>4, <3>1, EmptySeq, AppendProperties
        <3> QED BY <2>3, <2>6, <3>2 DEF Chain, None
    <2>7. CASE c[m].parent # 0
        <3>1. c[m].parent \in DOMAIN c /\ ~(m <= c[m].parent)
            BY <1>1, <2>3, <2>4, <2>7
        <3>2. Good(c[m].parent)
            BY <2>2, <3>1
        <3> QED BY <2>3, <2>4, <2>5, <3>1, <3>2, ChainGrows
    <2> QED BY <2>6, <2>7
<1> QED BY <1>6 DEF f

\* So is the drive to a node that was reached from one of the list, or is the first.
LEMMA DriveIsChain ==
    ASSUME NEW c, Backwards(c), NEW node \in Node, node.parent \in 0..Len(c)
    PROVE  LET d == Append(Way(c)[node.parent], node) IN Chain(d, c) /\ d[Len(d)] = node
<1> DEFINE w == Way(c)[node.parent]
<1>1. Len(c) \in Nat /\ DOMAIN c = 1..Len(c)
    BY LenProperties DEF Backwards
<1>2. CASE node.parent = 0
    <2>1. IsWay(Way(c), c)
        BY WayExists
    <2>2. w = <<>>
        BY <1>1, <1>2, <2>1 DEF IsWay
    <2> DEFINE d == Append(w, node)
    <2>3. d = <<node>>
        BY <2>2
    <2>4. d \in Seq(Node) /\ Len(d) = 1 /\ d[1] = node
        BY <2>3
    <2> HIDE DEF d
    <2>5. Chain(d, c) /\ d[Len(d)] = node
        BY <1>2, <2>4 DEF Chain, None
    <2> QED BY <2>5 DEF d
<1>3. CASE node.parent # 0
    <2>1. node.parent \in DOMAIN c
        BY <1>1, <1>3
    <2> QED BY <2>1, WayIsChain, ChainGrows
<1> QED BY <1>2, <1>3

\* All but the last of a chain are in the list.
LEMMA ChainInList ==
    ASSUME NEW c, NEW d, Chain(d, c), NEW i \in 1..Len(d), i # Len(d)
    PROVE  d[i] \in ToSet(c)
<1>1. Len(d) \in Nat
    BY LenProperties DEF Chain
<1>2. i + 1 \in 2..Len(d) /\ (i + 1) - 1 = i
    BY <1>1
<1>3. d[i + 1].parent \in DOMAIN c /\ c[d[i + 1].parent] = d[i]
    BY <1>2 DEF Chain
<1> QED BY <1>3 DEF ToSet

\* As long as a drive stays inside junctions, its limits are those of the road before.
LEMMA ChainLimit ==
    ASSUME NEW c, Backwards(c), NEW J, NEW d, Chain(d, c),
           NEW j \in 1..Len(d), NEW k \in 1..Len(d), j <= k, d[j].rut \notin J,
           \A i \in j + 1..k : d[i].rut \in J
    PROVE  Limit(c, J, d[k]) = d[j].rut
<1> DEFINE Bad == {i \in j..k : Limit(c, J, d[i]) # d[j].rut}
<1>1. Len(d) \in Nat
    BY LenProperties DEF Chain
<1>2. Bad = {}
    <2> SUFFICES ASSUME Bad # {} PROVE FALSE
        OBVIOUS
    <2>1. Bad \in SUBSET Nat
        BY <1>1
    <2> DEFINE m == Min2(Bad)
    <2>2. m \in Bad /\ \A i \in Bad : m <= i
        BY <2>1, LeastOfSome
    <2> HIDE DEF m
    <2>3. m \in j..k /\ Limit(c, J, d[m]) # d[j].rut
        BY <2>2
    <2>4. m # j
        BY <2>3 DEF Limit
    <2>5. m \in j + 1..k /\ m \in 2..Len(d) /\ m - 1 \in j..k /\ ~(m <= m - 1)
        BY <1>1, <2>3, <2>4
    <2>6. Limit(c, J, d[m - 1]) = d[j].rut
        BY <2>2, <2>5
    <2>7. d[m].parent \in DOMAIN c /\ c[d[m].parent] = d[m - 1] /\ d[m].rut \in J
        BY <2>5 DEF Chain
    <2>8. Limit(c, J, d[m]) = LastOutside(c, J)[d[m].parent]
        BY <2>7 DEF Limit
    <2>9. LastOutside(c, J)[d[m].parent] = Limit(c, J, d[m - 1])
        BY <2>7, LastOutsideIs
    <2> QED BY <2>3, <2>6, <2>8, <2>9
<1> QED BY <1>1, <1>2

----------------------------------------------------------------------------
(* Limits *)

\* No node was reached over a road that may not be entered from the one before it, roads
\* inside junctions aside.
LimitsKept ==
    \A n \in ToSet(open) \cup ToSet(closed) :
        n.parent \in DOMAIN closed =>
            LET p == closed[n.parent]
            IN  <<LimitingRoad(p.rut, p.parent), n.rut>> \notin net.always

\* A search that has found something has not touched the lists since.
AtDestination ==
    stage = "found" => open # <<>> /\ Top.vtx = dest.vtx /\ ~DestinationBarred

\* GET_LIMIT_INFO_V3 computes the limit of a node.
LEMMA LimitIs ==
    /\ \A n : LimitingRoad(n.rut, n.parent) = Limit(closed, net.junction, n)
    /\ \A n : LimitingRoad(n.rut, n.parent)' = Limit(closed', net'.junction, n)
<1>1. \A n : LimitingRoad(n.rut, n.parent) = Limit(closed, net.junction, n)
    BY DEF LimitingRoad, Limit, LastOutside, IsLastOutside
<1>2. \A n : LimitingRoad(n.rut, n.parent)' = Limit(closed', net'.junction, n)
    BY DEF LimitingRoad, Limit, LastOutside, IsLastOutside
<1> QED BY <1>1, <1>2

LEMMA ClosedBackwards == Inv /\ ParentsLead => Backwards(closed)
BY DEF Inv, TypeOK, ParentsLead, Backwards

\* The nodes whose limit is road q stay where q leads by way of junctions.
LEMMA LimitEncloses ==
    ASSUME Inv, ParentsLead, stage # "failed", NEW q \in Road,
           NEW S \in SUBSET Vertex, Encloses(S, net, q),
           NEW k \in DOMAIN closed, Limit(closed, net.junction, closed[k]) = q
    PROVE  closed[k].vtx \in S
<1> DEFINE J == net.junction
           Bad == {n \in DOMAIN closed : Limit(closed, J, closed[n]) = q /\ closed[n].vtx \notin S}
<1>1. Backwards(closed)
    BY ClosedBackwards
<1>2. Len(closed) \in Nat /\ DOMAIN closed = 1..Len(closed)
    BY <1>1, LenProperties DEF Backwards
<1>3. Bad = {}
    <2> SUFFICES ASSUME Bad # {} PROVE FALSE
        OBVIOUS
    <2>1. Bad \in SUBSET Nat
        BY <1>2
    <2> DEFINE m == Min2(Bad)
               node == closed[m]
    <2>2. m \in Bad /\ \A n \in Bad : m <= n
        BY <2>1, LeastOfSome
    <2> HIDE DEF m
    <2>3. m \in DOMAIN closed /\ Limit(closed, J, node) = q /\ node.vtx \notin S
        BY <2>2
    <2>4. node \in Node /\ node.parent \in 0..m - 1
        BY <1>1, <2>3, ParentPlace
    <2>5. node \in ToSet(closed)
        BY <2>3 DEF ToSet
    <2>6. node.rut \in Road /\ node.vtx \in {Ends[node.rut][1], Ends[node.rut][2]}
        <3>1. node.rut \in RoadsAt(node.vtx) /\ node.vtx \in Vertex
            BY <2>4, <2>5 DEF Inv, Seen, Held, Node
        <3>2. RoadsAt(node.vtx) = {r \in Road : node.vtx \in {Ends[r][1], Ends[r][2]}}
            BY <3>1, NetworkAssumption
        <3> HIDE DEF node
        <3> QED BY <3>1, <3>2
    <2>7. CASE node.rut \notin J
        <3>1. node.rut = q
            BY <2>3, <2>7 DEF Limit
        <3> QED BY <2>3, <2>6, <3>1 DEF Encloses
    <2>8. CASE node.rut \in J
        <3>1. Limit(closed, J, node) = LastOutside(closed, J)[node.parent]
            BY <2>8 DEF Limit
        <3>2. node.parent # 0
            <4>1. None \notin Road
                BY NetworkAssumption DEF None
            <4> QED BY <1>1, <2>3, <3>1, <4>1, LastOutsideIs
        <3>3. node.parent \in DOMAIN closed /\ ~(m <= node.parent)
            BY <1>2, <2>3, <2>4, <3>2
        <3> DEFINE from == closed[node.parent]
        <3>4. Limit(closed, J, from) = q
            BY <1>1, <2>3, <3>1, <3>3, LastOutsideIs
        <3>5. from.vtx \in S
            BY <2>2, <3>3, <3>4
        <3>6. GoesOn(node.rut, from.vtx, node.vtx)
            BY <2>5, <3>2 DEF ParentsLead, StartNode, None
        <3>7. node.rut \in IF from.vtx \in Edge THEN {Abut[from.vtx]} ELSE RoadsAt(from.vtx)
            <4>1. CASE from.vtx \in Edge
                BY <3>6, <4>1 DEF GoesOn
            <4>2. CASE from.vtx \notin Edge
                <5>1. Leads(node.rut, from.vtx, node.vtx)
                    BY <3>6, <4>2 DEF GoesOn
                <5>2. from.vtx \in {Ends[node.rut][1], Ends[node.rut][2]}
                    BY <5>1 DEF Leads
                <5>3. RoadsAt(from.vtx) = {r \in Road : from.vtx \in {Ends[r][1], Ends[r][2]}}
                    BY <3>5, NetworkAssumption
                <5> QED BY <2>6, <4>2, <5>2, <5>3
            <4> QED BY <4>1, <4>2
        <3>8. {Ends[node.rut][1], Ends[node.rut][2]} \subseteq S
            BY <2>8, <3>5, <3>7 DEF Encloses
        <3> QED BY <2>3, <2>6, <3>8
    <2> QED BY <2>7, <2>8
<1> QED BY <1>3

\* So no limit is missed at a border, where none is looked up.
LEMMA BorderIsFree ==
    ASSUME LimitsStayInside, Inv, ParentsLead, InLoop, stage = "cross"
    PROVE  LET n == Last(closed)
           IN  <<LimitingRoad(n.rut, n.parent), Behind>> \notin net.always
<1> DEFINE n == Last(closed)
           q == Limit(closed, net.junction, n)
<1>1. closed \in Seq(Node) /\ closed # <<>> /\ net \in Maps /\ n.vtx \in Edge
    BY DEF Inv, TypeOK, Fresh, InLoop
<1>2. Len(closed) \in DOMAIN closed /\ n = closed[Len(closed)]
    BY <1>1, EmptySeq, LenProperties DEF Last
<1>3. ASSUME <<q, Behind>> \in net.always PROVE FALSE
    <2>1. q \in Road
        BY <1>1, <1>3, NetworkAssumption
    <2>2. PICK S \in SUBSET Vertex : Encloses(S, net, q) /\ n.vtx \notin S
        <3> DEFINE p == <<q, Behind>>
        <3>1. p \in net.always /\ p[1] = q /\ p[2] = Abut[n.vtx]
            BY <1>3 DEF Behind
        <3> HIDE DEF p, n, q
        <3> QED BY <1>1, <3>1 DEF LimitsStayInside
    <2>3. n.vtx \in S
        <3> HIDE DEF q
        <3>1. Limit(closed, net.junction, closed[Len(closed)]) = q
            BY <1>2 DEF q
        <3> QED BY <1>2, <2>1, <2>2, <3>1, LimitEncloses
    <2> QED BY <2>2, <2>3
<1>4. LimitingRoad(n.rut, n.parent) = q
    BY LimitIs
<1> QED BY <1>3, <1>4

----------------------------------------------------------------------------
(* The steps *)

\* A node that is offered may be entered from the last closed one.
LEMMA OfferLimits ==
    ASSUME Inv, LimitsKept, stage \in {"cross", "expand"}, UNCHANGED <<net, closed>>,
           NEW r \in Road, NEW v \in Vertex, NEW back,
           Become(CalculateNetworkNode(r, v), back),
           <<LimitingRoad(Last(closed).rut, Last(closed).parent), r>> \notin net.always
    PROVE  LimitsKept'
<1> DEFINE l == CalculateNetworkNode(r, v)
<1>1. Agree(Lists) /\ closed # <<>> /\ TypeOK
    BY Agreeing DEF Inv
<1>2. \A n \in ToSet(l.open) : n \in ToSet(open) \/ (n.rut = r /\ n.parent = Len(closed))
    BY <1>1, OfferKeeps
<1>3. open' = l.open
    BY DEF Become
<1> HIDE DEF l
<1>4. ASSUME NEW n \in ToSet(open)' \cup ToSet(closed)', n.parent \in DOMAIN closed
      PROVE  LET p == closed[n.parent]
             IN  <<LimitingRoad(p.rut, p.parent), n.rut>> \notin net.always
    <2>1. CASE n \in ToSet(open) \cup ToSet(closed)
        BY <1>4, <2>1 DEF LimitsKept
    <2>2. CASE n.rut = r /\ n.parent = Len(closed)
        BY <2>2 DEF Last
    <2> QED BY <1>2, <1>3, <2>1, <2>2
<1>5. \A n : LimitingRoad(n.rut, n.parent)' = LimitingRoad(n.rut, n.parent)
    BY LimitIs
<1> QED BY <1>4, <1>5 DEF LimitsKept

LEMMA CrossLimits ==
    LimitsStayInside /\ Inv /\ ParentsLead /\ InLoop /\ LimitsKept /\ Cross => LimitsKept'
<1> SUFFICES ASSUME LimitsStayInside, Inv, ParentsLead, InLoop, LimitsKept, Cross
             PROVE  LimitsKept'
    OBVIOUS
<1> DEFINE sheet == RoadSheet(Behind)
           v == Last(closed).vtx
           far == GetNextRutVtx(Twin(v, Behind), Behind, cache')
<1>1. /\ cache \in Cache /\ net \in Maps /\ stage = "cross" /\ v \in Edge
      /\ sheet \in net.sheets /\ UNCHANGED <<net, closed>>
      /\ cache' = ReadBreadthNetwork(cache, sheet, status)
    BY DEF Inv, TypeOK, Cache, Cross, InLoop
<1>2. cache' \in Cache
    <2>1. sheet \in Sheet
        BY <1>1, NetworkAssumption
    <2> QED BY <1>1, <2>1, ReadKeeps
<1>3. CASE UNCHANGED open
    <2>1. \A n : LimitingRoad(n.rut, n.parent)' = LimitingRoad(n.rut, n.parent)
        BY <1>1, LimitIs
    <2> QED BY <1>1, <1>3, <2>1 DEF LimitsKept
<1>4. CASE /\ far # None /\ Behind \notin net.residential
           /\ Become(CalculateNetworkNode(Behind, far),
                     {Ends[Behind][1], Ends[Behind][2]} \cap Edge)
    <2>1. Behind \in Road
        BY <1>1, NetworkAssumption DEF Behind
    <2>2. far \in Vertex
        BY <1>2, <1>4, <2>1, NextVertex
    <2>3. <<LimitingRoad(Last(closed).rut, Last(closed).parent), Behind>> \notin net.always
        BY <1>1, BorderIsFree
    <2> HIDE DEF far
    <2> QED BY <1>1, <1>4, <2>1, <2>2, <2>3, OfferLimits
<1> QED BY <1>3, <1>4 DEF Cross

LEMMA FollowLimits == Inv /\ InLoop /\ LimitsKept /\ Follow => LimitsKept'
<1> SUFFICES ASSUME Inv, InLoop, LimitsKept, Follow PROVE LimitsKept'
    OBVIOUS
<1> DEFINE v == Last(closed).vtx
           w == GetNextRutVtx(v, This, cache)
<1>1. cache \in Cache /\ stage = "expand"
    BY DEF Inv, TypeOK, Cache, Follow
<1>2. This \in Road /\ w # None
    BY <1>1 DEF Follow, Open, Cache
<1>3. w \in Vertex
    BY <1>1, <1>2, NextVertex
<1>4. UNCHANGED <<net, closed>> /\ Become(CalculateNetworkNode(This, w), {})
    BY DEF Follow
<1>5. <<LimitingRoad(Last(closed).rut, Last(closed).parent), This>> \notin net.always
    BY DEF Follow, Turn
<1> HIDE DEF w
<1> QED BY <1>1, <1>2, <1>3, <1>4, <1>5, OfferLimits

\* Closing a node leaves the limits of the others: their parents were closed before.
LEMMA CloseTopLimits ==
    Inv /\ ParentsLead /\ LimitsKept /\ CloseTop => LimitsKept'
<1> SUFFICES ASSUME Inv, ParentsLead, LimitsKept, CloseTop PROVE LimitsKept'
    OBVIOUS
<1> DEFINE J == net.junction
<1>1. /\ open \in Seq(Node) /\ closed \in Seq(Node) /\ open # <<>> /\ Len(open) \in Nat \ {0}
    BY EmptySeq DEF Inv, TypeOK, CloseTop
<1>2. Top \in Node /\ Top \in ToSet(open)
    BY <1>1, ElementOfSeq, LenProperties DEF Top, ToSet
<1>3. open' = Tail(open) /\ closed' = Append(closed, Top) /\ net' = net
    BY DEF CloseTop
<1>4. ToSet(open') \subseteq ToSet(open)
    BY <1>1, <1>3, TailIsRemove, RemoveKeeps
<1>5. ParentsLead'
    BY CloseTopLeads
<1> HIDE DEF Top
<1>6. /\ closed' \in Seq(Node) /\ Len(closed') = Len(closed) + 1
      /\ \A i \in 1..Len(closed) : closed'[i] = closed[i]
      /\ closed'[Len(closed) + 1] = Top
    BY <1>1, <1>2, <1>3, AppendProperties
<1>7. Len(closed) \in Nat /\ DOMAIN closed = 1..Len(closed) /\ DOMAIN closed' = 1..Len(closed) + 1
    BY <1>1, <1>6, LenProperties
<1>8. \A k \in DOMAIN closed' : k \in DOMAIN closed \/ (k = Len(closed) + 1 /\ closed'[k] = Top)
    BY <1>6, <1>7
<1>9. \A k \in DOMAIN closed : k \in DOMAIN closed' /\ closed'[k] = closed[k]
    BY <1>6, <1>7
<1>10. \A n \in ToSet(open') \cup ToSet(closed') : n \in ToSet(open) \cup ToSet(closed)
    BY <1>2, <1>4, <1>8, <1>9 DEF ToSet
<1>11. Backwards(closed) /\ Backwards(closed')
    <2>1. Backwards(closed)
        BY ClosedBackwards
    <2>2. Backwards(closed')
        BY <1>5, <1>6 DEF ParentsLead, Backwards
    <2> QED BY <2>1, <2>2
<1>12. \A n \in ToSet(open) \cup ToSet(closed) : n.parent \in 0..Len(closed)
    <2>1. \A n \in ToSet(open) \cup ToSet(closed) : n.parent = 0 \/ n.parent \in DOMAIN closed
        BY DEF ParentsLead, StartNode, None
    <2> QED BY <1>7, <2>1
<1>13. ASSUME NEW n \in ToSet(open') \cup ToSet(closed'), n.parent \in DOMAIN closed'
       PROVE  (LET p == closed[n.parent]
               IN  <<LimitingRoad(p.rut, p.parent), n.rut>> \notin net.always)'
    <2>1. n \in ToSet(open) \cup ToSet(closed)
        BY <1>10
    <2>2. n.parent \in DOMAIN closed
        BY <1>7, <1>12, <1>13, <2>1
    <2> DEFINE p == closed[n.parent]
    <2>3. closed'[n.parent] = p
        BY <1>9, <2>2
    <2>4. p.parent \in 0..Len(closed)
        <3>1. p \in ToSet(closed)
            BY <2>2 DEF ToSet
        <3> QED BY <1>12, <3>1
    <2>5. Limit(closed', J, p) = Limit(closed, J, p)
        <3>1. Len(closed) <= Len(closed')
            BY <1>6, <1>7
        <3> HIDE DEF p
        <3> QED BY <1>9, <1>11, <2>4, <3>1, LimitStays
    <2>6. LimitingRoad(p.rut, p.parent)' = LimitingRoad(p.rut, p.parent)
        <3> QED BY <1>3, <2>3, <2>5, LimitIs
    <2>7. <<LimitingRoad(p.rut, p.parent), n.rut>> \notin net.always
        BY <2>1, <2>2 DEF LimitsKept
    <2> QED BY <1>3, <2>3, <2>6, <2>7
<1> QED BY <1>13 DEF LimitsKept

\* Every step keeps the limits.
LEMMA StepLimits ==
    ASSUME LimitsStayInside
    PROVE  Inv /\ ParentsLead /\ InLoop /\ LimitsKept /\ [Next]_vars => LimitsKept'
<1> SUFFICES ASSUME Inv, ParentsLead, InLoop, LimitsKept, [Next]_vars PROVE LimitsKept'
    OBVIOUS
<1>1. CASE CloseTop
    BY <1>1, CloseTopLimits
<1>2. CASE Cross
    BY <1>2, CrossLimits
<1>3. CASE Follow
    BY <1>3, FollowLimits
<1>4. CASE UNCHANGED <<net, open, closed>>
    <2>1. \A n : LimitingRoad(n.rut, n.parent)' = LimitingRoad(n.rut, n.parent)
        BY <1>4, LimitIs
    <2> QED BY <1>4, <2>1 DEF LimitsKept
<1>5. CASE NextLeg \/ NextLegReloaded \/ LegFails
    <2>1. closed' = <<>>
        BY <1>5 DEF NextLeg, NextLegReloaded, LegFails
    <2>2. DOMAIN closed' = {}
        BY <2>1
    <2> QED BY <2>2 DEF LimitsKept
<1>6. \/ UNCHANGED <<net, open, closed>> \/ CloseTop \/ Cross \/ Follow
      \/ NextLeg \/ NextLegReloaded \/ LegFails
    BY DEF Next, SearchStep, Arrive, Disconnect, LoadFails, MarkFails, NothingBehind, PassOver,
           ReadFreedDestination, vars
<1> QED BY <1>1, <1>2, <1>3, <1>4, <1>5, <1>6

LEMMA InitLimits == Init => LimitsKept /\ AtDestination
<1> SUFFICES ASSUME Init PROVE LimitsKept /\ AtDestination
    OBVIOUS
<1>1. closed = <<>> /\ stage = "next"
    BY DEF Init
<1>2. DOMAIN closed = {}
    BY <1>1
<1> QED BY <1>1, <1>2 DEF LimitsKept, AtDestination

\* A search that has arrived stays so until the next leg.
LEMMA StepArrived == AtDestination /\ [Next]_vars => AtDestination'
<1> SUFFICES ASSUME AtDestination, [Next]_vars PROVE AtDestination'
    OBVIOUS
<1>1. CASE Arrive \/ UNCHANGED vars
    <2>1. /\ UNCHANGED <<net, dest, open, closed>>
          /\ stage' = "found" => open # <<>> /\ Top.vtx = dest.vtx /\ ~DestinationBarred
        BY <1>1 DEF Arrive, AtDestination, vars
    <2>2. Top' = Top
        BY <2>1 DEF Top
    <2>3. DestinationBarred' <=> DestinationBarred
        <3>1. LimitingRoad(Top.rut, Top.parent)' = LimitingRoad(Top.rut, Top.parent)
            BY <2>1, <2>2, LimitIs
        <3> QED BY <2>1, <2>2, <3>1 DEF DestinationBarred
    <2> QED BY <2>1, <2>2, <2>3 DEF AtDestination
<1>2. CASE ~Arrive /\ Next
    <2>1. stage' # "found"
        BY <1>2 DEF Next, SearchStep, CloseTop, Disconnect, LoadFails, MarkFails, NothingBehind,
                    Cross, PassOver, Follow, ReadFreedDestination, Onwards, NextLeg, NextLegReloaded,
                    LegFails
    <2> QED BY <2>1 DEF AtDestination
<1> QED BY <1>1, <1>2

----------------------------------------------------------------------------
(* The theorem *)

\* The drive of a search that has found one.
LEMMA DriveFound ==
    ASSUME Inv, ParentsLead, AtDestination, stage = "found"
    PROVE  /\ Top \in Node /\ Top \in ToSet(open)
           /\ Chain(Drive, closed) /\ Drive[Len(Drive)] = Top
<1>1. open \in Seq(Node) /\ open # <<>>
    BY DEF Inv, TypeOK, AtDestination
<1>2. Top \in Node /\ Top \in ToSet(open)
    BY <1>1, EmptySeq, ElementOfSeq, LenProperties DEF Top, ToSet
<1>3. Top.parent \in 0..Len(closed)
    <2>1. closed \in Seq(Node)
        BY DEF Inv, TypeOK
    <2>2. Len(closed) \in Nat /\ DOMAIN closed = 1..Len(closed)
        BY <2>1, LenProperties
    <2>3. Top.parent = 0 \/ Top.parent \in DOMAIN closed
        <3> HIDE DEF Top
        <3> QED BY <1>2 DEF ParentsLead, StartNode, None
    <2> QED BY <2>2, <2>3
<1>4. Drive = Append(Way(closed)[Top.parent], Top)
    BY DEF Drive, Way, IsWay
<1> HIDE DEF Top
<1> QED BY <1>2, <1>3, <1>4, ClosedBackwards, DriveIsChain

LEMMA FoundDrive ==
    Inv /\ ParentsLead /\ LimitsKept /\ AtDestination => FoundIsADrive
<1> SUFFICES ASSUME Inv, ParentsLead, LimitsKept, AtDestination, stage = "found"
             PROVE  FoundIsADrive
    BY DEF FoundIsADrive
<1> DEFINE d == Drive
           J == net.junction
           road(k) == IF k > Len(d) THEN dest.rut ELSE d[k].rut
           last == IF dest.vtx \in Edge THEN Len(d) ELSE Len(d) + 1
<1>1. Chain(d, closed) /\ d[Len(d)] = Top /\ Top \in ToSet(open)
    BY DriveFound
<1>2. Top.vtx = dest.vtx /\ ~DestinationBarred
    BY DEF AtDestination
<1>3. Backwards(closed)
    BY ClosedBackwards
<1> HIDE DEF d
<1>4. Len(d) \in Nat /\ Len(d) >= 1
    BY <1>1, LenProperties DEF Chain
<1>5. \A k \in 1..Len(d) : d[k] \in ToSet(open) \cup ToSet(closed)
    <2> SUFFICES ASSUME NEW k \in 1..Len(d) PROVE d[k] \in ToSet(open) \cup ToSet(closed)
        OBVIOUS
    <2>1. k # Len(d) => d[k] \in ToSet(closed)
        BY <1>1, ChainInList
    <2> QED BY <1>1, <2>1
<1>6. d[1] = StartNode(start) /\ d[Len(d)].vtx = dest.vtx
    <2>1. d[1].parent = 0 /\ 1 \in 1..Len(d)
        BY <1>1, <1>4 DEF Chain, None
    <2>2. 0 \notin DOMAIN closed
        BY <1>3, LenProperties DEF Backwards
    <2>3. d[1] = StartNode(start)
        BY <1>5, <2>1, <2>2 DEF ParentsLead
    <2> QED BY <1>1, <1>2, <2>3
<1>7. ASSUME NEW k \in 2..Len(d) PROVE GoesOn(d[k].rut, d[k - 1].vtx, d[k].vtx)
    <2>1. d[k].parent \in DOMAIN closed /\ closed[d[k].parent] = d[k - 1]
        BY <1>1 DEF Chain
    <2>2. d[k] # StartNode(start)
        <3>1. 0 \notin DOMAIN closed
            BY <1>3, LenProperties DEF Backwards
        <3> QED BY <2>1, <3>1 DEF StartNode, None
    <2>3. k \in 1..Len(d)
        BY <1>4
    <2> QED BY <1>5, <2>1, <2>2, <2>3 DEF ParentsLead
<1>8. ASSUME NEW j \in 1..Len(d), NEW k \in 2..last, j < k, d[j].rut \notin J,
             \A i \in j + 1..k - 1 : d[i].rut \in J
      PROVE  <<d[j].rut, road(k)>> \notin net.always
    <2>1. k - 1 \in 1..Len(d) /\ j <= k - 1 /\ k \in Nat
        BY <1>4, <1>8
    <2>2. Limit(closed, J, d[k - 1]) = d[j].rut
        <3> DEFINE m == k - 1
        <3>1. /\ m \in 1..Len(d) /\ j <= m
              /\ d[j].rut \notin J /\ \A i \in j + 1..m : d[i].rut \in J
            BY <1>8, <2>1
        <3> HIDE DEF m, J
        <3>2. Limit(closed, J, d[m]) = d[j].rut
            BY <1>1, <1>3, <3>1, ChainLimit
        <3> QED BY <3>2 DEF m
    <2>3. LimitingRoad(d[k - 1].rut, d[k - 1].parent) = d[j].rut
        BY <2>2, LimitIs
    <2>4. CASE k <= Len(d)
        <3>1. k \in 2..Len(d) /\ k \in 1..Len(d) /\ road(k) = d[k].rut
            BY <1>4, <2>1, <2>4
        <3>2. d[k].parent \in DOMAIN closed /\ closed[d[k].parent] = d[k - 1]
            BY <1>1, <3>1 DEF Chain
        <3>3. d[k] \in ToSet(open) \cup ToSet(closed)
            BY <1>5, <3>1
        <3> QED BY <2>3, <3>1, <3>2, <3>3 DEF LimitsKept
    <2>5. CASE k > Len(d)
        <3>1. k - 1 = Len(d) /\ dest.vtx \notin Edge /\ road(k) = dest.rut
            BY <1>4, <2>1, <2>5
        <3>2. <<LimitingRoad(Top.rut, Top.parent), dest.rut>> \notin net.always
            BY <1>2, <3>1 DEF DestinationBarred
        <3> HIDE DEF road
        <3> QED BY <1>1, <2>3, <3>1, <3>2
    <2> QED BY <1>4, <2>1, <2>4, <2>5
<1> HIDE DEF road, last
<1>9. \A j \in 1..Len(d), k \in 2..last :
            /\ j < k
            /\ d[j].rut \notin J
            /\ \A i \in j + 1..k - 1 : d[i].rut \in J
            => <<d[j].rut, road(k)>> \notin net.always
    BY <1>8
<1> QED BY <1>6, <1>7, <1>9 DEF FoundIsADrive, d, road, last

\* In every network where no limit applies across a border, what a search finds is a drive
\* from the start to the destination, across borders, over several legs and however often
\* nodes were replaced or opened again: every road goes on from the last in a permitted
\* direction, and none is entered from a road, by way of a junction or not, from which it may
\* never be.
THEOREM AlwaysADrive ==
    ASSUME LimitsStayInside
    PROVE  Spec => []FoundIsADrive
<1>1. Init => LimitsKept /\ AtDestination /\ ParentsLead /\ InLoop
    BY InitLimits, InitLeads
<1>2. Inv /\ (LimitsKept /\ AtDestination /\ ParentsLead /\ InLoop) /\ [Next]_vars
      => (LimitsKept /\ AtDestination /\ ParentsLead /\ InLoop)'
    BY StepLimits, StepArrived, StepLeads
<1>3. Inv /\ ParentsLead /\ LimitsKept /\ AtDestination => FoundIsADrive
    BY FoundDrive
<1> QED BY <1>1, <1>2, <1>3, Invariant, PTL DEF Spec
=============================================================================
