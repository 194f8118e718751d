------------------------- MODULE RouteSearchProofs -------------------------
(***************************************************************************)
(* What is proved of RouteSearch for every network, every cost, every      *)
(* length of the ring of sheets and every number of legs                   *)
(* (NetworkAssumption).                                                    *)
(***************************************************************************)
EXTENDS RouteSearch, SequenceTheorems, WellFoundedInduction, TLAPS

----------------------------------------------------------------------------
(* The open list *)

Sorted(list) == \A j, k \in DOMAIN list : j < k => list[j].f <= list[k].f

\* No vertex has two nodes in the list.
OneEach(list) == \A j, k \in DOMAIN list : list[j].vtx = list[k].vtx => j = k

\* Some node of the list is for vertex v.
Has(list, v) == \E k \in DOMAIN list : list[k].vtx = v

\* A set of numbers that is not empty has a least one.
LEMMA LeastOfSome ==
    ASSUME NEW S \in SUBSET Nat, S # {}
    PROVE  Min2(S) \in S /\ \A y \in S : Min2(S) <= y
<1>1. PICK x \in S : \A y \in S : ~ (<<y, x>> \in OpToRel(<, Nat))
    BY WFMin, NatLessThanWellFounded, Zenon
<1>2. \A y \in S : x <= y
    <2> TAKE y \in S
    <2>1. <<y, x>> \in Nat \X Nat /\ <<y, x>>[1] = y /\ <<y, x>>[2] = x
        OBVIOUS
    <2> QED BY <1>1, <2>1 DEF OpToRel
<1> QED BY <1>2 DEF Min2

\* InsertNode puts the node somewhere and leaves the others in their order; no node
\* before it has a larger estimate, none behind it a smaller one if the list was sorted.
LEMMA InsertNodePlaces ==
    ASSUME NEW list \in Seq(Node), NEW node \in Node
    PROVE  /\ InsertNode(node, list) \in Seq(Node)
           /\ Len(InsertNode(node, list)) = Len(list) + 1
           /\ \E p \in 1..Len(list) + 1 :
                /\ \A k \in 1..Len(list) + 1 :
                      InsertNode(node, list)[k] =
                        IF k < p THEN list[k] ELSE IF k = p THEN node ELSE list[k - 1]
                /\ \A k \in 1..Len(list) : k < p => list[k].f <= node.f
                /\ p <= Len(list) => node.f < list[p].f
<1> DEFINE later == {k \in DOMAIN list : node.f < list[k].f}
           n == Len(list)
<1>1. n \in Nat /\ DOMAIN list = 1..n /\ \A k \in 1..n : list[k] \in Node
    BY LenProperties, ElementOfSeq
<1>2. node.f \in Nat /\ \A k \in 1..n : list[k].f \in Nat
    BY <1>1 DEF Node
<1>3. CASE later = {}
    <2>1. InsertNode(node, list) = Append(list, node)
        BY <1>3 DEF InsertNode
    <2>2. \A k \in 1..n : list[k].f <= node.f
        BY <1>1, <1>2, <1>3
    <2> HIDE DEF n
    <2>3. /\ Append(list, node) \in Seq(Node) /\ Len(Append(list, node)) = n + 1
          /\ \A k \in 1..n : Append(list, node)[k] = list[k]
          /\ Append(list, node)[n + 1] = node
        BY AppendProperties DEF n
    <2>4. \A k \in 1..n + 1 : k < n + 1 => k \in 1..n
        BY <1>1
    <2>5. n + 1 \in 1..n + 1 /\ ~(n + 1 <= n)
        BY <1>1
    <2>6. \A k \in 1..n + 1 : Append(list, node)[k] =
                IF k < n + 1 THEN list[k] ELSE IF k = n + 1 THEN node ELSE list[k - 1]
        BY <1>1, <2>3
    <2> QED BY <2>1, <2>2, <2>3, <2>5, <2>6 DEF n
<1>4. CASE later # {}
    <2> DEFINE p == Min2(later)
               A == SubSeq(list, 1, p - 1)
               B == SubSeq(list, p, n)
    <2>1. p \in later /\ \A y \in later : p <= y
        <3>1. later \in SUBSET Nat
            BY <1>1
        <3> HIDE DEF later
        <3> QED BY <1>4, <3>1, LeastOfSome
    <2>2. p \in 1..n /\ node.f < list[p].f
        BY <1>1, <2>1
    <2>3. \A k \in 1..n : k < p => list[k].f <= node.f
        <3> SUFFICES ASSUME NEW k \in 1..n, k < p, ~(list[k].f <= node.f)
                     PROVE  FALSE
            OBVIOUS
        <3>1. node.f < list[k].f
            BY <1>2
        <3>2. k \in later
            BY <1>1, <3>1
        <3> HIDE DEF p, later
        <3> QED BY <1>1, <2>1, <2>2, <3>2
    <2>4. InsertNode(node, list) = (A \o <<node>>) \o B
        BY <1>4 DEF InsertNode, InsertAt
    <2> HIDE DEF p, later
    <2>5. A \in Seq(Node) /\ Len(A) = p - 1 /\ \A i \in 1..p - 1 : A[i] = list[i]
        <3>1. \A i \in 1..p - 1 : list[i] \in Node
            BY <1>1, <2>2
        <3> QED BY <1>1, <2>2, <3>1, SubSeqProperties
    <2>6. B \in Seq(Node) /\ Len(B) = n - p + 1 /\ \A i \in 1..n - p + 1 : B[i] = list[p + i - 1]
        <3>1. \A i \in p..n : list[i] \in Node
            BY <1>1, <2>2
        <3> QED BY <1>1, <2>2, <3>1, SubSeqProperties
    <2>7. <<node>> \in Seq(Node) /\ Len(<<node>>) = 1 /\ <<node>>[1] = node
        OBVIOUS
    <2> HIDE DEF A, B, n
    <2>8. /\ A \o <<node>> \in Seq(Node) /\ Len(A \o <<node>>) = p
          /\ \A i \in 1..p : (A \o <<node>>)[i] = IF i <= p - 1 THEN A[i] ELSE node
        <3>1. /\ A \o <<node>> \in Seq(Node) /\ Len(A \o <<node>>) = Len(A) + 1
              /\ \A i \in 1..Len(A) + 1 :
                    (A \o <<node>>)[i] = IF i <= Len(A) THEN A[i] ELSE <<node>>[i - Len(A)]
            BY <2>5, <2>7, ConcatProperties
        <3> QED BY <1>1, <2>2, <2>5, <2>7, <3>1
    <2> DEFINE C == A \o <<node>>
    <2> HIDE DEF C
    <2>9. /\ C \o B \in Seq(Node) /\ Len(C \o B) = n + 1
          /\ \A i \in 1..n + 1 : (C \o B)[i] = IF i <= p THEN C[i] ELSE B[i - p]
        <3>1. /\ C \o B \in Seq(Node) /\ Len(C \o B) = Len(C) + Len(B)
              /\ \A i \in 1..Len(C) + Len(B) :
                    (C \o B)[i] = IF i <= Len(C) THEN C[i] ELSE B[i - Len(C)]
            <4>1. C \in Seq(Node)
                BY <2>8 DEF C
            <4> QED BY <2>6, <4>1, ConcatProperties
        <3>2. Len(C) = p /\ Len(B) = n - p + 1
            BY <2>6, <2>8 DEF C
        <3> QED BY <1>1, <2>2, <3>1, <3>2
    <2>10. \A k \in 1..n + 1 : (C \o B)[k] =
                IF k < p THEN list[k] ELSE IF k = p THEN node ELSE list[k - 1]
        <3> SUFFICES ASSUME NEW k \in 1..n + 1
                     PROVE  (C \o B)[k] = IF k < p THEN list[k] ELSE IF k = p THEN node ELSE list[k - 1]
            OBVIOUS
        <3>1. CASE k < p
            BY <1>1, <2>2, <2>5, <2>8, <2>9, <3>1 DEF C
        <3>2. CASE k = p
            BY <1>1, <2>2, <2>8, <2>9, <3>2 DEF C
        <3>3. CASE k > p
            <4>1. k - p \in 1..n - p + 1 /\ p + (k - p) - 1 = k - 1
                BY <1>1, <2>2, <3>3
            <4>2. B[k - p] = list[k - 1]
                BY <2>6, <4>1
            <4>3. (C \o B)[k] = B[k - p]
                BY <1>1, <2>2, <2>9, <3>3
            <4> QED BY <1>1, <2>2, <3>3, <4>2, <4>3
        <3>4. k < p \/ k = p \/ k > p
            BY <1>1, <2>2
        <3> QED BY <3>1, <3>2, <3>3, <3>4
    <2>11. p \in 1..n + 1
        BY <1>1, <2>2
    <2> QED BY <2>2, <2>3, <2>4, <2>9, <2>10, <2>11 DEF C, n
<1> QED BY <1>3, <1>4

\* A sorted list stays sorted, and so does a list with one node for each vertex when the
\* new node's vertex has none.
LEMMA InsertKeeps ==
    ASSUME NEW list \in Seq(Node), NEW node \in Node
    PROVE  /\ Sorted(list) => Sorted(InsertNode(node, list))
           /\ OneEach(list) /\ ~Has(list, node.vtx) => OneEach(InsertNode(node, list))
           /\ \A v : Has(InsertNode(node, list), v) <=> Has(list, v) \/ v = node.vtx
           /\ ToSet(InsertNode(node, list)) = ToSet(list) \cup {node}
<1> DEFINE n == Len(list)
           L == InsertNode(node, list)
<1>1. n \in Nat /\ DOMAIN list = 1..n /\ \A k \in 1..n : list[k] \in Node
    BY LenProperties, ElementOfSeq
<1>2. L \in Seq(Node) /\ Len(L) = n + 1
    BY InsertNodePlaces
<1>3. DOMAIN L = 1..n + 1
    BY <1>2, LenProperties
<1>4. PICK p \in 1..n + 1 :
        /\ \A k \in 1..n + 1 : L[k] = IF k < p THEN list[k] ELSE IF k = p THEN node ELSE list[k - 1]
        /\ \A k \in 1..n : k < p => list[k].f <= node.f
        /\ p <= n => node.f < list[p].f
    BY InsertNodePlaces
<1> HIDE DEF n, L
<1>5. node.f \in Nat /\ \A k \in 1..n : list[k].f \in Nat
    BY <1>1 DEF Node
<1>6. /\ \A k \in 1..n + 1 : k < p => k \in 1..n /\ L[k] = list[k]
      /\ L[p] = node
      /\ \A k \in 1..n + 1 : p < k => k - 1 \in 1..n /\ L[k] = list[k - 1]
    BY <1>1, <1>4
<1>7. \A k \in 1..n : IF k < p THEN k \in 1..n + 1 /\ L[k] = list[k]
                               ELSE k + 1 \in 1..n + 1 /\ L[k + 1] = list[k]
    <2> TAKE k \in 1..n
    <2>1. CASE k < p
        BY <1>1, <1>6, <2>1
    <2>2. CASE ~(k < p)
        <3>1. k + 1 \in 1..n + 1 /\ p < k + 1 /\ (k + 1) - 1 = k
            BY <1>1, <2>2
        <3> QED BY <1>6, <2>2, <3>1
    <2> QED BY <2>1, <2>2
<1>8. ASSUME Sorted(list)
      PROVE  Sorted(L)
    <2> SUFFICES ASSUME NEW j \in 1..n + 1, NEW k \in 1..n + 1, j < k
                 PROVE  L[j].f <= L[k].f
        BY <1>3 DEF Sorted
    <2>1. \A i, m \in 1..n : i < m => list[i].f <= list[m].f
        BY <1>1, <1>8 DEF Sorted
    <2>2. CASE k < p
        BY <1>1, <1>6, <2>1, <2>2
    <2>3. CASE k = p
        BY <1>1, <1>4, <1>6, <2>3
    <2>4. CASE p < k
        <3>1. k - 1 \in 1..n /\ L[k] = list[k - 1]
            BY <1>6, <2>4
        <3>2. node.f < list[k - 1].f
            <4>1. p \in 1..n /\ node.f < list[p].f
                BY <1>1, <1>4, <2>4
            <4>2. list[p].f <= list[k - 1].f
                <5>1. CASE p = k - 1
                    BY <1>5, <4>1, <5>1
                <5>2. CASE p # k - 1
                    BY <1>1, <2>1, <2>4, <3>1, <4>1, <5>2
                <5> QED BY <5>1, <5>2
            <4> QED BY <1>5, <3>1, <4>1, <4>2
        <3>3. CASE j = p
            BY <1>5, <1>6, <3>1, <3>2, <3>3
        <3>4. CASE j < p
            <4>1. j \in 1..n /\ L[j] = list[j] /\ j < k - 1
                BY <1>1, <1>6, <2>4, <3>4
            <4> QED BY <2>1, <3>1, <4>1
        <3>5. CASE p < j
            <4>1. j - 1 \in 1..n /\ L[j] = list[j - 1] /\ j - 1 < k - 1
                BY <1>1, <1>6, <3>5
            <4> QED BY <2>1, <3>1, <4>1
        <3>6. j = p \/ j < p \/ p < j
            BY <1>1, <1>4
        <3> QED BY <3>3, <3>4, <3>5, <3>6
    <2>5. k < p \/ k = p \/ p < k
        BY <1>1, <1>4
    <2> QED BY <2>2, <2>3, <2>4, <2>5
<1>9. ASSUME OneEach(list), ~Has(list, node.vtx)
      PROVE  OneEach(L)
    <2> SUFFICES ASSUME NEW j \in 1..n + 1, NEW k \in 1..n + 1, L[j].vtx = L[k].vtx
                 PROVE  j = k
        BY <1>3 DEF OneEach
    <2>1. \A i, m \in 1..n : list[i].vtx = list[m].vtx => i = m
        BY <1>1, <1>9 DEF OneEach
    <2>2. \A i \in 1..n : list[i].vtx # node.vtx
        BY <1>1, <1>9 DEF Has
    <2>3. \A i \in 1..n + 1 : i = p \/ i < p \/ p < i
        BY <1>1, <1>4
    <2>4. CASE j = p \/ k = p
        BY <1>6, <2>2, <2>3, <2>4
    <2>5. CASE j < p /\ k < p
        BY <1>6, <2>1, <2>5
    <2>6. CASE p < j /\ p < k
        <3>1. j - 1 = k - 1
            BY <1>6, <2>1, <2>6
        <3> QED BY <3>1, <1>1
    <2>7. CASE j < p /\ p < k
        <3>1. j = k - 1
            BY <1>6, <2>1, <2>7
        <3> QED BY <1>1, <1>4, <2>7, <3>1
    <2>8. CASE p < j /\ k < p
        <3>1. k = j - 1
            BY <1>6, <2>1, <2>8
        <3> QED BY <1>1, <1>4, <2>8, <3>1
    <2> QED BY <2>3, <2>4, <2>5, <2>6, <2>7, <2>8
<1>10. ToSet(L) = ToSet(list) \cup {node}
    <2>1. \A x : x \in ToSet(L) => x \in ToSet(list) \cup {node}
        <3> SUFFICES ASSUME NEW k \in 1..n + 1
                     PROVE  L[k] \in ToSet(list) \cup {node}
            BY <1>3 DEF ToSet
        <3>1. k = p \/ k < p \/ p < k
            BY <1>1, <1>4
        <3> QED BY <1>1, <1>6, <3>1 DEF ToSet
    <2>2. ToSet(list) \subseteq ToSet(L)
        BY <1>1, <1>3, <1>7 DEF ToSet
    <2>3. node \in ToSet(L)
        BY <1>3, <1>4, <1>6 DEF ToSet
    <2> QED BY <2>1, <2>2, <2>3
<1>11. \A v : Has(L, v) <=> \E x \in ToSet(L) : x.vtx = v
    BY DEF Has, ToSet
<1>12. \A v : Has(list, v) <=> \E x \in ToSet(list) : x.vtx = v
    BY DEF Has, ToSet
<1>13. \A v : Has(L, v) <=> Has(list, v) \/ v = node.vtx
    BY <1>10, <1>11, <1>12
<1> QED BY <1>8, <1>9, <1>10, <1>13 DEF L

\* Taking out the node at place p.
LEMMA RemoveKeeps ==
    ASSUME NEW list \in Seq(Node), NEW p \in DOMAIN list
    PROVE  /\ RemoveAt(list, p) \in Seq(Node) /\ Len(RemoveAt(list, p)) = Len(list) - 1
           /\ Sorted(list) => Sorted(RemoveAt(list, p))
           /\ OneEach(list) => OneEach(RemoveAt(list, p))
           /\ OneEach(list) => ~Has(RemoveAt(list, p), list[p].vtx)
           /\ \A v : v # list[p].vtx => (Has(RemoveAt(list, p), v) <=> Has(list, v))
           /\ ToSet(RemoveAt(list, p)) \subseteq ToSet(list)
<1> DEFINE n == Len(list)
           L == RemoveAt(list, p)
           A == SubSeq(list, 1, p - 1)
           B == SubSeq(list, p + 1, n)
<1>1. n \in Nat /\ DOMAIN list = 1..n /\ \A k \in 1..n : list[k] \in Node
    BY LenProperties, ElementOfSeq
<1>2. p \in 1..n
    BY <1>1
<1>3. L = A \o B
    BY DEF RemoveAt
<1> HIDE DEF n, L
<1>4. A \in Seq(Node) /\ Len(A) = p - 1 /\ \A i \in 1..p - 1 : A[i] = list[i]
    <2>1. \A i \in 1..p - 1 : list[i] \in Node
        BY <1>1, <1>2
    <2> QED BY <1>1, <1>2, <2>1, SubSeqProperties
<1>5. B \in Seq(Node) /\ Len(B) = n - p /\ \A i \in 1..n - p : B[i] = list[p + i]
    <2>1. \A i \in p + 1..n : list[i] \in Node
        BY <1>1, <1>2
    <2>2. /\ B \in Seq(Node) /\ Len(B) = IF p + 1 <= n THEN n - (p + 1) + 1 ELSE 0
          /\ \A i \in 1..n - (p + 1) + 1 : B[i] = list[(p + 1) + i - 1]
        <3>1. p + 1 \in Int /\ n \in Int
            BY <1>1, <1>2
        <3> QED BY <2>1, <3>1, SubSeqProperties
    <2>3. n - (p + 1) + 1 = n - p /\ \A i \in 1..n - p : (p + 1) + i - 1 = p + i
        BY <1>1, <1>2
    <2> QED BY <1>1, <1>2, <2>2, <2>3
<1> HIDE DEF A, B
<1>6. /\ L \in Seq(Node) /\ Len(L) = n - 1
      /\ \A i \in 1..n - 1 : L[i] = IF i <= p - 1 THEN A[i] ELSE B[i - (p - 1)]
    <2>1. /\ A \o B \in Seq(Node) /\ Len(A \o B) = Len(A) + Len(B)
          /\ \A i \in 1..Len(A) + Len(B) : (A \o B)[i] = IF i <= Len(A) THEN A[i] ELSE B[i - Len(A)]
        BY <1>4, <1>5, ConcatProperties
    <2>2. Len(A) + Len(B) = n - 1
        BY <1>1, <1>2, <1>4, <1>5
    <2> QED BY <1>3, <1>4, <2>1, <2>2
<1>7. \A k \in 1..n - 1 : /\ k < p => k \in 1..n /\ L[k] = list[k]
                          /\ ~(k < p) => k + 1 \in 1..n /\ L[k] = list[k + 1]
    <2> TAKE k \in 1..n - 1
    <2>1. CASE k < p
        BY <1>1, <1>2, <1>4, <1>6, <2>1
    <2>2. CASE ~(k < p)
        <3>1. k - (p - 1) \in 1..n - p /\ p + (k - (p - 1)) = k + 1
            BY <1>1, <1>2, <2>2
        <3>2. B[k - (p - 1)] = list[k + 1]
            BY <1>5, <3>1
        <3>3. L[k] = B[k - (p - 1)] /\ k + 1 \in 1..n
            BY <1>1, <1>2, <1>6, <2>2
        <3> QED BY <2>2, <3>2, <3>3
    <2> QED BY <2>1, <2>2
<1>8. DOMAIN L = 1..n - 1
    BY <1>6, LenProperties
<1> DEFINE at(k) == IF k < p THEN k ELSE k + 1
<1>9. /\ \A k \in 1..n - 1 : at(k) \in 1..n /\ at(k) # p /\ L[k] = list[at(k)]
      /\ \A j, k \in 1..n - 1 : j < k => at(j) < at(k)
      /\ \A j, k \in 1..n - 1 : at(j) = at(k) => j = k
      /\ \A m \in 1..n : m # p => \E k \in 1..n - 1 : at(k) = m
    <2>1. \A k \in 1..n - 1 : at(k) \in 1..n /\ at(k) # p /\ L[k] = list[at(k)]
        BY <1>1, <1>2, <1>7
    <2>2. \A j, k \in 1..n - 1 : j < k => at(j) < at(k)
        BY <1>1, <1>2
    <2>3. \A j, k \in 1..n - 1 : at(j) = at(k) => j = k
        BY <1>1, <1>2
    <2>4. ASSUME NEW m \in 1..n, m # p
          PROVE  \E k \in 1..n - 1 : at(k) = m
        <3>1. CASE m < p
            <4>1. m \in 1..n - 1 /\ at(m) = m
                BY <1>1, <1>2, <3>1
            <4> QED BY <4>1
        <3>2. CASE ~(m < p)
            <4>1. m - 1 \in 1..n - 1 /\ at(m - 1) = m
                BY <1>1, <1>2, <2>4, <3>2
            <4> QED BY <4>1
        <3> QED BY <3>1, <3>2
    <2> QED BY <2>1, <2>2, <2>3, <2>4
<1> HIDE DEF at
<1>10. Sorted(list) => Sorted(L)
    BY <1>1, <1>8, <1>9 DEF Sorted
<1>11. OneEach(list) => OneEach(L)
    <2> SUFFICES ASSUME OneEach(list), NEW j \in 1..n - 1, NEW k \in 1..n - 1, L[j].vtx = L[k].vtx
                 PROVE  j = k
        BY <1>8 DEF OneEach
    <2>1. list[at(j)].vtx = list[at(k)].vtx /\ at(j) \in 1..n /\ at(k) \in 1..n
        BY <1>9
    <2>2. at(j) = at(k)
        BY <1>1, <2>1 DEF OneEach
    <2> QED BY <1>9, <2>2
<1>12. OneEach(list) => ~Has(L, list[p].vtx)
    BY <1>1, <1>2, <1>8, <1>9 DEF OneEach, Has
<1>13. ASSUME NEW v, v # list[p].vtx
       PROVE  Has(L, v) <=> Has(list, v)
    <2>1. Has(L, v) => Has(list, v)
        BY <1>1, <1>8, <1>9 DEF Has
    <2>2. ASSUME NEW m \in 1..n, list[m].vtx = v
          PROVE  Has(L, v)
        <3>1. PICK k \in 1..n - 1 : at(k) = m
            BY <1>9, <1>13, <2>2
        <3> QED BY <1>8, <1>9, <2>2, <3>1 DEF Has
    <2> QED BY <1>1, <2>1, <2>2 DEF Has
<1>14. ToSet(L) \subseteq ToSet(list)
    BY <1>1, <1>8, <1>9 DEF ToSet
<1> QED BY <1>6, <1>10, <1>11, <1>12, <1>13, <1>14 DEF L, n

\* The head of the list is taken out like any other node.
LEMMA TailIsRemove ==
    ASSUME NEW list \in Seq(Node), list # <<>>
    PROVE  1 \in DOMAIN list /\ Tail(list) = RemoveAt(list, 1)
<1>1. Len(list) \in Nat /\ Len(list) # 0 /\ DOMAIN list = 1..Len(list)
    BY LenProperties, EmptySeq
<1>2. Tail(list) = SubSeq(list, 2, Len(list)) /\ Tail(list) \in Seq(Node)
    BY TailIsSubSeq, HeadTailProperties
<1>3. SubSeq(list, 1, 0) = <<>>
    BY SubSeqEmpty
<1>4. RemoveAt(list, 1) = <<>> \o Tail(list)
    BY <1>2, <1>3 DEF RemoveAt
<1> QED BY <1>1, <1>2, <1>4, ConcatEmptySeq

----------------------------------------------------------------------------
(* The network and the cache *)

Cache == [ring : Seq(Sheet), counted : SUBSET Sheet, vtx : SUBSET Vertex, rut : SUBSET Road]

\* Both ends of a road are vertices of the road's sheet, and the road is one of theirs.
LEMMA Network ==
    /\ None \notin Vertex /\ Vertex \subseteq Nat
    /\ \A v \in Vertex : RoadsAt(v) \subseteq Road /\ SheetOf[v] \in Sheet
    /\ \A r \in Road : /\ Ends[r][1] \in Vertex /\ Ends[r][2] \in Vertex
                       /\ r \in RoadsAt(Ends[r][1]) /\ r \in RoadsAt(Ends[r][2])
                       /\ RoadSheet(r) \in Sheet
    /\ \A v \in Vertex : \A r \in RoadsAt(v) : RoadSheet(r) = SheetOf[v]
<1>1. \A r \in Road : Ends[r][1] \in Vertex /\ Ends[r][2] \in Vertex
    BY NetworkAssumption
<1>2. \A r \in Road : r \in RoadsAt(Ends[r][1]) /\ r \in RoadsAt(Ends[r][2])
    <2>1. \A v \in Vertex : RoadsAt(v) = {r \in Road : v \in {Ends[r][1], Ends[r][2]}}
        BY NetworkAssumption
    <2> SUFFICES ASSUME NEW r \in Road
                 PROVE  r \in RoadsAt(Ends[r][1]) /\ r \in RoadsAt(Ends[r][2])
        OBVIOUS
    <2>2. Ends[r][1] \in Vertex /\ Ends[r][2] \in Vertex
        BY <1>1
    <2> QED BY <2>1, <2>2
<1>3. \A v \in Vertex : RoadsAt(v) \subseteq Road /\ SheetOf[v] \in Sheet
    BY NetworkAssumption
<1>4. \A v \in Vertex : \A r \in RoadsAt(v) : RoadSheet(r) = SheetOf[v]
    <2> SUFFICES ASSUME NEW v \in Vertex, NEW r \in RoadsAt(v)
                 PROVE  RoadSheet(r) = SheetOf[v]
        OBVIOUS
    <2>1. r \in Road /\ (v = Ends[r][1] \/ v = Ends[r][2])
        BY NetworkAssumption
    <2>2. SheetOf[Ends[r][1]] = SheetOf[Ends[r][2]]
        BY <2>1, NetworkAssumption
    <2> QED BY <2>1, <2>2 DEF RoadSheet
<1>5. None \notin Vertex /\ Vertex \subseteq Nat
    BY NetworkAssumption DEF None
<1> QED BY <1>1, <1>2, <1>3, <1>4, <1>5 DEF RoadSheet

LEMMA DistanceType ==
    ASSUME NEW v \in Vertex, NEW w \in Vertex
    PROVE  Distance(v, w) \in Nat
BY NetworkAssumption DEF Distance

\* The vertex at the other end is a loaded one, and the road is one of its roads.
LEMMA NextVertex ==
    ASSUME NEW v, NEW r \in Road, NEW c \in Cache, GetNextRutVtx(v, r, c) # None
    PROVE  /\ GetNextRutVtx(v, r, c) \in c.vtx /\ GetNextRutVtx(v, r, c) \in Vertex
           /\ r \in RoadsAt(GetNextRutVtx(v, r, c))
<1> DEFINE w == IF v = Ends[r][1] THEN Ends[r][2] ELSE Ends[r][1]
<1>1. GetNextRutVtx(v, r, c) = w /\ w \in c.vtx
    BY DEF GetNextRutVtx
<1> QED BY <1>1, Network

\* Clearing a sheet leaves the vertices the search has seen, with their roads, and
\* everything of the other sheets.
LEMMA ClearKeeps ==
    ASSUME NEW c \in Cache, NEW sheet \in Sheet, NEW st
    PROVE  LET d == ClearNWBreadth(c, sheet, st)
           IN  /\ d \in Cache /\ d.ring = c.ring /\ d.counted = c.counted
               /\ \A v \in c.vtx : SheetOf[v] # sheet \/ st[v] # 0 => v \in d.vtx
               /\ \A r \in c.rut : RoadSheet(r) # sheet => r \in d.rut
               /\ \A v \in c.vtx, r \in c.rut : st[v] # 0 /\ r \in RoadsAt(v) => r \in d.rut
<1> DEFINE d == ClearNWBreadth(c, sheet, st)
           kept == {v \in c.vtx : SheetOf[v] = sheet /\ (st[v] # 0 \/ v \in Edge)}
           V == {v \in c.vtx : SheetOf[v] # sheet} \cup kept
           R == {r \in c.rut : RoadSheet(r) # sheet \/ \E v \in kept : r \in RoadsAt(v)}
<1>1. d = [ring |-> c.ring, counted |-> c.counted, vtx |-> V, rut |-> R]
    <2>1. d = [c EXCEPT !.vtx = V, !.rut = R]
        BY DEF ClearNWBreadth
    <2> HIDE DEF d, V, R
    <2> QED BY <2>1 DEF Cache
<1>2. c.ring \in Seq(Sheet) /\ c.counted \in SUBSET Sheet /\ c.vtx \subseteq Vertex /\ c.rut \subseteq Road
    BY DEF Cache
<1>3. d \in Cache
    BY <1>1, <1>2 DEF Cache
<1>4. \A v \in c.vtx, r \in c.rut : st[v] # 0 /\ r \in RoadsAt(v) => r \in d.rut
    <2> SUFFICES ASSUME NEW v \in c.vtx, NEW r \in c.rut, st[v] # 0, r \in RoadsAt(v)
                 PROVE  r \in R
        BY <1>1
    <2>1. RoadSheet(r) = SheetOf[v]
        BY <1>2, Network
    <2> QED BY <2>1
<1> HIDE DEF d
<1>5. QED
    BY <1>1, <1>3, <1>4 DEF d

\* So does reading a sheet, whichever it makes the ring forget.
LEMMA ReadKeeps ==
    ASSUME NEW c \in Cache, NEW sheet \in Sheet, NEW st
    PROVE  LET d == ReadBreadthNetwork(c, sheet, st)
           IN  /\ d \in Cache
               /\ \A v \in c.vtx : st[v] # 0 => v \in d.vtx
               /\ \A v \in c.vtx, r \in c.rut : st[v] # 0 /\ r \in RoadsAt(v) => r \in d.rut
               /\ sheet \in c.counted => d = c
               /\ Len(c.ring) < MaxSheets => c.vtx \subseteq d.vtx /\ c.rut \subseteq d.rut
               /\ sheet \notin c.counted => d.ring = Append(c.ring, sheet)
               /\ d.counted = c.counted \cup {sheet}
               /\ \A r \in c.rut : RoadSheet(r) \notin ToSet(c.ring) => r \in d.rut
               /\ \A v \in c.vtx : SheetOf[v] \notin ToSet(c.ring) => v \in d.vtx
<1> DEFINE d == ReadBreadthNetwork(c, sheet, st)
           full == Len(c.ring) >= MaxSheets
           old == c.ring[Len(c.ring) - MaxSheets + 1]
           room == IF full THEN ClearNWBreadth(c, old, st) ELSE c
<1>1. CASE sheet \in c.counted
    BY <1>1 DEF ReadBreadthNetwork
<1>2. CASE sheet \notin c.counted
    <2>1. d = [ring |-> Append(c.ring, sheet), counted |-> c.counted \cup {sheet},
               vtx |-> room.vtx \cup {v \in Vertex : SheetOf[v] = sheet},
               rut |-> room.rut \cup {r \in Road : RoadSheet(r) = sheet}]
        BY <1>2 DEF ReadBreadthNetwork
    <2>2. Len(c.ring) \in Nat /\ c.ring \in Seq(Sheet) /\ c.counted \subseteq Sheet
        BY LenProperties DEF Cache
    <2>3. full => old \in Sheet /\ old \in ToSet(c.ring)
        <3>1. full => Len(c.ring) - MaxSheets + 1 \in 1..Len(c.ring)
            BY <2>2, NetworkAssumption
        <3>2. DOMAIN c.ring = 1..Len(c.ring)
            BY <2>2, LenProperties
        <3> QED BY <2>2, <3>1, <3>2, ElementOfSeq DEF ToSet
    <2>4. room \in Cache
        BY <2>3, ClearKeeps
    <2>5. /\ \A v \in c.vtx : st[v] # 0 => v \in room.vtx
          /\ \A v \in c.vtx, r \in c.rut : st[v] # 0 /\ r \in RoadsAt(v) => r \in room.rut
          /\ \A r \in c.rut : RoadSheet(r) \notin ToSet(c.ring) => r \in room.rut
          /\ \A v \in c.vtx : SheetOf[v] \notin ToSet(c.ring) => v \in room.vtx
        <3>1. CASE full
            BY <2>3, <3>1, ClearKeeps
        <3>2. CASE ~full
            BY <3>2
        <3> QED BY <3>1, <3>2
    <2>6. Append(c.ring, sheet) \in Seq(Sheet)
        BY <2>2, AppendProperties
    <2>7. Len(c.ring) < MaxSheets => room = c
        BY <2>2, NetworkAssumption
    <2> HIDE DEF room
    <2>8. d \in Cache
        BY <2>1, <2>2, <2>4, <2>6 DEF Cache
    <2> HIDE DEF d
    <2> QED BY <1>2, <2>1, <2>5, <2>7, <2>8 DEF d
<1> QED BY <1>1, <1>2

----------------------------------------------------------------------------
(* A drive is offered *)

\* The lists, marks and types of l agree with each other.
Agree(l) ==
    /\ l.open \in Seq(Node) /\ l.status \in [Vertex -> 0..2] /\ l.posOHead \in [Vertex -> BOOLEAN]
    /\ Sorted(l.open) /\ OneEach(l.open)
    /\ \A v \in Vertex : l.posOHead[v] <=> Has(l.open, v)
    /\ \A v \in Vertex : l.posOHead[v] => l.status[v] = 1

\* CalculateNetworkNode leaves lists and marks that agree, forgets no vertex it has seen,
\* adds no other node than the one it is offered, and leaves none out but for one that is too
\* far away or closed.
LEMMA OfferKeeps ==
    ASSUME TypeOK, Agree(Lists), closed # <<>>, NEW r \in Road, NEW v \in Vertex
    PROVE  LET l == CalculateNetworkNode(r, v)
           IN  /\ Agree(l)
               /\ \A w \in Vertex : status[w] # 0 => l.status[w] # 0
               /\ \A n \in ToSet(l.open) :
                    \/ n \in ToSet(open)
                    \/ /\ n.vtx = v /\ n.rut = r /\ l.status[v] = 1
                       /\ n.parent = Len(closed) /\ n.g = Last(closed).g + Cost[r]
               /\ \A w \in Vertex : Has(open, w) => Has(l.open, w)
               /\ \A w \in Vertex : l.status[w] = 2 => status[w] = 2
               /\ Distance(v, dest.vtx) <= MaxDis => Has(l.open, v) \/ status[v] = 2
<1> DEFINE parent == Last(closed)
           g == parent.g + Cost[r]
           node == [rut |-> r, vtx |-> v, g |-> g, f |-> g + Distance(v, dest.vtx),
                    parent |-> Len(closed)]
           l == CalculateNetworkNode(r, v)
<1>1. Lists.open = open /\ Lists.status = status /\ Lists.posOHead = posOHead
    BY DEF Lists
<1>2. /\ open \in Seq(Node) /\ status \in [Vertex -> 0..2] /\ posOHead \in [Vertex -> BOOLEAN]
      /\ Sorted(open) /\ OneEach(open)
      /\ \A w \in Vertex : posOHead[w] <=> Has(open, w)
      /\ \A w \in Vertex : posOHead[w] => status[w] = 1
    BY <1>1 DEF Agree
<1>3. node \in Node
    <2>1. closed \in Seq(Node) /\ Len(closed) \in Nat \ {0}
        BY EmptySeq DEF TypeOK
    <2>2. parent \in Node
        BY <2>1, ElementOfSeq DEF Last
    <2>3. g \in Nat
        BY <2>2, NetworkAssumption DEF Node
    <2>4. Distance(v, dest.vtx) \in Nat
        BY DistanceType DEF TypeOK, WayPoint
    <2> QED BY <2>1, <2>3, <2>4 DEF Node
<1>4. node.vtx = v /\ node.rut = r /\ node.parent = Len(closed) /\ node.g = parent.g + Cost[r]
    OBVIOUS
<1>5. \/ /\ Distance(v, dest.vtx) <= MaxDis => status[v] = 2 \/ posOHead[v]
         /\ l = Lists
      \/ /\ status[v] = 1 /\ posOHead[v]
         /\ l = [Lists EXCEPT !.open = InsertNode(node, RemoveAt(open, PlaceOf(v)))]
      \/ /\ ~(status[v] = 1 /\ posOHead[v])
         /\ l = [open |-> InsertNode(node, open),
                 status |-> [status EXCEPT ![v] = 1],
                 posOHead |-> [posOHead EXCEPT ![v] = TRUE]]
    <2>1. Distance(v, dest.vtx) \in Nat /\ MaxDis \in Nat
        BY DistanceType, NetworkAssumption DEF TypeOK, WayPoint
    <2>2. Distance(v, dest.vtx) > MaxDis \/ Distance(v, dest.vtx) <= MaxDis
        BY <2>1
    <2> HIDE DEF node
    <2>3. CASE Distance(v, dest.vtx) > MaxDis \/ status[v] = 2
        BY <2>1, <2>3 DEF CalculateNetworkNode
    <2>4. CASE /\ ~(Distance(v, dest.vtx) > MaxDis) /\ status[v] # 2
               /\ status[v] = 1 /\ posOHead[v]
        BY <2>1, <2>4 DEF CalculateNetworkNode, node
    <2>5. CASE /\ ~(Distance(v, dest.vtx) > MaxDis) /\ status[v] # 2
               /\ ~(status[v] = 1 /\ posOHead[v])
        BY <2>5 DEF CalculateNetworkNode, node
    <2> QED BY <2>3, <2>4, <2>5
<1> HIDE DEF node, l
<1>6. CASE /\ Distance(v, dest.vtx) <= MaxDis => status[v] = 2 \/ posOHead[v]
           /\ l = Lists
    <2>1. l.open = open /\ l.status = status
        BY <1>1, <1>6
    <2>2. Distance(v, dest.vtx) <= MaxDis => Has(l.open, v) \/ status[v] = 2
        BY <1>2, <1>6, <2>1
    <2> QED BY <1>6, <2>1, <2>2 DEF l
<1>7. CASE /\ status[v] = 1 /\ posOHead[v]
           /\ l = [Lists EXCEPT !.open = InsertNode(node, RemoveAt(open, PlaceOf(v)))]
    <2> DEFINE rest == RemoveAt(open, PlaceOf(v))
    <2>1. PlaceOf(v) \in DOMAIN open /\ open[PlaceOf(v)].vtx = v
        BY <1>2, <1>7 DEF PlaceOf, Has
    <2>2. /\ rest \in Seq(Node) /\ Sorted(rest) /\ OneEach(rest) /\ ~Has(rest, v)
          /\ \A w : w # v => (Has(rest, w) <=> Has(open, w))
          /\ ToSet(rest) \subseteq ToSet(open)
        BY <1>2, <2>1, RemoveKeeps
    <2> HIDE DEF rest
    <2>3. /\ InsertNode(node, rest) \in Seq(Node)
          /\ Sorted(InsertNode(node, rest)) /\ OneEach(InsertNode(node, rest))
          /\ \A w : Has(InsertNode(node, rest), w) <=> Has(rest, w) \/ w = v
          /\ ToSet(InsertNode(node, rest)) = ToSet(rest) \cup {node}
        BY <1>3, <1>4, <2>2, InsertNodePlaces, InsertKeeps
    <2>4. l.open = InsertNode(node, rest) /\ l.status = status /\ l.posOHead = posOHead
        BY <1>1, <1>7 DEF Lists, rest
    <2>5. \A w \in Vertex : posOHead[w] <=> Has(InsertNode(node, rest), w)
        BY <1>2, <1>7, <2>2, <2>3
    <2>6. Agree(l)
        BY <1>2, <2>3, <2>4, <2>5 DEF Agree
    <2>7. \A n \in ToSet(l.open) : n \in ToSet(open) \/ n = node
        BY <2>2, <2>3, <2>4
    <2>8. Has(l.open, v) /\ \A w \in Vertex : Has(open, w) => Has(l.open, w)
        BY <2>2, <2>3, <2>4
    <2> QED BY <1>4, <1>7, <2>4, <2>6, <2>7, <2>8 DEF l
<1>8. CASE /\ ~(status[v] = 1 /\ posOHead[v])
           /\ l = [open |-> InsertNode(node, open),
                   status |-> [status EXCEPT ![v] = 1],
                   posOHead |-> [posOHead EXCEPT ![v] = TRUE]]
    <2>1. ~posOHead[v] /\ ~Has(open, v)
        BY <1>2, <1>8
    <2>2. /\ InsertNode(node, open) \in Seq(Node)
          /\ Sorted(InsertNode(node, open)) /\ OneEach(InsertNode(node, open))
          /\ \A w : Has(InsertNode(node, open), w) <=> Has(open, w) \/ w = v
          /\ ToSet(InsertNode(node, open)) = ToSet(open) \cup {node}
        BY <1>2, <1>3, <1>4, <2>1, InsertNodePlaces, InsertKeeps
    <2>3. /\ l.open = InsertNode(node, open)
          /\ l.status = [status EXCEPT ![v] = 1] /\ l.posOHead = [posOHead EXCEPT ![v] = TRUE]
        BY <1>8
    <2>4. /\ l.status \in [Vertex -> 0..2] /\ l.posOHead \in [Vertex -> BOOLEAN]
          /\ l.status[v] = 1 /\ l.posOHead[v]
          /\ \A w \in Vertex : w # v => l.status[w] = status[w] /\ l.posOHead[w] = posOHead[w]
        BY <1>2, <2>3
    <2>5. \A w \in Vertex : l.posOHead[w] <=> Has(InsertNode(node, open), w)
        BY <1>2, <2>2, <2>4
    <2>6. \A w \in Vertex : l.posOHead[w] => l.status[w] = 1
        BY <1>2, <2>4
    <2>7. Agree(l)
        BY <2>2, <2>3, <2>4, <2>5, <2>6 DEF Agree
    <2>8. \A n \in ToSet(l.open) : n \in ToSet(open) \/ n = node
        BY <2>2, <2>3
    <2>9. \A w \in Vertex : status[w] # 0 => l.status[w] # 0
        BY <2>4
    <2>10. Has(l.open, v) /\ \A w \in Vertex : Has(open, w) => Has(l.open, w)
        BY <2>2, <2>3
    <2>11. \A w \in Vertex : l.status[w] = 2 => status[w] = 2
        BY <2>4
    <2> QED BY <1>4, <2>4, <2>7, <2>8, <2>9, <2>10, <2>11 DEF l
<1> QED BY <1>5, <1>6, <1>7, <1>8

----------------------------------------------------------------------------
(* The inductive invariant *)

\* The node's road ends at its vertex, and both are loaded.
Held(n, c) == n.vtx \in c.vtx /\ n.rut \in c.rut /\ n.rut \in RoadsAt(n.vtx)

\* What the vertices remember of the lists.
Marked ==
    /\ \A v \in Vertex : posOHead[v] => status[v] = 1 /\ Has(open, v)
    /\ stage # "found" /\ ~Fresh => \A v \in Vertex : Has(open, v) => posOHead[v]
    /\ Fresh => Len(open) <= 1 /\ \A v \in Vertex : ~posOHead[v]

\* A node's vertex was seen, so that no ring forgets it: but for the start, which only
\* the first turn of the loop marks.
Seen ==
    stage # "failed" =>
        \A n \in ToSet(open) \cup ToSet(closed) : Held(n, cache) /\ (~Fresh => status[n.vtx] # 0)

Inv ==
    /\ TypeOK
    /\ Sorted(open) /\ OneEach(open)
    /\ Marked /\ Seen
    /\ stage \in {"cross", "expand"} => ~Fresh

----------------------------------------------------------------------------
(* Way points *)

LEMMA TwinType ==
    ASSUME NEW v, NEW r \in Road
    PROVE  Twin(v, r) \in Vertex
BY Network DEF Twin

\* A drive starts at an end of the way point's road.
LEMMA StartsType ==
    ASSUME NEW r \in Road, NEW s \in Starts(r)
    PROVE  s \in WayPoint /\ s.rut = r /\ r \in RoadsAt(s.vtx)
<1>1. PICK v \in RealVtx(r, 1) : s = [rut |-> r, vtx |-> v]
    BY DEF Starts
<1>2. RealVtx(r, 1) \subseteq {Ends[r][1], Ends[r][2]}
    BY DEF RealVtx
<1> QED BY <1>1, <1>2, Network DEF WayPoint

LEMMA StopsType ==
    ASSUME NEW r \in Road, NEW d \in Stops(r)
    PROVE  d \in WayPoint /\ d.rut = r
<1>1. PICK v \in RealVtx(r, 2) : d = [rut |-> r, vtx |-> Across(v)]
    BY DEF Stops
<1>2. RealVtx(r, 2) \subseteq {Ends[r][1], Ends[r][2]}
    BY DEF RealVtx
<1>3. v \in Vertex
    BY <1>1, <1>2, Network
<1>4. \A e \in Edge : Abut[e] \in Road
    BY NetworkAssumption
<1>5. Across(v) \in Vertex
    BY <1>3, <1>4, TwinType DEF Across
<1> QED BY <1>1, <1>5 DEF WayPoint

\* Reading the sheets of a destination keeps a cache; what lies in a sheet stays that is
\* loaded for good before the ring is used.
LEMMA DestinationKeeps ==
    ASSUME NEW c \in Cache, NEW d \in WayPoint, NEW st
    PROVE  LET e == WithDestination(c, d, st)
           IN  /\ e \in Cache
               /\ c.ring = <<>> =>
                    /\ \A r \in c.rut : RoadSheet(r) \in c.counted => r \in e.rut
                    /\ \A v \in c.vtx : SheetOf[v] \in c.counted => v \in e.vtx
<1> DEFINE s1 == RoadSheet(d.rut)
           s2 == SheetOf[d.vtx]
           c1 == ReadBreadthNetwork(c, s1, st)
           c2 == ReadBreadthNetwork(c1, s2, st)
<1>1. s1 \in Sheet /\ s2 \in Sheet
    BY Network DEF WayPoint
<1>2. WithDestination(c, d, st) = c2
    BY DEF WithDestination
<1> HIDE DEF s1, s2
<1>3. /\ c1 \in Cache
      /\ s1 \in c.counted => c1 = c
      /\ s1 \notin c.counted => c1.ring = Append(c.ring, s1)
      /\ \A r \in c.rut : RoadSheet(r) \notin ToSet(c.ring) => r \in c1.rut
      /\ \A v \in c.vtx : SheetOf[v] \notin ToSet(c.ring) => v \in c1.vtx
    BY <1>1, ReadKeeps
<1> HIDE DEF c1
<1>4. /\ c2 \in Cache
      /\ \A r \in c1.rut : RoadSheet(r) \notin ToSet(c1.ring) => r \in c2.rut
      /\ \A v \in c1.vtx : SheetOf[v] \notin ToSet(c1.ring) => v \in c2.vtx
    BY <1>1, <1>3, ReadKeeps
<1> HIDE DEF c2
<1>5. ASSUME c.ring = <<>>
      PROVE  /\ \A r \in c.rut : RoadSheet(r) \in c.counted => r \in c2.rut
             /\ \A v \in c.vtx : SheetOf[v] \in c.counted => v \in c2.vtx
    <2>1. ToSet(c.ring) = {}
        BY <1>5 DEF ToSet
    <2>2. \A s \in c.counted : s \notin ToSet(c1.ring)
        <3>1. CASE s1 \in c.counted
            BY <1>3, <2>1, <3>1
        <3>2. CASE s1 \notin c.counted
            <4>1. c1.ring = <<s1>>
                BY <1>3, <1>5, <3>2
            <4>2. ToSet(c1.ring) = {s1}
                BY <4>1 DEF ToSet
            <4> QED BY <3>2, <4>2
        <3> QED BY <3>1, <3>2
    <2> QED BY <1>3, <1>4, <2>1, <2>2
<1> QED BY <1>2, <1>4, <1>5

\* The list a leg begins with.
LEMMA OneNode ==
    ASSUME NEW s \in WayPoint
    PROVE  /\ <<StartNode(s)>> \in Seq(Node) /\ Len(<<StartNode(s)>>) = 1
           /\ ToSet(<<StartNode(s)>>) = {StartNode(s)}
           /\ Sorted(<<StartNode(s)>>) /\ OneEach(<<StartNode(s)>>)
<1>1. StartNode(s) \in Node
    BY DEF StartNode, WayPoint, Node, None
<1> HIDE DEF StartNode
<1> QED BY <1>1 DEF Sorted, OneEach, ToSet

----------------------------------------------------------------------------
(* The first states, and those after a reload *)

\* A search in a network of which only its way points' sheets are loaded.
Begins ==
    /\ net \in Maps /\ leg \in 1..Legs
    /\ start \in WayPoint /\ start.rut \in RoadsAt(start.vtx) /\ dest \in WayPoint
    /\ open = <<StartNode(start)>> /\ closed = <<>>
    /\ status = [v \in Vertex |-> 0] /\ posOHead = [v \in Vertex |-> FALSE]
    /\ cache = WithDestination(Whole(RoadSheet(start.rut)), dest, status)
    /\ stage = "next" /\ next = 1

LEMMA InitBegins == Init => Begins
<1> SUFFICES ASSUME Init PROVE Begins
    OBVIOUS
<1>1. Drivable \subseteq Road
    BY NetworkAssumption DEF Drivable
<1>2. start \in WayPoint /\ start.rut \in RoadsAt(start.vtx)
    BY <1>1, StartsType DEF Init
<1>3. dest \in WayPoint
    BY <1>1, StopsType DEF Init
<1>4. leg \in 1..Legs
    BY NetworkAssumption DEF Init
<1> QED BY <1>2, <1>3, <1>4 DEF Init, Begins

LEMMA ReloadBegins == Inv /\ NextLegReloaded => Begins'
<1> SUFFICES ASSUME Inv, NextLegReloaded PROVE Begins'
    OBVIOUS
<1>1. Drivable \subseteq Road /\ dest.rut \in Road
    BY NetworkAssumption DEF Drivable, Inv, TypeOK, WayPoint
<1>2. start' \in WayPoint /\ start'.rut \in RoadsAt(start'.vtx)
    BY <1>1, StartsType DEF NextLegReloaded
<1>3. dest' \in WayPoint
    BY <1>1, StopsType DEF NextLegReloaded
<1>4. leg' \in 1..Legs /\ net' \in Maps
    BY NetworkAssumption DEF NextLegReloaded, Inv, TypeOK
<1> QED BY <1>2, <1>3, <1>4 DEF NextLegReloaded, Begins

LEMMA BeginsInv == Begins => Inv
<1> SUFFICES ASSUME Begins PROVE Inv
    OBVIOUS
<1>1. start \in WayPoint /\ start.rut \in RoadsAt(start.vtx)
    BY DEF Begins
<1>2. dest \in WayPoint
    BY DEF Begins
<1> DEFINE w == Whole(RoadSheet(start.rut))
<1>3. /\ w \in Cache /\ w.ring = <<>>
      /\ start.rut \in w.rut /\ RoadSheet(start.rut) \in w.counted
      /\ start.vtx \in w.vtx /\ SheetOf[start.vtx] \in w.counted
    BY <1>1, Network DEF Whole, Cache, WayPoint
<1> HIDE DEF w
<1>4. cache \in Cache /\ start.rut \in cache.rut /\ start.vtx \in cache.vtx
    <2>1. cache = WithDestination(w, dest, status)
        BY DEF Begins, w
    <2> QED BY <1>2, <1>3, <2>1, DestinationKeeps
<1>5. open = <<StartNode(start)>> /\ closed = <<>>
    BY DEF Begins
<1>6. /\ open \in Seq(Node) /\ Len(open) = 1 /\ ToSet(open) = {StartNode(start)}
      /\ Sorted(open) /\ OneEach(open)
    BY <1>1, <1>5, OneNode
<1>7. /\ status \in [Vertex -> 0..2] /\ posOHead \in [Vertex -> BOOLEAN]
      /\ \A v \in Vertex : ~posOHead[v]
    BY DEF Begins
<1>8. net \in Maps /\ stage = "next" /\ next = 1 /\ leg \in 1..Legs
    BY DEF Begins
<1>9. TypeOK
    <2>1. closed \in Seq(Node)
        BY <1>5
    <2> QED BY <1>1, <1>2, <1>4, <1>6, <1>7, <1>8, <2>1 DEF TypeOK, Cache, Stage
<1>10. Marked
    BY <1>5, <1>6, <1>7 DEF Marked, Fresh
<1>11. Seen
    <2>1. ToSet(closed) = {}
        BY <1>5 DEF ToSet
    <2>2. StartNode(start).vtx = start.vtx /\ StartNode(start).rut = start.rut
        BY DEF StartNode
    <2>3. Held(StartNode(start), cache)
        BY <1>1, <1>4, <2>2 DEF Held
    <2> QED BY <1>5, <1>6, <2>1, <2>3 DEF Seen, Fresh
<1> QED BY <1>6, <1>8, <1>9, <1>10, <1>11 DEF Inv

----------------------------------------------------------------------------
(* The steps *)

\* A step that leaves the lists, their marks and the cache alone.
LEMMA Unmoved ==
    ASSUME Inv, TypeOK', UNCHANGED <<open, closed, status, posOHead, cache>>,
           stage \in {"next", "cross", "expand"},
           stage' \in {"cross", "expand"} => stage \in {"cross", "expand"}
    PROVE  Inv'
<1>1. Sorted(open)' /\ OneEach(open)'
    BY DEF Inv, Sorted, OneEach
<1>2. Marked'
    BY DEF Inv, Marked, Fresh, Has
<1>3. Seen'
    BY DEF Inv, Seen, Fresh, Held
<1> QED BY <1>1, <1>2, <1>3 DEF Inv, Fresh

LEMMA NodesOfLists ==
    ASSUME Inv
    PROVE  \A n \in ToSet(open) \cup ToSet(closed) : n \in Node
BY ElementOfSeq, LenProperties DEF Inv, TypeOK, ToSet

\* While a node is crossed from or expanded, lists and marks agree.
LEMMA Agreeing ==
    ASSUME Inv, stage \in {"cross", "expand"}
    PROVE  Agree(Lists) /\ closed # <<>>
BY DEF Inv, Agree, Lists, Marked, Fresh, TypeOK

\* A drive over a loaded road to a loaded vertex is offered; everything held by the lists
\* is still loaded.
LEMMA FollowKeeps ==
    ASSUME Inv, TypeOK', stage \in {"cross", "expand"}, stage' \in {"next", "expand"},
           UNCHANGED closed,
           NEW r \in Road, NEW v \in Vertex, NEW back \in SUBSET Vertex,
           Become(CalculateNetworkNode(r, v), back),
           v \in cache'.vtx, r \in cache'.rut, r \in RoadsAt(v),
           \A n \in ToSet(open) \cup ToSet(closed) : Held(n, cache')
    PROVE  Inv'
<1> DEFINE l == CalculateNetworkNode(r, v)
<1>1. Agree(Lists) /\ closed # <<>>
    BY Agreeing
<1>2. /\ Agree(l)
      /\ \A w \in Vertex : status[w] # 0 => l.status[w] # 0
      /\ \A n \in ToSet(l.open) : n \in ToSet(open) \/ (n.vtx = v /\ n.rut = r /\ l.status[v] = 1)
    <2>1. TypeOK
        BY DEF Inv
    <2> QED BY <1>1, <2>1, OfferKeeps
<1>3. open' = l.open /\ posOHead' = l.posOHead
      /\ status' = [w \in Vertex |-> IF w \in back THEN 1 ELSE l.status[w]]
    BY DEF Become
<1> HIDE DEF l
<1>4. Sorted(open)' /\ OneEach(open)'
    BY <1>2, <1>3 DEF Agree, Sorted, OneEach
<1>5. \A w \in Vertex : posOHead'[w] <=> Has(open', w)
    BY <1>2, <1>3 DEF Agree
<1>6. \A w \in Vertex : posOHead'[w] => status'[w] = 1
    BY <1>2, <1>3 DEF Agree
<1>7. \A w \in Vertex : l.status[w] # 0 => status'[w] # 0
    BY <1>3
<1>8. Marked'
    <2>1. ~Fresh'
        BY <1>1 DEF Fresh
    <2> QED BY <1>5, <1>6, <2>1 DEF Marked, Has
<1>9. Seen'
    <2>1. \A n \in ToSet(open) \cup ToSet(closed) : n.vtx \in Vertex /\ status[n.vtx] # 0
        <3>1. \A n \in ToSet(open) \cup ToSet(closed) : n \in Node
            BY NodesOfLists
        <3> QED BY <1>1, <3>1 DEF Inv, Seen, Fresh, Node
    <2>2. \A n \in ToSet(open') \cup ToSet(closed') :
                n \in ToSet(open) \cup ToSet(closed) \/ (n.vtx = v /\ n.rut = r /\ l.status[v] = 1)
        <3>1. ToSet(open') = ToSet(l.open) /\ ToSet(closed') = ToSet(closed)
            BY <1>3
        <3> QED BY <1>2, <3>1
    <2>3. ASSUME NEW n \in ToSet(open') \cup ToSet(closed')
          PROVE  Held(n, cache') /\ status'[n.vtx] # 0
        <3>1. CASE n \in ToSet(open) \cup ToSet(closed)
            BY <1>2, <1>7, <2>1, <3>1
        <3>2. CASE n.vtx = v /\ n.rut = r /\ l.status[v] = 1
            BY <1>7, <3>2 DEF Held
        <3> QED BY <2>2, <3>1, <3>2
    <2> QED BY <2>3 DEF Seen
<1>10. ~Fresh'
    BY <1>1 DEF Fresh
<1> QED BY <1>4, <1>8, <1>9, <1>10 DEF Inv

LEMMA ArriveInv == Inv /\ Arrive => Inv'
<1> SUFFICES ASSUME Inv, Arrive PROVE Inv'
    OBVIOUS
<1>1. Top \in Node
    BY EmptySeq, ElementOfSeq DEF Inv, TypeOK, Arrive, Top
<1>2. Top.vtx \in Vertex
    BY <1>1 DEF Node
<1>3. /\ status' \in [Vertex -> 0..2] /\ status'[Top.vtx] = 2
      /\ \A w \in Vertex : w # Top.vtx => status'[w] = status[w]
    BY <1>2 DEF Inv, TypeOK, Arrive
<1>4. /\ posOHead' \in [Vertex -> BOOLEAN] /\ ~posOHead'[Top.vtx]
      /\ \A w \in Vertex : w # Top.vtx => posOHead'[w] = posOHead[w]
    BY <1>2 DEF Inv, TypeOK, Arrive
<1>5. UNCHANGED <<net, start, dest, open, closed, cache, next, leg>> /\ stage' = "found"
      /\ stage = "next"
    BY DEF Arrive
<1> HIDE DEF Top
<1>6. TypeOK'
    BY <1>3, <1>4, <1>5 DEF Inv, TypeOK, Stage
<1>7. Sorted(open)' /\ OneEach(open)'
    BY <1>5 DEF Inv, Sorted, OneEach
<1>8. Marked'
    <2>1. \A v \in Vertex : posOHead'[v] => status'[v] = 1 /\ Has(open', v)
        BY <1>3, <1>4, <1>5 DEF Inv, Marked
    <2>2. Fresh' => Len(open') <= 1 /\ \A v \in Vertex : ~posOHead'[v]
        BY <1>3, <1>4, <1>5 DEF Inv, Marked, Fresh
    <2> QED BY <1>5, <2>1, <2>2 DEF Marked, Has
<1>9. Seen'
    <2>1. \A n \in ToSet(open) \cup ToSet(closed) : n.vtx \in Vertex
        BY NodesOfLists DEF Node
    <2>2. \A w \in Vertex : status[w] # 0 => status'[w] # 0
        BY <1>3
    <2> QED BY <1>5, <2>1, <2>2 DEF Inv, Seen, Held, Fresh
<1> QED BY <1>5, <1>6, <1>7, <1>8, <1>9 DEF Inv

LEMMA CloseTopInv == Inv /\ CloseTop => Inv'
<1> SUFFICES ASSUME Inv, CloseTop PROVE Inv'
    OBVIOUS
<1>1. /\ open \in Seq(Node) /\ closed \in Seq(Node) /\ open # <<>> /\ Len(open) \in Nat \ {0}
      /\ status \in [Vertex -> 0..2] /\ posOHead \in [Vertex -> BOOLEAN]
    BY EmptySeq DEF Inv, TypeOK, CloseTop
<1>2. Top \in Node /\ Top \in ToSet(open) /\ Top = open[1] /\ 1 \in DOMAIN open
    BY <1>1, ElementOfSeq, LenProperties DEF Top, ToSet
<1>3. Top.vtx \in Vertex
    BY <1>2 DEF Node
<1>4. PICK s \in {1, 2} : status' = [status EXCEPT ![Top.vtx] = s]
    BY DEF CloseTop
<1>5. /\ status' \in [Vertex -> 0..2] /\ status'[Top.vtx] # 0
      /\ \A w \in Vertex : w # Top.vtx => status'[w] = status[w]
    BY <1>1, <1>3, <1>4
<1>6. /\ posOHead' \in [Vertex -> BOOLEAN] /\ ~posOHead'[Top.vtx]
      /\ \A w \in Vertex : w # Top.vtx => posOHead'[w] = posOHead[w]
    BY <1>1, <1>3 DEF CloseTop
<1>7. /\ open' = Tail(open) /\ closed' = Append(closed, Top) /\ next' = 1
      /\ UNCHANGED <<net, start, dest, cache, leg>> /\ stage = "next"
      /\ stage' \in {"cross", "expand"}
    BY DEF CloseTop
<1> HIDE DEF Top
<1>8. open' = RemoveAt(open, 1)
    BY <1>1, <1>7, TailIsRemove
<1>9. /\ open' \in Seq(Node) /\ Len(open') = Len(open) - 1
      /\ Sorted(open') /\ OneEach(open') /\ ~Has(open', Top.vtx)
      /\ \A v : v # Top.vtx => (Has(open', v) <=> Has(open, v))
      /\ ToSet(open') \subseteq ToSet(open)
    BY <1>1, <1>2, <1>8, RemoveKeeps DEF Inv
<1>10. /\ closed' \in Seq(Node) /\ closed' # <<>> /\ Len(closed') = Len(closed) + 1
       /\ \A i \in 1..Len(closed) : closed'[i] = closed[i]
       /\ closed'[Len(closed) + 1] = Top
    BY <1>1, <1>2, <1>7, AppendProperties
<1>11. \A n \in ToSet(closed') : n \in ToSet(closed) \/ n = Top
    <2> SUFFICES ASSUME NEW i \in DOMAIN closed'
                 PROVE  closed'[i] \in ToSet(closed) \/ closed'[i] = Top
        BY DEF ToSet
    <2>1. i \in 1..Len(closed) + 1 /\ Len(closed) \in Nat /\ DOMAIN closed = 1..Len(closed)
        BY <1>1, <1>10, LenProperties
    <2>2. i \in 1..Len(closed) \/ i = Len(closed) + 1
        BY <2>1
    <2> QED BY <1>10, <2>1, <2>2 DEF ToSet
<1>12. ~Fresh'
    BY <1>10 DEF Fresh
<1>13. TypeOK'
    BY <1>5, <1>6, <1>7, <1>9, <1>10 DEF Inv, TypeOK, Stage
<1>14. Marked'
    <2>1. \A v \in Vertex : posOHead'[v] => status'[v] = 1 /\ Has(open', v)
        BY <1>5, <1>6, <1>9 DEF Inv, Marked
    <2>2. \A v \in Vertex : Has(open', v) => posOHead'[v]
        <3>1. CASE Fresh
            <4>1. Len(open') = 0
                BY <1>1, <1>9, <3>1 DEF Inv, Marked
            <4>2. DOMAIN open' = {}
                BY <1>9, <4>1, LenProperties
            <4> QED BY <4>2 DEF Has
        <3>2. CASE ~Fresh
            <4>1. \A v \in Vertex : Has(open, v) => posOHead[v]
                BY <1>7, <3>2 DEF Inv, Marked
            <4> QED BY <1>6, <1>9, <4>1
        <3> QED BY <3>1, <3>2
    <2> QED BY <1>12, <2>1, <2>2 DEF Marked, Has
<1>15. Seen'
    <2>1. \A n \in ToSet(open') \cup ToSet(closed') : n = Top \/ n \in ToSet(open) \cup ToSet(closed)
        BY <1>9, <1>11
    <2>2. \A n \in ToSet(open) \cup ToSet(closed) : Held(n, cache)
        BY <1>7 DEF Inv, Seen
    <2>3. \A n \in ToSet(open') \cup ToSet(closed') : Held(n, cache)
        BY <1>2, <2>1, <2>2
    <2>4. ASSUME NEW n \in ToSet(open') \cup ToSet(closed')
          PROVE  status'[n.vtx] # 0
        <3>1. CASE n.vtx = Top.vtx
            BY <1>5, <3>1
        <3>2. CASE n.vtx # Top.vtx
            <4>1. n \in ToSet(open) \cup ToSet(closed) /\ n.vtx \in Vertex
                BY <2>1, <3>2, NodesOfLists DEF Node
            <4>2. CASE Fresh
                <5>1. Len(open) <= 1
                    BY <4>2 DEF Inv, Marked
                <5>2. Len(open) = 1
                    <6> DEFINE size == Len(open)
                    <6>1. size \in Nat /\ size # 0 /\ size <= 1
                        BY <1>1, <5>1
                    <6> HIDE DEF size
                    <6>2. size = 1
                        BY <6>1
                    <6> QED BY <6>2 DEF size
                <5>3. DOMAIN open = {1}
                    BY <1>1, <5>2, LenProperties
                <5>4. DOMAIN closed = {}
                    BY <4>2 DEF Fresh
                <5>5. \A m \in ToSet(open) \cup ToSet(closed) : m = open[1]
                    BY <5>3, <5>4 DEF ToSet
                <5> QED BY <1>2, <3>2, <4>1, <5>5
            <4>3. CASE ~Fresh
                <5>1. status[n.vtx] # 0
                    BY <1>7, <4>1, <4>3 DEF Inv, Seen
                <5> QED BY <1>5, <3>2, <4>1, <5>1
            <4> QED BY <4>2, <4>3
        <3> QED BY <3>1, <3>2
    <2> QED BY <1>7, <2>3, <2>4 DEF Seen
<1> QED BY <1>9, <1>12, <1>13, <1>14, <1>15 DEF Inv, Sorted, OneEach

LEMMA CrossInv == Inv /\ Cross => Inv'
<1> SUFFICES ASSUME Inv, Cross PROVE Inv'
    OBVIOUS
<1> DEFINE sheet == RoadSheet(Behind)
           far == GetNextRutVtx(Twin(Last(closed).vtx, Behind), Behind, cache')
           ends == {Ends[Behind][1], Ends[Behind][2]}
<1>1. /\ TypeOK /\ stage = "cross" /\ closed # <<>>
      /\ cache \in Cache /\ net \in Maps
    BY DEF Inv, Cross, Fresh, TypeOK, Cache
<1>2. sheet \in Sheet
    BY <1>1, NetworkAssumption DEF Cross
<1>3. /\ cache' \in Cache
      /\ \A v \in cache.vtx : status[v] # 0 => v \in cache'.vtx
      /\ \A v \in cache.vtx, r \in cache.rut :
            status[v] # 0 /\ r \in RoadsAt(v) => r \in cache'.rut
    <2>1. cache' = ReadBreadthNetwork(cache, sheet, status)
        BY DEF Cross
    <2> QED BY <1>1, <1>2, <2>1, ReadKeeps
<1>4. \A n \in ToSet(open) \cup ToSet(closed) : Held(n, cache')
    <2>1. \A n \in ToSet(open) \cup ToSet(closed) : Held(n, cache) /\ status[n.vtx] # 0
        BY <1>1 DEF Inv, Seen, Fresh
    <2> QED BY <1>3, <2>1 DEF Held
<1>5. UNCHANGED <<net, start, dest, closed, next, leg>>
    BY DEF Cross
<1>6. CASE UNCHANGED <<open, status, posOHead>> /\ stage' \in {"next", "undefined"}
    <2>1. TypeOK'
        BY <1>1, <1>3, <1>5, <1>6 DEF TypeOK, Cache, Stage
    <2>2. Sorted(open)' /\ OneEach(open)'
        BY <1>6 DEF Inv, Sorted, OneEach
    <2>3. Marked'
        BY <1>1, <1>5, <1>6 DEF Inv, Marked, Fresh, Has
    <2>4. Seen'
        <3>1. \A n \in ToSet(open) \cup ToSet(closed) : status[n.vtx] # 0
            BY <1>1 DEF Inv, Seen, Fresh
        <3> QED BY <1>4, <1>5, <1>6, <3>1 DEF Seen
    <2> QED BY <1>6, <2>1, <2>2, <2>3, <2>4 DEF Inv
<1>7. CASE /\ Behind \in cache'.rut /\ far # None
           /\ Become(CalculateNetworkNode(Behind, far), ends \cap Edge) /\ stage' = "next"
    <2>1. Behind \in Road
        BY <1>3, <1>7 DEF Cache
    <2>2. far \in cache'.vtx /\ far \in Vertex /\ Behind \in RoadsAt(far)
        BY <1>3, <1>7, <2>1, NextVertex
    <2>3. ends \cap Edge \in SUBSET Vertex
        BY <2>1, Network
    <2> HIDE DEF far, ends
    <2>4. Agree(Lists)
        BY <1>1, Agreeing
    <2>5. Agree(CalculateNetworkNode(Behind, far))
        BY <1>1, <2>1, <2>2, <2>4, OfferKeeps
    <2>6. /\ open' \in Seq(Node) /\ posOHead' \in [Vertex -> BOOLEAN]
          /\ status' \in [Vertex -> 0..2]
        BY <1>7, <2>5 DEF Become, Agree
    <2>7. TypeOK'
        BY <1>1, <1>3, <1>5, <1>7, <2>6 DEF TypeOK, Cache, Stage
    <2> QED BY <1>1, <1>4, <1>5, <1>7, <2>1, <2>2, <2>3, <2>7, FollowKeeps
<1>8. QED
    BY <1>6, <1>7 DEF Cross

LEMMA FollowInv == Inv /\ Follow => Inv'
<1> SUFFICES ASSUME Inv, Follow PROVE Inv'
    OBVIOUS
<1> DEFINE v == GetNextRutVtx(Last(closed).vtx, This, cache)
<1>1. /\ TypeOK /\ stage = "expand" /\ closed # <<>> /\ cache \in Cache
      /\ \A n \in ToSet(open) \cup ToSet(closed) : Held(n, cache)
    BY DEF Inv, Follow, Fresh, TypeOK, Cache, Seen
<1>2. This \in cache.rut /\ This \in Road /\ v # None
    BY <1>1 DEF Follow, Open, Cache
<1>3. v \in cache.vtx /\ v \in Vertex /\ This \in RoadsAt(v)
    BY <1>1, <1>2, NextVertex
<1>4. /\ UNCHANGED <<net, start, dest, closed, cache, leg>>
      /\ Become(CalculateNetworkNode(This, v), {})
      /\ next' = next + 1 /\ stage' \in {"next", "expand"}
    BY DEF Follow, Onwards
<1> HIDE DEF v
<1>5. Agree(CalculateNetworkNode(This, v))
    BY <1>1, <1>2, <1>3, Agreeing, OfferKeeps
<1>6. /\ open' \in Seq(Node) /\ posOHead' \in [Vertex -> BOOLEAN] /\ status' \in [Vertex -> 0..2]
    BY <1>4, <1>5 DEF Become, Agree
<1>7. TypeOK'
    BY <1>1, <1>4, <1>6 DEF TypeOK, Stage
<1> QED BY <1>1, <1>2, <1>3, <1>4, <1>7, FollowKeeps

\* The steps that leave the lists and the cache alone.
LEMMA OtherSearchInv ==
    ASSUME Inv,
           \/ Disconnect \/ LoadFails \/ NothingBehind
           \/ PassOver \/ ReadFreedDestination \/ MarkFails
    PROVE  Inv'
<1>1. /\ UNCHANGED <<net, start, dest, open, closed, status, posOHead, cache, leg>>
      /\ next' = next \/ next' = next + 1
      /\ stage \in {"next", "cross", "expand"} /\ stage' \in Stage
      /\ stage' \in {"cross", "expand"} => stage \in {"cross", "expand"}
    BY DEF Disconnect, LoadFails, MarkFails, NothingBehind, PassOver, ReadFreedDestination,
           Onwards, Stage
<1>2. TypeOK'
    BY <1>1 DEF Inv, TypeOK
<1> QED BY <1>1, <1>2, Unmoved

\* Clearing the lists takes every mark of a place in them out of the vertices.
LEMMA Clearing ==
    ASSUME Inv
    PROVE  /\ ClearedStatus \in [Vertex -> 0..2] /\ ClearedPos \in [Vertex -> BOOLEAN]
           /\ \A v \in Vertex : ~ClearedPos[v]
<1>1. \A v \in Vertex : posOHead[v] => \E n \in ToSet(open) \cup ToSet(closed) : n.vtx = v
    BY DEF Inv, Marked, Has, ToSet
<1>2. ClearedStatus \in [Vertex -> 0..2]
    BY DEF Inv, TypeOK, ClearedStatus
<1>3. ClearedPos \in [Vertex -> BOOLEAN]
    BY DEF Inv, TypeOK, ClearedPos
<1>4. \A v \in Vertex : ~ClearedPos[v]
    BY <1>1 DEF ClearedPos
<1> QED BY <1>2, <1>3, <1>4

LEMMA NextLegInv == Inv /\ NextLeg => Inv'
<1> SUFFICES ASSUME Inv, NextLeg PROVE Inv'
    OBVIOUS
<1>1. Drivable \subseteq Road /\ dest.rut \in Road /\ cache \in Cache
    BY NetworkAssumption DEF Drivable, Inv, TypeOK, WayPoint, Cache
<1>2. start' \in WayPoint /\ start'.rut \in RoadsAt(start'.vtx)
    BY <1>1, StartsType DEF NextLeg
<1>3. dest' \in WayPoint
    BY <1>1, StopsType DEF NextLeg
<1>4. cache' \in Cache
    BY <1>1, <1>3, DestinationKeeps DEF NextLeg
<1>5. /\ open' = <<StartNode(start')>> /\ closed' = <<>>
      /\ status' = ClearedStatus /\ posOHead' = ClearedPos
      /\ next' = 1 /\ leg' = leg + 1 /\ leg < Legs /\ net' = net
      /\ \/ stage' = "failed"
         \/ stage' = "next" /\ start'.vtx \in cache'.vtx /\ start'.rut \in cache'.rut
    BY DEF NextLeg
<1>6. /\ open' \in Seq(Node) /\ Len(open') = 1 /\ ToSet(open') = {StartNode(start')}
      /\ Sorted(open') /\ OneEach(open')
    BY <1>2, <1>5, OneNode
<1>7. TypeOK'
    <2>1. leg' \in 1..Legs
        BY <1>5, NetworkAssumption DEF Inv, TypeOK
    <2>2. closed' \in Seq(Node)
        BY <1>5
    <2> QED BY <1>2, <1>3, <1>4, <1>5, <1>6, <2>1, <2>2, Clearing DEF Inv, TypeOK, Cache, Stage
<1>8. Fresh' /\ \A v \in Vertex : ~posOHead'[v]
    BY <1>5, Clearing DEF Fresh
<1>9. Marked'
    BY <1>6, <1>8 DEF Marked, Has
<1>10. Seen'
    <2>1. ToSet(closed') = {}
        BY <1>5 DEF ToSet
    <2>2. StartNode(start').vtx = start'.vtx /\ StartNode(start').rut = start'.rut
        BY DEF StartNode
    <2>3. stage' # "failed" => Held(StartNode(start'), cache')
        BY <1>2, <1>5, <2>2 DEF Held
    <2> QED BY <1>6, <1>8, <2>1, <2>3 DEF Seen
<1> QED BY <1>5, <1>6, <1>7, <1>9, <1>10 DEF Inv, Sorted, OneEach

LEMMA NextLegReloadedInv == Inv /\ NextLegReloaded => Inv'
BY ReloadBegins, BeginsInv, PTL

LEMMA LegFailsInv == Inv /\ LegFails => Inv'
<1> SUFFICES ASSUME Inv, LegFails PROVE Inv'
    OBVIOUS
<1>1. /\ open' = <<>> /\ closed' = <<>>
      /\ status' = ClearedStatus /\ posOHead' = ClearedPos /\ stage' = "failed"
      /\ UNCHANGED <<net, start, dest, cache, next, leg>>
    BY DEF LegFails
<1>2. TypeOK'
    BY <1>1, Clearing DEF Inv, TypeOK, Stage
<1>3. Marked'
    BY <1>1, Clearing DEF Marked, Fresh
<1>4. Sorted(open)' /\ OneEach(open)'
    BY <1>1 DEF Sorted, OneEach
<1>5. Seen'
    BY <1>1 DEF Seen
<1> QED BY <1>1, <1>2, <1>3, <1>4, <1>5 DEF Inv

LEMMA StutterInv == Inv /\ UNCHANGED vars => Inv'
<1> SUFFICES ASSUME Inv, UNCHANGED vars PROVE Inv'
    OBVIOUS
<1>1. TypeOK'
    BY DEF Inv, TypeOK, vars
<1>2. Marked' /\ Seen' /\ Sorted(open)' /\ OneEach(open)'
    BY DEF Inv, Marked, Seen, Sorted, OneEach, Fresh, Has, Held, vars
<1> QED BY <1>1, <1>2 DEF Inv, Fresh, vars

\* Every step keeps the invariant.
LEMMA StepInv == Inv /\ [Next]_vars => Inv'
<1> SUFFICES ASSUME Inv, [Next]_vars PROVE Inv'
    OBVIOUS
<1>1. CASE SearchStep
    BY <1>1, ArriveInv, CloseTopInv, CrossInv, FollowInv, OtherSearchInv DEF SearchStep
<1>2. CASE NextLeg
    BY <1>2, NextLegInv
<1>3. CASE NextLegReloaded
    BY <1>3, NextLegReloadedInv
<1>4. CASE LegFails
    BY <1>4, LegFailsInv
<1>5. CASE UNCHANGED vars
    BY <1>5, StutterInv
<1> QED BY <1>1, <1>2, <1>3, <1>4, <1>5 DEF Next

\* The invariant holds of every state.
LEMMA Invariant == Spec => []Inv
BY StepInv, InitBegins, BeginsInv, PTL DEF Spec

----------------------------------------------------------------------------
(* The drives the lists stand for *)

\* Where the loop stands.
InLoop ==
    /\ stage = "cross" => Last(closed).vtx \in Edge
    /\ stage = "expand" => /\ Last(closed).vtx \notin Edge
                           /\ next \in DOMAIN RutList[Last(closed).vtx]

\* GetNextRutVtx answers a vertex the road leads to.
LEMMA NextLeads ==
    ASSUME NEW v, NEW r \in Road, v \in {Ends[r][1], Ends[r][2]}, NEW c \in Cache,
           GetNextRutVtx(v, r, c) # None
    PROVE  Leads(r, v, GetNextRutVtx(v, r, c))
<1>1. Ends[r] = <<Ends[r][1], Ends[r][2]>>
    BY NetworkAssumption
<1> DEFINE w == IF v = Ends[r][1] THEN Ends[r][2] ELSE Ends[r][1]
           way == IF v = Ends[r][1] THEN {0, 1} ELSE {0, 2}
<1>2. net.dir[r] \in way /\ GetNextRutVtx(v, r, c) = w
    BY DEF GetNextRutVtx
<1>3. CASE v = Ends[r][1]
    BY <1>1, <1>2, <1>3 DEF Leads
<1>4. CASE v # Ends[r][1]
    BY <1>1, <1>2, <1>4 DEF Leads
<1> QED BY <1>3, <1>4

\* A node that is offered was reached from the last closed one.
LEMMA OfferLeads ==
    ASSUME Inv, ParentsLead, stage \in {"cross", "expand"},
           UNCHANGED <<net, start, closed>>,
           NEW r \in Road, NEW v \in Vertex, NEW back,
           Become(CalculateNetworkNode(r, v), back),
           GoesOn(r, Last(closed).vtx, v)
    PROVE  ParentsLead'
<1> DEFINE l == CalculateNetworkNode(r, v)
<1>1. Agree(Lists) /\ closed # <<>> /\ TypeOK
    BY Agreeing DEF Inv
<1>2. \A n \in ToSet(l.open) :
        \/ n \in ToSet(open)
        \/ /\ n.vtx = v /\ n.rut = r
           /\ n.parent = Len(closed) /\ n.g = Last(closed).g + Cost[r]
    BY <1>1, OfferKeeps
<1>3. open' = l.open
    BY DEF Become
<1>4. Len(closed) \in DOMAIN closed
    <2>1. Len(closed) \in Nat \ {0} /\ DOMAIN closed = 1..Len(closed)
        BY <1>1, EmptySeq, LenProperties DEF TypeOK
    <2> QED BY <2>1
<1> HIDE DEF l
<1>5. \A x, y, z : GoesOn(x, y, z)' <=> GoesOn(x, y, z)
    BY DEF GoesOn, Leads
<1>6. ASSUME NEW n \in ToSet(open)' \cup ToSet(closed)'
      PROVE  (\/ n = StartNode(start)
              \/ /\ n.parent \in DOMAIN closed
                 /\ GoesOn(n.rut, closed[n.parent].vtx, n.vtx)
                 /\ n.g = closed[n.parent].g + Cost[n.rut])
    <2>1. CASE n \in ToSet(open) \cup ToSet(closed)
        BY <2>1 DEF ParentsLead
    <2>2. CASE /\ n.vtx = v /\ n.rut = r
               /\ n.parent = Len(closed) /\ n.g = Last(closed).g + Cost[r]
        BY <1>4, <2>2 DEF Last
    <2> QED BY <1>2, <1>3, <2>1, <2>2
<1>7. \A k \in DOMAIN closed : closed[k].parent < k
    BY DEF ParentsLead
<1> QED BY <1>5, <1>6, <1>7 DEF ParentsLead, StartNode

LEMMA CrossLeads == Inv /\ ParentsLead /\ InLoop /\ Cross => ParentsLead'
<1> SUFFICES ASSUME Inv, ParentsLead, InLoop, Cross PROVE ParentsLead'
    OBVIOUS
<1> DEFINE sheet == RoadSheet(Behind)
           v == Last(closed).vtx
           far == GetNextRutVtx(Twin(v, Behind), Behind, cache')
<1>1. /\ cache \in Cache /\ net \in Maps /\ stage = "cross" /\ v \in Edge
      /\ sheet \in net.sheets /\ UNCHANGED <<net, start, closed>>
      /\ cache' = ReadBreadthNetwork(cache, sheet, status)
    BY DEF Inv, TypeOK, Cache, Cross, InLoop
<1>2. cache' \in Cache
    <2>1. sheet \in Sheet
        BY <1>1, NetworkAssumption
    <2> QED BY <1>1, <2>1, ReadKeeps
<1>3. CASE UNCHANGED open
    BY <1>1, <1>3 DEF ParentsLead, GoesOn, Leads, StartNode
<1>4. CASE /\ far # None /\ Behind \notin net.residential
           /\ Become(CalculateNetworkNode(Behind, far), {Ends[Behind][1], Ends[Behind][2]} \cap Edge)
    <2>1. Behind = Abut[v] /\ Behind \in Road /\ v \in Vertex
        BY <1>1, NetworkAssumption DEF Behind
    <2>2. far \in Vertex
        BY <1>2, <1>4, <2>1, NextVertex
    <2>3. Twin(v, Behind) \in {Ends[Behind][1], Ends[Behind][2]}
        BY DEF Twin
    <2>4. Leads(Behind, Twin(v, Behind), far)
        BY <1>2, <1>4, <2>1, <2>3, NextLeads
    <2>5. Twin(v, Behind) \in Edge /\ Abut[Twin(v, Behind)] = RutList[v][1]
        BY <1>1, <2>1, BorderAssumption
    <2>6. RutList[v][1] \in RoadsAt(v)
        <3>1. RutList[v] \in Seq(Road) /\ RutList[v] # <<>>
            BY <2>1, NetworkAssumption
        <3>2. 1 \in DOMAIN RutList[v]
            BY <3>1, EmptySeq, LenProperties
        <3> QED BY <3>2 DEF RoadsAt, ToSet
    <2>7. GoesOn(Behind, v, far)
        BY <1>1, <1>4, <2>1, <2>4, <2>5, <2>6 DEF GoesOn
    <2> HIDE DEF far
    <2> QED BY <1>1, <1>4, <2>1, <2>2, <2>7, OfferLeads
<1> QED BY <1>3, <1>4 DEF Cross

LEMMA FollowLeads == Inv /\ ParentsLead /\ InLoop /\ Follow => ParentsLead'
<1> SUFFICES ASSUME Inv, ParentsLead, InLoop, Follow PROVE ParentsLead'
    OBVIOUS
<1> DEFINE v == Last(closed).vtx
           w == GetNextRutVtx(v, This, cache)
<1>1. /\ cache \in Cache /\ stage = "expand" /\ closed # <<>> /\ closed \in Seq(Node)
      /\ v \notin Edge /\ next \in DOMAIN RutList[v]
    BY DEF Inv, TypeOK, Cache, Follow, InLoop, Fresh
<1>2. This \in cache.rut /\ This \in Road /\ This \notin net.residential /\ w # None
    BY <1>1 DEF Follow, Open, Cache
<1>3. w \in Vertex
    BY <1>1, <1>2, NextVertex
<1>4. v \in {Ends[This][1], Ends[This][2]}
    <2>1. Last(closed) \in Node
        <3>1. Len(closed) \in Nat \ {0}
            BY <1>1, EmptySeq
        <3> QED BY <1>1, <3>1, ElementOfSeq DEF Last
    <2>2. v \in Vertex
        BY <2>1 DEF Node
    <2>3. This \in RoadsAt(v)
        BY <1>1 DEF This, RoadsAt, ToSet
    <2> QED BY <2>2, <2>3, NetworkAssumption
<1>5. Leads(This, v, w)
    BY <1>1, <1>2, <1>4, NextLeads
<1>6. GoesOn(This, v, w)
    BY <1>1, <1>2, <1>5 DEF GoesOn
<1>7. UNCHANGED <<net, start, closed>> /\ Become(CalculateNetworkNode(This, w), {})
    BY DEF Follow
<1> HIDE DEF w
<1> QED BY <1>1, <1>2, <1>3, <1>6, <1>7, OfferLeads

LEMMA CloseTopLeads == Inv /\ ParentsLead /\ CloseTop => ParentsLead' /\ InLoop'
<1> SUFFICES ASSUME Inv, ParentsLead, CloseTop PROVE ParentsLead' /\ InLoop'
    OBVIOUS
<1>1. /\ open \in Seq(Node) /\ closed \in Seq(Node) /\ open # <<>> /\ Len(open) \in Nat \ {0}
    BY EmptySeq DEF Inv, TypeOK, CloseTop
<1>2. Top \in Node /\ Top \in ToSet(open)
    BY <1>1, ElementOfSeq, LenProperties DEF Top, ToSet
<1>3. /\ open' = Tail(open) /\ closed' = Append(closed, Top) /\ next' = 1
      /\ UNCHANGED <<net, start>>
      /\ stage' = IF Top.vtx \in Edge THEN "cross" ELSE "expand"
    BY DEF CloseTop
<1>4. ToSet(open') \subseteq ToSet(open)
    BY <1>1, <1>3, TailIsRemove, RemoveKeeps
<1> HIDE DEF Top
<1>5. /\ closed' \in Seq(Node) /\ Len(closed') = Len(closed) + 1
      /\ \A i \in 1..Len(closed) : closed'[i] = closed[i]
      /\ closed'[Len(closed) + 1] = Top
    BY <1>1, <1>2, <1>3, AppendProperties
<1>6. Len(closed) \in Nat /\ DOMAIN closed = 1..Len(closed) /\ DOMAIN closed' = 1..Len(closed) + 1
    BY <1>1, <1>5, LenProperties
<1>7. \A k \in DOMAIN closed' : k \in DOMAIN closed \/ (k = Len(closed) + 1 /\ closed'[k] = Top)
    BY <1>5, <1>6
<1>8. \A k \in DOMAIN closed : k \in DOMAIN closed' /\ closed'[k] = closed[k]
    BY <1>5, <1>6
<1>9. \A n \in ToSet(open') \cup ToSet(closed') : n \in ToSet(open) \cup ToSet(closed)
    BY <1>2, <1>4, <1>7, <1>8 DEF ToSet
<1>10. \A x, y, z : GoesOn(x, y, z)' <=> GoesOn(x, y, z)
    BY <1>3 DEF GoesOn, Leads
<1>11. \A n \in ToSet(open') \cup ToSet(closed') :
            \/ n = StartNode(start)
            \/ /\ n.parent \in DOMAIN closed
               /\ GoesOn(n.rut, closed[n.parent].vtx, n.vtx)
               /\ n.g = closed[n.parent].g + Cost[n.rut]
    BY <1>9 DEF ParentsLead
<1>12. \A n \in ToSet(open') \cup ToSet(closed') :
            \/ n = StartNode(start)
            \/ /\ n.parent \in DOMAIN closed'
               /\ GoesOn(n.rut, closed'[n.parent].vtx, n.vtx)
               /\ n.g = closed'[n.parent].g + Cost[n.rut]
    BY <1>8, <1>11
<1>13. \A k \in DOMAIN closed' : closed'[k].parent < k
    <2> SUFFICES ASSUME NEW k \in DOMAIN closed' PROVE closed'[k].parent < k
        OBVIOUS
    <2>1. CASE k \in DOMAIN closed
        BY <1>8, <2>1 DEF ParentsLead
    <2>2. CASE k = Len(closed) + 1 /\ closed'[k] = Top
        <3>1. Top.parent = 0 \/ Top.parent \in 1..Len(closed)
            BY <1>2, <1>6 DEF ParentsLead, StartNode, None
        <3> QED BY <1>6, <2>2, <3>1
    <2> QED BY <1>7, <2>1, <2>2
<1>14. ParentsLead'
    BY <1>3, <1>10, <1>12, <1>13 DEF ParentsLead, StartNode
<1>15. Last(closed') = Top
    BY <1>5 DEF Last
<1>16. Top.vtx \in Vertex /\ 1 \in DOMAIN RutList[Top.vtx]
    <2>1. Top.vtx \in Vertex
        BY <1>2 DEF Node
    <2>2. RutList[Top.vtx] \in Seq(Road) /\ RutList[Top.vtx] # <<>>
        BY <2>1, NetworkAssumption
    <2> QED BY <2>1, <2>2, EmptySeq, LenProperties
<1>17. InLoop'
    BY <1>3, <1>15, <1>16 DEF InLoop, Last
<1> QED BY <1>14, <1>17

\* The other steps of a search do not touch the closed list.
LEMMA SearchInLoop == Inv /\ InLoop /\ SearchStep /\ ~CloseTop => InLoop'
<1> SUFFICES ASSUME Inv, InLoop, SearchStep, ~CloseTop PROVE InLoop'
    OBVIOUS
<1>1. CASE \/ Arrive \/ Disconnect \/ LoadFails \/ NothingBehind
           \/ Cross \/ ReadFreedDestination \/ MarkFails
    <2>1. stage' \notin {"cross", "expand"}
        BY <1>1 DEF Arrive, Disconnect, LoadFails, MarkFails, NothingBehind, Cross,
                    ReadFreedDestination
    <2> QED BY <2>1 DEF InLoop
<1>2. CASE PassOver \/ Follow
    <2> DEFINE L == RutList[Last(closed).vtx]
    <2>1. /\ stage = "expand" /\ closed' = closed /\ next' = next + 1
          /\ stage' = IF next = Len(L) THEN "next" ELSE "expand"
        BY <1>2 DEF PassOver, Follow, Onwards
    <2>2. /\ Last(closed).vtx \notin Edge /\ next \in DOMAIN L
          /\ closed \in Seq(Node) /\ closed # <<>>
        BY <2>1 DEF InLoop, Inv, Fresh, TypeOK
    <2>3. L \in Seq(Road)
        <3>1. Len(closed) \in 1..Len(closed)
            BY <2>2, EmptySeq
        <3>2. Last(closed).vtx \in Vertex
            <4>1. closed[Len(closed)] \in Node
                BY <2>2, <3>1, ElementOfSeq
            <4> QED BY <4>1 DEF Last, Node
        <3> QED BY <3>2, NetworkAssumption
    <2> HIDE DEF L
    <2>4. next # Len(L) => next + 1 \in DOMAIN L
        <3>1. DOMAIN L = 1..Len(L) /\ Len(L) \in Nat
            BY <2>3, LenProperties
        <3> QED BY <2>2, <3>1
    <2>5. Last(closed)' = Last(closed)
        BY <2>1 DEF Last
    <2> QED BY <2>1, <2>2, <2>4, <2>5 DEF InLoop, L
<1> QED BY <1>1, <1>2 DEF SearchStep

LEMMA LegLeads == NextLeg \/ NextLegReloaded \/ LegFails => ParentsLead' /\ InLoop'
<1> SUFFICES ASSUME NextLeg \/ NextLegReloaded \/ LegFails PROVE ParentsLead' /\ InLoop'
    OBVIOUS
<1>1. closed' = <<>> /\ stage' \notin {"cross", "expand"}
    BY DEF NextLeg, NextLegReloaded, LegFails
<1>2. ToSet(closed') = {} /\ DOMAIN closed' = {}
    BY <1>1 DEF ToSet
<1>3. \A n \in ToSet(open') : n = StartNode(start')
    <2>1. open' = <<>> \/ open' = <<StartNode(start')>>
        BY DEF NextLeg, NextLegReloaded, LegFails
    <2> HIDE DEF StartNode
    <2> QED BY <2>1 DEF ToSet
<1>4. ParentsLead'
    BY <1>2, <1>3 DEF ParentsLead, StartNode
<1> QED BY <1>1, <1>4 DEF InLoop

LEMMA InitLeads == Init => ParentsLead /\ InLoop
<1> SUFFICES ASSUME Init PROVE ParentsLead /\ InLoop
    OBVIOUS
<1>1. open = <<StartNode(start)>> /\ closed = <<>> /\ stage = "next"
    BY DEF Init
<1>2. ToSet(closed) = {} /\ DOMAIN closed = {}
    BY <1>1 DEF ToSet
<1>3. \A n \in ToSet(open) : n = StartNode(start)
    BY <1>1 DEF ToSet
<1>4. ParentsLead
    BY <1>2, <1>3 DEF ParentsLead
<1> QED BY <1>1, <1>4 DEF InLoop

\* Every step keeps the drives.
LEMMA StepLeads == Inv /\ ParentsLead /\ InLoop /\ [Next]_vars => ParentsLead' /\ InLoop'
<1> SUFFICES ASSUME Inv, ParentsLead, InLoop, [Next]_vars PROVE ParentsLead' /\ InLoop'
    OBVIOUS
<1>1. CASE CloseTop
    BY <1>1, CloseTopLeads
<1>2. CASE SearchStep /\ ~CloseTop
    <2>1. InLoop'
        BY <1>2, SearchInLoop
    <2>2. CASE UNCHANGED <<net, start, open, closed>>
        BY <2>1, <2>2 DEF ParentsLead, GoesOn, Leads, StartNode
    <2>3. CASE Cross
        BY <2>1, <2>3, CrossLeads
    <2>4. CASE Follow
        BY <2>1, <2>4, FollowLeads
    <2>5. UNCHANGED <<net, start, open, closed>> \/ Cross \/ Follow
        BY <1>2 DEF SearchStep, Arrive, Disconnect, LoadFails, MarkFails, NothingBehind, PassOver,
                    ReadFreedDestination
    <2> QED BY <2>1, <2>2, <2>3, <2>4, <2>5
<1>3. CASE NextLeg \/ NextLegReloaded \/ LegFails
    BY <1>3, LegLeads
<1>4. CASE UNCHANGED vars
    BY <1>4 DEF vars, ParentsLead, GoesOn, Leads, StartNode, InLoop, Last
<1> QED BY <1>1, <1>2, <1>3, <1>4 DEF Next, SearchStep
----------------------------------------------------------------------------
(* The theorems *)

\* The variables have their types, whatever the network and the ring of sheets.
THEOREM TypeCorrect == Spec => []TypeOK
<1>1. Inv => TypeOK
    BY DEF Inv
<1> QED BY <1>1, Invariant, PTL

\* The open list is always sorted, has one node for a vertex, and the vertices' marks agree
\* with it: the place CalculateNetworkNode looks up is the one it means to replace, in every
\* leg of a route and however the lists were cleared before.
THEOREM AlwaysIndexed == Spec => []OpenIndexed
<1>1. Inv => OpenIndexed
    <2> SUFFICES ASSUME Inv PROVE OpenIndexed
        OBVIOUS
    <2>1. \A v \in Vertex : posOHead[v] => status[v] = 1
        BY DEF Inv, Marked
    <2>2. stage # "found" /\ ~Fresh =>
            \A v \in Vertex : posOHead[v] <=> \E k \in DOMAIN open : open[k].vtx = v
        BY DEF Inv, Marked, Has
    <2> QED BY <2>1, <2>2 DEF Inv, Sorted, OneEach, OpenIndexed
<1> QED BY <1>1, Invariant, PTL

\* Whatever ring forgets whatever sheet, the vertices and roads of the nodes on the lists
\* stay loaded.
THEOREM AlwaysKept == Spec => []NodesKept
<1>1. Inv => NodesKept
    BY DEF Inv, Seen, Held, NodesKept
<1> QED BY <1>1, Invariant, PTL

\* In every network, every node was reached from one closed before it, over a road that goes
\* on from there in its direction, and carries the cost of the roads so far.
THEOREM AlwaysLead == Spec => []ParentsLead
<1>1. Init => ParentsLead /\ InLoop
    BY InitLeads
<1>2. Inv /\ (ParentsLead /\ InLoop) /\ [Next]_vars => (ParentsLead /\ InLoop)'
    BY StepLeads
<1> QED BY <1>1, <1>2, Invariant, PTL DEF Spec
=============================================================================
