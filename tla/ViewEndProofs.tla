--------------------------- MODULE ViewEndProofs ---------------------------
(***************************************************************************)
(* What is proved of ViewEnd for every size of tiles and windows and every *)
(* number of scale levels (ViewAssumption): within the limits of           *)
(* WithinLimits the bitmap shows what was asked for after every render().  *)
(***************************************************************************)
EXTENDS ViewEnd, TLAPS

----------------------------------------------------------------------------
(* Division *)

LEMMA Division ==
    ASSUME NEW n \in Nat, NEW d \in Nat \ {0}
    PROVE  /\ n \div d \in Nat /\ n % d \in 0..d - 1
           /\ n = d * (n \div d) + (n % d)
<1>1. n \div d \in Nat
    OBVIOUS
<1>2. n % d \in 0..d - 1
    OBVIOUS
<1>3. n = d * (n \div d) + (n % d)
    OBVIOUS
<1> QED BY <1>1, <1>2, <1>3

LEMMA Multiple ==
    ASSUME NEW q \in Int, NEW d \in Nat \ {0}
    PROVE  (q * d) \div d = q /\ (d * q) \div d = q
<1>1. (q * d) \div d = q
    OBVIOUS
<1> QED BY <1>1

LEMMA Divisible ==
    ASSUME NEW n \in Int, NEW d \in Nat \ {0}, n % d = 0
    PROVE  n \div d \in Int /\ n = d * (n \div d)
OBVIOUS

\* Multiples of d are in the order of their factors.
LEMMA InOrder ==
    ASSUME NEW a \in Int, NEW b \in Int, NEW d \in Nat \ {0}, d * a < d * b
    PROVE  a < b
<1>1. b <= a => d * b <= d * a
    OBVIOUS
<1>2. d * a \in Int /\ d * b \in Int
    OBVIOUS
<1> QED BY <1>1, <1>2

\* So many tiles cover n pixels.
LEMMA TilesCover ==
    ASSUME NEW n \in Nat, NEW tile \in Nat \ {0}
    PROVE  TilesFor(n, tile) \in Nat /\ n <= tile * TilesFor(n, tile)
<1> DEFINE q == n \div tile
           m == n % tile
<1>1. q \in Nat /\ m \in 0..tile - 1 /\ n = tile * q + m
    BY Division
<1>2. TilesFor(n, tile) = IF m = 0 THEN q ELSE q + 1
    BY <1>1 DEF TilesFor
<1> HIDE DEF q, m
<1>3. tile * (q + 1) = tile * q + tile /\ tile * q \in Int
    BY <1>1
<1> QED BY <1>1, <1>2, <1>3

\* Division towards zero is exact on multiples.
LEMMA TruncMultiple ==
    ASSUME NEW q \in Int, NEW d \in Nat \ {0}
    PROVE  Trunc(d * q, d) = q
<1>1. CASE d * q < 0
    <2>1. -(d * q) = (-q) * d
        OBVIOUS
    <2>2. ((-q) * d) \div d = -q
        BY Multiple
    <2> QED BY <1>1, <2>1, <2>2 DEF Trunc
<1>2. CASE ~(d * q < 0)
    BY <1>2, Multiple DEF Trunc
<1> QED BY <1>1, <1>2

----------------------------------------------------------------------------
(* The inductive invariant *)

\* What the bitmap is believed to show it shows.
Shows ==
    scale # ForcedRefresh =>
        \A p \in Area(size) : cache[p] = Drawn(center, p, size, scale, rotate)

\* The wanted center is at most one move away.
OneMove == newCenter = center \/ \E move \in Moves[rotate] : newCenter = Plus(center, move)

\* After render() nothing is wanted that is not believed.
UpToDate == rendered => Settled

IInv == TypeOK /\ OneMove /\ UpToDate /\ Shows

----------------------------------------------------------------------------
(* Types *)

LEMMA RoundedIs ==
    ASSUME NEW dim \in Window
    PROVE  \E a, b \in Nat : /\ Rounded(dim) = <<TileW * a, TileH * b>>
                             /\ Rounded(dim)[1] \div TileW = a
                             /\ Rounded(dim)[2] \div TileH = b
<1>1. dim[1] \in Nat /\ dim[2] \in Nat /\ TileW \in Nat \ {0} /\ TileH \in Nat \ {0}
    BY ViewAssumption
<1> DEFINE a == TilesFor(dim[1], TileW)
           b == TilesFor(dim[2], TileH)
<1>2. a \in Nat /\ b \in Nat
    BY <1>1, TilesCover
<1>3. Rounded(dim) = <<TileW * a, TileH * b>>
    BY DEF Rounded
<1> HIDE DEF a, b
<1>4. (TileW * a) \div TileW = a /\ (TileH * b) \div TileH = b
    BY <1>1, <1>2, Multiple
<1> QED BY <1>2, <1>3, <1>4

LEMMA PaintedType ==
    ASSUME NEW bm, NEW T, NEW dim, NEW s, NEW t
    PROVE  DOMAIN Painted(bm, T, dim, s, t) = DOMAIN bm
BY DEF Painted

LEMMA InitTypeOK == Init => TypeOK
<1> SUFFICES ASSUME Init
             PROVE  TypeOK
    OBVIOUS
<1>1. size \in {Rounded(dim) : dim \in Window}
    BY DEF Init
<1>2. DOMAIN cache = Area(size) /\ DOMAIN tmp = Area(size)
    BY DEF Init, Bitmap
<1>3. ScaleNum - 1 \in Level
    BY ViewAssumption DEF Level
<1> QED BY <1>1, <1>2, <1>3, ViewAssumption DEF Init, TypeOK

LEMMA RefreshTypes ==
    ASSUME TypeOK, Refresh
    PROVE  DOMAIN cache' = Area(size) /\ DOMAIN tmp' = Area(size)
<1>1. PICK T : cache' = Painted(cache, T, size, newScale, newRotate)
    BY DEF Refresh
<1> QED BY <1>1, PaintedType DEF Refresh, TypeOK

LEMMA PanTypes ==
    ASSUME TypeOK, Pan
    PROVE  DOMAIN cache' = Area(size) /\ DOMAIN tmp' = Area(size)
<1>1. PICK T : tmp' = Painted(Shifted, T, <<TileW, TileH>>, scale, rotate)
    BY DEF Pan
<1>2. DOMAIN Shifted = Area(size)
    BY DEF Shifted
<1> QED BY <1>1, <1>2, PaintedType DEF Pan

LEMMA RenderKeepsTypeOK ==
    ASSUME TypeOK, Render
    PROVE  TypeOK'
<1>1. UNCHANGED <<size, newCenter, newScale, newRotate>>
    BY DEF Render
<1>2. CASE UNCHANGED <<center, scale, rotate, cache, tmp>>
    BY <1>1, <1>2 DEF TypeOK, Area
<1>3. CASE Refresh
    BY <1>1, <1>3, RefreshTypes DEF TypeOK, Refresh, Area
<1>4. CASE Pan
    BY <1>1, <1>4, PanTypes DEF TypeOK, Pan, Area
<1> QED BY <1>2, <1>3, <1>4 DEF Render

LEMMA NextKeepsTypeOK == TypeOK /\ [Next]_vars => TypeOK'
<1> SUFFICES ASSUME TypeOK, [Next]_vars
             PROVE  TypeOK'
    OBVIOUS
<1>1. CASE UNCHANGED vars
    BY <1>1 DEF vars, TypeOK, Area
<1>2. CASE Render
    BY <1>2, RenderKeepsTypeOK
<1>3. ASSUME NEW move \in Moves[rotate], SetCenterPoint(move)
      PROVE  TypeOK'
    BY <1>3 DEF SetCenterPoint, Bitmaps, TypeOK, Area
<1>4. ASSUME NEW s \in 0..ScaleNum, SetScaleLevel(s)
      PROVE  TypeOK'
    <2>1. newScale' \in Level
        BY <1>4, ViewAssumption DEF SetScaleLevel, Level
    <2> QED BY <1>4, <2>1 DEF SetScaleLevel, Bitmaps, TypeOK, Area
<1>5. ASSUME NEW t \in Turn, Rotate(t)
      PROVE  TypeOK'
    BY <1>5 DEF Rotate, Bitmaps, TypeOK, Area
<1>6. ASSUME NEW dim \in Window, SizeChanged(dim)
      PROVE  TypeOK'
    <2>1. CASE UNCHANGED <<size, cache, tmp, scale, rendered>>
        BY <1>6, <2>1 DEF SizeChanged, TypeOK, Area
    <2>2. CASE Resized(Rounded(dim))
        <3>1. size' = Rounded(dim) /\ DOMAIN cache' = Area(size') /\ DOMAIN tmp' = Area(size')
            BY <2>2 DEF Resized, Bitmap
        <3>2. scale' = ForcedRefresh
            BY <2>2 DEF Resized
        <3> QED BY <1>6, <3>1, <3>2 DEF SizeChanged, TypeOK, Area
    <2> QED BY <1>6, <2>1, <2>2 DEF SizeChanged
<1> QED BY <1>1, <1>2, <1>3, <1>4, <1>5, <1>6 DEF Next

----------------------------------------------------------------------------
(* What is drawn *)

\* A size of the bitmaps is a number of whole tiles.
LEMMA WholeTilesSize ==
    ASSUME TypeOK
    PROVE  \E a, b \in Nat : size = <<TileW * a, TileH * b>> /\ TileCols = a /\ TileRows = b
BY RoundedIs DEF TypeOK, TileCols, TileRows

LEMMA AreaOf ==
    ASSUME TypeOK
    PROVE  /\ size[1] \in Nat /\ size[2] \in Nat /\ TileW \in Nat \ {0} /\ TileH \in Nat \ {0}
           /\ Half(size)[1] \in Nat /\ Half(size)[2] \in Nat
           /\ \A x, y : <<x, y>> \in Area(size) <=> x \in 0..size[1] - 1 /\ y \in 0..size[2] - 1
           /\ \A p \in Area(size) : /\ p = <<p[1], p[2]>>
                                    /\ p[1] \in 0..size[1] - 1 /\ p[2] \in 0..size[2] - 1
<1>1. PICK a \in Nat, b \in Nat : size = <<TileW * a, TileH * b>>
    BY WholeTilesSize
<1>2. TileW \in Nat \ {0} /\ TileH \in Nat \ {0}
    BY ViewAssumption
<1>3. size[1] \in Nat /\ size[2] \in Nat
    BY <1>1, <1>2
<1>4. size[1] \div 2 \in Nat /\ size[2] \div 2 \in Nat
    BY <1>3, Division
<1> QED BY <1>2, <1>3, <1>4 DEF Area, Half

LEMMA UnitType ==
    ASSUME NEW s \in Level
    PROVE  Unit[s] \in Nat \ {0} /\ s # ForcedRefresh
BY ViewAssumption DEF Level, ForcedRefresh

\* A pixel that no tile covers is left as it is; one that is covered shows some tile that
\* covers it.
LEMMA PaintedAt ==
    ASSUME NEW bm, NEW T, NEW dim, NEW s, NEW t, NEW p \in DOMAIN bm
    PROVE  \/ /\ \A tile \in T : Minus(p, tile.dest) \notin Area(dim)
              /\ Painted(bm, T, dim, s, t)[p] = bm[p]
           \/ \E tile \in T : /\ Minus(p, tile.dest) \in Area(dim)
                              /\ Painted(bm, T, dim, s, t)[p] =
                                    Drawn(tile.gcpt, Minus(p, tile.dest), dim, s, t)
<1> DEFINE over == {tile \in T : Minus(p, tile.dest) \in Area(dim)}
<1>1. CASE over = {}
    BY <1>1 DEF Painted
<1>2. CASE over # {}
    <2> DEFINE tile == CHOOSE x \in over : TRUE
    <2>1. tile \in over
        BY <1>2
    <2>2. Painted(bm, T, dim, s, t)[p] = Drawn(tile.gcpt, Minus(p, tile.dest), dim, s, t)
        BY <1>2 DEF Painted
    <2> QED BY <2>1, <2>2
<1> QED BY <1>1, <1>2

\* A window drawn as a whole shows what is wanted.
LEMMA RefreshShows ==
    ASSUME TypeOK, ~Lossy, Refresh
    PROVE  \A p \in Area(size) : cache'[p] = Drawn(newCenter, p, size, newScale, newRotate)
<1> DEFINE T == {[dest |-> <<0, 0>>, gcpt |-> newCenter]}
<1>1. cache' = Painted(cache, T, size, newScale, newRotate)
    BY DEF Refresh, Answers
<1> SUFFICES ASSUME NEW p \in Area(size)
             PROVE  cache'[p] = Drawn(newCenter, p, size, newScale, newRotate)
    OBVIOUS
<1>2. p \in DOMAIN cache
    BY DEF TypeOK
<1>3. Minus(p, <<0, 0>>) = p
    BY AreaOf DEF Minus
<1>4. \A tile \in T : tile.dest = <<0, 0>> /\ tile.gcpt = newCenter
    OBVIOUS
<1>5. T # {}
    OBVIOUS
<1> HIDE DEF T
<1> QED BY <1>1, <1>2, <1>3, <1>4, <1>5, PaintedAt

----------------------------------------------------------------------------
(* Moves *)

\* The wanted center is k pixels from the believed one.
Away(k) ==
    /\ k[1] \in Int /\ k[2] \in Int
    /\ newCenter[1] = center[1] + Unit[scale] * k[1]
    /\ newCenter[2] = center[2] + Unit[scale] * k[2]

\* The conversions between points find out by how many pixels the center moves.
LEMMA ShiftIsAway ==
    ASSUME TypeOK, scale \in Level, NEW k, Away(k)
    PROVE  Shift = <<k[1], k[2]>>
<1>1. Unit[scale] \in Nat \ {0}
    BY UnitType
<1>2. center[1] \in Int /\ center[2] \in Int
    BY ViewAssumption DEF TypeOK
<1>3. ASSUME NEW i \in {1, 2}
      PROVE  ShiftOf(i) = k[i]
    <2> DEFINE u == Unit[scale]
               half == size[i] \div 2
    <2>1. half \in Nat /\ k[i] \in Int /\ center[i] \in Int
        BY <1>2, <1>3, AreaOf DEF Half, Away
    <2>2. newCenter[i] = center[i] + u * k[i]
        BY <1>3 DEF Away
    <2> HIDE DEF half
    <2>3. half * u + newCenter[i] - center[i] = u * (half + k[i])
        BY <1>1, <2>1, <2>2
    <2>4. Trunc(u * (half + k[i]), u) = half + k[i]
        BY <1>1, <2>1, TruncMultiple
    <2> HIDE DEF u
    <2>5. ShiftOf(i) = (half + k[i]) - half
        BY <2>3, <2>4 DEF ShiftOf, half, u
    <2> QED BY <2>1, <2>5
<1> QED BY <1>3 DEF Shift

LEMMA GoodMoveAway ==
    ASSUME IInv, WithinLimits, OnlyMoved
    PROVE  \E k : /\ Away(k) /\ k = <<k[1], k[2]>>
                  /\ \/ k = <<0, 0>> /\ newCenter = center
                     \/ Uncovers(size, k)
                     \/ rotate = 0 /\ k[1] # 0
<1>1. scale \in Level
    BY DEF IInv, TypeOK, OnlyMoved
<1>2. Unit[scale] \in Nat \ {0}
    BY <1>1, UnitType
<1>3. /\ center[1] \in Int /\ center[2] \in Int /\ center = <<center[1], center[2]>>
      /\ newCenter = <<newCenter[1], newCenter[2]>>
    BY ViewAssumption DEF IInv, TypeOK
<1>4. CASE newCenter = center
    <2>1. Away(<<0, 0>>)
        BY <1>2, <1>3, <1>4 DEF Away
    <2> QED BY <1>4, <2>1
<1>5. ASSUME NEW move \in Moves[rotate], newCenter = Plus(center, move)
      PROVE  \E k : /\ Away(k) /\ k = <<k[1], k[2]>>
                    /\ \/ k = <<0, 0>> /\ newCenter = center
                       \/ Uncovers(size, k)
                       \/ rotate = 0 /\ k[1] # 0
    <2> DEFINE k == Pixels(move, scale)
    <2>1. rotate \in Turn \cup {0} /\ move[1] \in Int /\ move[2] \in Int
        BY ViewAssumption DEF IInv, TypeOK
    <2>2. GoodMove(rotate, move)
        BY <2>1 DEF WithinLimits
    <2>3. /\ move[1] % Unit[scale] = 0 /\ move[2] % Unit[scale] = 0
          /\ \/ k = <<0, 0>>
             \/ \A dim \in Window : Uncovers(Rounded(dim), k)
             \/ rotate = 0 /\ k[1] # 0
        BY <1>1, <2>2 DEF GoodMove
    <2>4. /\ k = <<move[1] \div Unit[scale], move[2] \div Unit[scale]>>
          /\ k[1] \in Int /\ k[2] \in Int
          /\ move[1] = Unit[scale] * k[1] /\ move[2] = Unit[scale] * k[2]
        BY <1>2, <2>1, <2>3, Divisible DEF Pixels
    <2> HIDE DEF k
    <2>5. newCenter[1] = center[1] + move[1] /\ newCenter[2] = center[2] + move[2]
        BY <1>5 DEF Plus
    <2>6. Away(k)
        BY <2>4, <2>5 DEF Away
    <2>7. k = <<0, 0>> => newCenter = center
        <3>1. Unit[scale] * 0 = 0
            BY <1>2
        <3>2. k = <<0, 0>> => move[1] = 0 /\ move[2] = 0
            BY <2>4, <3>1
        <3>3. k = <<0, 0>> => newCenter[1] = center[1] /\ newCenter[2] = center[2]
            BY <1>3, <2>5, <3>2
        <3> QED BY <1>3, <3>3
    <2>8. (\A dim \in Window : Uncovers(Rounded(dim), k)) => Uncovers(size, k)
        BY DEF IInv, TypeOK
    <2> QED BY <2>3, <2>4, <2>6, <2>7, <2>8
<1> QED BY <1>4, <1>5 DEF IInv, OneMove

----------------------------------------------------------------------------
(* What a move keeps and what it uncovers *)

\* A pixel of a bitmap of n tiles in a direction is in tile g = x \div w.  If what it is to
\* show was not in the bitmap before the shift by k, the tile is requested.
LEMMA UncoveredTile ==
    ASSUME NEW w \in Nat \ {0}, NEW n \in Nat, NEW x \in 0..w * n - 1, NEW k \in Int,
           NEW g, g = x \div w
    PROVE  /\ g \in 0..n - 1 /\ g * w \in Int /\ x - g * w \in 0..w - 1
           /\ x + k < 0 => k < 0 /\ g < TilesFor(Abs(k), w)
           /\ x + k >= w * n => k > 0 /\ g >= n - TilesFor(Abs(k), w)
<1>1. x \in Nat /\ w * n \in Nat /\ x < w * n
    OBVIOUS
<1>2. g \in Nat /\ w * g \in Int /\ w * g <= x /\ x < w * g + w
    BY <1>1, Division
<1>3. w * (g + 1) = w * g + w /\ g * w = w * g
    BY <1>2
<1>4. g < n
    <2>1. w * g < w * n
        BY <1>1, <1>2
    <2> QED BY <1>2, <2>1, InOrder
<1> DEFINE q == TilesFor(Abs(k), w)
<1>5. Abs(k) \in Nat /\ (k < 0 => Abs(k) = -k) /\ (k >= 0 => Abs(k) = k)
    BY DEF Abs
<1>6. q \in Nat /\ Abs(k) <= w * q /\ w * q \in Int
    BY <1>5, TilesCover
<1> HIDE DEF q
<1>7. ASSUME x + k < 0
      PROVE  k < 0 /\ g < q
    <2>1. k < 0
        BY <1>1, <1>7
    <2>2. w * g < w * q
        BY <1>1, <1>2, <1>5, <1>6, <1>7, <2>1
    <2> QED BY <1>2, <1>6, <2>1, <2>2, InOrder
<1>8. ASSUME x + k >= w * n
      PROVE  k > 0 /\ g >= n - q
    <2>1. k > 0
        BY <1>1, <1>8
    <2>2. w * (n - q) = w * n - w * q /\ n - q \in Int /\ w * (n - q) \in Int
        BY <1>6
    <2>3. w * (n - q) <= x
        BY <1>1, <1>5, <1>6, <1>8, <2>1, <2>2
    <2>4. w * (n - q) < w * (g + 1)
        BY <1>1, <1>2, <1>3, <2>2, <2>3
    <2>5. n - q < g + 1
        BY <1>2, <2>2, <2>4, InOrder
    <2> QED BY <1>2, <1>6, <2>1, <2>5
<1> QED BY <1>2, <1>3, <1>4, <1>7, <1>8 DEF q

\* What was in the bitmap and is kept is where it belongs.
LEMMA KeptFits ==
    ASSUME TypeOK, scale \in Level, NEW k, Away(k), NEW p \in Area(size)
    PROVE  Drawn(center, Plus(p, k), size, scale, 0) = Drawn(newCenter, p, size, scale, 0)
<1> DEFINE u == Unit[scale]
<1>1. u \in Nat \ {0}
    BY UnitType
<1>2. /\ p[1] \in Int /\ p[2] \in Int
      /\ Half(size)[1] \in Int /\ Half(size)[2] \in Int
      /\ center[1] \in Int /\ center[2] \in Int
    BY AreaOf, ViewAssumption DEF TypeOK
<1>3. ASSUME NEW i \in {1, 2}
      PROVE  center[i] + u * (p[i] + k[i] - Half(size)[i])
                = newCenter[i] + u * (p[i] - Half(size)[i])
    <2> DEFINE a == p[i] - Half(size)[i]
    <2>1. a \in Int /\ k[i] \in Int /\ center[i] \in Int
        BY <1>2, <1>3 DEF Away
    <2>2. p[i] + k[i] - Half(size)[i] = a + k[i]
        BY <1>2, <1>3, <2>1
    <2>3. newCenter[i] = center[i] + u * k[i]
        BY <1>3 DEF Away
    <2> HIDE DEF a, u
    <2>4. u * (a + k[i]) = u * a + u * k[i] /\ u * a \in Int /\ u * k[i] \in Int
        BY <1>1, <2>1
    <2>5. center[i] + (u * a + u * k[i]) = (center[i] + u * k[i]) + u * a
        BY <2>1, <2>4
    <2> QED BY <2>2, <2>3, <2>4, <2>5 DEF a
<1>4. \A v : Turned(0, v) = v
    BY DEF Turned
<1>5. Minus(Plus(p, k), Half(size)) =
          <<p[1] + k[1] - Half(size)[1], p[2] + k[2] - Half(size)[2]>>
    <2>1. Plus(p, k)[1] = p[1] + k[1] /\ Plus(p, k)[2] = p[2] + k[2]
        BY DEF Plus
    <2> DEFINE q == Plus(p, k)
    <2>2. Minus(q, Half(size)) = <<q[1] - Half(size)[1], q[2] - Half(size)[2]>>
        BY DEF Minus
    <2>3. q[1] = p[1] + k[1] /\ q[2] = p[2] + k[2]
        BY <2>1
    <2>4. k[1] \in Int /\ k[2] \in Int
        BY DEF Away
    <2> HIDE DEF q
    <2>5. /\ q[1] - Half(size)[1] = p[1] + k[1] - Half(size)[1]
          /\ q[2] - Half(size)[2] = p[2] + k[2] - Half(size)[2]
        BY <1>2, <2>3, <2>4
    <2> QED BY <2>2, <2>5 DEF q
<1>6. Minus(p, Half(size)) = <<p[1] - Half(size)[1], p[2] - Half(size)[2]>>
    BY DEF Minus
<1> QED BY <1>3, <1>4, <1>5, <1>6 DEF Drawn

\* What a tile shows that is requested is what belongs there.
LEMMA RequestFits ==
    ASSUME TypeOK, scale \in Level, NEW p \in Area(size), NEW g1 \in Int, NEW g2 \in Int
    PROVE  LET tile == TileRequest(<<g1, g2>>)
           IN  Drawn(tile.gcpt, Minus(p, tile.dest), <<TileW, TileH>>, scale, 0)
                   = Drawn(newCenter, p, size, scale, 0)
<1> DEFINE u == Unit[scale]
           dim == <<TileW, TileH>>
           dest == <<g1 * TileW, g2 * TileH>>
           off == Minus(Plus(dest, Half(dim)), Half(size))
           gcpt == <<newCenter[1] + u * off[1], newCenter[2] + u * off[2]>>
<1>1. u \in Nat \ {0}
    BY UnitType
<1>2. /\ p[1] \in Int /\ p[2] \in Int
      /\ Half(size)[1] \in Int /\ Half(size)[2] \in Int
      /\ newCenter[1] \in Int /\ newCenter[2] \in Int
    BY AreaOf, ViewAssumption DEF TypeOK
<1>3. /\ Half(dim)[1] \in Int /\ Half(dim)[2] \in Int /\ dest[1] \in Int /\ dest[2] \in Int
    BY AreaOf, Division DEF Half
<1>4. TileRequest(<<g1, g2>>) = [dest |-> dest, gcpt |-> gcpt]
    BY DEF TileRequest
<1> HIDE DEF dim, dest, u
<1>5. ASSUME NEW i \in {1, 2}
      PROVE  gcpt[i] + u * ((p[i] - dest[i]) - Half(dim)[i])
                = newCenter[i] + u * (p[i] - Half(size)[i])
    <2> DEFINE a == (dest[i] + Half(dim)[i]) - Half(size)[i]
               b == (p[i] - dest[i]) - Half(dim)[i]
    <2>1. a \in Int /\ b \in Int /\ newCenter[i] \in Int /\ a + b = p[i] - Half(size)[i]
        BY <1>2, <1>3, <1>5
    <2>2. gcpt[i] = newCenter[i] + u * a
        BY <1>5 DEF Plus, Minus
    <2> HIDE DEF a, b
    <2>3. u * (a + b) = u * a + u * b /\ u * a \in Int /\ u * b \in Int
        BY <1>1, <2>1
    <2>4. (newCenter[i] + u * a) + u * b = newCenter[i] + (u * a + u * b)
        BY <2>1, <2>3
    <2> QED BY <2>1, <2>2, <2>3, <2>4 DEF b
<1>6. \A v : Turned(0, v) = v
    BY DEF Turned
<1> HIDE DEF gcpt
<1>7. Drawn(gcpt, Minus(p, dest), dim, scale, 0) = Drawn(newCenter, p, size, scale, 0)
    BY <1>5, <1>6 DEF Drawn, Minus, u
<1> QED BY <1>4, <1>7 DEF dim

\* After a move that keeps something, the kept part and the requested tiles together show
\* what is wanted.
LEMMA PanShows ==
    ASSUME IInv, ~Lossy, scale \in Level, Pan, ~TooFar, rotate = 0,
           NEW k, Away(k), k = <<k[1], k[2]>>, k[1] # 0
    PROVE  \A p \in Area(size) : cache'[p] = Drawn(newCenter, p, size, scale, 0)
<1> DEFINE T == {TileRequest(g) : g \in Exposed}
           dim == <<TileW, TileH>>
<1>1. cache' = Painted(Shifted, T, dim, scale, 0)
    BY DEF Pan, Answers
<1>2. Shift = k /\ k[1] \in Int /\ k[2] \in Int
    BY ShiftIsAway DEF IInv, Away
<1>3. TypeOK /\ \A p \in Area(size) : cache[p] = Drawn(center, p, size, scale, 0)
    BY UnitType DEF IInv, Shows
<1> SUFFICES ASSUME NEW p \in Area(size)
             PROVE  cache'[p] = Drawn(newCenter, p, size, scale, 0)
    OBVIOUS
<1>4. /\ p = <<p[1], p[2]>> /\ p[1] \in 0..size[1] - 1 /\ p[2] \in 0..size[2] - 1
      /\ TileW \in Nat \ {0} /\ TileH \in Nat \ {0}
    BY <1>3, AreaOf
<1>5. p \in DOMAIN Shifted
    BY DEF Shifted
<1>6. CASE \E tile \in T : /\ Minus(p, tile.dest) \in Area(dim)
                           /\ cache'[p] = Drawn(tile.gcpt, Minus(p, tile.dest), dim, scale, 0)
    <2>1. PICK g \in Exposed :
              cache'[p] = Drawn(TileRequest(g).gcpt, Minus(p, TileRequest(g).dest), dim, scale, 0)
        BY <1>6
    <2>2. TileCols \in Nat /\ TileRows \in Nat
        BY <1>3, WholeTilesSize
    <2>3. g = <<g[1], g[2]>> /\ g[1] \in Int /\ g[2] \in Int
        BY <2>2 DEF Exposed
    <2> QED BY <1>3, <2>1, <2>3, RequestFits
<1>7. CASE (\A tile \in T : Minus(p, tile.dest) \notin Area(dim)) /\ cache'[p] = Shifted[p]
    <2>1. CASE Plus(p, k) \in Area(size)
        <3>1. cache'[p] = cache[Plus(p, k)]
            BY <1>2, <1>7, <2>1 DEF Shifted
        <3> QED BY <1>3, <2>1, <3>1, KeptFits
    <2>2. CASE Plus(p, k) \notin Area(size)
        <3>1. PICK a \in Nat, b \in Nat : /\ size = <<TileW * a, TileH * b>>
                                          /\ TileCols = a /\ TileRows = b
            BY <1>3, WholeTilesSize
        <3> DEFINE x == p[1] \div TileW
                   y == p[2] \div TileH
        <3>2. /\ x \in 0..a - 1 /\ x * TileW \in Int /\ p[1] - x * TileW \in 0..TileW - 1
              /\ p[1] + k[1] < 0 => k[1] < 0 /\ x < Cols
              /\ p[1] + k[1] >= size[1] => k[1] > 0 /\ x >= a - Cols
            BY <1>2, <1>4, <3>1, UncoveredTile DEF Cols
        <3>3. /\ y \in 0..b - 1 /\ y * TileH \in Int /\ p[2] - y * TileH \in 0..TileH - 1
              /\ p[2] + k[2] < 0 => k[2] < 0 /\ y < Rows
              /\ p[2] + k[2] >= size[2] => k[2] > 0 /\ y >= b - Rows
            BY <1>2, <1>4, <3>1, UncoveredTile DEF Rows
        <3> HIDE DEF x, y
        <3>4. \/ p[1] + k[1] < 0 \/ p[1] + k[1] >= size[1]
              \/ p[2] + k[2] < 0 \/ p[2] + k[2] >= size[2]
            <4>1. ~(p[1] + k[1] \in 0..size[1] - 1 /\ p[2] + k[2] \in 0..size[2] - 1)
                BY <1>3, <2>2, AreaOf DEF Plus
            <4>2. size[1] \in Nat /\ size[2] \in Nat
                BY <1>3, AreaOf
            <4> QED BY <1>2, <1>4, <4>1, <4>2
        <3>5. <<x, y>> \in Exposed
            BY <1>2, <3>1, <3>2, <3>3, <3>4 DEF Exposed
        <3>6. TileRequest(<<x, y>>).dest = <<x * TileW, y * TileH>>
            BY DEF TileRequest
        <3>7. Minus(p, TileRequest(<<x, y>>).dest) \in Area(dim)
            BY <3>2, <3>3, <3>6 DEF Minus, Area
        <3> QED BY <1>7, <3>5, <3>7
    <2> QED BY <2>1, <2>2
<1> HIDE DEF T, dim
<1>8. \/ /\ \A tile \in T : Minus(p, tile.dest) \notin Area(dim)
         /\ Painted(Shifted, T, dim, scale, 0)[p] = Shifted[p]
      \/ \E tile \in T :
          /\ Minus(p, tile.dest) \in Area(dim)
          /\ Painted(Shifted, T, dim, scale, 0)[p]
                = Drawn(tile.gcpt, Minus(p, tile.dest), dim, scale, 0)
    BY <1>5, PaintedAt
<1> QED BY <1>1, <1>6, <1>7, <1>8

----------------------------------------------------------------------------
(* The invariant is kept *)

LEMMA InitIInv == Init => IInv
BY InitTypeOK DEF Init, IInv, OneMove, UpToDate, Shows

LEMMA RenderKeeps ==
    ASSUME IInv, WithinLimits, Render
    PROVE  IInv'
<1>1. TypeOK' /\ TypeOK
    BY RenderKeepsTypeOK DEF IInv
<1>2. UNCHANGED <<size, newCenter, newScale, newRotate>> /\ newScale \in Level
    BY <1>1 DEF Render, TypeOK
<1>3. Drawable /\ ~Lossy
    BY <1>1 DEF WithinLimits, TypeOK, Drawable
<1>4. CASE (Settled \/ (OnlyMoved /\ Shift = <<0, 0>>))
            /\ UNCHANGED <<center, scale, rotate, cache, tmp>>
    <2>1. Settled
        <3>1. CASE OnlyMoved /\ Shift = <<0, 0>>
            <4>1. PICK k : /\ Away(k) /\ k = <<k[1], k[2]>>
                           /\ \/ k = <<0, 0>> /\ newCenter = center
                              \/ Uncovers(size, k)
                              \/ rotate = 0 /\ k[1] # 0
                BY <3>1, GoodMoveAway
            <4>2. Shift = k
                BY <1>1, <1>2, <3>1, <4>1, ShiftIsAway DEF OnlyMoved
            <4>3. newCenter = center
                <5>1. k[1] = 0 /\ k[2] = 0
                    BY <3>1, <4>1, <4>2
                <5>2. Unit[scale] * 0 = 0
                    BY <1>2, <3>1, UnitType DEF OnlyMoved
                <5> QED BY <1>1, <4>1, <5>1, <5>2, ViewAssumption DEF Away, TypeOK
            <4> QED BY <3>1, <4>3 DEF OnlyMoved, Settled
        <3> QED BY <1>4, <3>1
    <2>2. Settled'
        BY <1>2, <1>4, <2>1 DEF Settled
    <2> QED BY <1>1, <1>2, <1>4, <2>2 DEF IInv, OneMove, UpToDate, Shows
<1>5. CASE Refresh
    <2>1. Settled' /\ OneMove'
        BY <1>2, <1>5 DEF Refresh, Settled, OneMove
    <2>2. \A p \in Area(size) : cache'[p] = Drawn(newCenter, p, size, newScale, newRotate)
        BY <1>1, <1>3, <1>5, RefreshShows
    <2>3. Shows'
        BY <1>2, <1>5, <2>2 DEF Refresh, Shows
    <2> QED BY <1>1, <2>1, <2>3 DEF IInv, UpToDate
<1>6. CASE OnlyMoved /\ Shift # <<0, 0>> /\ ~TooFar /\ Pan
    <2>1. PICK k : /\ Away(k) /\ k = <<k[1], k[2]>>
                   /\ \/ k = <<0, 0>> /\ newCenter = center
                      \/ Uncovers(size, k)
                      \/ rotate = 0 /\ k[1] # 0
        BY <1>6, GoodMoveAway
    <2>2. Shift = k /\ scale \in Level
        BY <1>1, <1>2, <1>6, <2>1, ShiftIsAway DEF OnlyMoved
    <2>3. rotate = 0 /\ k[1] # 0
        BY <1>6, <2>1, <2>2 DEF TooFar
    <2>4. \A p \in Area(size) : cache'[p] = Drawn(newCenter, p, size, scale, 0)
        BY <1>3, <1>6, <2>1, <2>2, <2>3, PanShows
    <2>5. Shows'
        BY <1>2, <1>6, <2>3, <2>4 DEF Pan, Shows
    <2>6. Settled' /\ OneMove'
        BY <1>2, <1>6 DEF Pan, Settled, OneMove, OnlyMoved
    <2> QED BY <1>1, <2>5, <2>6 DEF IInv, UpToDate
<1> QED BY <1>3, <1>4, <1>5, <1>6 DEF Render

LEMMA NextKeeps == IInv /\ WithinLimits /\ [Next]_vars => IInv'
<1> SUFFICES ASSUME IInv, WithinLimits, [Next]_vars
             PROVE  IInv'
    OBVIOUS
<1>1. TypeOK'
    BY NextKeepsTypeOK DEF IInv
<1>2. CASE UNCHANGED vars
    BY <1>1, <1>2 DEF vars, IInv, OneMove, UpToDate, Settled, Shows
<1>3. CASE Render
    BY <1>3, RenderKeeps
<1>4. ASSUME NEW move \in Moves[rotate], SetCenterPoint(move)
      PROVE  IInv'
    BY <1>1, <1>4 DEF SetCenterPoint, Bitmaps, IInv, OneMove, UpToDate, Shows
<1>5. ASSUME NEW s \in 0..ScaleNum, SetScaleLevel(s)
      PROVE  IInv'
    BY <1>1, <1>5 DEF SetScaleLevel, Bitmaps, IInv, OneMove, UpToDate, Shows
<1>6. ASSUME NEW t \in Turn, Rotate(t)
      PROVE  IInv'
    BY <1>1, <1>6 DEF Rotate, Bitmaps, IInv, OneMove, UpToDate, Shows
<1>7. ASSUME NEW dim \in Window, SizeChanged(dim)
      PROVE  IInv'
    <2>1. CASE UNCHANGED <<size, cache, tmp, scale, rendered>>
        BY <1>1, <1>7, <2>1 DEF SizeChanged, IInv, OneMove, UpToDate, Settled, Shows
    <2>2. CASE scale' = ForcedRefresh /\ rendered' = FALSE
        BY <1>1, <1>7, <2>2 DEF SizeChanged, IInv, OneMove, UpToDate, Shows
    <2> QED BY <1>7, <2>1, <2>2 DEF SizeChanged, Resized
<1> QED BY <1>2, <1>3, <1>4, <1>5, <1>6, <1>7 DEF Next

LEMMA InvariantShows == IInv => RenderShows
BY UnitType DEF IInv, TypeOK, UpToDate, Settled, Shows, RenderShows

----------------------------------------------------------------------------
(* Theorems *)

\* The level that is wanted is one there is, and the bitmaps have the size of whole tiles
\* that the window was rounded up to, whatever calls are made in whatever order.
THEOREM TypeCorrect == Spec => []TypeOK
<1>1. TypeOK /\ [Next]_vars => TypeOK'
    BY NextKeepsTypeOK
<1> QED BY <1>1, InitTypeOK, PTL DEF Spec

\* Within its limits the view is right: after render() every pixel shows what was asked
\* for, however often the bitmap was shifted and completed by tiles since it was last drawn
\* as a whole, at any sizes of tiles and windows.
THEOREM AlwaysShows ==
    ASSUME WithinLimits
    PROVE  Spec => []RenderShows
<1>1. IInv /\ [Next]_vars => IInv'
    BY NextKeeps
<1> QED BY <1>1, InitIInv, InvariantShows, PTL DEF Spec
=============================================================================
