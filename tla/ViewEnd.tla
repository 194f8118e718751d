------------------------------ MODULE ViewEnd ------------------------------
(***************************************************************************)
(* The client's view of a map (view_end.cpp): a bitmap of whole tiles kept *)
(* on the client.  The calls that move, scale or rotate the map only note  *)
(* what is wanted; render() shifts what the bitmap still shows of it,      *)
(* requests the tiles that are missing from the server, or the whole       *)
(* window when nothing can be kept.                                        *)
(*                                                                         *)
(* Positions are <<x, y>>, y downwards on the map as on the screen.  What  *)
(* a pixel shows is the place of the map drawn there, with the scale and   *)
(* the rotation it is drawn at.  A rotation is a number of quarter turns.  *)
(***************************************************************************)
EXTENDS Integers

CONSTANTS
    TileW, TileH,   \* size of a tile in pixels
    PixW, PixH,     \* pixels of the screen that one pixel here stands for
    ScaleNum,       \* scale levels (SWMAP_SCALELEVEL_NUM)
    Unit,           \* Unit[s]: map units of a pixel at scale level s
    Turn,           \* rotations the user asks for
    Window,         \* sizes the window is given
    Moves,          \* Moves[t]: moves of the center the user makes in a view turned by t
    Place,          \* bound: the places of the map that are made the center
    Lossy,          \* a request to the server may fail
    Blank           \* the content of a new bitmap

Level == 0..ScaleNum - 1

\* Written to _props.scale to have the whole window drawn (0xf0).
ForcedRefresh == 240

ASSUME ViewAssumption ==
    /\ TileW \in Nat \ {0} /\ TileH \in Nat \ {0} /\ PixW \in Nat \ {0} /\ PixH \in Nat \ {0}
    /\ ScaleNum \in 1..ForcedRefresh /\ Unit \in [Level -> Nat \ {0}]
    /\ Turn \subseteq 0..3
    /\ Window \subseteq Nat \X Nat
    /\ Moves \in [Turn \cup {0} -> SUBSET (Int \X Int)]
    /\ Place \subseteq Int \X Int /\ <<0, 0>> \in Place /\ Lossy \in BOOLEAN

VARIABLES
    size,               \* the size of the two bitmaps, <<0, 0>> before there are any
    center, scale, rotate,              \* what the cache bitmap is believed to show
    newCenter, newScale, newRotate,     \* what is wanted
    cache, tmp,         \* cache[p], tmp[p]: what pixel p of a bitmap shows
    rendered            \* nothing has been asked for since the last render()

vars == <<size, center, scale, rotate, newCenter, newScale, newRotate, cache, tmp, rendered>>

Plus(v, w) == <<v[1] + w[1], v[2] + w[2]>>
Minus(v, w) == <<v[1] - w[1], v[2] - w[2]>>
Half(dim) == <<dim[1] \div 2, dim[2] \div 2>>

Area(dim) == (0..dim[1] - 1) \X (0..dim[2] - 1)

Bitmap(dim) == [p \in Area(dim) |-> Blank]

----------------------------------------------------------------------------
(* The server: swMapView::getBitmapTiles draws dim pixels around a place of the map and *)
(* turns them around that place.                                                         *)

Turned(t, v) == <<v, <<-v[2], v[1]>>, <<-v[1], -v[2]>>, <<v[2], -v[1]>>>>[t + 1]

\* What the server draws at pixel p of a tile around gcpt.
Drawn(gcpt, p, dim, s, t) ==
    LET off == Turned(t, Minus(p, Half(dim)))
    IN  [scale |-> s, turn |-> t,
         at |-> <<gcpt[1] + Unit[s] * off[1], gcpt[2] + Unit[s] * off[2]>>]

\* Bitmap bm after the tiles of size dim in T were copied to it.
Painted(bm, T, dim, s, t) ==
    [p \in DOMAIN bm |->
        LET over == {tile \in T : Minus(p, tile.dest) \in Area(dim)}
        IN  IF over = {} THEN bm[p]
            ELSE LET tile == CHOOSE x \in over : TRUE
                 IN  Drawn(tile.gcpt, Minus(p, tile.dest), dim, s, t)]

\* The tiles of T that swMapRpcClient::getBitmapTiles gets an answer for: it swallows
\* the exceptions of the others.
Answers(T) == IF Lossy THEN SUBSET T ELSE {T}

----------------------------------------------------------------------------
(* render() *)

\* (width & height) != 0
HasCommonBit(dim) ==
    \E k \in 0..15 : /\ ((PixW * dim[1]) \div 2^k) % 2 = 1
                     /\ ((PixH * dim[2]) \div 2^k) % 2 = 1

Drawable == HasCommonBit(size)

Settled == scale = newScale /\ center = newCenter /\ rotate = newRotate

\* _INVALID_SCREEN: the window is one tile.
Refresh ==
    /\ center' = newCenter /\ scale' = newScale /\ rotate' = newRotate
    /\ \E T \in Answers({[dest |-> <<0, 0>>, gcpt |-> newCenter]}) :
        cache' = Painted(cache, T, size, newScale, newRotate)
    /\ UNCHANGED tmp

\* Division as the conversion to int does it, towards zero.
Trunc(n, d) == IF n < 0 THEN -((-n) \div d) ELSE n \div d

\* convertPointGeo2View(newCenter) less the one of center, in pixels.
ShiftOf(i) ==
    LET u == Unit[scale]
        half == size[i] \div 2
    IN  Trunc(half * u + newCenter[i] - center[i], u) - half

Shift == <<ShiftOf(1), ShiftOf(2)>>

Abs(n) == IF n < 0 THEN -n ELSE n

\* Mutant: the division is not rounded up.
WholeTiles(n, tile) == n \div tile

\* Tiles it takes to cover n pixels.
TilesFor(n, tile) == n \div tile + (IF n % tile = 0 THEN 0 ELSE 1)

\* A shift by k pixels uncovers all the tiles of a bitmap.
Uncovers(dim, k) ==
    \/ TilesFor(Abs(k[1]), TileW) >= dim[1] \div TileW
    \/ TilesFor(Abs(k[2]), TileH) >= dim[2] \div TileH

Cols == TilesFor(Abs(Shift[1]), TileW)
Rows == TilesFor(Abs(Shift[2]), TileH)
TileCols == size[1] \div TileW
TileRows == size[2] \div TileH

\* Columns and rows of tiles that the shift leaves without content; rows are only looked
\* at when the center moves to the left or to the right.
Exposed ==
    {g \in (0..TileCols - 1) \X (0..TileRows - 1) :
        \/ Shift[1] < 0 /\ g[1] < Cols
        \/ Shift[1] > 0 /\ g[1] >= TileCols - Cols
        \/ Shift[1] # 0 /\ Shift[2] < 0 /\ g[2] < Rows
        \/ Shift[1] # 0 /\ Shift[2] > 0 /\ g[2] >= TileRows - Rows}

\* The request for the tile in column g[1] and row g[2]; its center is converted to a
\* place of the map (convertPointView2Geo) with the new center, and as if not rotated.
TileRequest(g) ==
    LET dest == <<g[1] * TileW, g[2] * TileH>>
        off == Minus(Plus(dest, Half(<<TileW, TileH>>)), Half(size))
    IN  [dest |-> dest,
         gcpt |-> <<newCenter[1] + Unit[scale] * off[1], newCenter[2] + Unit[scale] * off[2]>>]

\* _tmpdc.Blit: the pixels that stay in the window.
Shifted ==
    [p \in Area(size) |-> LET from == Plus(p, Shift)
                          IN  IF from \in Area(size) THEN cache[from] ELSE tmp[p]]

Pan ==
    /\ center' = newCenter
    /\ \E T \in Answers({TileRequest(g) : g \in Exposed}) :
        tmp' = Painted(Shifted, T, <<TileW, TileH>>, scale, rotate)
    /\ cache' = tmp'
    /\ UNCHANGED <<scale, rotate>>

\* Nothing but the center has changed.
OnlyMoved == scale = newScale /\ rotate = newRotate

TooFar == Uncovers(size, Shift)

\* The early returns change nothing: no bitmap to draw on, nothing new to draw, or a move
\* of less than a pixel.
Render ==
    /\ \/ /\ ~Drawable \/ Settled \/ (OnlyMoved /\ Shift = <<0, 0>>)
          /\ UNCHANGED <<center, scale, rotate, cache, tmp>>
       \/ /\ Drawable
          /\ ~OnlyMoved \/ (OnlyMoved /\ TooFar)
          /\ Refresh
       \/ /\ Drawable /\ OnlyMoved /\ Shift # <<0, 0>> /\ ~TooFar
          /\ Pan
    /\ rendered' = TRUE
    /\ UNCHANGED <<size, newCenter, newScale, newRotate>>

----------------------------------------------------------------------------
(* The user's calls *)

Bitmaps == <<size, center, scale, rotate, cache, tmp>>

SetCenterPoint(move) ==
    /\ Plus(center, move) \in Place
    /\ newCenter' = Plus(center, move)
    /\ rendered' = FALSE
    /\ UNCHANGED <<Bitmaps, newScale, newRotate>>

\* Mutant: the level is not limited to those there are.
SetScaleLevelUnlimited(s) ==
    /\ newScale' = s
    /\ rendered' = FALSE
    /\ UNCHANGED <<Bitmaps, newCenter, newRotate>>

SetScaleLevel(s) ==
    /\ newScale' = IF s >= ScaleNum THEN ScaleNum - 1 ELSE s
    /\ rendered' = FALSE
    /\ UNCHANGED <<Bitmaps, newCenter, newRotate>>

Rotate(t) ==
    /\ newRotate' = t
    /\ rendered' = FALSE
    /\ UNCHANGED <<Bitmaps, newCenter, newScale>>

Rounded(dim) == <<TileW * TilesFor(dim[1], TileW), TileH * TilesFor(dim[2], TileH)>>

Resized(dim) ==
    /\ size' = dim
    /\ cache' = Bitmap(dim) /\ tmp' = Bitmap(dim)
    /\ scale' = ForcedRefresh

SizeChanged(dim) ==
    /\ \/ Rounded(dim) = size /\ UNCHANGED <<size, cache, tmp, scale, rendered>>
       \/ Rounded(dim) # size /\ Resized(Rounded(dim)) /\ rendered' = FALSE
    /\ UNCHANGED <<center, rotate, newCenter, newScale, newRotate>>

\* A window gets its size before it is drawn the first time; where the center is then
\* makes no difference.
Init ==
    /\ \E dim \in Window :
        /\ size = Rounded(dim)
        /\ cache = Bitmap(size) /\ tmp = Bitmap(size)
    /\ center = <<0, 0>> /\ newCenter = <<0, 0>>
    /\ scale = ForcedRefresh /\ newScale = ScaleNum - 1
    /\ rotate = 0 /\ newRotate = 0
    /\ rendered = FALSE

Next ==
    \/ Render
    \/ \E move \in Moves[rotate] : SetCenterPoint(move)
    \/ \E s \in 0..ScaleNum : SetScaleLevel(s)
    \/ \E t \in Turn : Rotate(t)
    \/ \E dim \in Window : SizeChanged(dim)

Spec == Init /\ [][Next]_vars
----------------------------------------------------------------------------
(* Properties *)

TypeOK ==
    /\ size \in {Rounded(dim) : dim \in Window}
    /\ center \in Place /\ newCenter \in Place
    /\ scale \in Level \cup {ForcedRefresh} /\ newScale \in Level
    /\ rotate \in Turn \cup {0} /\ newRotate \in Turn \cup {0}
    /\ DOMAIN cache = Area(size) /\ DOMAIN tmp = Area(size)

\* A move in pixels of scale level s.
Pixels(move, s) == <<move[1] \div Unit[s], move[2] \div Unit[s]>>

\* The moves the code's arithmetic is right for: whole pixels at every scale, and either
\* so far that the whole window is drawn, or in a view that is not turned and not straight
\* up or down.
GoodMove(t, move) ==
    \A s \in Level :
        /\ move[1] % Unit[s] = 0 /\ move[2] % Unit[s] = 0
        /\ \/ Pixels(move, s) = <<0, 0>>
           \/ \A dim \in Window : Uncovers(Rounded(dim), Pixels(move, s))
           \/ t = 0 /\ Pixels(move, s)[1] # 0

\* Within its limits the view is used with sizes whose bitwise "and" is not zero and with
\* good moves, and the server answers every request.
WithinLimits ==
    /\ ~Lossy
    /\ \A dim \in Window : HasCommonBit(Rounded(dim))
    /\ \A t \in Turn \cup {0} : \A move \in Moves[t] : GoodMove(t, move)

\* When render() returns, every pixel of the bitmap shows what a window around the
\* wanted center, at the wanted scale and rotation, shows there: what was kept and
\* shifted fits the tiles that were requested, and "the lost part is drawn anew by the
\* server" (view_end.cpp:296).
RenderShows ==
    rendered => \A p \in Area(size) : cache[p] = Drawn(newCenter, p, size, newScale, newRotate)
=============================================================================
