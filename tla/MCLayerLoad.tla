---------------------------- MODULE MCLayerLoad ----------------------------
(***************************************************************************)
(* A file of a layer of two named points, a layer of one road of two lines *)
(* and one of one polygon of two rings, both without a name, and a layer   *)
(* of an unknown geometry; or of one layer of a named road or polygon.     *)
(***************************************************************************)
EXTENDS LayerLoad, TLC

MCGeom == <<"point", "line", "polygon", "other">>
MCFeatureNum == <<2, 1, 1, 1>>
MCNamed == <<TRUE, FALSE, FALSE, FALSE>>

\* Two threads need up to four blocks for data (two each while they unzip), two for
\* layers, four for features and for names, four for lines, four for rings, two to draw in.
\* They get three, two, two, one, three, four and two: both can be filling a layer at once,
\* each can be refused data, a feature or a name because of the other, and the second line
\* of a road but never the first.  Rings and drawings are never refused.
MCFits ==
    "data" :> 1..3 @@ "layer" :> 4..5 @@ "feature" :> 6..7 @@ "line" :> 8..10 @@
    "name" :> {11} @@ "ring" :> 12..15 @@ "drawing" :> 16..17

MCRoad == <<"line">>
MCPolygon == <<"polygon">>
MCOneFeature == <<1>>
MCOneNamed == <<TRUE>>

\* Enough blocks for two threads, but for the lines of one of them.
MCFewParts ==
    "data" :> 1..2 @@ "layer" :> 3..4 @@ "feature" :> 5..6 @@ "line" :> 7..8 @@
    "name" :> {9} @@ "ring" :> {} @@ "drawing" :> {}

\* A single block for rings, to the end, and one to draw in.
MCOnePart ==
    "data" :> 1..2 @@ "layer" :> 3..4 @@ "feature" :> 5..6 @@ "ring" :> {7} @@
    "name" :> {8} @@ "line" :> {} @@ "drawing" :> {9}
=============================================================================
