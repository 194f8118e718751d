----------------------------- MODULE MCViewEnd -----------------------------
(***************************************************************************)
(* Windows rounded up to two by two and three by two tiles of 2 by 2       *)
(* pixels; one pixel stands for 75 by 50 of the screen (a tile is 150 by   *)
(* 100).  Moves are whole pixels at both scales.                           *)
(***************************************************************************)
EXTENDS ViewEnd, TLC

MCUnit == 0 :> 1 @@ 1 :> 2

MCWindow == {<<4, 3>>, <<5, 3>>}

\* Two pixels apart at scale level 0 and one at level 1; the last row is far off.
MCPlace == {0, 2, 4} \X {0, 2, 8}

\* To the left and to the right, straight or diagonal.
Sideways == {-4, -2, 2, 4} \X {-2, 0, 2}

\* In a turned view the user only makes moves that leave nothing to keep.
Far == {0, 4} \X {-8, -6, 6, 8}

MCMoves == 0 :> Sideways \cup Far @@ 1 :> Far

MCVertical == 0 :> {<<0, 2>>}

\* 1024 by 768 pixels: rounded up to seven by eight tiles.
MCFullScreen == {<<13, 15>>}
=============================================================================
