-------------------------- MODULE MCBoundaryHeap --------------------------
(***************************************************************************)
(* A heap of fourteen units with the proportions of the release build: a   *)
(* unit is 8 bytes, a used header 12, a free header two units.  Requests   *)
(* take two, three or four units; a free block is cut if it is at least    *)
(* three units longer than asked.                                          *)
(***************************************************************************)
EXTENDS BoundaryHeap
=============================================================================
