-------------------------- MODULE MCMemHeapThreads --------------------------
(***************************************************************************)
(* Two sets of one bucket: three one-byte blocks (four bits, two a byte)   *)
(* and one two-byte block.                                                 *)
(***************************************************************************)
EXTENDS MemHeapThreads, TLC

MCSetOf == <<1, 2>>
MCBlockSize == <<1, 2>>
MCBlockNum == <<3, 1>>

Symmetry == Permutations(Obj) \cup Permutations(Thread)
=============================================================================
