----------------------------- MODULE MCMemHeap -----------------------------
(***************************************************************************)
(* A small heap: a set of two buckets of two one-byte blocks (four bits    *)
(* each, two of them spare) and a set of one bucket of a single two-byte   *)
(* block (two bits, one spare).  Six objects ask for one block more than   *)
(* the five there are.                                                     *)
(***************************************************************************)
EXTENDS MemHeap, TLC

MCSetOf == <<1, 1, 2>>
MCBlockSize == <<1, 2>>
MCBlockNum == <<2, 1>>

Symmetry == Permutations(Obj)
=============================================================================
