------------------------------ MODULE MCKHeap ------------------------------
(***************************************************************************)
(* A heap of a few small pages.  A header is two units, a block costs six  *)
(* units more than was asked for, and a major of the least size holds two  *)
(* or three blocks, so that every case of kmalloc's search occurs.         *)
(***************************************************************************)
EXTENDS KHeap
=============================================================================
