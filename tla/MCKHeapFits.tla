---------------------------- MODULE MCKHeapFits ----------------------------
(***************************************************************************)
(* The heap of MCKHeap with requests that fit the widths they are computed *)
(* in: what the theorems about KHeap are stated for.                       *)
(***************************************************************************)
EXTENDS MCKHeap, KHeapInv

ASSUME FitAssumption == RequestsFit
=============================================================================
