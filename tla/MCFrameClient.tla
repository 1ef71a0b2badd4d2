--------------------------- MODULE MCFrameClient ---------------------------
(***************************************************************************)
(* Ten frames of two bytes: three reserved, seven in the pool.  The bitmap *)
(* is one page of two bytes, with six bits of padding.                     *)
(***************************************************************************)
EXTENDS FrameClient

MCBootUsed == {0, 2, 5} \cup 10 .. 15
=============================================================================
