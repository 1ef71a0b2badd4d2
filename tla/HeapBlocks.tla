----------------------------- MODULE HeapBlocks -----------------------------
(***************************************************************************)
(* What kmalloc, kcalloc, krealloc and kfree promise: a pointer stands for *)
(* as many bytes as were asked for, all of them the holder's alone.  A     *)
(* block appears, disappears, shrinks or moves at one instant.             *)
(***************************************************************************)
EXTENDS Naturals

CONSTANT Addr            \* the addresses of the heap

VARIABLE blocks          \* pointer |-> the bytes behind it

Extent(p, n) == p .. (p + n - 1)

Init == blocks = <<>>

\* n bytes at p are in the heap and overlap no block of the function b.
FitsBeside(p, n, b) ==
  /\ p \in Addr \ DOMAIN b
  /\ Extent(p, n) \subseteq Addr
  /\ \A q \in DOMAIN b : Extent(p, n) \cap Extent(q, b[q]) = {}

Added(b, p, n) == [q \in DOMAIN b \cup {p} |-> IF q = p THEN n ELSE b[q]]
Without(b, p)  == [q \in DOMAIN b \ {p} |-> b[q]]

Alloc(p) ==
  /\ FitsBeside(p, blocks'[p], blocks)
  /\ blocks' = Added(blocks, p, blocks'[p])

FreeBlock(p) == blocks' = Without(blocks, p)

Shrink(p) ==
  /\ p \in DOMAIN blocks' /\ blocks'[p] <= blocks[p]
  /\ blocks' = [blocks EXCEPT ![p] = blocks'[p]]

\* The new block may not overlap the old one, which is being copied from.
Move(p, q) ==
  /\ FitsBeside(q, blocks'[q], blocks)
  /\ blocks' = Without(Added(blocks, q, blocks'[q]), p)

Next ==
  \/ \E p \in DOMAIN blocks : FreeBlock(p) \/ Shrink(p)
  \/ \E q \in DOMAIN blocks' \ DOMAIN blocks :
       Alloc(q) \/ \E p \in DOMAIN blocks : Move(p, q)

Spec == Init /\ [][Next]_blocks
=============================================================================
