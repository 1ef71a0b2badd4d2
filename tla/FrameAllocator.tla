--------------------------- MODULE FrameAllocator ---------------------------
(***************************************************************************)
(* What the physical memory manager promises its callers, with no bitmap   *)
(* and no search: a pool of page frames, each of which has at most one     *)
(* holder.  A frame is handed out only while it is in the pool, comes back *)
(* only from a holder, and the allocator may stop for good (panic).        *)
(***************************************************************************)
CONSTANTS Pool,          \* the frames that boot leaves for allocation
          NoFrame

VARIABLES allocated,     \* the frames somebody holds
          got,           \* the frame the last call returned, if it did
          stopped        \* the machine has halted

Init == allocated = {} /\ got = NoFrame /\ stopped = FALSE

Take(f) ==
  /\ ~stopped
  /\ f \in Pool \ allocated
  /\ allocated' = allocated \cup {f}
  /\ got' = f
  /\ UNCHANGED stopped

Give(f) ==
  /\ ~stopped
  /\ f \in allocated
  /\ allocated' = allocated \ {f}
  /\ got' = NoFrame
  /\ UNCHANGED stopped

Stop ==
  /\ ~stopped
  /\ stopped' = TRUE
  /\ UNCHANGED <<allocated, got>>

Next == Stop \/ \E f \in Pool : Take(f) \/ Give(f)

Spec == Init /\ [][Next]_<<allocated, got, stopped>>
=============================================================================
