------------------------------ MODULE PageHeap ------------------------------
(***************************************************************************)
(* What vmm_alloc_pages and vmm_free_pages promise their callers.  A run   *)
(* of heap pages that nobody owns becomes the caller's at the instant the  *)
(* allocating call returns; the pages that a freeing call names stop being *)
(* anybody's at the instant it is made; nothing else changes what is       *)
(* owned.  The machine may stop at any time.                               *)
(***************************************************************************)
EXTENDS Naturals

CONSTANT Pages           \* how many pages the heap has

VARIABLES owned,         \* the page indexes that callers own
          call,          \* the call that is running
          stopped

PageRun(s, n) == s .. (s + n - 1)

Init == owned = {} /\ call = "none" /\ stopped = FALSE

CallAlloc ==
  /\ call = "none" /\ call' = "alloc"
  /\ UNCHANGED <<owned, stopped>>

ReturnAlloc(s, n) ==
  /\ call = "alloc" /\ call' = "none"
  /\ s + n <= Pages
  /\ PageRun(s, n) \cap owned = {}
  /\ owned' = owned \cup PageRun(s, n)
  /\ UNCHANGED stopped

CallFree(s, n) ==
  /\ call = "none" /\ call' = "free"
  /\ s + n <= Pages
  /\ owned' = owned \ PageRun(s, n)
  /\ UNCHANGED stopped

ReturnFree ==
  /\ call = "free" /\ call' = "none"
  /\ UNCHANGED <<owned, stopped>>

Stop == stopped' = TRUE /\ UNCHANGED <<owned, call>>

Next ==
  /\ ~stopped
  /\ \/ CallAlloc \/ ReturnFree \/ Stop
     \/ \E s \in 0 .. Pages, n \in 1 .. Pages : ReturnAlloc(s, n) \/ CallFree(s, n)

Spec == Init /\ [][Next]_<<owned, call, stopped>>
=============================================================================
