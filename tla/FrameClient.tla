----------------------------- MODULE FrameClient -----------------------------
(***************************************************************************)
(* The physical memory manager on its own, under any caller that keeps the *)
(* one rule the code cannot check: it frees only addresses inside the      *)
(* managed memory, and never a frame that boot reserved.  Freeing twice,   *)
(* or freeing an unaligned address, is allowed and panics.                 *)
(***************************************************************************)
EXTENDS PMM

VARIABLES held,   \* the frames callers hold, by what they did
          got     \* what the last call returned: NULL if it was not a frame

NULL == 0

clientVars == <<pmmVars, held, got>>

Callable == {a \in 0 .. (MaxPages * PAGE_SIZE - 1) :
               addr_to_idx(a) \notin BootUsed}

CallAlloc ==
  \/ /\ \E i \in Frames :
          /\ pmm_alloc_page(i)
          /\ held' = held \cup {i}
          /\ got' = i
     /\ UNCHANGED panic
  \/ /\ PmmOutOfMemory
     /\ UNCHANGED <<held, got>>

CallFree ==
  \E a \in Callable :
    /\ pmm_free_page(a)
    /\ \/ /\ panic' = NoPanic
          /\ held' = held \ {addr_to_idx(a)}
          /\ got' = NULL
       \/ /\ panic' # NoPanic
          /\ UNCHANGED <<held, got>>

Next ==
  \/ panic = NoPanic /\ (CallAlloc \/ CallFree)
  \/ Halt /\ UNCHANGED <<held, got>>

Init == PmmInit /\ held = {} /\ got = NULL

Spec == Init /\ [][Next]_clientVars

-----------------------------------------------------------------------------
TypeOK ==
  /\ bmp \subseteq Bits
  /\ panic \in PmmPanics \cup {NoPanic}
  /\ held \subseteq Frames
  /\ got \in Frames

\* The bits that are set are those of the frames that boot reserved and of the
\* frames that somebody holds, and no frame is both: nothing leaks, nothing in
\* use is free, and frame 0, which is NULL to the callers of pmm_alloc_page
\* (vmm.c tests if (p)), is never handed out.
FramesAccounted == bmp = BootUsed \cup held /\ BootUsed \cap held = {}

\* The bitmap implements the abstract pool: a frame has one holder at most.
Pool == Frames \ BootUsed
FA == INSTANCE FrameAllocator
        WITH allocated <- held, NoFrame <- NULL, stopped <- panic # NoPanic
ImplementsFrameAllocator == FA!Spec
=============================================================================
