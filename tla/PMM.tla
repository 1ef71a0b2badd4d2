-------------------------------- MODULE PMM --------------------------------
(***************************************************************************)
(* The physical memory manager of kernel/mm/pmm.c at run time: one bit per *)
(* page frame, a first-fit search from frame 0, and a panic instead of an  *)
(* error.  How init_pmm computes the bitmap this module starts from is the *)
(* subject of PmmBoot.                                                     *)
(*                                                                         *)
(* This module has the operations only: FrameClient runs them alone, and   *)
(* KernelMemory under the rest of the memory subsystem.  The actions leave *)
(* out the variables of the modules that extend this one.  pmm_alloc_page  *)
(* does not mention panic either: its callers go on and may panic in the   *)
(* same step.                                                              *)
(***************************************************************************)
EXTENDS Naturals

CONSTANTS
  PAGE_SIZE,   \* bytes in a page
  MaxPages,    \* addr_to_idx(total_mem): the frames pmm_alloc_page scans
  NumBits,     \* bits in the bitmap, a whole number of pages of them
  BootUsed     \* the bits init_pmm leaves set

Bits   == 0 .. (NumBits - 1)
Frames == 0 .. (MaxPages - 1)

\* What init_pmm hands over: PmmBoot!HandsOverASoundBitmap checks it there.
ASSUME PmmAssumption ==
  /\ PAGE_SIZE \in Nat \ {0}
  /\ MaxPages \in Nat \ {0}
  /\ NumBits \in Nat
  /\ MaxPages <= NumBits
  /\ BootUsed \subseteq Bits
  /\ Bits \ Frames \subseteq BootUsed
  /\ 0 \in BootUsed

VARIABLES
  bmp,         \* the set of indexes whose bit is 1 (frame in use)
  panic        \* NoPanic, or why panic() was called; the machine then halts

NoPanic == "no"

PmmPanics == {"PMM: out of memory", "PMM: unaligned address",
              "PMM: double free"}

pmmVars == <<bmp, panic>>

addr_to_idx(a) == a \div PAGE_SIZE
idx_to_addr(i) == i * PAGE_SIZE

bitmap_test(i) == i \in bmp

\* Mutant: the bit of the next frame is tested.
FreeFramesNextBit == {i \in Frames : ~bitmap_test(i + 1)}
FreeFrames == {i \in Frames : ~bitmap_test(i)}

PmmInit == bmp = BootUsed /\ panic = NoPanic

-----------------------------------------------------------------------------
\* Mutant: bitmap_set's mask is 0xFF << i.
pmm_alloc_pageSetsEight(i) ==
  /\ i \in FreeFrames
  /\ \A j \in FreeFrames : i <= j
  /\ bmp' = bmp \cup i .. (i + 7)

\* Mutant: the bit is not set.
pmm_alloc_pageForgets(i) ==
  /\ i \in FreeFrames
  /\ \A j \in FreeFrames : i <= j
  /\ UNCHANGED bmp

\* The loop returns the first index below max_pages whose bit is 0.
pmm_alloc_page(i) ==
  /\ i \in FreeFrames
  /\ \A j \in FreeFrames : i <= j
  /\ bmp' = bmp \cup {i}

\* The loop finds none: panic, never the NULL that callers test for.
PmmOutOfMemory ==
  /\ FreeFrames = {}
  /\ panic' = "PMM: out of memory"
  /\ UNCHANGED bmp

FreeUnaligned(addr) ==
  /\ addr % PAGE_SIZE # 0
  /\ panic' = "PMM: unaligned address"
  /\ UNCHANGED bmp

FreeUnallocated(addr) ==
  /\ addr % PAGE_SIZE = 0
  /\ ~bitmap_test(addr_to_idx(addr))
  /\ panic' = "PMM: double free"
  /\ UNCHANGED bmp

\* Mutant: the whole byte of the bitmap is cleared.
FreeAllocatedByte(addr) ==
  /\ addr % PAGE_SIZE = 0
  /\ bitmap_test(addr_to_idx(addr))
  /\ bmp' = {i \in bmp : i \div 8 # addr_to_idx(addr) \div 8}
  /\ UNCHANGED panic

FreeAllocated(addr) ==
  /\ addr % PAGE_SIZE = 0
  /\ bitmap_test(addr_to_idx(addr))
  /\ bmp' = bmp \ {addr_to_idx(addr)}
  /\ UNCHANGED panic

pmm_free_page(addr) ==
  FreeUnaligned(addr) \/ FreeUnallocated(addr) \/ FreeAllocated(addr)

\* panic() ends in for (;;) cli; hlt.
Halt == panic # NoPanic /\ UNCHANGED pmmVars
=============================================================================
