--------------------------- MODULE MCKernelMemory ---------------------------
(***************************************************************************)
(* A machine small enough for TLC: tables of four entries (256 virtual     *)
(* pages) and a few dozen frames.  The direct map takes the first slot of  *)
(* the root, the heap the second, where it straddles two page tables, the  *)
(* bitmap and the stack share the third and the kernel image has the last. *)
(* The image is laid out as the linker lays it out, where .eh_frame begins *)
(* on the page where .rodata ends and .comment is not loaded, but for one  *)
(* section: .data begins on the page where .eh_frame ends, as it would     *)
(* without its ALIGN(4K), so that two sections with different permissions  *)
(* share a page.                                                           *)
(***************************************************************************)
EXTENDS KernelMemory

MCHHDM == 0
MCKVMA == 192

Section(flags, first, last) == [flags |-> flags, first |-> first, last |-> last]

MCSections == <<
  Section({"ALLOC"},              194, 194),    \* .multiboot2
  Section({"ALLOC", "EXECINSTR"}, 195, 195),    \* .text
  Section({"ALLOC"},              196, 196),    \* .rodata
  Section({"ALLOC"},              196, 197),    \* .eh_frame
  Section({},                     0,   0),      \* .comment
  Section({"ALLOC", "WRITE"},     197, 198) >>  \* .data and .bss

\* Two frames below the first MiB, five of the kernel, the bitmap's, and the
\* padding of the bitmap.
MCBootUsed == 0 .. 7 \cup MaxPages .. (NumBits - 1)

\* Around and inside the heap, page 3 of the direct map, and a kernel page.
MCFreeArgs == (65 .. 70) \X (0 .. 3) \cup {<<3, 1>>, <<198, 1>>}
=============================================================================
