# Extron in TLA+

Extron is a small kernel for x86-64. GRUB loads it, `boot.asm` takes the
processor to long mode with the first GiB mapped one to one and at
`KERNEL_VMA`, and `kernel_stage1` sets up memory, interrupts and a stack for
`kernel_stage2`, which idles and echoes the keyboard. It has no threads, no
processes and no disk. What it has is memory management, in four layers that
each trust the one below, and a console that the kernel and its interrupt
handlers share. Both are what this project models, checks and proves things
about. There are no tests in the repository.

## The system

| Component | State | Operations | Talks to | What makes it correct |
|---|---|---|---|---|
| PMM, boot (`mm/pmm.c`, `init_pmm`) | place, size and content of the frame bitmap | one pass over the multiboot tags to place it, one to clear AVAILABLE regions, then the reservations | GRUB's tags | exactly the usable frames are free; nothing but the bitmap is written |
| PMM, run time (`pmm_alloc_page`, `pmm_free_page`) | the bitmap | take the lowest free frame; give a frame back; panic | called by paging and VMM | a frame has one holder; nothing leaks |
| Paging (`mm/paging.c`) | `kernel_pml4`, the tables in frames, `g_hhdm_offset`, the TLB | `map_page`, `unmap_page`, `virt_to_phys`, `init_paging` | takes tables from the PMM | tables form a tree; a write changes one translation; no TLB entry outlives its frame |
| VMM (`mm/vmm.c`) | bitmap of heap pages, `last_allocated_index` | `vmm_init`, `vmm_alloc_pages`, `vmm_free_pages`, `vmm_setup_stack` | frames from the PMM, `kmap`/`kunmap` of paging | bitmap and tables agree; runs do not overlap; the guard page stays unmapped |
| Kernel heap (`mm/kheap.c`, liballoc) | majors and minors (two kinds of linked list in the heap itself), `l_memRoot`, `l_bestBet`, counters | `kmalloc`, `kfree`, `kcalloc`, `krealloc` | runs of pages from the VMM | blocks hold what was asked for and never overlap; pages come back; the search ends |
| Kernel main (`kernel.c`) | none of its own | the order of initialisation, the switch of stacks, `sti`, the idle loop | all | everything is in place before `sti`; the kernel reaches its idle loop |
| Interrupts (`idt.c`, `isr.asm`, `isr_c.c`, `pic.c`, `irh/`) | IDT, handler table; in hardware, the two 8259 controllers | `idt_init`, `pic_init`, dispatch, end of interrupt, `isr_register_handler` | keyboard, panic | each interrupt is acknowledged once, at the right controller; timer and keyboard never stop the kernel |
| Keyboard (`keyboard.c`) | the scancode table; in hardware, a byte behind port 0x60 | `keyboard_init`, `keyboard_callback` | console, from an interrupt | each byte is read once, in order, and soon |
| Console (`console.c`) | `cursor_x`, `cursor_y`, VGA memory | `putc`, `scroll`, `kvprintf` | everybody, also from interrupts | the cursor stays on the screen; the screen shows the end of the text; numbers print as what they are |
| Panic (`panic.c`) | - | print and halt | everybody | nothing happens afterwards |
| Boot code, GDT (`boot.asm`, `gdt.c`, `linker.ld`) | the first page tables, the segments | straight-line | - | not modelled |

What is hard in the memory half is agreement: the same fact (this frame, this
page is in use) is recorded in the frame bitmap, in page tables, in the TLB, in
the VMM's bitmap and in the heap's lists, and every call changes these records
one at a time, in loops, with a panic possible between any two of them. What is
hard in the other half is that `keyboard_callback` prints through the same
`putc`, with the same cursor, that it may have interrupted, and that the
controllers remember what they were told: an acknowledgement too few, or a byte
nobody reads, ends all input. `PROJECT.json` lists the hazards, each at its line.

Nothing in the present kernel calls `kmalloc`, `vmm_alloc_pages` or
`vmm_free_pages` yet: they are the interface for what comes after boot, and the
models let any caller use it, within the limits named below.

## The modules

| Module | Models | In terms of |
|---|---|---|
| `PMM` | `pmm_alloc_page`, `pmm_free_page` | `bmp`, the set of indexes whose bit is 1; `panic` |
| `FrameClient` | the PMM under any caller that does not free a frame boot reserved | adds `held`, `got` |
| `FrameAllocator` | what the PMM promises: a pool of frames with one holder each | abstract |
| `FrameClientProofs` | the theorems about `FrameClient` | |
| `PmmBoot` | `get_bitmap_location`, `init_pmm` | one action per loop iteration or reservation |
| `PmmBootProofs` | the theorems about `PmmBoot` | |
| `Paging` | `map_page`, `unmap_page`, `init_paging` | `mem`, frames read as tables; `walk`, the running callee; `stale`, the TLB |
| `AddressSpace` | what paging promises: one flat map | abstract |
| `VMM` | `vmm_init`, `vmm_setup_stack`, `vmm_alloc_pages`, `vmm_free_pages` | `vbmp`, `last_allocated_index`; `pc`, `loc`, the place and the locals of the running function |
| `KernelMemory` | PMM, paging and VMM as `kernel_stage1` puts them together, then any calls | composition |
| `PageHeap` | what the VMM promises: atomic allocation of runs of pages | abstract |
| `KernelMemoryInv` | page tables as data: digits of a page number, trees of tables, writes of an entry; the inductive invariant of `KernelMemory`, and what the steps of a walk do to the tables | |
| `KernelMemoryProofs` | one lemma per action: it keeps the invariant; the theorems about paging and the VMM | |
| `KHeap` | liballoc | `majors`, `minors` as functions from addresses to records |
| `KHeapInv` | the inductive invariant of `KHeap` | |
| `KHeapProofs` | one lemma per action: it keeps the invariant; the theorems about `KHeap` | |
| `HeapBlocks` | what liballoc promises: disjoint blocks | abstract |
| `Console` | `putc`, `scroll` | `cursor_x`, `cursor_y`, `vga`; `at` and `reg`, the instruction and the registers of the `putc` the kernel is in |
| `Interrupts` | `idt_init`, `pic_init`, `isr_common`, `isr_handler`, `pic_send_eoi`, `isr_register_handler` | `gates`, `handlers`, `pic`; `vector` and `in`, what is being handled and where |
| `Keyboard` | `keyboard_callback`, port 0x60 and the controller behind it | `obf`, `keys`, `scancode` |
| `KernelRun` | `kernel_stage1` from `idt_init`, `kernel_stage2`, with handlers and devices | composition of the three |
| `KernelRunProofs` | the theorems about `KernelRun` | |
| `Terminal` | what a console promises: text on endless paper | abstract |
| `KeyStream` | what the keyboard path promises: a queue | abstract |
| `Printf` | `kvprintf`, `print_uint`, `print_int`, `print_hex` | `fmt`, `args`, `out`; one step per turn of the loop |
| `PrintfProofs` | the theorem about `Printf` | |
| `Numbers` | lemmas that several proofs need: least elements, induction, recursive functions, division | |
| `MC...` | instances for TLC | |

`PMM` has only operations; `FrameClient` and `KernelMemory` both extend it, so
the theorem about the one and the checks of the other use the same definitions.

### How state and steps correspond to the code

* **Frames and pages are numbers**; every caller passes page-aligned addresses
  and the offset is masked away. Only the PMM sees byte addresses, because
  `pmm_free_page` tests alignment.
* **A bitmap is the set of its 1 bits.** `init_pmm`'s bitmap can be too short
  for its machine, so `NumBits` (its size) and `MaxPages` (what is scanned) are
  two constants. Bit tests, sets and clears are single operations.
* **Page tables live in frames** taken from the PMM. A frame that was never
  zeroed holds `Junk`, a present entry to frame 0, which a walk would follow.
  One step of `WalkStep` is one level of `map_page` or `unmap_page`. The write
  of the entry and `invlpg` are two steps with `stale` between them. `ret`
  holds the callee's result (1 and 2 stand for -1 and -2), and the caller's
  next step tests it or does not, as the code does.
* **`virt_to_phys` is read in the step that uses it**: nothing runs in between.
  A table in frame 0 counts as a missing one there and in `map_page` and
  `unmap_page`, as in the code, where 0 says that there is no table. The
  processor's own walk (`LeafEntry`) would follow it. No step ever meets such a
  table, since frame 0 is boot's (lemma `NextIsATable`).
* **The switch in `init_paging`** (cr3, console, offset, TLB, bitmap address) is
  one step: interrupts are off, and nothing between the assignments reads them,
  so the order of the assignments is not checked, only that what is used
  afterwards is mapped (`KernelSpaceIntact`).
  A frame that is touched before it must be below 1 GiB (`Reachable`), or the
  model panics with a page fault.
* **The searches are declarative**: `pmm_alloc_page` takes a free frame with no
  free one below it, `vmm_alloc_pages` the least start of a fitting run in the
  first pass that has one. `vmm_alloc_pages(0)` never finds a run, since the
  counter is compared after it is incremented; so the code panics, and so does
  the model.
* **liballoc** takes one step per iteration of `kmalloc`'s loop over the majors;
  the walk inside a major only reads and is the set `Fitting`. Headers are
  records, addresses are kept exactly, with `MajorHdr`, `MinorHdr`, `ALIGNMENT`
  and `ALIGN_INFO` as units. `unsigned int`, `int` and `size_t` have their
  widths (`UINT`, `SIZE_T`): a sum with a `sizeof` wraps as a `size_t` does, and
  `kfree` compares what two majors have left as `int`. Majors come from any free run (or none) of an abstract page heap:
  `PageHeap` is shown to be implemented by the VMM, which may panic at any
  time. `lost` is the pointer freed last, whose header is still marked DEAD;
  callers may pass it once more to `kfree` or `krealloc`. Reusing its memory
  forgets it, since after that the code reads somebody else's bytes.
* **A panic is a state that nothing leaves** (`Halt`). In `KernelRun` it prints
  one character, which stands for its messages, and then halts.
* **The tags of multiboot** are a flat sequence in `PmmBoot`: an entry of the
  memory map is a tag of its own, so that the loop over the entries is part of
  the loop over the tags. `get_bitmap_location` looks at one per step, and so do
  the two later passes.
* **`putc` has the steps of the repository's build.** Cursor and video memory are
  shared with interrupt handlers, but the cursor is a pair of ordinary ints: what
  an interrupted `putc` has read and has not yet stored is the compiler's choice.
  The model takes the loads and stores of the object code in
  `build/kernel/console`: line and column are loaded once, kept in registers
  (`reg`), and stored at the end; video memory is volatile. A handler cannot be
  interrupted, so its `putc` is one step (`PutcAtOnce`).
* **The controllers are sets of lines** (`irr`, `isr`, `imr`), with the ranks
  that the cascade gives them. ICW1 resets them: a line that had risen
  before must rise again. The end-of-interrupt command clears the most urgent
  line in service. An interrupt is taken by `Interrupt`; a vector without a gate
  arrives as a double fault, since "segment not present" has no gate either.
* **The keyboard** hands its controller a byte at a time, and only when the last
  one has been read; the line rises once per byte.
* **The messages of the kernel** are one text before `sti` and one after it.
* **`kvprintf`** sees words: an `int` in a slot is what the low half of the word
  says, and the rest of it is arbitrary.
* **`vmm_free_pages`** computes the end of the range in a word of `WORD` pages,
  as 64 bits do.

## The runs

`tlc -config X.cfg M`, with a module and a configuration of this table. Each
takes from a second to about two minutes.

| Run | Module, configuration | Shows |
|---|---|---|
| `frame_client` | `MCFrameClient` | any calls, with double, unaligned and foreign frees: the bitmap is the reserved and the held frames; refinement of `FrameAllocator` |
| `pmm_boot` | `MCPmmBoot` | free frames are RAM and touch nothing reserved; no usable frame is lost; writes stay in the bitmap; the result satisfies `PMM`'s assumptions |
| `kernel_memory` | `MCKernelMemory` | thirteen properties of the composition, below |
| `kheap_blocks` | `MCKHeapFits`, `MCKHeapBlocks.cfg` | lists, counters and sizes; refinement of `HeapBlocks` |
| `kheap_majors` | `MCKHeapFits`, `MCKHeapMajors.cfg` | major list and best bet; no page leaks; the search ends |
| `kernel_run` | `MCKernelRun` | nine properties of console, interrupts and keyboard, below |
| `printf` | `MCPrintf` | every argument of every numeric directive prints a numeral that reads back as the argument, and fits the buffer |

In `kernel_memory`: no table is shared (`TablesFormATree`); every set bit of
the frame bitmap has exactly one reason (`FrameAccounting`); a frame behind a
page is behind no other (`ExclusiveFrames`); the VMM's bitmap agrees with the
tables except for the page in work (`HeapBitmapMatchesTables`); the direct map and
the kernel image cannot be damaged by a wrong free (`KernelSpaceIntact`);
of the sections on a page the first decides, and no call changes its permissions
(`SectionFlagsHonoured`);
the guard page stays unmapped; of all the panics in the code only those that a
caller can provoke, or lack of memory, are reached (`NoInternalPanic`); a frame
is given back only when no page and no TLB entry leads to it
(`FreedFrameUnreachable`); the loops of the VMM implement the atomic calls of
`PageHeap` (`ImplementsPageHeap`); four levels of tables implement one flat map
(`ImplementsAddressSpace`); boot and every call end (`CallsReturn`).

In `kernel_run`: whatever instruction of `putc` or `scroll` a handler that prints
arrives at, the cursor stays on the screen for whoever prints next, and nobody
writes outside video memory (`CursorOnScreen`); as long as no handler has
printed into an interrupted `putc`, the screen shows the end of the text as
`Terminal` lays it out (`ScreenShowsTail`); a byte waits in the keyboard's buffer
exactly as long as its interrupt is on the way (`LineMeansByte`); what the
controllers have in service is what is being handled (`InServiceIsHandled`); only
a line that the firmware left open stops the kernel (`OnlyStrayLinesPanic`); bytes
are read once and in order (`ImplementsKeyStream`); every byte is read
(`KeysServed`); the kernel reaches its idle loop (`KernelIdles`).

### Bounds, and why they are enough

* `frame_client`: ten frames, of which three are reserved, and a bitmap of two
  bytes. First and last frame, holes, padding and two bytes occur.
* `pmm_boot`: pages of two bytes and a bitmap byte of two bits, so that a
  bitmap page holds four bits; memory maps with ends on and between page
  boundaries, in order and not, multiboot data below, behind and far above the
  kernel, zero, one or two modules, two of which share a page; a bitmap that
  does not fit. It leaves out the machines of finding 3 and machines on which
  the bitmap would not lie in one AVAILABLE region: the code copes with neither.
* `kernel_memory`: tables of four entries, 43 frames, a heap of four pages that
  straddles two page tables, a stack of two pages with a guard, and the section
  layout of `linker.ld`, in which `.rodata` and `.eh_frame` share a page, but
  without the `ALIGN(4K)` of `.data`, so that `.eh_frame` and `.data` share
  one and disagree about it. The number
  of frames is chosen so that an allocation of three pages can fail at every one
  of its pages and tables. Callers ask for 0 to 3 pages and free any range in
  and around the heap, owned or not, and two pages outside it; no range wraps
  around the end of the address space.
* `kheap_*`: pages of 20 units, headers of two, requests that fit two to a
  major, leave gaps, or need a major of their own; two or three pages. In
  `kheap_blocks` and `kheap_majors` no request leaves the widths (`MCKHeapFits`
  asserts it: it is the hypothesis of the theorems); in `kheap_width` one does.
* `kernel_run`: a screen of two by two cells with tab stops at 2, texts that fill
  a line and scroll, a scancode table of four entries with one of each kind (0, a
  letter, Enter, Tab) and bit 3 for "key up"; the lines of timer and keyboard and
  one of the slave that the kernel does not know; masks of the firmware that
  leave all open, or shut the timer, or the other two; two keys (`MaxKeys`),
  pressed at any time from power-on. Every instruction of `putc` meets every
  interrupt, and a handler's output can scroll a screen that the kernel is
  scrolling.
* `printf`: an `int` of 4 bits and a `long` of 8, all 256 arguments for each
  directive; `BUF` is 4 and leaves one character spare, where the code's 32
  leave twelve for the twenty digits of 64 bits. Nothing in the conversions
  depends on the width but the wrap-around of the least number, which both
  widths have.

### Fairness

`KernelMemory` and `KHeap` assume weak fairness of the steps of a call that is
running: the processor goes on executing. No fairness is assumed of callers.

`KernelRun` assumes weak fairness of the handler's steps, which nothing can
interrupt, and of the keyboard controller, which passes on a byte once its buffer
is empty. The kernel's steps and the taking of each interrupt
exclude each other, so each is enabled again and again and not all the time: both
have strong fairness. For the kernel this says that interrupts leave it some
time, which is true of a timer that ticks 18 times a second, as the firmware leaves it;
to match, a device does not raise its line again while its own handler runs. For a line it says that it is
served between the others, which have less than all the time for the same
reason. No fairness is assumed of keys, timer and unknown devices: they may
never act.

## Where the code and its comments part

Five runs are expected to end in a counterexample; each checks one property
that states what a comment or a message of the code says.

1. `kernel_oom`: `pmm_alloc_page` "Returns ... NULL if out of memory", but panics.
2. `kernel_exhausted`: "VMM: kernel heap exhausted" is raised while a run of the
   length asked for is free: neither pass looks at a run across
   `last_allocated_index`.
3. `pmm_bits`: "1 bit per page", but `max_pages / 8` is rounded down first.
4. `kheap_best_bet`: "The major with the most free memory." is not kept up to date.
5. `kheap_width`: "next one will be okay.", but the size is cut to 32 bits.

### What the passing runs exclude

Some hazards are real but are no contradiction in the code's own words, and the
properties that run into them are stated with the exception named:

* **A key pressed early deafens the keyboard.** A byte that is in the buffer when
  `pic_init` resets the controllers (`pic.c:31`) has lost its request, and
  `keyboard_init` does not read it: no later byte can come. `LineMeansByte` and
  `KeysServed` say `~early`.
* **An echo may spoil the screen.** When the handler prints between a load and a
  store of `putc`, one of the two characters may overwrite the other or land on
  another line. `ScreenShowsTail` says `~raced`; `CursorOnScreen` holds
  nevertheless.
* **A stray interrupt is a double fault.** `isr_handler`'s fallback for an unknown
  vector (`isr_c.c:63`) cannot be reached from a line: no such vector has a gate.
* **`vmm_free_pages` with a count that wraps** passes the bounds check.
* **`kcalloc` multiplies into an `int`**: for a product that does not fit, the
  block is too small.
* **A format that ends in a percent sign** makes `kvprintf` read on behind it.

## What is proved

`FrameClientProofs`, for every page size, memory size, bitmap size and reserved
set that satisfies `PmmAssumption` (the shape that `init_pmm` hands over, which
the `pmm_boot` run checks as `HandsOverASoundBitmap`):

* `TypeCorrect`: `Spec => []TypeOK`.
* `AccountingCorrect`: `Spec => []FramesAccounted`.
* `Refines`: `Spec => ImplementsFrameAllocator`.

The inductive invariant is `IInv`, the two invariants together. Neither is
inductive alone: that a frame taken is within the bitmap is needed to keep
`bmp = BootUsed \cup held` a statement about bits, and that the freed frame is
not one of boot's needs the accounting. `AllocIInv` and `FreeIInv` treat one
operation each; `IndexOfAddress`, the only arithmetic, says that an address
inside memory belongs to one of its frames. For the refinement `Take(i)` needs
that the frame found free is held by nobody, which is `FramesAccounted`
read backwards.

`PmmBootProofs`, for every page size, every number of bits to a byte, every set
of machines and every list of tags, with `PmmBootAssumption` (ranges do not end
before they start; kernel, multiboot data and modules are not empty):

* `TypeCorrect`, `PlacedClear`: `Spec => []TypeOK`, `Spec => []BitmapPlacedClear`.
* `NoneLost`: `Spec => []NoUsableFrameLost`.
* `SafeCorrect`: `Spec => [](OneBitPerPage => FreeFramesAreSafe)`.
* `SoundCorrect`: `Spec => [](OneBitPerPage => HandsOverASoundBitmap)`; this is what
  `PmmAssumption` asks of the bitmap, so that the theorems of `FrameClientProofs`
  begin where these end.
* `WritesStay`: `Spec => ([](OneBitPerPage /\ BitmapInRAM) => WritesStayInBitmap)`.

`OneBitPerPage` is the premise of three of them because of finding 3: it fails on
some machines, and there the frames without a bit are whatever memory held.
`BitmapInRAM` says that the first MiB and the bitmap, which is behind all that GRUB
loaded, end before the last whole page of RAM; the run's machines meet it, but
`get_bitmap_location` looks only at the first GiB (pmm.c:156). Where it fails, a
reserved range has pages that have no bit. The others do not ask for it; on a machine
where the bitmap is not in RAM, memory would not keep what `init_pmm` writes, as
`bmp` does.

The invariant `Inv` has a part for each thing a later step relies on. `PlaceInv`:
the pass over the tags has seen those before `i`, and its result stays. `FreeInv`:
after deny-by-default, a free frame lies in some AVAILABLE region and the padding
is set; regions are below `max_pages`, so freeing them does not touch it.
`KeptInv`: what a reservation has set stays set, phase after phase; it needs that
nothing is cleared after the second pass, which is the order that `init_pmm` must
keep. `LostInv`: a region's bits that are set again are reserved ones. All four
speak of bits. The lemmas before and after them turn bits into bytes: `FreeBits`
and `UsedBits` say that the two loops round inward and outward, `RAMIsARegion` and
`ReservedBytesAndBits` that a bit is cleared just when its whole page is RAM, and
set just when its page has a reserved byte.

`KernelRunProofs`, for every screen and tab stop, scancode table, set of lines,
set of masks, text and number of keys:

* `TypeCorrect`: `Spec => []TypeOK`.
* `CursorCorrect`: `Spec => []CursorOnScreen`.
* `InServiceCorrect`, `PanicsCorrect`: `Spec => []InServiceIsHandled`,
  `Spec => []OnlyStrayLinesPanic`.
* `LineCorrect`: `Spec => []LineMeansByte`.
* `ScreenCorrect`: `Spec => []ScreenShowsTail`.
* `ReadsKeysInOrder`: `Spec => ImplementsKeyStream`.

There are four inductive invariants. The console's stands alone: it holds for any
interleaving of `putc` with others, whatever the interrupts are. `ConsoleInv` says that the line in the
register of an interrupted `putc` is on the screen until it is stored, and that
this line, not the cursor, decides whether the kernel scrolls: that is why
a handler that scrolls meanwhile does no harm to the bounds. `ControlInv` says that
from `sti` on gates, handlers and controllers are what they will always be, and
that the place of the handler determines what is in service. `LineInv` is
`LineMeansByte` with the direction that is true of an early byte as well; it needs
`ControlInv` to know that only the keyboard's handler reads. `ScreenInv` says for
every instruction of `putc` and `scroll` which part of the paper of `Terminal` is
on the screen: all of it (`Shows`), or, while `scroll` copies, the rows above `i` one
line further (`Shifted`), the rest as before, and then the last row blank up to `j`
(`Blanked`). It needs `ConsoleInv` for the bounds and that the paper is well formed
(`PaperInv`), and says nothing once one `putc` has run inside another (`raced`). The paper is a fold over the text and a
tab a recursive function; that such a function exists and satisfies its
equation is shown with a least counterexample (`LeastSet`, `Papers`), without an
induction theorem.

`KernelMemoryProofs`, for every memory, every fan-out of the tables, every
layout that keeps the regions of the address space apart, every list of sections
that ends inside memory, and every set of calls (`PmmAssumption`,
`PagingAssumption`, `VmmAssumption`, `KernelAssumption`, `CallersAssumption`):

* `TypeCorrect`: `Spec => []TypeOK`.
* `TablesStayATree`, `FramesAreExclusive`, `FramesAccounted`: the three
  statements about frames, `TablesFormATree`, `ExclusiveFrames` and
  `FrameAccounting`, in every state, so in the middle of every loop and walk.
* `BitmapAgrees`, `GuardStaysUnmapped`, `KernelSpaceStays`: the three about pages.
* `FirstSectionDecides`: `Spec => []SectionFlagsHonoured`, for every image, since
  `map_page` leaves a page as its first section had it.
* `PermissionsAreThoseAsked`: `Spec => []EverySectionGranted`, if `SectionsAgree`:
  when sections that share a page ask for the same permissions, which is the
  linker script's part, none of them loses or gains any.
* `NoBrokenInvariant`: `Spec => [](panic # "page fault" => NoInternalPanic)`, and
  `NoInternalPanicBelow1GiB`: `Spec => []NoInternalPanic`, if all memory is below
  the first GiB. On larger machines a table could be allocated above it before
  the switch. `NoInternalPanicIfTablesFit`: it is not, if `LowFrames`, the frames that are
  free below, are at least as many as `BootTables`, the tables that the direct map
  and the image need. The bound is sharp: the run has 20 of each, and with
  one low frame less TLC finds the page fault.
* `FreedFramesAreUnreachable`: `Spec => FreedFrameUnreachable`.
* `PageHeapImplemented`, `AddressSpaceImplemented`: `Spec => ImplementsPageHeap` and
  `Spec => ImplementsAddressSpace`.

`CallersAssumption` is the first of the exclusions above: the ranges that callers
free do not wrap. The other assumptions are met by the constants of the
code.

All follow from one invariant, `MemInv` (`MemoryInvariant`), because none of the
properties is inductive alone: that a walk writes into the right table
needs the tree, that a new table is a fresh frame needs the accounting, the
accounting of a freed frame needs that its page was mapped to it alone, and so on
in a circle. Its parts are: `TreeInv`, the tables are a tree and a walk stands on
the path of its page; `SpaceInv`, tables and boot's frames are set and disjoint;
`LoopInv`, `RunInv`, how far each loop is; `CallInv`, the walk that runs
is the one its caller asked for, and `stale` is not empty just between the write of an
entry and its `invlpg`; `JobInv`, the frame in the caller's hand is nobody else's;
`EntryInv`, where the pages of each region lead; `MappedInv`, the pages mapped are
those that the code before `pc` has settled (`Settled`), give or take the page in
work; `AccountInv`, every set bit has a reason.

For the count, `BootInv` says that until the switch every table is on the path of a
page that boot maps. Two tables on one level cover different parts of the
address space, so the tables that exist are fewer than those that are needed while one
is missing (`LowFrameLeft`), and the first free frame is a low one (`LowestIsLow`).

The argument about tables is kept apart from the one about the code. `KernelMemoryInv`
first replaces "as many edges as tables" by injectivity (`OneParent` and `Levelled`), which
an induction over steps can use, and shows what a write to one leaf entry and
a new table do to the map as a whole (`LeafWrite`, `NewTableExtends`).
`FS_Surjection` turns injectivity back into the cardinalities of `TablesFormATree`.
It then states these facts as steps (`LeafStep`, `NewTableStep`), and the
lemmas of `KernelMemoryProofs`, one for each action, only reason about the flat map.

`KHeapProofs`, for every number and size of pages, every size of headers and
alignment, and every set of requests with `RequestsFit`: no size, rounded up to
whole pages with its headers, leaves the `unsigned int` that
`allocate_new_page` cuts it to, and no product leaves the `int` of `kcalloc`.
Without it the statements are false (finding 5, and the exclusion above about
`kcalloc`); the runs `kheap_blocks` and `kheap_majors` satisfy it.

* `TypeCorrect`: `Spec => []TypeOK`.
* `MajorListIsSound`, `PagesAreTheMajors`: `Spec => []MajorListSound`,
  `Spec => []PagesBelongToMajors`.
* `MinorListsAreSound`, `BlocksAreLargeEnough`: `Spec => []MinorListsSound`,
  `Spec => []BlocksHoldTheirBytes`.
* `CountersAreExact`: `Spec => []AccountingExact`.
* `AppendedMajorFits`: `Spec => NextOneIsOkay`, the comment of finding 5, which
  is right as long as requests fit.
* `HeapBlocksImplemented`: `Spec => ImplementsHeapBlocks`.

The invariant is `HeapInv` (`HeapInvariant`). `ListInv` says of the majors that
they are linked both ways and, with a rank for each, that the list is no ring;
this survives cutting out and appending, where "walking from the root visits
all" does not directly. `MinorsInv` says the same of each major's blocks without a rank,
since addresses order them: a block's neighbours in the list are the nearest live
blocks of its major (`NearestInv`), from which it follows that a gap between
neighbours holds nothing. `EmptyInv` bounds where a major without blocks
can occur: only at the end of a search that has just appended it. `DeadInv`
describes the single dead header, that of the pointer freed last, and what may still be
read through it. The counters are part of the invariant and not a
consequence: the search skips a major, and a free gives one back, because of
what `usage` says. What `AccountingExact` states are sums over sets, and
`MajorListSound` and `MinorListsSound` speak of walks through lists;
both are defined by recursion over finite sets or numbers, and the lemmas about
them argue by a least counterexample (`LeastNumber`, `LeastSet`) where a
textbook would use induction.

`PrintfProofs`, for every width of `int` and `long`, every format and every
arguments that are words:

* `NumeralsCorrect`: `Spec => NumeralsReadBack`, if the decimal digits of the largest
  `long` fit the buffer of `print_uint`; then no numeral of any argument, the
  absolute value of the least `long` included, has more.
* `NumeralsCorrectInBuffer`: the same, if the buffer has two characters for each nibble,
  as in the code: 32 for 16.

`PrintfAssumption` says of strings that something lies at every address but
0, up to a terminator: `kvprintf` trusts its callers with `%s`. No invariant worth
the name is needed (`PrintfInv`: arguments are words); the work is in the
numbers. `DigitsOf` says of the loop of `print_uint` that for any number
it leaves decimal digits without a zero in front, that reading them from the left
gives the number back, and that a number below the `m`-th power of ten has at most
`m` of them; `HexReads` does it for `print_hex`, whose reader has after `k` digits
what a shift by the remaining ones leaves.

The powers, the loop of `print_uint` and the reader of a numeral are recursive
functions. No induction theorem of the library can be used, since those have
an operator as parameter. `Numbers` replaces them by statements about
sets: a set that has a number whenever it has all smaller ones has all
(`Induction`), and a function defined from its value at a smaller number exists
(`Recursion`, by approximations). Both follow from the least element of a set.

Only model-checked: all liveness (`CallsReturn` of `KernelMemory` and of
`KHeap`, whose search must end, `KeysServed`, `KernelIdles`), which TLAPS cannot
prove under fairness. Every other property of the passing runs is
stated by a theorem.

## What is not modelled

* `boot.asm`, `gdt.c`, `linker.ld`: straight-line setup; what they establish is
  in the constants of `PmmBoot` and `Paging`. `multiboot2.h` is declarations.
* Colours; `clear_screen` and `set_cursor`, which nobody calls.
* The saved registers and the text of exception messages; exceptions other than
  those a stray interrupt causes; spurious interrupts of the controllers and NMI.
* Interrupts during a call of the memory subsystem: no handler of the kernel
  allocates or maps memory, so they only delay the call. A kernel whose handlers
  did would find that `liballoc_lock` does nothing.
* A machine without an ELF tag (a panic).
* Contents of blocks (`liballoc_memcpy`, `liballoc_memset`), liballoc's warning
  and error counters, frees of addresses that were never returned.
* The unused flags of page table entries, and the accessed and dirty bits.

## Plan

1. Done: memory management with an abstract specification for each layer;
   interrupts, keyboard and console with theirs; proofs about the PMM, `init_pmm`
   and the running kernel.
2. A module that runs `KHeap` on `VMM` instead of on the abstract page heap.
3. Done: proofs about `KernelMemory` and `KHeap`, with the bound on the frames
   that boot needs, and about the screen.
4. Done: the proof of `NumeralsReadBack`, for every width of `int` and `long`.
