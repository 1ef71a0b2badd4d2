CONSTANTS
  PAGE_SIZE = 2
  MaxPages = 43
  NumBits = 48
  BootUsed <- MCBootUsed
  Fan = 4
  IdentityPages = 28
  HHDM <- MCHHDM
  KVMA <- MCKVMA
  Sections <- MCSections
  BITMAP_START = 128
  BITMAP_PAGES = 1
  HEAP_START = 66
  HEAP_PAGES = 4
  STACK_START = 144
  STACK_GUARD = 1
  STACK_PAGES = 2
  WORD = 4096
  AllocSizes = {0, 1, 2, 3}
  FreeArgs <- MCFreeArgs
SPECIFICATION Spec
INVARIANTS
  TypeOK
  TablesFormATree
  FrameAccounting
  ExclusiveFrames
  HeapBitmapMatchesTables
  KernelSpaceIntact
  SectionFlagsHonoured
  GuardPageUnmapped
  NoInternalPanic
PROPERTIES
  FreedFrameUnreachable
  ImplementsPageHeap
  ImplementsAddressSpace
  CallsReturn
