CONSTANTS
  PAGE_SIZE = 2
  MaxPages = 10
  NumBits = 16
  BootUsed <- MCBootUsed
SPECIFICATION Spec
INVARIANTS TypeOK FramesAccounted
PROPERTY ImplementsFrameAllocator
