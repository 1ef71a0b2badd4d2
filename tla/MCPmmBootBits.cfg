CONSTANTS
  PAGE_SIZE = 2
  BYTE_BITS = 2
  ONE_GIB = 26
  LOW_END = 4
  Machines <- MCAnySize
SPECIFICATION Spec
INVARIANT OneBitPerPage
