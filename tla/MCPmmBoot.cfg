CONSTANTS
  PAGE_SIZE = 2
  BYTE_BITS = 2
  ONE_GIB = 26
  LOW_END = 4
  Machines <- MCMachines
SPECIFICATION Spec
INVARIANTS
  TypeOK
  HandsOverASoundBitmap
  FreeFramesAreSafe
  NoUsableFrameLost
  BitmapPlacedClear
PROPERTIES
  WritesStayInBitmap
