CONSTANTS
  PageSize = 20
  PageCount = 1
  HeapPages = 2
  MajorHdr = 2
  MinorHdr = 2
  ALIGNMENT = 2
  ALIGN_INFO = 2
  UINT = 1024
  SIZE_T = 1048576
  ReqSizes = {0, 3, 14}
  Counts = {1}
SPECIFICATION Spec
INVARIANTS
  TypeOK
  MinorListsSound
  AccountingExact
  BlocksHoldTheirBytes
PROPERTIES
  ImplementsHeapBlocks
