CONSTANTS
  PageSize = 20
  PageCount = 1
  HeapPages = 3
  MajorHdr = 2
  MinorHdr = 2
  ALIGNMENT = 2
  ALIGN_INFO = 2
  UINT = 64
  SIZE_T = 1048576
  ReqSizes = {3, 64}
  Counts = {1}
SPECIFICATION Spec
PROPERTY NextOneIsOkay
