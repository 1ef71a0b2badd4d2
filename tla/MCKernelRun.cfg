CONSTANTS
  VGA_WIDTH = 2
  VGA_HEIGHT = 2
  TabStop = 2
  Lines = {0, 1, 12}
  BiosMasks <- MCMasks
  Scancodes = {1, 3, 9}
  ReleaseBit = 8
  scancode_to_ascii <- MCTable
  TextBefore <- MCBefore
  TextAfter <- MCAfter
  MaxKeys = 2
SPECIFICATION Spec
INVARIANTS
  TypeOK
  CursorOnScreen
  LineMeansByte
  InServiceIsHandled
  
  ScreenShowsTail
PROPERTIES
  ImplementsKeyStream
  KeysServed
  KernelIdles
\* The kernel halts for good when it panics.
CHECK_DEADLOCK FALSE
