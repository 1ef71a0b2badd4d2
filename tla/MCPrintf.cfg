CONSTANTS
  INT = 16
  LONG = 256
  BUF = 4
  IntNibbles = 1
  LongNibbles = 2
  Chars <- MCChars
  Strings <- MCStrings
  Calls <- MCCalls
SPECIFICATION Spec
PROPERTIES
  NumeralsReadBack
