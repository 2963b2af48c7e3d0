CONSTANTS
  Byte = {0, 4, 5, 10}
  Other = 10
  MAX_REQUEST_LENGTH = 9999
  MaxBytes = 9
SPECIFICATION Spec
CHECK_DEADLOCK FALSE
ACTION_CONSTRAINT OneOdd
INVARIANTS
  TypeOK
  InBuffer
  CutsDoNotMatter
PROPERTY EveryByteIsRead
