CONSTANTS
  PtrSize = 8
  Byte <- MCByte
  MIN_ARLIST = 1
  Key <- MCKey
  MaxLen = 5
SPECIFICATION Spec
INVARIANTS
  TypeOK
  SizeFitsBlock
  ExactBelowThree
PROPERTY HalvingLeavesRoom
