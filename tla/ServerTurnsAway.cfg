CONSTANTS
  PtrSize = 8
  Cell = {c1, c2, c3, c4}
  Zero = zero
  Byte <- MCByte
  Addr <- MCAddr
  Path = {p1, p2, p3, p4}
  Nick = {n1, n2, n3, n4}
  BadNick = {badnick}
  MAX_NUM = 3
  MAX_USERS = 4
  Null = NULL
  Freed = freed
SPECIFICATION Spec
CHECK_DEADLOCK FALSE
SYMMETRY Symmetry
ACTION_CONSTRAINT ArrivesAndStays
INVARIANT OkokMeansRegistered
