CONSTANTS
  PtrSize = 8
  Cell = {c1, c2}
  Page = {g1, g2}
  Zero = zero
  Byte <- MCByte
  Addr <- MCAddr
  Path = {p1, p2, p3}
  Nick = {n1, n2, n3}
  BadNick = {badnick}
  MAX_NUM = 2
  MAX_USERS = 3
  Null = NULL
  Freed = freed
SPECIFICATION Spec
CHECK_DEADLOCK FALSE
SYMMETRY Symmetry
INVARIANTS
  TypeOK
  BroadcastMissesNobody
  DistinctUsers
  InOrder
PROPERTIES
  ByeeForgets
  
