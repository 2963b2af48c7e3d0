CONSTANTS
  PtrSize = 8
  Cell = {c1, c2}
  Zero = zero
  Byte <- MCByte
  Addr <- MCAddr
  Path = {p1, p2}
  Nick = {n1, n2}
  BadNick = {badnick}
  MAX_NUM = 1
  MAX_USERS = 2
  Null = NULL
  Freed = freed
SPECIFICATION Spec
CHECK_DEADLOCK FALSE
INVARIANTS
  NeverUndefined
  OkokMeansRegistered
PROPERTIES
  KeepsPromise
  HandlersEnd
  ClosedClientsAreEvicted
