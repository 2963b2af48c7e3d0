CONSTANTS
  PtrSize = 4
  Cell = {c1, c2}
  Zero = zero
  Byte <- MCByte
  Addr <- MCAddr
  Path = {p1, p2}
  Nick = {n1, n2}
  BadNick = {}
  MAX_NUM = 2
  MAX_USERS = 3
  Null = NULL
  Freed = freed
  Parts = {0, 2}
  MAX_TRANSFER = 3
SPECIFICATION RelaySpec
CHECK_DEADLOCK FALSE
SYMMETRY Symmetry
ACTION_CONSTRAINT TwoAtATime
PROPERTIES
  PartsReachReceiver
  OnlyLastPartEnds
