CONSTANTS
  Server = {s1, s2}
  Client = {c1, c2}
  ServerName = {x1, x2}
  ClientName = {y1, y2}
  LINK = LINK
  None = None
SPECIFICATION Spec
CHECK_DEADLOCK FALSE
INVARIANTS
  TypeOK
  Reachable
  NothingLeft
PROPERTY NobodyTouchesOthers
