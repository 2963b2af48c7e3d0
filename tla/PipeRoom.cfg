CONSTANTS
  a = a
  b = b
  r = r
  t = t
  Clients = {a, b, r, t}
  To <- MCTo
  Parts = 4
  CapS = 2
  CapC = 1
  MaxLines <- ReceiverTalks
SPECIFICATION FairSpec
CHECK_DEADLOCK FALSE

  
PROPERTIES
  WritersReturn
