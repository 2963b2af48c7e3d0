CONSTANTS
  Clients = {c1}
  NoWait = {TRUE, FALSE}
  Nick = {n1}
  LongNick = {long}
  NoNick = none
  File = {f1}
  LongFile = {}
  PartsOf <- MCPartsOf
  MAX_NUM = 3
  Null = NULL
  Lines <- MCLines
  MaxLines = 2
  Packets <- MCPackets
  MaxDownloads = 4
  FileIds = {0, 1, 2, 3}
SPECIFICATION Spec
CHECK_DEADLOCK FALSE
CONSTRAINTS
  OneFileKept
  TypesOrReceives
INVARIANTS
  TypeOK
  NothingUnderNoId
  CursorInHistory
  
  DownloadsApart
