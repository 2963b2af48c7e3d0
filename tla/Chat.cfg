CONSTANTS
  PtrSize = 4
  Cell = {a1, a2, a3, a4}
  Zero = zero
  Byte <- MCByte
  Addr <- MCAddr
  Path = {c1, c2}
  n1 = n1
  n2 = n2
  Nick <- MCNick
  BadNick = {}
  MAX_NUM = 2
  MAX_USERS = 3
  Null = NULL
  Freed = freed
  Parts <- MCParts
  MAX_TRANSFER = 3
  NoWait = {FALSE}
  NoNick = none
  f1 = f1
  f2 = f2
  f3 = f3
  File <- MCFile
  LongFile = {f3}
  PartsOf <- MCPartsOf
  Lines <- AnyLine
  MaxLines = 1
SPECIFICATION ChatLive
CHECK_DEADLOCK FALSE
INVARIANTS
  SessionAgrees
  AnswersAreAsked
  RosterCompletes
  FilesWhole
PROPERTY
  AnswersCome
