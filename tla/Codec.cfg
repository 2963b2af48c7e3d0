CONSTANTS
  Base = 4
  SIZEOF_NUM = 2
  SIZEOF_LONGNUM = 3
  NICK_MAX_LENGTH = 3
  PIPE_MAX_LENGTH = 4
  FILE_MAX_LENGTH = 2
  PASS_MAX_LENGTH = 1
  Null = NULL
  Num = {0, 6, 15, 16}
  Longnum = {0, 63, 64}
  Text <- MCText
  Noise = {0, 3, 4, 6, 14, 15}
SPECIFICATION Spec
CHECK_DEADLOCK FALSE
INVARIANTS
  NodataExactly
  RoundTrip
  AcceptedIsCanonical
