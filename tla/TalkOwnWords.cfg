SPECIFICATION Spec
CONSTANTS
  Clients = {c1, c2, c3}
  NoClient = NoClient
  USER_LIMIT = 2
  FD_LIMIT = 4
  BACKLOG = 0
  BUFFER_SIZE = 1
  MaxSend = 1
  Leavers = {c1, c2, c3}
  SlowReaders = {}
  RstDiscards = FALSE
SYMMETRY ClientSymmetry
CHECK_DEADLOCK FALSE
INVARIANT OnlyOthersWords
