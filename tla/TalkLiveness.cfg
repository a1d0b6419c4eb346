SPECIFICATION FairSpec
CONSTANTS
  Clients = {c1, c2}
  NoClient = NoClient
  USER_LIMIT = 2
  FD_LIMIT = 4
  BACKLOG = 0
  BUFFER_SIZE = 1
  MaxSend = 2
  Leavers = {c2}
  SlowReaders = {c2}
  RstDiscards = FALSE
CHECK_DEADLOCK FALSE
PROPERTIES
  ImplementsRoom
  DepartureReclaimed
  QuietMemberIsWritten
