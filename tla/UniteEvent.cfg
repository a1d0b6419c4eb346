SPECIFICATION FairSpec
CONSTANTS
  MaxClients = 3
  FD_LIMIT = 2
  PIPE_CAPACITY = 2
  SIGNALS_SIZE = 3
  MaxSignals = 4
CHECK_DEADLOCK FALSE
INVARIANTS
  TypeOK
  ReportsAreCurrent
  NoSignalLost
  StopsForAReason
PROPERTY
  StopRequestHonoured
