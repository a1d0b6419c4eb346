SPECIFICATION FairSpec
CONSTANTS
  Clients = {c1, c2}
  NoClient = NoClient
  FD_LIMIT = 2
  MaxWorkers = 3
  BUFFER_SIZE = 1
  MaxSend = 2
  ArgRace = FALSE
CHECK_DEADLOCK FALSE
INVARIANTS
  TypeOK
  OneWorkerPerSocket
  NoLostWakeup
PROPERTIES
  DescriptorIsStable
  EverythingRead
  DepartureClosed
