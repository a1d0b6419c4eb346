SPECIFICATION Spec
CONSTANTS
  Clients = {c1, c2}
  NoClient = NoClient
  FD_LIMIT = 2
  MaxWorkers = 2
  BUFFER_SIZE = 1
  MaxSend = 1
  ArgRace = TRUE
SYMMETRY ClientSymmetry
CHECK_DEADLOCK FALSE
INVARIANT
  OneWorkerPerSocket
