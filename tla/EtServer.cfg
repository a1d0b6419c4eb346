SPECIFICATION FairSpec
CONSTANTS
  Clients = {c1, c2, c3}
  NoClient = NoClient
  FD_LIMIT = 2
  MAX_EVENT_NUMBER = 2
  BUFFER_SIZE = 1
  MaxSend = 2
  Senders = {c1}
  Resetters = {c1}
CHECK_DEADLOCK FALSE
INVARIANTS
  TypeOK
  NoStrandedInput
PROPERTIES
  ClosesOnlyDeparted
  EverythingRead
  DepartureClosed
