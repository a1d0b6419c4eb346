SPECIFICATION FairSpec
CONSTANTS
  ann = ann
  bob = bob
  Clients = {ann, bob}
  PipeStdin = {bob}
  BUFFER_SIZE = 2
  PIPE_SIZE = 2
  SNDBUF = 1
  MaxType <- MCMaxType
  MaxHeard <- MCMaxHeard
CHECK_DEADLOCK FALSE
INVARIANTS
  TypeOK
  ShownInOrder
  BlocksOnlyAfterEof
PROPERTY
  PassesBothWays
