SPECIFICATION Spec
CONSTANTS
  Requests <- FaultyOrShort
  BUFFER_SIZE = 13
  Errors = 2
CHECK_DEADLOCK FALSE
INVARIANTS
  TypeOK
  ParsesLikeReference
  IndexOrder
  LfAlwaysStray
