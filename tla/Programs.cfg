SPECIFICATION FairSpec
CHECK_DEADLOCK FALSE
INVARIANTS
  TypeOK
  ConnectHonest
PROPERTIES
  UrgentNoticed
  ComeToRest
