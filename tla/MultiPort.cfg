SPECIFICATION FairSpec
CONSTANTS
  p1 = p1
  p2 = p2
  Clients = {c1, c2}
  NoClient = NoClient
  FD_LIMIT = 2
  TCP_BUFFER_SIZE = 3
  MaxSend = 3
  Leavers = {c1}
  SlowReaders = {c2}
  Peers <- TwoPeers
  NUL = NUL
  UDP_BUFFER_SIZE = 3
  Datagrams <- LongShortEmpty
  MaxArrivals = 3
CHECK_DEADLOCK FALSE
INVARIANTS
  TypeOK
  AnswersOwnDatagrams
PROPERTIES
  EchoesStream
  EchoesAll
