SPECIFICATION Spec
CONSTANTS
  p1 = p1
  p2 = p2
  Clients = {}
  NoClient = NoClient
  FD_LIMIT = 2
  TCP_BUFFER_SIZE = 3
  MaxSend = 3
  Leavers = {}
  SlowReaders = {}
  Peers <- TwoPeers
  NUL = NUL
  UDP_BUFFER_SIZE = 3
  Datagrams <- LongShortEmpty
  MaxArrivals = 3
CHECK_DEADLOCK FALSE
INVARIANT
  NothingLeftBehind
