SPECIFICATION Safety
CONSTANTS
  Clients = {c1, c2, c3}
  MaxConns = 3
  SIZE = 2
  MAXLINE = 2
  Files = 3
  OPEN_MAX = 3
  MAXSIZE = 3
  EPOLLEVENTS = 2
CHECK_DEADLOCK FALSE
SYMMETRY Symmetry
INVARIANTS
  TypeOK
  AllWatched
  SlotsMatch
  BeyondNeedsAccepts
  WaitsOnlyOnFresh
  EchoFromBatch
PROPERTY
  IsEchoService
