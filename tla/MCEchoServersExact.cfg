SPECIFICATION Safety
CONSTANTS
  Clients = {c1, c2}
  MaxConns = 3
  SIZE = 2
  MAXLINE = 1
  Files = 3
  OPEN_MAX = 3
  MAXSIZE = 3
  EPOLLEVENTS = 2
CHECK_DEADLOCK FALSE
INVARIANT
  EpollEchoExact
