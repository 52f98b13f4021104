SPECIFICATION Spec
CONSTANTS
  Clients = {c1, c2}
  MaxConns = 2
  SIZE = 1
  MAXLINE = 2
  Files = 2
  OPEN_MAX = 3
  MAXSIZE = 2
  EPOLLEVENTS = 1
CHECK_DEADLOCK FALSE
PROPERTY
  ClientsServed
