SPECIFICATION Spec
CONSTANTS
  NBUFF = 2
  SemItems = 5
  MaxKills = 2
  Producers = {p1, p2}
  Consumers = {k1, k2}
  nitems = 3
  MaxReady = 2
  Echoers = {e1, e2}
  Listeners = {s1, s2}
  Nobody = Nobody
  MaxMsg = 2
  MaxFifos = 4
  Printers = {r1}
  Storers = {t1, t2}
  MaxSegs = 2
  RwReaders = {a1, a2}
  RwWriters = {b1, b2, b3}
  Setters = {q1, q2}
  SegSize = 3
  MsgLens = {1, 2}
  QueueMax = 3
  MaxSent = 5
CHECK_DEADLOCK FALSE
INVARIANTS
  TypeOK
  NoneOverwritten
  ReadyIsTaken
  PrintsIndex
  UnheardNeedsBacklog
  HungNeedsCause
  CalmPrinterPrints
  MessagesKept
  SegmentFilled
  ReceivedInOrder
PROPERTIES
  SemFinishes
  CondConsumes
  SendersEnd
