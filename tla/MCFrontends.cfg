CONSTANTS
  c1 = c1
  c2 = c2
  Conn = {c1, c2}
  NoConn = NoConn
  MaxBuffered = 1
  Window = 1
  Loads <- ConnLoads
  DialTimeout = TRUE
  QueueSizes = {0, 1}
  MaxSend = 3
  MaxRead = 1
  Backend = {b1, b2}
  Request = {r1, r2}
  NoBackend = NoBackend
  MaxPool = 2
SPECIFICATION FrontendsSpec
INVARIANTS FrontendsAreSound ConnBytesAreWhole ConnsAreAccountedFor ResponseIsWhole RequestsKeepToTheirAgent
PROPERTIES ConnsAreReleased HttpStreamsEnd
CHECK_DEADLOCK FALSE
