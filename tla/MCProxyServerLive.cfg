CONSTANTS
  f1 = f1
  f2 = f2
  d1 = d1
  d2 = d2
  b1 = b1
  b2 = b2
  a1 = a1
  a2 = a2
  NoDial = NoDial
  NoBackend = NoBackend
  Frontend = {f1}
  Dial = {d1}
  Backend = {b1}
  Agent = {a1}
  FrontendOf <- OnlyDial
  AgentOf <- OneAgent
  HttpFrontend = {f1}
  DialTimeout = TRUE
  FrontendEnds = {"eof", "broken"}
  BackendEnds = {"broken", "retire"}
  MaxConn = 1
  MaxSend = 2
  MaxData = 1
  StrayConn = {}
SPECIFICATION FairSpec
PROPERTIES
  PendingIsResolved
  StreamsAreCleaned
CHECK_DEADLOCK FALSE
