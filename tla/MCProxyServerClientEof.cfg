CONSTANTS
  f1 = f1
  f2 = f2
  d1 = d1
  d2 = d2
  b1 = b1
  b2 = b2
  a1 = a1
  a2 = a2
  NoDial = NoDial
  NoBackend = NoBackend
  Frontend = {f1}
  Dial = {d1}
  Backend = {b1}
  Agent = {a1}
  FrontendOf <- OnlyDial
  AgentOf <- OneAgent
  HttpFrontend = {}
  DialTimeout = FALSE
  FrontendEnds = {"eof"}
  BackendEnds = {"broken"}
  MaxConn = 1
  MaxSend = 1
  MaxData = 1
  StrayConn = {}
SPECIFICATION Spec
INVARIANTS
  StreamLeavesNothing
CHECK_DEADLOCK FALSE
