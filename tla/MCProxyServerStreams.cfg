CONSTANTS
  f1 = f1
  f2 = f2
  d1 = d1
  d2 = d2
  b1 = b1
  b2 = b2
  a1 = a1
  a2 = a2
  NoDial = NoDial
  NoBackend = NoBackend
  Frontend = {f1, f2}
  Dial = {d1, d2}
  Backend = {b1}
  Agent = {a1}
  FrontendOf <- OneStreamEach
  AgentOf <- OneAgent
  HttpFrontend = {}
  DialTimeout = FALSE
  FrontendEnds = {"broken"}
  BackendEnds = {"broken", "eof"}
  MaxConn = 2
  MaxSend = 1
  MaxData = 0
  StrayConn = {}
SPECIFICATION Spec
SYMMETRY Automorphisms
INVARIANTS
  EndedStreamIsSettled
CHECK_DEADLOCK FALSE
