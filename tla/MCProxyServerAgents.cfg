CONSTANTS
  f1 = f1
  f2 = f2
  d1 = d1
  d2 = d2
  b1 = b1
  b2 = b2
  a1 = a1
  a2 = a2
  NoDial = NoDial
  NoBackend = NoBackend
  Frontend = {f1, f2}
  Dial = {d1, d2}
  Backend = {b1, b2}
  Agent = {a1, a2}
  FrontendOf <- OneStreamEach
  AgentOf <- OwnAgents
  HttpFrontend = {}
  DialTimeout = FALSE
  FrontendEnds = {}
  BackendEnds = {"broken"}
  MaxConn = 1
  MaxSend = 1
  MaxData = 1
  StrayConn = {}
SPECIFICATION Spec
SYMMETRY Automorphisms
INVARIANTS
  RoutedToItsClient
  LostAgentIsSettled
CHECK_DEADLOCK FALSE
