CONSTANTS
  f1 = f1
  f2 = f2
  d1 = d1
  d2 = d2
  b1 = b1
  b2 = b2
  a1 = a1
  a2 = a2
  NoDial = NoDial
  NoBackend = NoBackend
  Frontend = {f1}
  Dial = {d1}
  Backend = {b1}
  Agent = {a1}
  FrontendOf <- OnlyDial
  AgentOf <- OneAgent
  HttpFrontend = {f1}
  DialTimeout = TRUE
  FrontendEnds = {"broken"}
  BackendEnds = {"broken", "retire"}
  MaxConn = 2
  MaxSend = 3
  MaxData = 1
  StrayConn = {2}
SPECIFICATION Spec
INVARIANTS
  TypeOK
  AnsweredOnce
  OneOwner
  InFlightIsPending
  NoLeakedRemote
  StreamLeavesNothing
  LostAgentIsSettled
CHECK_DEADLOCK FALSE
