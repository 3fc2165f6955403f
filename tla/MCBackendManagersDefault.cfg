CONSTANTS
  b1 = b1
  b2 = b2
  b3 = b3
  a1 = a1
  a2 = a2
  NoBackend = NoBackend
  Backend <- MCBackend
  Ident <- MCIdent
  AgentID <- MCAgentID
  DestIDs <- MCDestIDs
  DefaultRoute <- MCDefaultRoute
  Strategies <- RandomRouting
SPECIFICATION FairSpec
INVARIANTS
  TypeOK
  IndexIsSound
  NotifiedIsNotRouted
  FallbackIsLastResort
  RegisteredWhileUp
PROPERTY SelectionReturns
