CONSTANTS
  s1 = s1
  s2 = s2
  Server = {s1, s2}
  ServerCount <- Counts
  SyncForever = TRUE
  Source = "max"
  Timely = TRUE
  MaxClient = 2
  Collector = {s1}
  LeaseDuration = 2
  Agent = {a1, a2}
  Request = {d1, d2}
  Window = 2
  DialTimeout = 4
SPECIFICATION MembershipSpec
INVARIANTS MembershipIsSound
PROPERTIES NothingGoesEarly ClientsSettle LeasesSettle ShutdownReturns NobodyStarves
CHECK_DEADLOCK FALSE
