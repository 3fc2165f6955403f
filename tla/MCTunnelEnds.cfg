CONSTANTS
  Dial = {d1, d2}
  Closer = {k1, k2}
  Caller = {u1}
  ReadCap = 1
  MaxData = 2
  c1 = c1
  c2 = c2
  Cap = 1
  Window = 1
SPECIFICATION EndsSpec
INVARIANTS EndsAreSound BytesAreWhole SlotsAreKept
PROPERTIES TunnelsEnd ReusableReturns DrainsBeforeClosing EndpointsAreReleased
CHECK_DEADLOCK FALSE
