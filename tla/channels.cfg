SPECIFICATION ChannelsSpec
CONSTANTS
  Members = {m1}
  Providers = {p1}
  Requests = {r1, r2, r3}
  MaxClock = 3
  TicketTTL = 2
  NoCred = NoCred
SYMMETRY Interchangeable
INVARIANTS IdentityHolds SetupNotOvertaken DelayedDisconnectSpares
CHECK_DEADLOCK FALSE
