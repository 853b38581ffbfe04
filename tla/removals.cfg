SPECIFICATION Spec
CONSTANTS
  NoEnterprise = NoEnterprise
  None = None
  Identities <- OneIdentity
  MaxTime = 3
  StateIds = {}
  TicketIds = {k1}
  GenIds = {g1, g2}
  Channels = {c1}
  StateTTL = 1
  Retention = 1
  PendingTTL = 2
  TtlPolicy = {}
  Modes = {FALSE}
  MaxRefresh = 0
  Lockdown = FALSE
  Disconnects = {d1}
  Offboards = {p1}
  Sweeps = {}
  Revokers = {}
  Faults = TRUE
SYMMETRY Interchangeable
INVARIANTS IInv OffboardFinal DisconnectFinal ClaimedOnce
PROPERTIES DisconnectExact
CHECK_DEADLOCK FALSE
