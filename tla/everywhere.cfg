SPECIFICATION Spec
CONSTANTS
  NoEnterprise = NoEnterprise
  None = None
  Identities <- TwoTeams
  MaxTime = 2
  StateIds = {}
  TicketIds = {k1}
  GenIds = {g1, g2}
  Channels = {c1}
  StateTTL = 1
  Retention = 1
  PendingTTL = 2
  TtlPolicy = {}
  Modes = {FALSE}
  MaxRefresh = 0
  Lockdown = FALSE
  Disconnects = {}
  Offboards = {}
  Sweeps = {p1}
  Revokers = {}
  Faults = TRUE
INVARIANTS EverywhereFinal
SYMMETRY Interchangeable
CHECK_DEADLOCK FALSE
