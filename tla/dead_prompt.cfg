SPECIFICATION PromptSpec
CONSTANTS
  NoEnterprise = NoEnterprise
  None = None
  Identities <- OneIdentity
  MaxTime = 3
  StateIds = {s1}
  TicketIds = {}
  GenIds = {g1}
  Channels = {c1}
  StateTTL = 1
  Retention = 1
  PendingTTL = 2
  TtlPolicy = {}
  Modes = {FALSE}
  MaxRefresh = 0
  Lockdown = FALSE
  Disconnects = {}
  Offboards = {}
  Sweeps = {}
  Revokers = {}
  Faults = FALSE
INVARIANTS ReusedPromptCanComplete
SYMMETRY Interchangeable
CHECK_DEADLOCK FALSE
