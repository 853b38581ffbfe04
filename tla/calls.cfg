SPECIFICATION CallsFairSpec
CONSTANTS
  Work = {w1, w2}
  Providers = {p1}
  Keys = {p1}
  TheProvider = p1
  Options <- EveryBroker
  Loads <- AloneAndBeside
  Capacity <- One
  Refill <- One
  Cost = 1
  MaxGen = 2
  MaxFlips = 1
  BodyCap = 1
  Sizes = {1, 2}
INVARIANTS Envelope WriteOnce Authorised NoSilentTruncation
PROPERTIES CurrentAtSend EveryCallEnds
CHECK_DEADLOCK FALSE
