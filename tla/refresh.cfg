SPECIFICATION FairSpec
CONSTANTS
  Pods = {p1, p2}
  Callers = {c1, c2}
  None = None
  MaxTokens = 3
PROPERTIES AtomicRotation EveryWaiterAnswered
INVARIANTS DeadForCause ServedInTurn PeerUnharmed
CHECK_DEADLOCK FALSE
