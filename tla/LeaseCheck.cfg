CONSTANTS
  Clients = {c1}
  MaxJob = 2
  Kinds = {"freedrive", "recover"}
  Stalls = FALSE
  MaxToken = 1
  None = None
SPECIFICATION FairSpec
INVARIANTS SingleFlight TakeoverRevokes
PROPERTIES VerdictsStand EverythingEnds
CHECK_DEADLOCK FALSE
