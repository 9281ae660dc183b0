CONSTANTS
  Clients = {c1}
  MaxJob = 1
  Kinds = {"freedrive"}
  Stalls = FALSE
  MaxToken = 2
  None = None
SPECIFICATION FairSpec
PROPERTIES ExpiredHolds
CHECK_DEADLOCK FALSE
