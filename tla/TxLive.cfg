CONSTANTS
  Calls = {c1, c2}
  Categories = {}
  Modes = {"cpv", "impedance"}
  Priorities = {0, 2}
  Closing = TRUE
  Joints = 1
  MaxEpoch = 1
  MaxRev = 1
  MaxGen = 0
  ResultLimit = 9
  ResultKeep = 9
  None = None
SPECIFICATION FairSpec
PROPERTIES EveryoneAnswered
CHECK_DEADLOCK FALSE
