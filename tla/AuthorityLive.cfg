CONSTANTS
  Operators = {o1}
  Loops = {l1}
  Marks = {}
  MaxEpoch = 4
  None = None
SPECIFICATION FairSpec
PROPERTIES NobodyStuck
CHECK_DEADLOCK FALSE
