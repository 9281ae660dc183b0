SPECIFICATION Spec
CONSTANTS
  ExecutionModes = {"hardware", "shadow"}
  MaxSession = 1
  MaxSeq = 1
  MaxGeneration = 2
  None = None
CHECK_DEADLOCK FALSE
INVARIANT HoldAdmits
