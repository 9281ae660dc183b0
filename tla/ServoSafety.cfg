SPECIFICATION FairSpec
CONSTANTS
  ExecutionModes = {"hardware", "shadow"}
  MaxSession = 2
  MaxSeq = 2
  MaxGeneration = 2
  None = None
CHECK_DEADLOCK FALSE
INVARIANTS TypeOK StrictHold HoldIsQuiet DoorsAgree
PROPERTIES FaultLatched BrakeEnds
