CONSTANTS
  Http = {h1}
  Modes = {"chunk"}
  OscModes = {"hardware"}
  Captures = {TRUE}
  MaxRev = 2
  MaxSession = 1
SPECIFICATION Spec
INVARIANTS StopConfirmsHold
