CONSTANTS
  Http = {h1}
  Modes = {"rtc", "chunk"}
  OscModes = {"shadow", "hardware"}
  Captures = {TRUE}
  MaxRev = 3
  MaxSession = 1
SPECIFICATION Spec
INVARIANTS NewRunAlone RestIsHeld
PROPERTIES HoldIsLast
