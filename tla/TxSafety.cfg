CONSTANTS
  Calls = {c1, c2}
  Categories = {hold}
  Modes = {"cpv", "impedance"}
  Priorities = {0, 2}
  Closing = FALSE
  Joints = 2
  MaxEpoch = 1
  MaxRev = 3
  MaxGen = 1
  ResultLimit = 2
  ResultKeep = 1
  None = None
SPECIFICATION MCSpec
SYMMETRY Symmetry
INVARIANTS TypeOK PendingIsHeld StaleBound NoMitAfterFailure TurnsKept
PROPERTIES ResultsFinal ImplementsChannel TransitionIsolated
