CONSTANTS
  Operators = {o1, o2}
  Loops = {l1, l2}
  Marks = {m1}
  MaxEpoch = 4
  None = None
SPECIFICATION Spec
SYMMETRY Symmetry
INVARIANTS EpochsAgree FenceHolds ExclusiveOwned
CHECK_DEADLOCK FALSE
