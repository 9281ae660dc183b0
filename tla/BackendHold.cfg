CONSTANTS
 Attempts = 2
 Lossy = FALSE
 Emergency = FALSE
 Starts <- AnyStart
SPECIFICATION Spec
INVARIANT HoldIsFollower
CHECK_DEADLOCK FALSE
