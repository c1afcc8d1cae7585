SPECIFICATION Spec
CONSTANTS
  Duration = 2
  IdleLimit = 3
  MaxRestarts = 1
INVARIANT AbortEarned
CHECK_DEADLOCK FALSE
