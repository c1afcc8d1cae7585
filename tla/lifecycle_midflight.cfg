SPECIFICATION Spec
CONSTANTS
  Seeds = {s1}
  Workers = {w1}
  RetryLoop = retry
  NoSeed = none
  RetryMax = 1
  DefaultRetryMax = 2
  Budget <- CrashOnce
INVARIANT MidFlightReclaimed
CHECK_DEADLOCK FALSE
