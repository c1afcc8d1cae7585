SPECIFICATION FairSpec
CONSTANTS
  Seeds = {s1}
  Workers = {w1}
  RetryLoop = retry
  NoSeed = none
  RetryMax = 1
  DefaultRetryMax = 2
  Budget <- StopOnce
PROPERTY DroppedRelayed
CHECK_DEADLOCK FALSE
