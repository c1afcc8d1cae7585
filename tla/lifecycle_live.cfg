SPECIFICATION FairSpec
CONSTANTS
  Seeds = {s1, s2}
  Workers = {w1}
  RetryLoop = retry
  NoSeed = none
  RetryMax = 1
  DefaultRetryMax = 1
  Budget <- StopOnce
PROPERTIES DiscoveredRelayed StopReturns
CHECK_DEADLOCK FALSE
