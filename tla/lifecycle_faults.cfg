SPECIFICATION Spec
CONSTANTS
  Seeds = {s1, s2}
  Workers = {w1, w2}
  RetryLoop = retry
  NoSeed = none
  RetryMax = 2
  DefaultRetryMax = 2
  Budget <- CrashTwiceRestOnce
CONSTRAINT Bounded
INVARIANTS RetryOwned ReclaimedOwned SingleChain RetryBudget
PROPERTY SettledStays
CHECK_DEADLOCK FALSE
