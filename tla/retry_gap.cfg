SPECIFICATION Spec
CONSTANTS
  Seeds = {s1}
  Enqueuers = {e1}
  RetryMax = 2
  Backoff <- TwoDelays
  MaxTime = 3
  MaxEnqueues = 2
INVARIANT BlocksOnlyWhenEmpty
CHECK_DEADLOCK FALSE
