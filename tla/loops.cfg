SPECIFICATION FairPartsSpec
CONSTANTS
  Seeds = {s1}
  Enqueuers = {e1, e2}
  RetryMax = 2
  Backoff <- TwoDelays
  MaxTime = 5
  MaxEnqueues = 2
  Sources = {f1, f2}
  NoSource = none
  Limit = 3
  MaxShown = 0
  Budget = 1
  QBs = {q1, q2}
  MaxRestarts = 1
  Duration = 2
  IdleLimit = 3
  Trio = {q1, q2, q3}
  None = none
  Amounts = {0, 1}
  MaxTurns = 3
INVARIANTS TypesOK AlertsCurrent SelectionSound SourcesKept SlowJudged
PROPERTIES LoopsServe
CHECK_DEADLOCK FALSE
