SPECIFICATION FairPartsSpec
CONSTANTS
  Senders = {c1, c2, c3}
  MaxFailures = 2
  OpenDuration = 2
  MaxTime = 5
  MaxSkips = 1
  Instances = {i1, i2}
  Silent = {i2}
  Topics = {warning}
  Urgent = {critical}
  Subscriptions <- Subscribers
  Callers = {n1, n2}
  Flushers = {f1, f2}
  Stopper = stop
  Window = 2
  Interval = 1
  MaxMessages = 2
  Texts = {a, b}
  Recipients = {r1, r2}
  EditWindow = 3
  MaxFaults = 3
  None = none
INVARIANTS TypesOK RouterConserves MailWhole
PROPERTIES BreakerSound ChatKept NotifierServes
CHECK_DEADLOCK FALSE
