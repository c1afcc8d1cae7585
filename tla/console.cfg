SPECIFICATION FairPartsSpec
CONSTANTS
  Tabs = {t1, t2}
  Passwords = {pa, pb}
  Env = {pb}
  None = none
  Limit = 2
  Window = 2
  MaxFaults = 1
  MaxRestarts = 1
  Kinds = {"source", "target", "qb", "notifier"}
  Creds = {"c1", "c2"}
  Mask = "***"
  Empty = ""
  Keys = {"k1", "k2"}
  Tiers = {"critical", "info"}
  Current = 2
  Handlers = {h1, h2}
  MaxWrites = 1
  Budget = 2
  Callers = {c1, c2}
  MaxExpiries = 2
  MaxOutages = 1
  Levels = {"info", "critical"}
  Choices = {"", "critical"}
  AnyOne = ""
  AnswerSize = 1
  MaxEvents = 3
  MaxLoads = 3
  Statuses = {"seeding", "failed"}
  Shown = {"", "seeding"}
  PageSize = 2
  MaxSeeds = 5
INVARIANTS TypesOK PagesFaithful RestoreCorrect RequestsCheap
PROPERTIES AccountGuarded FormsKeep ConsoleRecovers
CHECK_DEADLOCK FALSE
