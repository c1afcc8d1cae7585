SPECIFICATION Spec
CONSTANTS
  Kinds = {"qb"}
  Tabs = {t1}
  Creds = {"c1"}
  Mask = "***"
  Empty = ""
  Keys = {"k1"}
  Tiers = {"critical"}
PROPERTY BlankKeepsPassword
CHECK_DEADLOCK FALSE
