SPECIFICATION FairPartsSpec
CONSTANTS
  Targets = {t1, t2}
  Relays = {r1}
  MaxTargetConcurrency = 2
  RetryMax = 1
  DefaultRetryMax = 2
  Enabled = {"crash", "cancel", "resend", "retire", "elsewhere"}
  Seeds = {s1, s2}
  Always = {"seeders"}
  Optional = {"ratio"}
  MaxUpsets = 1
INVARIANT StatusesAgree
PROPERTIES OncePerTarget RetirementSound SeedsGetOn
CHECK_DEADLOCK FALSE
