SPECIFICATION PartsSpec
CONSTANTS
  Pulls = {p1, p2}
  Hashes = {h1, h2}
  None = none
  MaxAttempts = 5
  Releases = {t1, t2}
  Hashed = t1
  Window = 1
  MaxEdits = 1
  MaxFaults = 1
  Targets = {s1, s2}
  Relays = {r1, r2}
  Site = s1
  MaxDepth = 2
  MaxTokens = 6
  Plain = {"Show", "cn"}
  Spelled = {"1080p", "x265", "5.1", "WEB-DL", "Complete", "REPACK", "S01E07", "S01-S02",
             "Season 1-2", "di7ji"}
  Tails = {"Grp", "AAC", "Final"}
  MaxWords = 3
  Vocabulary = {"nl", "word", "note", "ref", "script", "/script", "logo", "br", "title", "Chinese"}
  MaxLength = 4
  Malformed = malformed
INVARIANTS TypesOK VerifiedOnly LimitRespected PromotionHonoured TorrentsKept TitleRead DescriptionFaithful UploadFaithful PublishedOnSite
PROPERTY SeedPerItem
CHECK_DEADLOCK FALSE
