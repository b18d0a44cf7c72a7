SPECIFICATION FairSpec
CONSTANTS
  s1 = s1
  s2 = s2
  c1 = c1
  c2 = c2
  a1 = a1
  a2 = a2
  Artifacts = {a1}
  Servers = {s1}
  Calls = {c1, c2}
  Host <- SameProcess
  MaxTries = 2
  Environment = {"crash", "persist_error", "raise", "retract", "purge", "redact", "reload"}
  MaxCrashes = 1
  Nobody = Nobody
PROPERTY BuildsEnd
CHECK_DEADLOCK FALSE
