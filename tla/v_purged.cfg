SPECIFICATION Spec
CONSTANTS
  s1 = s1
  s2 = s2
  c1 = c1
  c2 = c2
  a1 = a1
  a2 = a2
  Artifacts = {a1, a2}
  Servers = {s1}
  Calls = {c1, c2}
  Host <- SameProcess
  MaxTries = 5
  Environment = {"purge"}
  MaxCrashes = 0
  Nobody = Nobody
INVARIANT PurgedStaysGone
CHECK_DEADLOCK FALSE
