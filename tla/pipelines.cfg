SPECIFICATION MCSpec
CONSTANTS
  s1 = s1
  s2 = s2
  c1 = c1
  c2 = c2
  a1 = a1
  a2 = a2
  Artifacts = {a1, a2}
  Servers = {s1}
  Calls = {c1, c2}
  Host <- SameProcess
  MaxTries = 1
  Environment = {"crash", "persist_error", "raise", "retract", "purge"}
  MaxCrashes = 1
  Nobody = Nobody
  Sources = {u1}
  Parts = {p1, p2}
  Runs = {r1, r2, r3}
  MaxEpisodes = 2
  Overlap = "parts"
  Faults = {"canon", "aggregate", "crash"}
  Feedback = {e1, e2}
  StreakLimit = 2
  MaxRuns = 2
  MaxGens = 2
  Incidents = {"crash", "io_error"}
  MaxFaults = 2
INVARIANTS
  SingleFlight
  VectorsMatch
  DocTypeOK
  EpisodeIdsDiffer
  
  
  OneRunPerMessage
  MALTypeOK
  
  
CHECK_DEADLOCK FALSE
