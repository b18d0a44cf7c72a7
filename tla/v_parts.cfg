SPECIFICATION DocSpec
CONSTANTS
  Sources = {s1}
  Parts = {p1, p2}
  Runs = {r1, r2, r3}
  MaxEpisodes = 1
  Overlap = "parts"
  Faults = {"extract"}
INVARIANT EpisodeIdsDiffer
CHECK_DEADLOCK FALSE
