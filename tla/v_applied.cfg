SPECIFICATION MALSpec
CONSTANTS
  Feedback = {e1, e2}
  StreakLimit = 2
  MaxRuns = 2
  MaxGens = 2
  Incidents = {}
  MaxFaults = 0
PROPERTY AppliedIsRead
CHECK_DEADLOCK FALSE
