SPECIFICATION MCSpec
CONSTANTS
  m1 = m1
  m2 = m2
  s1 = s1
  s2 = s2
  NoMsg = NoMsg
  Messages = {m1, m2}
  SyncMsgs = {m2}
  Content <- SameText
  Servers = {s1, s2}
  MaxAttempts = 3
  BatchSize = 2
  Environment = {"crash", "persist_error", "cli_timeout", "raise", "canonicalization_error", "snapshot", "retract"}
  MaxCrashes = 1
INVARIANTS
  
  WorkerSequential
  StoredNotInFlight
  CompleteIsBacked
  Reclaimable
  OneExtractionPerServer
PROPERTY OwedIsKept
SYMMETRY Symmetry
CHECK_DEADLOCK FALSE
