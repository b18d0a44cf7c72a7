SPECIFICATION Spec
CONSTANTS
  m1 = m1
  m2 = m2
  m3 = m3
  Messages = {m1, m2, m3}
  SyncMsgs = {m3}
  Content <- OneOther
  Servers = {s1}
  MaxAttempts = 2
  BatchSize = 2
  Environment = {"crash", "raise", "canonicalization_error", "snapshot", "retract", "purge", "reload"}
  MaxCrashes = 1
  NoMsg = NoMsg
INVARIANT SameContentOnce
PROPERTY KeepsContract
CHECK_DEADLOCK FALSE
