SPECIFICATION FairSpec
CONSTANTS
  m1 = m1
  m2 = m2
  m3 = m3
  Messages = {m1, m2}
  SyncMsgs = {}
  Content <- AllSame
  Servers = {s1, s2}
  MaxAttempts = 2
  BatchSize = 1
  Environment = {"crash", "raise"}
  MaxCrashes = 1
  NoMsg = NoMsg
INVARIANT FailedIsExhausted
PROPERTY Settles
CHECK_DEADLOCK FALSE
