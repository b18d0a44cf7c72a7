SPECIFICATION MCSpec
CONSTANTS
  Principals = {p1, p2}
  Swarms = {w1}
  Tokens = {t1, t2}
  Processes = {s1, s2}
  Granted = {"member"}
  MaxRows = 2
  Facts = {f1, f2}
  Late = {f2}
  Shared = {f1}
  Subs = {b1, b2}
  Conns = {n1}
  NoConn = "no connection"
  Sources = {u1}
  Parts = {q1, q2}
  Runs = {d1, d2, d3}
  MaxEpisodes = 2
  Overlap = "none"
  Faults = {"canon", "extract", "crash"}
  c1 = c1
  c2 = c2
  server1 = server1
  Artifacts = {a1, a2}
  Servers = {server1}
  Calls = {c1, c2}
  Host <- OneServer
  MaxTries = 2
  Environment = {"raise", "retract", "purge"}
  MaxCrashes = 0
  Nobody = Nobody
SYMMETRY Symmetry
INVARIANTS
  OneRoot
  CourierTypeOK
  PolledOnce
  NothingSkipped
  Routed
  ReservedOrStored
  ReadyIsCurrent
PROPERTY OnlySeenRowsEnd
CHECK_DEADLOCK FALSE
