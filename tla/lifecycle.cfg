SPECIFICATION MCSpec
CONSTANTS
  OldNums <- OldLists
  Incidents = {"crash", "raise"}
  Nums = {1, 2, 3}
  Keys = {1, 2}
  NoKey = 0
  Uses <- OwnUses
  Calls = {c1, c2}
  MaxVersions = 4
  Sizes = {1, 2}
  Events = {"timeout", "empty", "edit", "retract", "purge", "redact", "restart"}
  Handles = {h1, h2}
  Readers = {r1, r2}
  Groups = {m1, m2}
  PageSize = 2
  MaxPages = 2
  MaxCandidates = 5
INVARIANTS
  MigrationTypeOK
  OneActive
  ActiveIsSaved
  MigratedIsStored
  Importable
  ContinuationTypeOK
  ReadInOrder
  ReadByItsCaller
SYMMETRY Symmetry
CHECK_DEADLOCK FALSE
