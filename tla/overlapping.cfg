SPECIFICATION MCSpec
CONSTANTS
  Nums = {1, 2}
  Keys = {0, 1}
  NoKey = 0
  Uses <- AnyUses
  Calls = {c1, c2}
  MaxVersions = 3
  Sizes = {1, 2}
  Events = {"overlap", "timeout", "empty", "edit", "retract", "purge"}
SYMMETRY Symmetry
INVARIANTS
  SessionTypeOK
  OnePerKey
CHECK_DEADLOCK FALSE
