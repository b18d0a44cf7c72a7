SPECIFICATION MCSpec
CONSTANTS
  Nums = {1}
  Keys = {0}
  NoKey = 0
  Uses <- AnyUses
  Calls = {c1}
  MaxVersions = 3
  Sizes = {1, 2}
  Events = {"restart"}
INVARIANT OneActive
CHECK_DEADLOCK FALSE
