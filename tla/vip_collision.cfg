SPECIFICATION Spec
CONSTANTS
  Sites = {1, 2}
  Declarable = {}
  HandMade = {1, 2}
  Roles = {"upf-only"}
  Pins = {}
  PoolSize = 2
  Start <- SameStart
  MaxEdits = 2
  MaxFaults = 0
INVARIANT CollisionFree

CHECK_DEADLOCK FALSE
