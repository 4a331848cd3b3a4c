SPECIFICATION Spec
CONSTANTS
  Sites = {1, 2, 3}
  Declarable = {}
  HandMade = {1, 2, 3}
  Roles = {"upf-only"}
  Pins = {241}
  PoolSize = 2
  Start <- SameStart
  MaxEdits = 3
  MaxFaults = 1
INVARIANTS TypeOK CollisionExplained

CHECK_DEADLOCK FALSE
