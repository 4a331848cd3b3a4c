SPECIFICATION Spec
CONSTANTS
  Edges = {"a"}
  MaxEdits = 2
  MaxMoves = 2
  MaxFaults = 0
INVARIANTS FinalizerGates
CHECK_DEADLOCK FALSE
