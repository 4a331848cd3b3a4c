SPECIFICATION FairSpec
CONSTANTS
  Edges = {"a"}
  MaxEdits = 3
  MaxMoves = 2
  MaxFaults = 1
INVARIANTS TypeOK
PROPERTIES TornDownBeforeRelease N4Tracks ExportHeals DeletionCompletes
CHECK_DEADLOCK FALSE
