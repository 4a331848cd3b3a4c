SPECIFICATION FairSpec
CONSTANTS
  Slices = {"a"}
  Imsis = {"i", "j"}
  Short = {"j"}
  Specs = {"x", "y"}
  Seed = "a"
  MaxEdits = 3
  MaxWipes = 1
  MaxFaults = 1
INVARIANTS TypeOK 
PROPERTIES ConsoleHeals 
CHECK_DEADLOCK FALSE
