SPECIFICATION FairSpec
CONSTANTS
  Settings = {"x"}
  Unusable = {}
  Namespaces = {"p"}
  MaxEdits = 2
  MaxFaults = 1
PROPERTIES ReleaseHeals
CHECK_DEADLOCK FALSE
