SPECIFICATION FairSpec
CONSTANTS
  Nics = {"eno1"}
  Preferred = "eth0"
  Vips = {"v"}
  MaxEdits = 2
  MaxFaults = 1
INVARIANTS TypeOK 
PROPERTIES UpfConverges HostHeals VipsFollow
CHECK_DEADLOCK FALSE
