SPECIFICATION FairSpec
CONSTANTS
  Settings = {"x", "bad"}
  Unusable = {"bad"}
  Namespaces = {"p", "q"}
  MaxEdits = 3
  MaxFaults = 1
INVARIANTS TypeOK RestMeansRunning DeployedIsRunning
PROPERTIES NoUpgradeLoop ReleaseConverges
CHECK_DEADLOCK FALSE
