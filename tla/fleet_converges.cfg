SPECIFICATION FairSpec
CONSTANTS
  Sites = {1}
  Declarable = {1}
  HandMade = {1}
  Roles = {"cp+upf", "upf-only"}
  Pins = {}
  PoolSize = 2
  Start <- SameStart
  MaxEdits = 2
  MaxFaults = 1
INVARIANTS CopiesAgree
PROPERTIES VipStable IntentKept LifeImplemented  
CHECK_DEADLOCK FALSE
