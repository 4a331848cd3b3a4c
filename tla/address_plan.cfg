SPECIFICATION FairSpec
CONSTANTS
  Plans <- ShippedPlans
  Names <- ThreeNames
  Overrides <- SomeOverrides
  Servers <- SomeServers
  Places <- ColocatedOrNot
  Nodes <- TwoNodes
  MaxPlanEdits = 3
  MaxApiFaults = 1
INVARIANTS TypeOK ReadyMeansBacked  RangesDisjoint PoolsApart
PROPERTIES FabricConverges
CHECK_DEADLOCK FALSE
