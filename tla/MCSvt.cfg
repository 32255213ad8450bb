SPECIFICATION Spec
CONSTANTS
  numUplinks = 4
  Leaves = {1, 2, 3}
  srcLeaf_ = 1
  destLeaf_ = 2
  Cases <- MCCases
  healthyLinkCapacity = 2
  failureRatio_ = 2
  dynamicMappingThreshold_ = 2
  dynamicMappingThresholdGL2GL_ = 4
  flowcellSizePkts_ = 2
  PktBytes = 1
  MaxPkts = 7
INVARIANTS TypeOK TablesAreRight CountersAreRight NextLinkIsFound
PROPERTIES FlowcellsReachTheirLeaf LargeFlowsAvoidFailures UnmarkedFlowcellHasOneUplink
CHECK_DEADLOCK FALSE
