SPECIFICATION Spec
CONSTANTS
  numUplinks = 4
  Leaves = {1, 2, 3}
  srcLeaf_ = 1
  destLeaf_ = 2
  Cases <- MCPoorCases
  healthyLinkCapacity = 2
  failureRatio_ = 2
  dynamicMappingThreshold_ = 2
  dynamicMappingThresholdGL2GL_ = 4
  flowcellSizePkts_ = 2
  PktBytes = 1
  MaxPkts = 7
PROPERTIES FlowcellHasOneUplink
CHECK_DEADLOCK FALSE
