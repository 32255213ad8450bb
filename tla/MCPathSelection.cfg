SPECIFICATION Spec
CONSTANTS
  numUplinks = 4
  Leaves = {1, 2, 3}
  srcLeaf_ = 1
  destLeaf_ = 2
  Flows <- MCFlows
  dynamicMappingThreshold_ = 2
  dynamicMappingThresholdGL2GL_ = 4
  flowcellSizePkts_ = 2
  PktBytes = 1
  MaxSyns = 2
  MaxPkts = 30
INVARIANTS TypeOK CrashIsNamed
PROPERTIES DeadSpineUseIsNamed WeakShareIsExact
CHECK_DEADLOCK FALSE
