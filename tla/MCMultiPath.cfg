SPECIFICATION Spec
CONSTANTS
  Links = {l1, l2, l3}
  NSlot = 6
  None = None
  Schemes <- MCSchemes
  Packets <- MCPackets
  TTLs <- MCTTLs
  HashString <- MCHash
  MaxLog = 4
INVARIANTS TypeOK LiveLinkIsTaken SamePathIsKept SprayIsEven
CHECK_DEADLOCK FALSE
