SPECIFICATION Spec
CONSTANTS
  Links = {l1, l2, l3}
  NSlot = 6
  None = None
  Schemes <- MCSelected
  Packets <- MCPackets
  TTLs <- MCTTLs
  HashString <- MCHash
  MaxLog = 1
INVARIANTS SelectedTakesLink
CHECK_DEADLOCK FALSE
