SPECIFICATION SinkSpec
CONSTANTS
  MWS = 2
  Seqs <- MCSeqs
  PktSize <- MCPktSize
  SinkSettings <- MCSinks
  None = None
INVARIANTS SinkTypeOK BlocksAreSound FirstBlockIsTrigger BlocksAreDisjoint AllHeldIsReported
PROPERTY HeldMarkIsEchoed
