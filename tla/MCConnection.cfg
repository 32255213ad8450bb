SPECIFICATION Spec
CONSTANTS
  numdupacks_ = 2
  maxcwnd_ = 4
  wnd_ = 8
  Settings <- MCSettings
  Faults <- MCFaults
  MWS = 2
  Seqs <- MCSeqs
  PktSize <- MCPktSize
  SinkSettings <- MCSinks
  None = None
INVARIANT SenderKnowsTheTruth
PROPERTY KeepsItsPromise
