SPECIFICATION SinkSpec
CONSTANTS
  MWS = 4
  Seqs <- MCSeqs
  PktSize <- MCPktSize
  SinkSettings <- MCImmediate
  None = None
INVARIANT ResetForgetsBlocks
