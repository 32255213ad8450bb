SPECIFICATION AckerSpec
CONSTANTS
  MWS = 2
  Seqs <- MCSeqs
  PktSize <- MCPktSize
INVARIANTS AckerTypeOK WindowFitsRing EdgesAreHoles
PROPERTY Reassembles
