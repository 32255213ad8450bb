SPECIFICATION Spec
CONSTANTS
  numdupacks_ = 2
  maxcwnd_ = 4
  wnd_ = 8
  Settings <- MCSettings
  Faults <- MCDctcpFaults
PROPERTY RecoveryEndsWithNewAck
