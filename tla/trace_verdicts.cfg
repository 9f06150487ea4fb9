SPECIFICATION Spec
CONSTANTS
  Captured <- Captures
  MaxPackets = 2
  None = None
INVARIANTS IpVerdictRight TcpVerdictRight PrintsTheHeaders
CHECK_DEADLOCK FALSE
