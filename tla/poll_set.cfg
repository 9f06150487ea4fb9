SPECIFICATION Spec
CONSTANTS
  PollSetSize = 2
  Sockets = {0, 1, 2, 3, 6}
  StdinHangsUp = FALSE
INVARIANTS TypeOK Represents ReturnsReadySocket
CHECK_DEADLOCK FALSE
