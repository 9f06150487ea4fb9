SPECIFICATION Spec
CONSTANTS
  u1 = u1
  u2 = u2
  u3 = u3
  Users = {u1, u2}
  Handle <- MixedHandles
  Commands = {"%m", "%c", "%e"}
  UniLen = 3
  MaxClients = 2
  Limits = {7}
  MaxLines = 2
  Coalesce = TRUE
  MayKill = FALSE
  StackClean = TRUE
  TableSize = 3
  PollSetSize = 5
INVARIANTS ReachesAddressee
PROPERTIES AbsentIsReported
CHECK_DEADLOCK FALSE
