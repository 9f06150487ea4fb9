SPECIFICATION FairSpec
CONSTANTS
  u1 = u1
  u2 = u2
  u3 = u3
  Users = {u1, u2}
  Handle <- OwnHandles
  Commands = {"%b", "%l", "%e", "tab"}
  UniLen = 3
  MaxClients = 2
  Limits = {5, 6}
  MaxLines = 2
  Coalesce = FALSE
  MayKill = FALSE
  StackClean = TRUE
  TableSize = 2
  PollSetSize = 5
PROPERTIES BroadcastArrives ExitCompletes
CHECK_DEADLOCK FALSE
