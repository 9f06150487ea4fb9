SPECIFICATION Spec
CONSTANTS
  u1 = u1
  u2 = u2
  u3 = u3
  Users = {u1, u2, u3}
  Handle <- SharedHandle
  Commands = {"%b", "%e"}
  UniLen = 3
  MaxClients = 3
  Limits = {7}
  MaxLines = 1
  Coalesce = TRUE
  MayKill = TRUE
  StackClean = TRUE
  TableSize = 3
  PollSetSize = 7
PROPERTIES IsChatRoom
 
CHECK_DEADLOCK FALSE
