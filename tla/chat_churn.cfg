SPECIFICATION FairSpec
CONSTANTS
  u1 = u1
  u2 = u2
  u3 = u3
  Users = {u1, u2, u3}
  Handle <- SharedHandle
  Commands = {"%m", "%e"}
  UniLen = 3
  MaxClients = 2
  Limits = {6, 7}
  MaxLines = 1
  Coalesce = TRUE
  MayKill = TRUE
  StackClean = FALSE
  TableSize = 4
  PollSetSize = 5
INVARIANTS UniqueHandles RecordsAgree LookupFindsOwner
PROPERTIES StarvedOnlyByLower
CHECK_DEADLOCK FALSE
