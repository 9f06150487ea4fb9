SPECIFICATION Spec
CONSTANTS
  c1 = c1
  c2 = c2
  Clients = {c1, c2}
  Files = {c1, c2}
  ToFile <- OwnFiles
  Unwritable = {c2}
  MaxTries = 2
  MaxRetry = 0
  Prompt = FALSE
  MaxErrors = 1
  MaxReplies = 1
  MaxChildren = 2
INVARIANTS Isolation
CHECK_DEADLOCK FALSE
