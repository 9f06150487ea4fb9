SPECIFICATION FairSpec
CONSTANTS
  c1 = c1
  c2 = c2
  Clients = {c1, c2}
  Files = {c1, c2}
  ToFile <- OwnFiles
  Unwritable = {}
  MaxTries = 4
  MaxRetry = 4
  Prompt = TRUE
  MaxErrors = 2
  MaxReplies = 1
  MaxChildren = 8
INVARIANTS DataReachesItsFile SendsOnlyIfServed
PROPERTIES OneOpenPerTransfer TransferStarts OrphansEnd
CHECK_DEADLOCK FALSE
