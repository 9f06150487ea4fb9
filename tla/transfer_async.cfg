SPECIFICATION Spec
CONSTANTS
  WinSz = 2
  NumChunks = 3
  LastShort = FALSE
  MaxRetry = 1
  RecoverWait = 10
  Prompt = FALSE
  HeapZeroed = FALSE
  MaxErrors = 1
  MaxSeq = 4
INVARIANTS AnyNetInv WireBelowUpper AckedIsWritten EndMeansWritten
CHECK_DEADLOCK FALSE
