SPECIFICATION FairSpec
CONSTANTS
  WinSz = 3
  NumChunks = 5
  LastShort = TRUE
  MaxRetry = 10
  RecoverWait = 10
  Prompt = TRUE
  HeapZeroed = TRUE
  MaxErrors = 12
  MaxSeq = 9
INVARIANTS TypeOK LanInv WireCarriesItsChunk FileIsPrefix GiveUpMeansUnacked
PROPERTIES ImplementsFileCopy ClientTerminates ServerTerminates CopySucceeds
