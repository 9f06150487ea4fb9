SPECIFICATION Spec
CONSTANTS
  Seqs <- EdgeSeqs
  Flags = {3, 10}
  None = None
  CRC_ERROR = CRC_ERROR
  Data <- ShortData
INVARIANTS DamageIsNoticed AgreesWithRfc
