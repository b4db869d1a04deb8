SPECIFICATION Spec
CONSTANTS
  Documents <- AllDocuments
  Word = 64
INVARIANTS
  SoundFilesStart
  AcceptedAsWritten
