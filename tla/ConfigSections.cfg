SPECIFICATION Spec
CONSTANTS
  Documents <- AllDocuments
  Word = 64
INVARIANT
  MissingParameterReported
