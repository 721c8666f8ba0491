\* Where char is unsigned, every text comes back from every vault that has its key.
SPECIFICATION Spec
CONSTANTS
  Bytes = {0, 131}
  MaxLength = 4
  KEY_SIZE = 21
  Key <- MCKey
  Texts <- MCTexts
  BufferSizes = {5, 6, 10}
  Alphas <- MCAlphas
  Deltas <- MCDeltas
  CharIsSigned = FALSE
INVARIANTS
  RoundTrip
  
  
