SPECIFICATION Spec
CONSTANTS
  Texts <- MCTexts
  kMaxBufferSize = 16
  SizeMax = 1000
INVARIANTS
  ReadsInsideBuffer
  TokensAreLongest
  PositionsAreTrue
CHECK_DEADLOCK FALSE
