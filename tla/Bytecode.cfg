SPECIFICATION MCSpec
CONSTANTS
  Programs <- MCPrograms
  Binary <- MCBinary
  Calls <- MCCalls
  StackWords = 48
  MaxRegisters = 20
  MaxJump = 24
  Depth = 8
  Chars = 3
INVARIANTS
  PrintsWhatProgramMeans
  NothingLeaks
  NeverUndefined
PROPERTIES
  CallStackSpec
  ResultReachesCaller
  EveryProgramEnds
