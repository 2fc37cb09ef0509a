SPECIFICATION Spec
CONSTANTS
  Vars <- MCVars
  Kind <- MCKind
  MaxScopes <- MCMaxScopes
  MaxFrames <- MCMaxFrames
  MaxArgs <- MCMaxArgs
INVARIANTS
  MoveIsExplained
  GivenAwayOnce
  PartsAreNeverTaken
CHECK_DEADLOCK FALSE
