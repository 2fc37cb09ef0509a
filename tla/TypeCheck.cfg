SPECIFICATION Spec
CONSTANTS
  Values <- MCValues
  Plains <- MCPlains
  Holders <- MCHolders
  Weak <- MCWeak
  Strong <- MCStrong
  AliasOf <- MCAliasOf
  Member <- MCMember
  Results <- MCResults
  MaxVars <- MCMaxVars
CONSTRAINT UntilRejected
INVARIANTS
  FrozenIsKept
  ReferencesToStructsFit
  NoReferenceToTemporaries
CHECK_DEADLOCK FALSE
