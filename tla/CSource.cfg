SPECIFICATION Spec
CONSTANTS
  Values <- MCValues
  Plains <- MCPlains
  Holders <- MCHolders
  Weak <- MCWeak
  Strong <- MCStrong
  AliasOf <- MCAliasOf
  Member <- MCMember
  Functions <- MCFunctions
  Sessions <- MCSessions
  Bits <- MCBits
  Base = 4
INVARIANTS CReadsTheSame CTypesFit LiteralsKeepTheirValue ConversionsSaturate
CHECK_DEADLOCK FALSE
