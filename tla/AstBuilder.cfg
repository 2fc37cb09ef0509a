SPECIFICATION Spec
CONSTANTS
  x = x
  y = y
  z = z
  Names <- MCNames
  MaxDepth <- MCMaxDepth
  MaxDecls <- MCMaxDecls
  MaxStatements <- MCMaxStatements
SYMMETRY Symmetry
INVARIANTS
  NamesAreUnique
  BodyGetsItsOwn
  RefsAreOutlived
CHECK_DEADLOCK FALSE
