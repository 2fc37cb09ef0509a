SPECIFICATION Spec
CONSTANTS
  Sessions <- MCSessions
  StackDepth = 20
INVARIANTS
  VerdictIsTheGrammars
  ModuleIsTheGrammars
PROPERTIES
  ListsSpec
CHECK_DEADLOCK FALSE
