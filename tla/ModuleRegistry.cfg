SPECIFICATION Spec
CONSTANTS
  Sources <- MCSources
  ModuleName <- MCModuleName
  MaxModules <- MCMaxModules
  MaxTypes <- MCMaxTypes
  MaxSize <- MCMaxSize
  Declarations <- MCDeclarations
  Written <- MCWritten
  LateBackend = FALSE
INVARIANTS
  TypeIdsDistinct
  CTypeIsItsOwn
  KnownIsClosed
  ReturnedOnReturned
  NamesMeanWhatTheySay
CHECK_DEADLOCK FALSE
