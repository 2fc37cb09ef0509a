\* Pages of four words and objects of one to three: every way a page can be left
\* part empty.  A vector may outgrow a page.
SPECIFICATION Spec
CONSTANTS
  PageSize = 4
  Sizes = {1, 2, 3}
  MaxBlocks = 5
  MaxElements = 5
INVARIANTS
  LivesInMemory
  DestroyedOnce
  AllDestroyed
PROPERTY
  RegionSpec
CHECK_DEADLOCK FALSE
