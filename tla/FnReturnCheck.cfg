\* Statement lists nest at most four deep: deep enough for a return to be nested,
\* followed and overridden.
SPECIFICATION ReturnsSpec
CONSTANT MaxDepth = 4
INVARIANTS
  VerdictFollowsLastStatement
CHECK_DEADLOCK FALSE
