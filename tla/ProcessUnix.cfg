\* The input may exceed a pipe; the output fits in one, as run() needs it to.
SPECIFICATION Spec
CONSTANTS
  PipeCapacity = 2
  MaxInput = 3
  MaxOutput = 2
  ProgramBuffer = 1
INVARIANTS
  StatusTruthful
  OutputComplete
  OnlyFailuresLeak
PROPERTY RunEnds
