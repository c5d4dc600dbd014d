SPECIFICATION FairSpec
CONSTANT Buffers = 1
INVARIANTS
  TypeOK
  NothingKept
  RunningIsTrue
PROPERTIES
  StopNears
  StopReturns
