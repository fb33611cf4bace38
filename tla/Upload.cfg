SPECIFICATION FairSpec
CONSTANTS
  Addresses = {a1, a2}
  Garbage = Garbage
  Numbers <- IntervalArgs
INVARIANTS
  TypeOK
  SemaphoresTruthful
  DestinationAccepted
PROPERTIES
  NoOverlap
  StoppedMeansGone
  StopReturns
  ShellRunsNonZero
  ImplementsService
