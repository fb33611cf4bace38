SPECIFICATION FairSpec
CHECK_DEADLOCK FALSE
CONSTANTS
  NoThread = NoThread
  NoPayload = NoPayload
  Lost = Lost
  Junk = Junk
  MaxSamples = 3
INVARIANTS
  TypeOK
  PairsFresh
  NoLateCallback
  UndisturbedSent
  DemoSignsItsOwn
PROPERTIES
  LostOnlyIfOvertaken
  SyncReturns
  DemoImplementsService
  DemoReturns
