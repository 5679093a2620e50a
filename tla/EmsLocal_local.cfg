SPECIFICATION FairSpec
CONSTANTS
  t1 = t1
  t2 = t2
  NoThread = NoThread
  Threads <- MCThreads
  EventIds = {1}
  Sizes <- MCSizes
  SeatLists <- MCSeatLists
  BufferSize = 1
  MaxCalls = 2
INVARIANTS
  TypeOK RollbackComplete ReservationHonoured ShowWhole ListWhole PiecesTogether NoDeadlock
PROPERTY
  CommandsEnd
