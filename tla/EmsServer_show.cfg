SPECIFICATION Spec
CONSTANTS
  w1 = w1
  w2 = w2
  Main = Main
  NoThread = NoThread
  Workers <- MCWorkers
  EventIds = {1}
  Sizes <- MCSizes
  SeatLists <- MCSeatLists
  MaxCalls = 2
  MaxDumps = 0
INVARIANT
  ShowWhole
