SPECIFICATION FairSpec
CONSTANTS
  w1 = w1
  w2 = w2
  c1 = c1
  c2 = c2
  c3 = c3
  Nobody = Nobody
  MainThread = MainThread
  Free = Free
  Workers <- TwoWorkers
  Clients <- TwoClients
  MaxFaults = 0
  MaxUsr1 = 0
PROPERTY
  WorkersStop
CHECK_DEADLOCK FALSE
