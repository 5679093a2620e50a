SPECIFICATION FairSpec
CONSTANTS
  Seatings <- MCSeatings
  Listings <- MCListings
  Garbage <- MCGarbage
  MaxCommands = 3
  MaxFaults = 2
CHECK_DEADLOCK FALSE
INVARIANTS
  TypeOK ExecutedAsSent ReturnsTrue InStep NeverBothWait
PROPERTY
  SessionEnds
