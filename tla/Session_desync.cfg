SPECIFICATION Spec
CONSTANTS
  Seatings <- MCSeatings
  Listings <- MCListings
  Garbage <- MCGarbage
  MaxCommands = 3
  MaxFaults = 1
CHECK_DEADLOCK FALSE
INVARIANT
  ReserveTold
