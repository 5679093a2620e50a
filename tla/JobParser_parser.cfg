SPECIFICATION Spec
CONSTANTS
  Files <- MCFiles
  Cmds <- MCCmds
  MaxSeats = 3
  UINT_MAX = 999
CHECK_DEADLOCK FALSE
INVARIANTS
  TypeOK LineStart RunFromOneLine CorrectLinesRun
