CONSTANTS
  NLog = 1
  NPhys = 3
  NBr = 1
  Value = {v1}
  None = None
  MaxBundle = 2
  Marks = {}
  SysInst = {FALSE}
  EarlyWakeup = FALSE
SPECIFICATION FairSpec
\* A bundle of two branches never gets its two checkpoints: rename stops.
CHECK_DEADLOCK FALSE
PROPERTIES
  RenameStallEnds
  LatchDrains
