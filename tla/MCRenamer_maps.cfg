CONSTANTS
  NLog = 2
  NPhys = 4
  NBr = 1
  Value = {v1}
  None = None
  MaxBundle = 2
  Marks = {}
  SysInst = {FALSE}
  EarlyWakeup = FALSE
SPECIFICATION Spec
VIEW LiveView
\* A bundle of two branches never gets its two checkpoints: rename stops.
CHECK_DEADLOCK FALSE
INVARIANTS
  TypeOK
  OneHolder
  MapsExact
