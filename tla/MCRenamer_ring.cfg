CONSTANTS
  NLog = 1
  NPhys = 4
  NBr = 2
  Value = {v1}
  None = None
  MaxBundle = 2
  Marks = {}
  SysInst = {FALSE}
  EarlyWakeup = FALSE
SPECIFICATION Spec
VIEW LiveView
INVARIANTS
  CheckpointsExact
  MasksExact
  ActiveListExact
  AssertsHold
