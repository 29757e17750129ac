CONSTANTS
  NLog = 2
  NPhys = 4
  NBr = 1
  Value = {v1}
  None = None
  MaxBundle = 1
  Marks = {}
  SysInst = {FALSE}
  EarlyWakeup = FALSE
SPECIFICATION ConstructorSpec
CHECK_DEADLOCK FALSE
INVARIANT FreshRenamerPassesCheck
