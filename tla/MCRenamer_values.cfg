CONSTANTS
  NLog = 1
  NPhys = 3
  NBr = 1
  Value = {v1, v2}
  None = None
  MaxBundle = 1
  Marks = {"load_viol", "br_misp"}
  SysInst = {FALSE, TRUE}
  EarlyWakeup = TRUE
SPECIFICATION Spec
VIEW LiveView
SYMMETRY ValueSymmetry
INVARIANTS
  OneHolder
  OperandsExact
PROPERTY PreciseSpec
