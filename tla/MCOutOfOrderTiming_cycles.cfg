CONSTANTS
  Params <- Machines
  NReg = 1
  Instr <- OneRegister
  MaxTrace = 6
  None = None
SPECIFICATION TimedSpec
VIEW TimedView
INVARIANTS
  CpuTypeOK
  RmtExact
  WakeupNotLost
  RowComplete
  TotalsExact
