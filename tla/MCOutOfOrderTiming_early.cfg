CONSTANTS
  Params <- OneBundle
  NReg = 1
  Instr <- OneRegister
  MaxTrace = 5
  None = None
SPECIFICATION TimedSpec
VIEW TimedView
INVARIANT InstructionCountExact
