CONSTANTS
  Params <- Machines
  NReg = 2
  Instr <- TwoRegisters
  MaxTrace = 5
  None = None
SPECIFICATION FairSpec
INVARIANTS
  OnePlace
  QueuesSuffice
  DrainedAtEnd
  StarvedForever
PROPERTIES
  DataflowSpec
  SimulationEnds
