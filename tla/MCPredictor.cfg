CONSTANTS
  Addr = {{2}, {3}}
  Params <- SmallParams
  MaxTrace = 7
SPECIFICATION Spec
CHECK_DEADLOCK FALSE
INVARIANTS
  PredTypeOK
  IndexExact
  CountersLearn
  ChooserLearns
  MistakesBounded
