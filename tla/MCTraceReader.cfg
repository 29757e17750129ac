CONSTANTS
  Width = 2
  MaxTokens = 11
  MaxGiven = 12
  None = None
SPECIFICATION Spec
\* The reader stops at the end of the file, or at MaxGiven.
CHECK_DEADLOCK FALSE
INVARIANTS
  LinesExact
  EveryRequestServed
  BundlesExact
PROPERTY EndsIfReadable
