CONSTANTS
  Max = 4
  Item = {a, b, c}
SPECIFICATION Spec
INVARIANTS
  FreeListTypeOK
  StallCountsExact
PROPERTY UndoFifoSpec
