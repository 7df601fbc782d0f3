CONSTANTS
  w1 = w1
  w2 = w2
  Writers <- TwoWriters
  None = None
  QueueSizes = {0, 1}
  SplitLines = 2
  MaxLines = 2
  MaxDay = 2
SPECIFICATION Spec
INVARIANTS LinesInv SplitBound
CHECK_DEADLOCK FALSE
