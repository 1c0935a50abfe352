SPECIFICATION Spec
CONSTANTS
  TotalLines = 3
  Messages <- OneAndTwoLines
  SequenceNumbers = {1, 2}
  SessionIds = {1, 2}
  MaxReserve = 7
INVARIANT
  StartsWithMaxSequenceZero
CHECK_DEADLOCK FALSE
