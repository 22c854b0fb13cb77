SPECIFICATION LiveSpec
CONSTANTS
  InitialSize = 12
  Threshold = 10
  MaxHeight = 14
  Capacity <- MCCapacity
INVARIANTS
  TypeOK
  RequestInRange
PROPERTIES
  RetryShrinks
  StopReturns
  Progress
CHECK_DEADLOCK FALSE
