SPECIFICATION Spec
CONSTANTS
  BufferLines = 3
  LowWater = 1
  CounterModulus = 1
  PKT_POOL_SIZE = 5
  RxCapacity = 4
  REFILL_BATCH_SIZE = 2
  MaxEvents = 2
  Kinds <- AllKinds
  MaxArrivals = 3
INVARIANT
  ReassemblyConsistent
CHECK_DEADLOCK FALSE
