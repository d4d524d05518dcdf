SPECIFICATION LiveSpec
CONSTANTS
  Keys = {"a1", "a2", "a3", "b1"}
  Group <- MCGroup
  Capacity = 2
  PerGroupCapacity = 2
  Concurrency = 2
  PerGroupConcurrency = 1
  KeepMs = 1
  MaxKept = 1
  MaxArrivals = 4
  MaxNow = 0
INVARIANTS
  TypeOK
  CountersExact
  WorkConserving
  StatusZeroDroppedNothing
PROPERTIES
  FifoWithinGroup
  EveryoneServed
