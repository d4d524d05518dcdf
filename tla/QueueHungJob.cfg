SPECIFICATION Spec
CONSTANTS
  Keys = {"a1", "b1"}
  Group <- MCGroup
  Capacity = 1
  PerGroupCapacity = 1
  Concurrency = 1
  PerGroupConcurrency = 1
  KeepMs = 1
  MaxKept = 1
  MaxArrivals = 2
  MaxNow = 0
INVARIANTS
  StatusZeroCutNothing
