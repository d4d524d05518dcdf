SPECIFICATION Spec
CONSTANTS
  Keys = {"a1", "a2", "a3", "b1"}
  Group <- MCGroup
  Capacity = 2
  PerGroupCapacity = 1
  Concurrency = 1
  PerGroupConcurrency = 1
  KeepMs = 1
  MaxKept = 1
  MaxArrivals = 4
  MaxNow = 2
INVARIANTS
  CapsHold
  ClaimsMatchJobs
PROPERTIES
  NoRepeatedReview
  ImplementsLifecycle
