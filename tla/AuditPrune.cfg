SPECIFICATION Spec
CONSTANTS
  Servers = {"s"}
  Pruners = {"p"}
  Batch = 2
  Time = {0, 1, 2}
  None = None
  MaxAppends = 4
INVARIANTS
  TypeOK
  HealthyLogVerifies
  WatermarkExact
  PruneTakesWhatItPromised
PROPERTIES
  OnlyOldPrefixGoes
  ImplementsTrail
