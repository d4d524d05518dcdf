SPECIFICATION Spec
CONSTANTS
  Servers = {"s"}
  Pruners = {"p", "q"}
  Batch = 1
  Time = {0, 1}
  None = None
  MaxAppends = 3
INVARIANTS
  WatermarkExact
