SPECIFICATION Spec
CONSTANTS
  Files = {"f", "g"}
  Versions = {"v1", "v2", "v3"}
  Names = {"a", "b"}
  Bodies = {1, 2}
  None = None
  Parse <- MCParse
  MaxEdits = 1
  MaxTxns = 6
  MaxFaults = 1
INVARIANTS
  FinishedRunCovers
  QueueIsUnpaid
PROPERTIES
  KeepsUnchanged
