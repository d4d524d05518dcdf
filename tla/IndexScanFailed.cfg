SPECIFICATION Spec
CONSTANTS
  Files = {"f"}
  Versions = {"v1", "v2"}
  Names = {"a", "b"}
  Bodies = {1, 2}
  None = None
  Parse <- MCParse
  MaxEdits = 1
  MaxTxns = 6
  MaxFaults = 2
INVARIANTS
  UpToDateMeansCovered
