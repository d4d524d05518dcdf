SPECIFICATION LiveSpec
CONSTANTS
  Files = {"f"}
  Versions = {"v1", "v2", "v3"}
  Names = {"a", "b"}
  Bodies = {1, 2}
  None = None
  Parse <- MCParse
  MaxEdits = 2
  MaxTxns = 6
  MaxFaults = 2
INVARIANTS
  TypeOK
  VectorsMatchRows
  NoOrphanVectors
  HashAnswersForRows
  SymbolsHaveChunks
PROPERTIES
  Converges
