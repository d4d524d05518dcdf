SPECIFICATION JobsSpec
CONSTANTS
  FirstChunks = 2
  MaxChunks = 3
  MaxInBatch = 1
  MaxJobFaults = 0
  MaxIncomplete = 1
PROPERTIES
  JobsFinish
CHECK_DEADLOCK FALSE
