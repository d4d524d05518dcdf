SPECIFICATION Spec
CONSTANTS
  FirstChunks = 2
  MaxChunks = 3
  MaxInBatch = 1
  MaxJobFaults = 1
  MaxIncomplete = 1
  WatchedFiles = {"p", "q"}
  FileBytes = {1, 2}
  Absent = Absent
  MaxTouches = 3
  MaxIndexErrors = 1
  RepoFiles = {"p", "q"}
  Digests = {1, 2}
  NoDigest = NoDigest
  MaxWrites = 4
  MaxRepoErrors = 1
  Conns = {"c1", "c2"}
  Readers = {"r1", "r2", "r3"}
  NoConn = NoConn
  MaxQueries = 4
INVARIANTS
  EventuallyTypeOK
  PaidForOnce
PROPERTIES
  HolesDrain
  IndexFollowsTree
  IndexesFollowTrees
  ReadersServed
CHECK_DEADLOCK FALSE
