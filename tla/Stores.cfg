SPECIFICATION Spec
CONSTANTS
  Paths = {"f", "g"}
  Texts = {"t1", "t2", "t3", "t4", "t5"}
  QNames = {"A", "A.run", "B.run", "main"}
  Short <- MCShort
  Owner <- MCOwner
  Classes = {"A"}
  Defs <- MCDefs
  Uses <- MCUses
  NoName = NoName
  MaxSaves = 4
  MaxKills = 1
  NumBatches = 4
  Permits = 2
  MaxBatchFaults = 2
  RpmLimit = 2
  Window = 3
  MaxRequests = 5
  MaxClock = 8
  MinPages = 1
  MaxPages = 3
  Overhead = 1
  CapPages = 7
  Trimmers = {"t1", "t2"}
  MaxPuts = 4
  MaxTrimFaults = 2
  Sessions = {"s1"}
  Loops = {"l1", "l2"}
  NoSession = NoSession
  MaxTurns = 2
  MaxRuns = 3
  MaxDrops = 2
INVARIANTS
  StoresTypeOK
  EdgesFitTheirNames
  EdgesStoredOnce
  LinksSurvive
  ResolvedStays
  PhaseAccounts
  WindowHolds
  TurnsGapless

  
CHECK_DEADLOCK FALSE
