SPECIFICATION Spec
CONSTANTS
  MaxEvents = 2
  MaxInFlight = 2
  MaxRuns = 4
  MaxLifeFaults = 1
  MaxRestarts = 1
  NoSession = NoSession
  Keys = {"k1", "k2"}
  Contents = {"c1"}
  Queries = {"q1"}
  MaxRecords = 2
  MaxRevisions = 2
  MaxTime = 2
  MaxRequests = 3
  MaxSelected = 1
  Ops = {"o1", "o2", "o3"}
  Fields = {"f1", "f2"}
  MaxContexts = 2
  MaxStoreFaults = 1
  MaxJobFaults = 1
  MaxOpenings = 2
  Jobs = {"j1", "j2"}
  ClaimLimit = 2
  MaxAttempts = 2
  MaxProposals = 1
  Tools = {"t1", "t2"}
  MaxTurns = 2
  FirstAfter = 2
  Every = 1
  MaxNudges = 1
  MaxFaults = 1
INVARIANTS TypeOK LivesAreAccounted ExtractedAndShownOnce
PROPERTIES MemoryIsTrue EveryPartSettles
CHECK_DEADLOCK FALSE
