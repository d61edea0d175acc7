SPECIFICATION PartsSpec
CONSTANTS
  Requests = {"q1", "q2"}
  MaxRuns = 2
  MaxPosts = 2
  OutcomesKept = 1
  Raw <- MCRaw
  OldRows <- MCOldRows
  CallsCap = 2
  Unit = 2
  MaxTurns = 2
  MaxMessages = 3
  NoThread = NoThread
  Pending = Pending
  Documents <- MCDocuments
  Models <- MCModels
  Usages <- MCUsages
  Broken = Broken
  Gone = Gone
  NoTable = NoTable
  MaxChanges = 3
  MaxStarts = 2
  Versions = {1, 2}
  MaxSetups = 2
  MaxEdits = 1
  MaxStops = 1
  MaxDays = 1
  Sources = {"mail"}
  Items = {"a"}
  MaxEntries = 2
  MaxItemEdits = 3
  MaxFaults = 2
  Instances = {"a", "run"}
  OneOffs = {"run"}
  RepoCount = 2
  MaxLaneTurns = 2
  MaxPushes = 1
  MaxMishaps = 1
  Calls = {"c1", "c2", "c3", "c4"}
  Unnamed = {"c4"}
  MaxDepth = 2
INVARIANTS TypeOK GatesHold TurnsAreAccounted
PROPERTIES StepsAreSound EveryPartSettles
CHECK_DEADLOCK FALSE
