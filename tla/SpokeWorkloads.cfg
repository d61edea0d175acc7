SPECIFICATION FairSpec
CONSTANTS
  None = None
  MaxGen = 2
  MaxLog = 2
  PageLimit = 2
  MaxPages = 2
  MaxFaults = 1
  MaxRestarts = 1
INVARIANTS TypeOK HubIsToldTheTruth
PROPERTIES ReportedBeforeDeleted WorkloadsSettle
