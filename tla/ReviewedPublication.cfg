SPECIFICATION PubSpec
CONSTANTS
  Runs = {r1, r2, r3}
  Repos = {p1}
  Writable = {p1}
  MaxConcurrent = 3
  TokensPerRun = 1
  TokensPerDay = 2
  MaxUsage = 1
  MaxTurns = 3
  MaxFaults = 1
  MaxRestarts = 1
  NoDiff = NoDiff
  Keys = {k1}
  MaxRequests = 2
  NoPub = NoPub
CONSTRAINT ReviewedLater
SYMMETRY RunSymmetry
INVARIANTS PubTypeOK RunsKeepTheirWork PublicationsAgree
PROPERTY BlocksAreReviewed
CHECK_DEADLOCK FALSE
