SPECIFICATION PartsSpec
CONSTANTS
  Names = {n1}
  Clients = {c1, c2}
  NoBinding = NoBinding
  MaxWrites = 3
  MaxRestarts = 1
  AgentNames = {a, b}
  Handlers = {h1, h2}
  None = None
  Caps = {1, 2}
  MaxOps = 3
  MaxFaults = 2
  NewProfiles <- MCNewProfiles
  NextProfiles <- MCNextProfiles
  FirstEnvs <- MCEnvs
  FirstLevels = {1, 3, 6}
  NoUnit = NoUnit
  MaxSwitches = 2
  Projects = {"p1", "p2"}
  Bound = "bound"
  Shared = "shared"
  Fallback = "fallback"
  Callers = {"c1", "c2"}
  MaxLosses = 2
SYMMETRY Symmetry
CONSTRAINT Separate
INVARIANTS
  TypeOK
  FiresAreClaimed
  OwnedIsSound
PROPERTIES
  NoBlindUpdate
CHECK_DEADLOCK FALSE
