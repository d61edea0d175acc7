\* One agent and one one-off run on one repository; a turn may be cancelled
\* while its worktrees are made.
SPECIFICATION WorkspacesSpec
CONSTANTS
  Instances = {"a", "run"}
  OneOffs = {"run"}
  RepoCount = 1
  MaxLaneTurns = 2
  MaxPushes = 1
  MaxMishaps = 1
PROPERTY NeverReset
CHECK_DEADLOCK FALSE
