SPECIFICATION Spec
CONSTANTS
  MaxTurns = 3
  MaxRotates = 1
  MaxForgets = 1
  MaxFaults = 1
  MaxRestarts = 2
  NoEntry = NoEntry
  NoServed = NoServed
INVARIANTS TypeOK ThreadsAreKnown
PROPERTY ThreadsMoveOn
CHECK_DEADLOCK FALSE
