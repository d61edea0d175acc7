SPECIFICATION GrokSpec
CONSTANTS
  Rotators = {r1}
  Tasks = {m1, m2, m3}
  MaxSessions = 5
  MaxTurns = 2
  MaxRotates = 1
  MaxForgets = 1
  MaxFaults = 1
  MaxRestarts = 1
  NoTask = NoTask
  NoEntry = NoEntry
INVARIANTS
  GrokTypeOK
  ConversationIsContinued
PROPERTIES
  DeletedStaysDeleted
  EveryRequestSettles
