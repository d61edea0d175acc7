SPECIFICATION PartsSpec
CONSTANTS
  Deliveries = {d1, d2}
  MaxRemembered = 1
  MaxFaults = 2
  MaxRestarts = 1
  Ttl = 13
  Margin = 7
  MintInterval = 2
  PushRetry = 1
  NoToken = NoToken
  MaxTime = 16
  MaxOffers = 2
  MaxTroubles = 2
INVARIANTS TypeOK HubIsRight
PROPERTIES AtMostOnce DeliveriesSettle TokenIsKept
CHECK_DEADLOCK FALSE
