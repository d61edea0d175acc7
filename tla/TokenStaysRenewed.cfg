\* One workload whose intent the hub offers again: its token is not renewed.
SPECIFICATION TokensSpec
CONSTANTS
  Ttl = 7
  Margin = 3
  MintInterval = 1
  PushRetry = 1
  NoToken = NoToken
  MaxTime = 7
  MaxOffers = 2
  MaxTroubles = 1
INVARIANT StaysRenewed
CHECK_DEADLOCK FALSE
