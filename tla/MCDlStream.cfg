CONSTANTS
  MaxClients = 2
  NumBlocks = 3
  MaxPerUpdate = 2
  InFlight = 0
  MaxAhead = 2
  RingSize = 2
  MaxPaces = 1
  MaxBegins = 2
SPECIFICATION FairSpec
PROPERTY EveryoneServed
CHECK_DEADLOCK FALSE
