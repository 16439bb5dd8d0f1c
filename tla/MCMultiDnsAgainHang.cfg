SPECIFICATION FairSpec
CONSTANTS
  MaxCalls = 2
  NumServers = 2
  Tries = 1
  MaxIp = 1
  b1 = b1
  b2 = b2
  Bufs <- TwoBufs
  Created <- NeverFails
CHECK_DEADLOCK FALSE
PROPERTY
  CallReturns
