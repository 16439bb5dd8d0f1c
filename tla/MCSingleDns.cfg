SPECIFICATION FairSpec
CONSTANTS
  MaxCalls = 2
  Tries = 2
  MaxIp = 2
  Nets <- ThreeNets
  Hosts <- TwoHosts
  Foreign <- Nobody
  Opened <- MayNotOpen
INVARIANTS TypeOK SuccessIsOfThisHost ListIsOfThisHost
PROPERTY CallReturns
CHECK_DEADLOCK FALSE
