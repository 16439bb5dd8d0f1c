SPECIFICATION FairSpec
CONSTANTS
  MaxFds = 5
  MaxCalls = 3
  Tries = 2
  MaxIp = 2
  h1 = h1 h2 = h2
  Hosts <- TwoHosts
  A <- Ipv4Of
  AAAA <- Ipv6Of
  NoAddress = never
  never = never
INVARIANTS TypeOK Ipv6ListIsOfThisHost ExitMeansLeak ReachableIsAsked
PROPERTY CallEnds
CHECK_DEADLOCK FALSE
