SPECIFICATION Spec
CONSTANTS
  MaxFds = 5
  MaxCalls = 1
  Tries = 2
  MaxIp = 2
  h1 = h1 h2 = h2
  Hosts <- TwoHosts
  A <- Ipv4Of
  AAAA <- Ipv6Of
  NoAddress = never
  never = never
INVARIANT ListIsOfThisHost
CHECK_DEADLOCK FALSE
