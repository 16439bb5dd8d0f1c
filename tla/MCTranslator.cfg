SPECIFICATION Spec
CONSTANTS
  Prefix <- Ipv6Addr
  Inputs <- TwoInputs
  MaxPieces = 3
INVARIANT EmbedsAsConfigured
CHECK_DEADLOCK FALSE
