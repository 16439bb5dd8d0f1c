SPECIFICATION Spec
CONSTANTS
  MaxFds = 2
  MaxCalls = 2
  MaxAnswers = 2
  Nat64Nets <- AllLengths
  Plain = plain
  plain = plain
  Hosts <- TwoHosts
  Tv6 <- Ustc
  Native <- TwoOfItsOwn
  Never = never
  never = never
INVARIANTS FalseChangesNothing PrefixIsOfNetwork ConvertedIsTranslated
CHECK_DEADLOCK FALSE
