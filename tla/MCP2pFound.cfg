SPECIFICATION Spec
CONSTANTS
  a = a b = b t = t None = None
  Peers = {a, t} MaxStarts = 2
  Sns <- Numbers Sn <- OneEach Target = 2222
  Slots = {1, 2} Coalesced = {1} MayDie = {a}
INVARIANT RegisteredIsFound
CHECK_DEADLOCK FALSE
