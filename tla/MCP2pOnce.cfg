SPECIFICATION FairSpec
CONSTANTS
  a = a b = b t = t None = None
  Peers = {a, b, t} MaxStarts = 1
  Sns <- Numbers Sn <- OneEach Target = 2222
  Slots = {1, 2, 3} Coalesced = {1} MayDie = {}
INVARIANTS TypeOK RegisteredIsFound
PROPERTIES QueryEnds RefinesRendezvous
CHECK_DEADLOCK FALSE
