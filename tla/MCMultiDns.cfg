SPECIFICATION FairSpec
CONSTANTS
  MaxCalls = 1
  NumServers = 3
  Tries = 2
  MaxIp = 2
  b1 = b1
  b2 = b2
  Bufs <- OneBuf
  Created <- MayFail
CHECK_DEADLOCK FALSE
INVARIANTS
  TypeOK
  FailureMeansAllFailed
  DeathOnlyAfterAnswer
  SizeCountsWrittenSlots
  ListFromOneThread
  AsksOwnOrLater
PROPERTIES
  StableAnswer
  CallReturns
  AnswerWins
  RefinesPromise
