SPECIFICATION FairSpec
CONSTANTS
  Messages <- ShortAnswers
  MaxIp = 2
  InitSize = 7
  Increment = 1
INVARIANTS
  TypeOK
  QueryAsksForHost
  ReadsWhereRecordBegins
  NameFits
  AnswersAsSent
PROPERTY ReadEnds
CHECK_DEADLOCK FALSE
