SPECIFICATION HoleFairSpec
CONSTANTS
  Asker = a Asked = t a = a t = t
  Retry = 10
INVARIANTS HoleTypeOK ConnectionHasTwoEnds BothFailOnlyByLoss
PROPERTIES PunchEnds AbcArrives
CHECK_DEADLOCK FALSE
