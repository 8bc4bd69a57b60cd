SPECIFICATION FairSpec
CONSTANTS
  Callers = {m1, m2}
  MaxQueue = 1
  MaxRate = 1
  FailMax = 1
  Limit = 2
  MaxRounds = 2
  MaxDays = 1
  MaxFaults = 1
  m1 = m1
  m2 = m2
INVARIANTS
  WaitersCounted
  OvershootIsBounded
  
  HistoryIsConversation
PROPERTIES
  EveryMessageEnds
CHECK_DEADLOCK FALSE
