SPECIFICATION FairSpec
CONSTANTS
  LastEvent = 1
  Unmapped = {}
  Poison = {}
  Pollers = {p1, p2}
  BatchSize = 1
  MaxRetries = 1
  MaxFaults = 1
  MaxReplays = 0
  CommitMayLie = FALSE
  p1 = p1
  p2 = p2
PROPERTY SentStays
CHECK_DEADLOCK FALSE
