SPECIFICATION FairSpec
CONSTANTS
  Insights = {i1}
  Workers = {w1, w2}
  MaxReaps = 1
  MaxFailures = 1
  MaxPublishes = 1
  MaxFaults = 1
  LeasePersisted = TRUE
  LeaseOutlivesWork = FALSE
  i1 = i1
  w1 = w1
  w2 = w2
INVARIANTS
  NoStrandedInsight
  KeyHidesNoWork

  
CHECK_DEADLOCK FALSE
