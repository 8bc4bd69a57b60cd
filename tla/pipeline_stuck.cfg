SPECIFICATION FairSpec
CONSTANTS
  Insights = {i1}
  Workers = {w1, w2}
  MaxReaps = 1
  MaxFailures = 2
  MaxPublishes = 1
  MaxFaults = 1
  LeasePersisted = FALSE
  LeaseOutlivesWork = TRUE
  i1 = i1
  w1 = w1
  w2 = w2
PROPERTIES
  ProcessingEnds
CHECK_DEADLOCK FALSE
