SPECIFICATION FairSpec
CONSTANTS
  Insights = {i1, i2}
  Workers = {w1, w2}
  MaxReaps = 1
  MaxFailures = 1
  MaxPublishes = 1
  MaxFaults = 1
  LeasePersisted = FALSE
  LeaseOutlivesWork = TRUE
  i1 = i1
  i2 = i2
  w1 = w1
  w2 = w2
INVARIANTS
  CompletedWithoutError
  OneWorkerPerInsight
PROPERTIES
  ImplementsLifecycle
  EventuallyPickedUp
CHECK_DEADLOCK FALSE
