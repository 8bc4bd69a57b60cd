SPECIFICATION Spec
CONSTANTS
  Insights = {i1}
  Workers = {w1}
  MaxReaps = 1
  MaxFailures = 2
  MaxPublishes = 1
  MaxFaults = 0
  LeasePersisted = TRUE
  LeaseOutlivesWork = TRUE
  i1 = i1
  w1 = w1
INVARIANT UnexpectedErrorReachesDlq
CHECK_DEADLOCK FALSE
