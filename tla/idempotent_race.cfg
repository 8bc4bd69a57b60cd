SPECIFICATION Spec
CONSTANTS
  Requests = {r1, r2}
  MaxPolls = 2
  MaxFaults = 0
  MaxExpiries = 0
  HandlerWithinTtl = TRUE
  r1 = r1
  r2 = r2
INVARIANT AtMostOneExecution
CHECK_DEADLOCK FALSE
