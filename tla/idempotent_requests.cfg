\* What clients of the API meet: three requests with one key, and two clients
\* before the rate limiter, and one that watches an insight.
SPECIFICATION EdgeSpec
CONSTANTS
  Requests = {r1, r2, r3}
  MaxPolls = 2
  MaxFaults = 2
  MaxExpiries = 1
  HandlerWithinTtl = TRUE
  Clients = {c1, c2}
  Calls <- MCCalls
  Policies <- MCPolicies
  Default <- MCDefault
  Skip = {"health"}
  Trusted = {"proxy"}
  None = None
  Minute = 12
  Second = 2
  MaxDelay = 1
  LastTick = 4
  Insights = {i1}
  MaxReaps = 1
  Watchers = {w1}
  StreamPolls = 3
INVARIANTS OneHolder  RetriesExecuteOnce
INVARIANTS RateIsKept PromisesAreKept StreamTellsTheTruth
PROPERTY EveryoneAnswered
CHECK_DEADLOCK FALSE
