\* Two outbox pollers over three events, and two scheduler jobs over two rules.
SPECIFICATION JobsSpec
CONSTANTS
  LastEvent = 3
  Unmapped = {1}
  Poison = {2}
  Pollers = {p1, p2}
  BatchSize = 2
  MaxRetries = 2
  MaxFaults = 2
  MaxReplays = 1
  CommitMayLie = TRUE
  p1 = p1
  p2 = p2
  r1 = r1
  r2 = r2
  Rules = {r1, r2}
  Offers <- MCOffers
  Broken = {r2}
  Ending = {r1}
  EndDay = 80
  Jobs = {j1, j2}
  Batch = 2
  MaxBatches = 2
  Days <- MCDays
  MaxEdits <- MCMaxEdits
  MaxAborts = 1
INVARIANTS NoSpontaneousDuplicate QuarantineIsEarned
INVARIANTS  NextFollowsSchedule
PROPERTIES ImplementsDelivery QueueDrains  DueRulesFire
CHECK_DEADLOCK FALSE
