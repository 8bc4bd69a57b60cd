SPECIFICATION FireSpec
CONSTANTS
  r1 = r1
  r2 = r2
  Rules = {r1}
  Offers <- MCOffers
  Broken = {}
  Ending = {r1}
  EndDay = 80
  Jobs = {j1}
  Batch = 2
  MaxBatches = 2
  Days <- MCDays
  MaxEdits <- MCMaxEdits
  MaxAborts = 0
INVARIANT FiresOnce
CHECK_DEADLOCK FALSE
