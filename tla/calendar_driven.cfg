\* The shift alerts of one user, the figures they are shown, and the
\* partitions of the audit table, around the turn of a year.
SPECIFICATION Spec
CONSTANTS
  Order <- MCOrder
  Categories = {"food", "rent"}
  Income = "income"
  MinChange <- MCMinChange
  Jobs = {j1, j2}
  Days <- MCDays
  Histories <- MCHistories
  Offers <- MCOffers
  HistoryMonths = 3
  AlertRetention = 90
  LongestRun = 29
  Entries <- MCEntries
  ReportDays <- MCReportDays
  BucketCounts = {1, 2, 5, 13}
  ProfileMonths = 4
  FirstMonth <- MCFirstMonth
  LastMonth <- MCLastMonth
  AheadMonths = 3
  Retention = 12
SYMMETRY JobSymmetry
INVARIANT ShiftsAreTold
INVARIANT TrendIsWhole
 
INVARIANT RowsFindTheirPartition
PROPERTY NothingIsToldTwice
CHECK_DEADLOCK FALSE
