SPECIFICATION RequestsSpec
CONSTANTS
  Requests = {1, 2, 3, 4}
  MaxFaults = 1
  c1 = c1
  c2 = c2
  usd = usd
  jpy = jpy
  NoRow = NoRow
  Clients = {c1, c2}
  Workloads <- MCWorkloads
  Quota = 2
  Days = {0, 1}
  Digits <- MCDigits
  Amounts = {0, 2}
  PageSize = 1
  Names = {"food", "rent", "pay"}
  MaxRows = 4
  MaxCategories = 3
  MaxMonth = 1
INVARIANTS
  OneAccountPerAddress
  SessionsAreListed
  OldSessionsAreGone
  TokensAreSpentOnce
  QuotaOvershootIsBounded
  AmountsFitTheirCurrency
  PagingSeesEveryRow
  CategoriesStayTwoLevels
CHECK_DEADLOCK FALSE
