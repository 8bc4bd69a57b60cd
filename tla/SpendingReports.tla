---------------------------- MODULE SpendingReports ----------------------------
(***************************************************************************)
(* The figures one user is shown of their transactions: the budget summary *)
(* and the spend trend of the reports page, the answers of the chat's      *)
(* tools, and the totals frozen into an insight.  Each is a query of its   *)
(* own, with its own arithmetic of months and weeks.                       *)
(*                                                                         *)
(* A transaction is a record [date, currency, category, amount], income    *)
(* has the category Income.  A month is the calendar's number of it.       *)
(***************************************************************************)
EXTENDS Calendar, MonthlyFigures

CONSTANTS
  Entries,       \* the transactions the user may record
  ReportDays,    \* the days on which the user looks
  BucketCounts,  \* lengths of the trends they ask for
  ProfileMonths  \* _PROFILE_MONTHS

ASSUME ReportAssumption ==
  /\ ReportDays \subseteq Dates /\ ReportDays # {}
  /\ BucketCounts \subseteq 1..52
  /\ \A t \in Entries : t.date \in Dates /\ t.amount \in Int
  /\ ProfileMonths \in 1..51
  \* bound of the model: nobody looks back further than the calendar
  /\ \A d \in ReportDays, n \in BucketCounts : n <= MonthOf[d] + 1
  /\ \A d \in ReportDays : ProfileMonths <= MonthOf[d]

VARIABLES
  day,  \* today
  book  \* the transactions recorded so far

reportVars == <<day, book>>

Kind(t) == IF t.category = Income THEN "income" ELSE "expense"
Dated(first, last) == {t \in book : first <= t.date /\ t.date <= last}
LastDay(m) == FirstDay[m + 1] - 1

(* read_clipped: the sums and counts of the month up to a date, by         *)
(* currency and type.                                                      *)
ReadClipped(m, clipped) ==
  LET rows == Dated(FirstDay[m], IF LastDay(m) < clipped THEN LastDay(m) ELSE clipped)
      groups == {<<t.currency, Kind(t)>> : t \in rows}
  IN  [g \in groups |->
         LET group == {t \in rows : <<t.currency, Kind(t)>> = g}
         IN  [total |-> Total(group), count |-> Cardinality(group)]]

(* get_budget_summary: the incomes and the expenses up to today.           *)
Summary(m) ==
  LET rows == ReadClipped(m, day)
  IN  [k \in {"income", "expense"} |->
         [c \in {g[1] : g \in {h \in DOMAIN rows : h[2] = k}} |-> rows[<<c, k>>]]]

-------------------------------------------------------------------------------
(* The spend trend                                                         *)

(* to_char(date, IYYY-"W"IW): a week belongs to the year of its Thursday.  *)
IsoWeek(d) ==
  LET thursday == d - Weekday(d) + 3
      year == Year(MonthOf[thursday])
  IN  <<year, ((thursday - FirstDay[(year - 2024) * 12]) \div 7) + 1>>

Label(granularity, d) ==
  IF granularity = "week" THEN IsoWeek(d)
  ELSE <<Year(MonthOf[d]), (MonthOf[d] % 12) + 1>>

(* Mutant: the oldest week starts on today's day of the week.              *)
WeekFloorUnaligned(count) == day - 7 * (count - 1)

WeekFloor(count) ==
  LET oldest == day - 7 * (count - 1) IN oldest - Weekday(oldest)

(* while month <= 0: month += 12; year -= 1                                *)
Borrowed[month \in -51..12] ==
  IF month <= 0
  THEN [month |-> Borrowed[month + 12].month, years |-> Borrowed[month + 12].years + 1]
  ELSE [month |-> month, years |-> 0]

MonthFloor(count) ==
  LET b == Borrowed[(MonthOf[day] % 12) + 1 - (count - 1)]
  IN  FirstDay[(Year(MonthOf[day]) - b.years - 2024) * 12 + b.month - 1]

TrendRows(granularity, count, currency, kind) ==
  {t \in Dated(IF granularity = "week" THEN WeekFloor(count) ELSE MonthFloor(count), day) :
     t.currency = currency /\ Kind(t) = kind}

Trend(granularity, count, currency, kind) ==
  LET rows == TrendRows(granularity, count, currency, kind)
  IN  [l \in {Label(granularity, t.date) : t \in rows} |->
         Total({t \in rows : Label(granularity, t.date) = l})]

-------------------------------------------------------------------------------
(* The chat's tools, and the snapshot of an insight                        *)

(* get_month_summary and get_spend_window: whatever is dated in between.   *)
SpendWindow(first, last) == Aggregate(Dated(first, last))
MonthSummary(m) == SpendWindow(FirstDay[m], LastDay(m))

(* Mutant: the year is kept.                                               *)
MonthBeforeSameYear(p) == IF p[2] = 1 THEN <<p[1], 12>> ELSE <<p[1], p[2] - 1>>

(* m -= 1; if m == 0: m = 12; y -= 1                                       *)
MonthBefore(p) == IF p[2] = 1 THEN <<p[1] - 1, 12>> ELSE <<p[1], p[2] - 1>>

(* The first day of the n-th month before this one, and the last day of    *)
(* the month before this one.                                              *)
MonthsBack(n) ==
  LET back[i \in 0..n] ==
        IF i = 0 THEN <<Year(MonthOf[day]), (MonthOf[day] % 12) + 1>>
        ELSE MonthBefore(back[i - 1])
      number(p) == (p[1] - 2024) * 12 + p[2] - 1
  IN  <<FirstDay[number(back[n])], LastDay(number(back[1]))>>

(* get_user_profile: the last months as if they were one.                  *)
Profile ==
  SpendWindow(MonthsBack(ProfileMonths)[1], MonthsBack(ProfileMonths)[2])

(* get_category_trend                                                      *)
CategoryTrend(category, n) ==
  LET rows == {t \in Dated(MonthsBack(n)[1], MonthsBack(n)[2]) : t.category = category}
      groups == {<<MonthOf[t.date], t.currency>> : t \in rows}
  IN  [g \in groups |->
         Total({t \in rows : <<MonthOf[t.date], t.currency>> = g})]

(* BudgetSummarySnapshot.aggregate_rows                                    *)
Snapshot(m) ==
  LET rows == Dated(FirstDay[m], LastDay(m))
  IN  [c \in {t.currency : t \in rows} |->
         [income  |-> Total({t \in rows : t.currency = c /\ Kind(t) = "income"}),
          expense |-> Total({t \in rows : t.currency = c /\ Kind(t) = "expense"}),
          count   |-> Cardinality({t \in rows : t.currency = c})]]

-------------------------------------------------------------------------------
ReportsInit ==
  /\ day = CHOOSE d \in ReportDays : \A e \in ReportDays : d <= e
  /\ book = {}

NextDay ==
  /\ day' \in {d \in ReportDays : d > day}
  /\ UNCHANGED book

Enter ==
  /\ \E t \in Entries \ book : book' = book \cup {t}
  /\ UNCHANGED day

Remove ==
  /\ \E t \in book : book' = book \ {t}
  /\ UNCHANGED day

ReportsNext == NextDay \/ Enter \/ Remove

ReportsSpec == ReportsInit /\ [][ReportsNext]_reportVars

-------------------------------------------------------------------------------
(* A trend shows whole buckets, as many as were asked for at most: the     *)
(* oldest one is not cut off where its week or month starts in another     *)
(* year, and no two weeks share a label.                                   *)
TrendIsWhole ==
  book # {} => \A g \in {"week", "month"}, n \in BucketCounts, c \in Currencies, k \in {"expense", "income"} :
    LET past == {t \in book : t.date <= day /\ t.currency = c /\ Kind(t) = k}
        trend == Trend(g, n, c, k)
        first == IF g = "week" THEN day - Weekday(day) - 7 * (n - 1)
                 ELSE FirstDay[MonthOf[day] - (n - 1)]
    IN  /\ DOMAIN trend = {Label(g, t.date) : t \in {u \in past : u.date >= first}}
        /\ \A l \in DOMAIN trend : trend[l] = Total({t \in past : Label(g, t.date) = l})

Figure(aggs, c) ==
  LET is == {i \in DOMAIN aggs : aggs[i].currency = c}
  IN  IF is = {} THEN Aggregation({}) ELSE aggs[CHOOSE i \in is : TRUE].figures
SumOfSummaries(f, c, months) ==
  MapThenSumSet(LAMBDA m : Figure(MonthSummary(m), c)[f], months)
At(f, x) == IF x \in DOMAIN f THEN f[x] ELSE 0

(* The page, the chat and an insight show the same figures of a month that *)
(* has nothing dated after today; what the chat says of several months is  *)
(* the sum of what it says of each.                                        *)
FiguresAgree ==
  LET now == MonthOf[day]
      months == (now - ProfileMonths)..now
      before == (now - ProfileMonths)..(now - 1)
  IN  book # {} =>
      /\ \A m \in months, c \in Currencies :
           LET chat == Figure(MonthSummary(m), c)
               page(k) == LET of == Summary(m)[k] IN IF c \in DOMAIN of THEN of[c].total ELSE 0
               trend(k) == At(Trend("month", now - m + 1, c, k), <<Year(m), (m % 12) + 1>>)
           IN  /\ \A k \in {"income", "expense"} : page(k) = trend(k)
               /\ c \in DOMAIN Snapshot(m) =>
                    /\ Snapshot(m)[c].income = chat.income
                    /\ Snapshot(m)[c].expense = chat.expenses
               /\ (\A t \in book : t.date <= day) =>
                    chat.income = page("income") /\ chat.expenses = page("expense")
      /\ \A c \in Currencies :
           /\ \A f \in {"income", "expenses"} :
                Figure(Profile, c)[f] = SumOfSummaries(f, c, before)
           /\ \A m \in before, x \in Categories :
                At(CategoryTrend(x, now - m), <<m, c>>)
                  = At(Figure(MonthSummary(m), c).categories, x)

===============================================================================
