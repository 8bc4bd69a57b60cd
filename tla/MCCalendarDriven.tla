---------------------------- MODULE MCCalendarDriven ----------------------------
(***************************************************************************)
(* A small instance: the alerts around the turn of a year, with September  *)
(* to December 2024 recorded in part and amounts in tens of the currency;  *)
(* the reports around the turns of 2025 and 2026, whose last week is the   *)
(* 53rd; the audit partitions from October 2026, the month of the          *)
(* migration.                                                              *)
(***************************************************************************)
EXTENDS CalendarDriven, TLC

MCOrder == <<"JPY", "USD">>
MCMinChange == [c \in {"JPY", "USD"} |-> IF c = "JPY" THEN 3 ELSE 2]

T(m, cur, cat, n) == [month |-> m, currency |-> cur, category |-> cat, amount |-> n]
Earned(months) == {T(m, "USD", "income", 10) : m \in months}
Spent(months) == {T(m, "USD", "food", 3) : m \in months}

\* 30 January, 28 February and 1 May 2025
MCDays == {395, 424, 486}
MCHistories ==
  {Earned(8..10) \cup Spent(8..10) \cup Earned({11}),
   Earned(10..11) \cup Spent({9, 11})}
MCOffers ==
  {T(11, "USD", "food", 5), T(12, "USD", "food", 6), T(12, "JPY", "rent", 9)}

Date(y, m, d) == FirstDay[(y - 2024) * 12 + m - 1] + d - 1
MCReportDays ==
  {Date(2025, 12, 31), Date(2026, 1, 1), Date(2026, 3, 31), Date(2027, 1, 3), Date(2027, 1, 4)}
MCEntries ==
  {[date |-> Date(2025, 12, 28), currency |-> "USD", category |-> "food", amount |-> 2],
   [date |-> Date(2025, 12, 29), currency |-> "USD", category |-> "food", amount |-> 3],
   [date |-> Date(2026, 1, 3), currency |-> "USD", category |-> "income", amount |-> 9],
   [date |-> Date(2026, 1, 31), currency |-> "JPY", category |-> "food", amount |-> 5],
   [date |-> Date(2026, 12, 28), currency |-> "USD", category |-> "rent", amount |-> 6],
   [date |-> Date(2027, 1, 3), currency |-> "USD", category |-> "rent", amount |-> 7]}

MCFirstMonth == <<2026, 10>>
MCLastMonth == <<2028, 1>>

JobSymmetry == Permutations(Jobs)

===============================================================================
