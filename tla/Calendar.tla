-------------------------------- MODULE Calendar --------------------------------
(***************************************************************************)
(* Dates as the number of days since Monday 1 January 2024, and months as  *)
(* the number of months since then: the arithmetic of datetime.date and    *)
(* calendar.monthrange that the recurring rules and the monthly figures    *)
(* are computed with.                                                      *)
(***************************************************************************)
EXTENDS Naturals

Year(m) == 2024 + m \div 12
Leap(y) == (y % 4 = 0 /\ y % 100 # 0) \/ y % 400 = 0

(* calendar.monthrange(year, month)[1]                                     *)
LengthOfMonth ==
  [m \in Nat |->
     CASE m % 12 = 1 -> IF Leap(Year(m)) THEN 29 ELSE 28
       [] m % 12 \in {3, 5, 8, 10} -> 30
       [] OTHER -> 31]

(* datetime.date.toordinal: the days before a year, and before a month of  *)
(* a year, counted without walking through them.                           *)
DaysBeforeYear(y) == 365 * (y - 1) + (y - 1) \div 4 - (y - 1) \div 100 + (y - 1) \div 400
Elapsed == <<0, 31, 59, 90, 120, 151, 181, 212, 243, 273, 304, 334>>
DaysBeforeMonth(m) ==
  Elapsed[(m % 12) + 1] + (IF m % 12 > 1 /\ Leap(Year(m)) THEN 1 ELSE 0)
Epoch == DaysBeforeYear(2024)

(* The first day of every month.                                           *)
FirstDay == [m \in Nat |-> DaysBeforeYear(Year(m)) - Epoch + DaysBeforeMonth(m)]

Dates == Nat

(* The month of a date: months have 28 to 31 days, which says where to     *)
(* look for it.                                                            *)
MonthOf ==
  [d \in Dates |->
     CHOOSE m \in (d \div 31)..(d \div 28) : FirstDay[m] <= d /\ d < FirstDay[m + 1]]
DayOfMonth(d) == d - FirstDay[MonthOf[d]] + 1
Weekday(d) == d % 7

(* date(y, m, min(day, max_day)): the day, or the last one of the month.   *)
OnDay(m, day) ==
  FirstDay[m] + (IF day < LengthOfMonth[m] THEN day ELSE LengthOfMonth[m]) - 1

===============================================================================
