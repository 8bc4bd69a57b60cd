---------------------------- MODULE CalendarProofs ----------------------------
(***************************************************************************)
(* The calendar, for every date and month: each month is 28 to 31 days     *)
(* long, the months follow one another without a gap, every date lies in   *)
(* exactly one of them, and the days 1 to 28 are there in all of them.     *)
(***************************************************************************)
EXTENDS Calendar, WellFoundedInduction, TLAPS

(* A set of numbers that is not empty has a least one.                     *)
LEMMA LeastOf ==
  ASSUME NEW S \in SUBSET Nat, S # {}
  PROVE  \E n \in S : \A m \in S : n <= m
<1> DEFINE R == {p \in Nat \X Nat : p[1] < p[2]}
<1>1. R = OpToRel(<, Nat)
  BY DEF OpToRel
<1>2. IsWellFoundedOn(R, Nat)
  BY <1>1, NatLessThanWellFounded
<1>3. \A x, y \in Nat : y < x => <<y, x>> \in R
  OBVIOUS
<1> HIDE DEF R
<1>4. PICK x \in S : \A y \in S : ~ (<<y, x>> \in R)
  <2>1. \E x \in S : \A y \in S : ~ (<<y, x>> \in R)
    BY <1>2, WFMin
  <2> QED
    BY <2>1
<1>5. \A y \in S : ~(y < x)
  BY <1>3, <1>4
<1>6. \A y \in S : x <= y
  BY <1>5
<1> QED
  BY <1>6

(* One year more: 366 days in the leap years of the Gregorian calendar.    *)
LEMMA OneYear ==
  ASSUME NEW y \in Nat \ {0}
  PROVE  /\ DaysBeforeYear(y) \in Int
         /\ DaysBeforeYear(y + 1) = DaysBeforeYear(y) + 365 + (IF Leap(y) THEN 1 ELSE 0)
<1>1. y \div 4 = (y - 1) \div 4 + (IF y % 4 = 0 THEN 1 ELSE 0)
  OBVIOUS
<1>2. y \div 100 = (y - 1) \div 100 + (IF y % 100 = 0 THEN 1 ELSE 0)
  OBVIOUS
<1>3. y \div 400 = (y - 1) \div 400 + (IF y % 400 = 0 THEN 1 ELSE 0)
  OBVIOUS
<1>4. (y % 100 = 0 => y % 4 = 0) /\ (y % 400 = 0 => y % 100 = 0)
  OBVIOUS
<1> DEFINE a == (y - 1) \div 4
           b == (y - 1) \div 100
           c == (y - 1) \div 400
<1>5. a \in Int /\ b \in Int /\ c \in Int
  OBVIOUS
<1>6. y + 1 - 1 = y
  OBVIOUS
<1>7. DaysBeforeYear(y) = 365 * (y - 1) + a - b + c
  BY DEF DaysBeforeYear
<1>8. DaysBeforeYear(y + 1) = 365 * y + y \div 4 - y \div 100 + y \div 400
  BY <1>6 DEF DaysBeforeYear
<1> HIDE DEF a, b, c
<1> QED
  BY <1>1, <1>2, <1>3, <1>4, <1>5, <1>7, <1>8 DEF a, b, c, Leap

(* What is added to a year's first day, month by month.                    *)
LEMMA MonthsOfYear ==
  ASSUME NEW k \in 0..11
  PROVE  /\ Elapsed[k + 1] \in Nat
         /\ Elapsed[1] = 0
         /\ k < 11 => Elapsed[k + 2] = Elapsed[k + 1] +
              (IF k = 1 THEN 28 ELSE IF k \in {3, 5, 8, 10} THEN 30 ELSE 31)
         /\ k = 11 => Elapsed[k + 1] = 334
BY DEF Elapsed

LEMMA MonthNumber ==
  ASSUME NEW m \in Nat
  PROVE  /\ m % 12 \in 0..11 /\ m \div 12 \in Nat
         /\ m % 12 < 11 => (m + 1) % 12 = (m % 12) + 1 /\ (m + 1) \div 12 = m \div 12
         /\ m % 12 = 11 => (m + 1) % 12 = 0 /\ (m + 1) \div 12 = m \div 12 + 1
OBVIOUS

LEMMA OneMonth ==
  ASSUME NEW m \in Nat
  PROVE  /\ FirstDay[m] \in Int
         /\ FirstDay[m + 1] = FirstDay[m] + LengthOfMonth[m]
         /\ LengthOfMonth[m] \in 28..31
<1> DEFINE k == m % 12
           y == Year(m)
           D == DaysBeforeYear(y)
           E == Elapsed[k + 1]
           leap == Leap(y)
<1>1. k \in 0..11 /\ y \in Nat \ {0}
  BY MonthNumber DEF Year
<1>2. D \in Int /\ E \in Nat /\ Epoch \in Int
  BY <1>1, OneYear, MonthsOfYear DEF Epoch
<1>3. FirstDay[m] = D - Epoch + (E + (IF k > 1 /\ leap THEN 1 ELSE 0))
  BY DEF FirstDay, DaysBeforeMonth
<1>4. LengthOfMonth[m] = IF k = 1 THEN (IF leap THEN 29 ELSE 28)
                         ELSE IF k \in {3, 5, 8, 10} THEN 30 ELSE 31
  BY DEF LengthOfMonth
<1>5. CASE k < 11
  <2>1. (m + 1) % 12 = k + 1 /\ Year(m + 1) = y
    BY <1>5, MonthNumber DEF Year
  <2>2. FirstDay[m + 1] = D - Epoch + (Elapsed[k + 2] + (IF k + 1 > 1 /\ leap THEN 1 ELSE 0))
    <3>1. (k + 1) + 1 = k + 2
      BY <1>1
    <3> QED
      BY <2>1, <3>1 DEF FirstDay, DaysBeforeMonth
  <2>3. Elapsed[k + 2] = E + (IF k = 1 THEN 28 ELSE IF k \in {3, 5, 8, 10} THEN 30 ELSE 31)
    BY <1>1, <1>5, MonthsOfYear
  <2> HIDE DEF k, y, D, E, leap
  <2>4. CASE k = 0
    BY <1>2, <1>3, <1>4, <2>2, <2>3, <2>4
  <2>5. CASE k = 1
    BY <1>2, <1>3, <1>4, <2>2, <2>3, <2>5
  <2>6. CASE k > 1
    BY <1>1, <1>2, <1>3, <1>4, <2>2, <2>3, <2>6
  <2> QED
    BY <1>1, <2>4, <2>5, <2>6
<1>6. CASE k = 11
  <2>1. (m + 1) % 12 = 0 /\ Year(m + 1) = y + 1
    BY <1>1, <1>6, MonthNumber DEF Year
  <2>2. FirstDay[m + 1] = DaysBeforeYear(y + 1) - Epoch + Elapsed[1]
    <3>1. DaysBeforeYear(y + 1) \in Int /\ Elapsed[1] \in Int
      BY <1>1, OneYear, MonthsOfYear
    <3>2. FirstDay[m + 1] = DaysBeforeYear(y + 1) - Epoch + (Elapsed[1] + 0)
      BY <2>1 DEF FirstDay, DaysBeforeMonth
    <3> QED
      BY <1>2, <3>1, <3>2
  <2>3. Elapsed[1] = 0 /\ E = 334
    BY <1>1, <1>6, MonthsOfYear
  <2>4. DaysBeforeYear(y + 1) = D + 365 + (IF leap THEN 1 ELSE 0)
    BY <1>1, OneYear
  <2> HIDE DEF k, y, D, E, leap
  <2> QED
    BY <1>1, <1>2, <1>3, <1>4, <1>6, <2>2, <2>3, <2>4
<1> QED
  BY <1>1, <1>5, <1>6

(* Months are as far apart as their lengths: no less than 28 days and no   *)
(* more than 31.                                                           *)
LEMMA FirstDays ==
  /\ FirstDay[0] = 0
  /\ \A m \in Nat : /\ FirstDay[m] \in Nat
                    /\ 28 * m <= FirstDay[m] /\ FirstDay[m] <= 31 * m
                    /\ FirstDay[m] + 28 <= FirstDay[m + 1]
<1>1. FirstDay[0] = 0
  <2>1. 0 % 12 = 0 /\ 0 \div 12 = 0 /\ Epoch \in Int
    BY OneYear DEF Epoch
  <2> QED
    BY <2>1 DEF FirstDay, DaysBeforeMonth, Year, Elapsed, Epoch
<1>2. \A m \in Nat : 28 * m <= FirstDay[m] /\ FirstDay[m] <= 31 * m
  <2> DEFINE bad == {m \in Nat : ~(28 * m <= FirstDay[m] /\ FirstDay[m] <= 31 * m)}
  <2> SUFFICES ASSUME bad # {} PROVE FALSE
    OBVIOUS
  <2>1. PICK m \in bad : \A k \in bad : m <= k
    <3>1. bad \in SUBSET Nat
      OBVIOUS
    <3> HIDE DEF bad
    <3> QED
      BY <3>1, LeastOf
  <2>2. m \in Nat \ {0}
    BY <1>1
  <2>3. m - 1 \in Nat /\ m - 1 \notin bad
    <3>1. m - 1 \in Nat /\ m - 1 < m
      BY <2>2
    <3> HIDE DEF bad
    <3> QED
      BY <2>1, <2>2, <3>1
  <2>4. /\ 28 * (m - 1) <= FirstDay[m - 1] /\ FirstDay[m - 1] <= 31 * (m - 1)
        /\ FirstDay[m - 1] \in Int /\ LengthOfMonth[m - 1] \in 28..31
        /\ FirstDay[m] = FirstDay[m - 1] + LengthOfMonth[m - 1]
    <3>1. (m - 1) + 1 = m
      BY <2>2
    <3> QED
      BY <2>3, <3>1, OneMonth
  <2>5. 28 * m <= FirstDay[m] /\ FirstDay[m] <= 31 * m
    BY <2>2, <2>4
  <2> QED
    BY <2>5
<1>3. ASSUME NEW m \in Nat
      PROVE  FirstDay[m] \in Nat /\ FirstDay[m] + 28 <= FirstDay[m + 1]
  <2>1. FirstDay[m] \in Int /\ 28 * m <= FirstDay[m]
    BY <1>2, OneMonth
  <2>2. LengthOfMonth[m] \in 28..31 /\ FirstDay[m + 1] = FirstDay[m] + LengthOfMonth[m]
    BY OneMonth
  <2> QED
    BY <2>1, <2>2
<1> QED
  BY <1>1, <1>2, <1>3

LEMMA InOrderOfMonths ==
  ASSUME NEW i \in Nat, NEW j \in Nat, i < j
  PROVE  FirstDay[i + 1] <= FirstDay[j]
<1> DEFINE bad == {k \in Nat : i < k /\ ~(FirstDay[i + 1] <= FirstDay[k])}
<1> SUFFICES ASSUME bad # {} PROVE FALSE
  OBVIOUS
<1>1. PICK k \in bad : \A n \in bad : k <= n
  <2>1. bad \in SUBSET Nat
    OBVIOUS
  <2> HIDE DEF bad
  <2> QED
    BY <2>1, LeastOf
<1>2. k \in Nat /\ i < k /\ k # i + 1 /\ FirstDay[i + 1] \in Nat
  <2>1. k \in Nat /\ i < k /\ ~(FirstDay[i + 1] <= FirstDay[k])
    OBVIOUS
  <2>2. FirstDay[i + 1] \in Nat
    BY FirstDays
  <2>3. FirstDay[i + 1] <= FirstDay[i + 1]
    BY <2>2
  <2> QED
    BY <2>1, <2>2, <2>3
<1>3. k - 1 \in Nat /\ i < k - 1 /\ k - 1 < k /\ (k - 1) + 1 = k
  BY <1>2
<1>4. k - 1 \notin bad
  <2> HIDE DEF bad
  <2> QED
    BY <1>1, <1>3, <1>2
<1>5. FirstDay[i + 1] <= FirstDay[k - 1]
  BY <1>3, <1>4
<1>6. FirstDay[k - 1] \in Nat /\ FirstDay[k] \in Nat /\ FirstDay[k - 1] + 28 <= FirstDay[k]
  BY <1>2, <1>3, FirstDays
<1>7. FirstDay[i + 1] <= FirstDay[k]
  BY <1>2, <1>5, <1>6
<1> QED
  BY <1>7

(* Every date lies in one month.                                           *)
LEMMA MonthOfDate ==
  ASSUME NEW d \in Dates
  PROVE  /\ MonthOf[d] \in Nat
         /\ FirstDay[MonthOf[d]] <= d /\ d < FirstDay[MonthOf[d] + 1]
<1> DEFINE after == {m \in Nat : d < FirstDay[m]}
<1>1. d \in Nat /\ after \in SUBSET Nat
  BY DEF Dates
<1>2. after # {}
  <2>1. d + 1 \in Nat /\ 28 * (d + 1) <= FirstDay[d + 1] /\ FirstDay[d + 1] \in Nat
    BY <1>1, FirstDays
  <2>2. d < FirstDay[d + 1]
    BY <1>1, <2>1
  <2> QED
    BY <2>1, <2>2
<1>3. PICK n \in after : \A m \in after : n <= m
  <2> HIDE DEF after
  <2> QED
    BY <1>1, <1>2, LeastOf
<1>4. n \in Nat /\ n # 0 /\ d < FirstDay[n]
  BY <1>1, FirstDays
<1>5. n - 1 \in Nat /\ n - 1 < n /\ (n - 1) + 1 = n
  BY <1>4
<1>6. FirstDay[n - 1] <= d
  <2>1. n - 1 \notin after
    <3> HIDE DEF after
    <3> QED
      BY <1>1, <1>3, <1>4, <1>5
  <2>2. FirstDay[n - 1] \in Nat
    BY <1>5, FirstDays
  <2> QED
    BY <1>1, <1>5, <2>1, <2>2
<1>7. n - 1 \in (d \div 31)..(d \div 28)
  <2> DEFINE m == n - 1
             f == FirstDay[m]
             g == FirstDay[m + 1]
  <2>1. /\ m \in Nat /\ f \in Nat /\ g \in Nat
        /\ 28 * m <= f /\ f <= d /\ d < g /\ g <= 31 * (m + 1)
    BY <1>4, <1>5, <1>6, FirstDays
  <2> HIDE DEF m, f, g
  <2>2. 28 * m <= d /\ d < 31 * (m + 1)
    BY <1>1, <2>1
  <2>3. m <= d \div 28 /\ d \div 31 <= m
    BY <1>1, <2>1, <2>2
  <2> QED
    BY <1>1, <2>1, <2>3 DEF m
<1>8. \E m \in (d \div 31)..(d \div 28) : FirstDay[m] <= d /\ d < FirstDay[m + 1]
  BY <1>4, <1>5, <1>6, <1>7
<1>9. /\ MonthOf[d] \in (d \div 31)..(d \div 28)
      /\ FirstDay[MonthOf[d]] <= d /\ d < FirstDay[MonthOf[d] + 1]
  BY <1>8 DEF MonthOf
<1>10. d \div 31 \in Nat /\ d \div 28 \in Nat
  BY <1>1
<1> QED
  BY <1>9, <1>10

LEMMA OneMonthOnly ==
  ASSUME NEW d \in Dates, NEW m \in Nat, FirstDay[m] <= d, d < FirstDay[m + 1]
  PROVE  MonthOf[d] = m
<1> DEFINE n == MonthOf[d]
<1>1. n \in Nat /\ FirstDay[n] <= d /\ d < FirstDay[n + 1]
  BY MonthOfDate
<1> HIDE DEF n
<1>2. /\ FirstDay[n] \in Nat /\ FirstDay[n + 1] \in Nat
      /\ FirstDay[m] \in Nat /\ FirstDay[m + 1] \in Nat /\ d \in Nat
  <2>1. n + 1 \in Nat /\ m + 1 \in Nat
    BY <1>1
  <2> QED
    BY <1>1, <2>1, FirstDays DEF Dates
<1>3. ~(n < m)
  <2> SUFFICES ASSUME n < m PROVE FALSE
    OBVIOUS
  <2>1. FirstDay[n + 1] <= FirstDay[m]
    BY <1>1, InOrderOfMonths
  <2> QED
    BY <1>1, <1>2, <2>1
<1>4. ~(m < n)
  <2> SUFFICES ASSUME m < n PROVE FALSE
    OBVIOUS
  <2>1. FirstDay[m + 1] <= FirstDay[n]
    BY <1>1, InOrderOfMonths
  <2> QED
    BY <1>1, <1>2, <2>1
<1>5. n = m
  BY <1>1, <1>3, <1>4
<1> QED
  BY <1>5 DEF n

(* A day of the month up to the 28th is there in every month.              *)
LEMMA DayOfAnyMonth ==
  ASSUME NEW m \in Nat, NEW day \in 1..28
  PROVE  /\ OnDay(m, day) \in Dates
         /\ OnDay(m, day) = FirstDay[m] + day - 1
         /\ MonthOf[OnDay(m, day)] = m
         /\ DayOfMonth(OnDay(m, day)) = day
<1>1. /\ FirstDay[m] \in Nat /\ FirstDay[m + 1] = FirstDay[m] + LengthOfMonth[m]
      /\ LengthOfMonth[m] \in 28..31
  BY FirstDays, OneMonth
<1> DEFINE d == OnDay(m, day)
<1>2. d = FirstDay[m] + day - 1
  <2>1. (IF day < LengthOfMonth[m] THEN day ELSE LengthOfMonth[m]) = day
    BY <1>1
  <2> QED
    BY <2>1 DEF OnDay
<1>3. d \in Dates /\ FirstDay[m] <= d /\ d < FirstDay[m + 1]
  <2> HIDE DEF d
  <2> QED
    BY <1>1, <1>2 DEF Dates
<1>4. MonthOf[d] = m
  BY <1>3, OneMonthOnly
<1>5. DayOfMonth(d) = day
  <2>1. DayOfMonth(d) = d - FirstDay[m] + 1
    BY <1>4 DEF DayOfMonth
  <2> HIDE DEF d
  <2> QED
    BY <1>1, <1>2, <2>1
<1> QED
  BY <1>2, <1>3, <1>4, <1>5

===============================================================================
