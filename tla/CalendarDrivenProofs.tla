------------------------- MODULE CalendarDrivenProofs -------------------------
(***************************************************************************)
(* The parts that go by the calendar: the partitions of the audit table,   *)
(* for any months, restarts and failures of its job; the figures of        *)
(* reports and trends, for any day and any entries; the alerts about       *)
(* shifts of behaviour, for any number of overlapping runs.                *)
(***************************************************************************)
EXTENDS CalendarDriven, CalendarProofs, FiniteSetTheorems

-------------------------------------------------------------------------------
(* The audit table: every row finds its partition.                         *)

(* Months of the audit table, by their number.                             *)
Months == Nat \X (1..12)
Num(m) == m[1] * 12 + (m[2] - 1)
Mon(k) == <<k \div 12, (k % 12) + 1>>

LEMMA MonOfNum ==
  ASSUME NEW m \in Int \X (1..12)
  PROVE  Num(m) \in Int /\ Mon(Num(m)) = m
<1> DEFINE y == m[1]
           k == m[2]
<1>1. y \in Int /\ k \in 1..12 /\ m = <<y, k>>
  OBVIOUS
<1> HIDE DEF y, k
<1>2. (y * 12 + (k - 1)) \div 12 = y /\ (y * 12 + (k - 1)) % 12 = k - 1
  BY <1>1
<1>3. Num(m) = y * 12 + (k - 1)
  BY DEF Num, y, k
<1>4. (k - 1) + 1 = k
  BY <1>1
<1> QED
  BY <1>1, <1>2, <1>3, <1>4 DEF Mon

LEMMA NumOfMon ==
  ASSUME NEW k \in Int
  PROVE  /\ Mon(k) \in Int \X (1..12)
         /\ Num(Mon(k)) = k
         /\ k \in Nat => Mon(k) \in Months
<1> DEFINE y == k \div 12
           r == k % 12
<1>1. y \in Int /\ r \in 0..11 /\ k = y * 12 + r /\ (k \in Nat => y \in Nat)
  OBVIOUS
<1>2. Mon(k) = <<y, r + 1>>
  BY DEF Mon
<1> HIDE DEF y, r
<1>3. r + 1 \in 1..12 /\ (r + 1) - 1 = r
  BY <1>1
<1> QED
  BY <1>1, <1>2, <1>3 DEF Num, Months

(* The order of tuples is that of the numbers.                             *)
LEMMA EarlierIsLess ==
  ASSUME NEW a \in Int \X (1..12), NEW b \in Int \X (1..12)
  PROVE  Earlier(a, b) <=> Num(a) < Num(b)
<1> DEFINE y == a[1]
           k == a[2]
           z == b[1]
           l == b[2]
<1>1. y \in Int /\ k \in 1..12 /\ z \in Int /\ l \in 1..12
  OBVIOUS
<1>2. Earlier(a, b) <=> y < z \/ (y = z /\ k < l)
  BY DEF Earlier
<1>3. Num(a) = y * 12 + (k - 1) /\ Num(b) = z * 12 + (l - 1)
  BY DEF Num
<1> HIDE DEF y, k, z, l
<1>4. CASE y < z
  BY <1>1, <1>2, <1>3, <1>4
<1>5. CASE y = z
  BY <1>1, <1>2, <1>3, <1>5
<1>6. CASE y > z
  BY <1>1, <1>2, <1>3, <1>6
<1> QED
  BY <1>1, <1>4, <1>5, <1>6

LEMMA NextMonth ==
  ASSUME NEW m \in Months
  PROVE  AddMonth(m) \in Months /\ Num(AddMonth(m)) = Num(m) + 1
<1> DEFINE y == m[1]
           k == m[2]
<1>1. y \in Nat /\ k \in 1..12
  BY DEF Months
<1>2. Num(m) = y * 12 + (k - 1)
  BY DEF Num
<1>3. AddMonth(m) = IF k = 12 THEN <<y + 1, 1>> ELSE <<y, k + 1>>
  BY DEF AddMonth
<1> HIDE DEF y, k
<1>4. CASE k = 12
  BY <1>1, <1>2, <1>3, <1>4 DEF Num, Months
<1>5. CASE k # 12
  BY <1>1, <1>2, <1>3, <1>5 DEF Num, Months
<1> QED
  BY <1>4, <1>5

LEMMA SpanOfMonths ==
  ASSUME NEW a \in Int \X (1..12), NEW b \in Int \X (1..12), NEW n \in Nat
  PROVE  /\ MonthsFrom(a, b) = Num(b) - Num(a)
         /\ SubMonths(a, n) = Mon(Num(a) - n)
<1> DEFINE y == a[1]
           k == a[2]
           z == b[1]
           l == b[2]
<1>1. y \in Int /\ k \in 1..12 /\ z \in Int /\ l \in 1..12
  OBVIOUS
<1>2. Num(a) = y * 12 + (k - 1) /\ Num(b) = z * 12 + (l - 1)
  BY DEF Num
<1>3. MonthsFrom(a, b) = (z * 12 + l) - (y * 12 + k)
  BY DEF MonthsFrom
<1>4. SubMonths(a, n) = Mon(Num(a) - n)
  BY DEF SubMonths, Num, Mon
<1> HIDE DEF y, k, z, l
<1> QED
  BY <1>1, <1>2, <1>3, <1>4

(* The loop of the job adds a month AheadMonths times.                     *)
LEMMA UpcomingMonths ==
  ASSUME NEW m \in Months
  PROVE  Upcoming(m) = {Mon(Num(m) + n) : n \in 0..AheadMonths}
<1> DEFINE F(f) == [n \in 0..AheadMonths |-> IF n = 0 THEN m ELSE AddMonth(f[n - 1])]
           after == CHOOSE f : f = F(f)
           g == [n \in 0..AheadMonths |-> Mon(Num(m) + n)]
<1>1. Upcoming(m) = {after[n] : n \in 0..AheadMonths}
  BY DEF Upcoming
<1>2. Num(m) \in Nat /\ Mon(Num(m)) = m /\ AheadMonths \in Nat
  <2>1. m \in Int \X (1..12) /\ m[1] \in Nat /\ m[2] \in 1..12
    BY DEF Months
  <2>2. Num(m) \in Nat
    BY <2>1 DEF Num
  <2> QED
    BY <2>1, <2>2, MonOfNum, AuditAssumption
<1>3. \A n \in Nat \ {0} : Mon(Num(m) + n) = AddMonth(Mon(Num(m) + (n - 1)))
  <2> SUFFICES ASSUME NEW n \in Nat \ {0}
               PROVE  Mon(Num(m) + n) = AddMonth(Mon(Num(m) + (n - 1)))
    OBVIOUS
  <2> DEFINE k == Num(m) + (n - 1)
  <2>1. k \in Nat /\ Num(m) + n = k + 1
    BY <1>2
  <2> HIDE DEF k
  <2>2. Mon(k) \in Months /\ Num(Mon(k)) = k
    BY <2>1, NumOfMon
  <2>3. AddMonth(Mon(k)) \in Months /\ Num(AddMonth(Mon(k))) = k + 1
    BY <2>2, NextMonth
  <2>4. AddMonth(Mon(k)) = Mon(k + 1)
    BY <2>3, MonOfNum DEF Months
  <2> QED
    BY <2>1, <2>4 DEF k
<1>4. g = F(g)
  <2>1. \A n \in 0..AheadMonths :
          g[n] = IF n = 0 THEN m ELSE AddMonth(g[n - 1])
    <3> SUFFICES ASSUME NEW n \in 0..AheadMonths
                 PROVE  g[n] = IF n = 0 THEN m ELSE AddMonth(g[n - 1])
      OBVIOUS
    <3>1. CASE n = 0
      BY <1>2, <3>1
    <3>2. CASE n # 0
      <4>1. n - 1 \in 0..AheadMonths /\ n \in Nat \ {0}
        BY <1>2, <3>2
      <4>2. g[n] = Mon(Num(m) + n) /\ g[n - 1] = Mon(Num(m) + (n - 1))
        BY <4>1
      <4> QED
        BY <1>3, <3>2, <4>1, <4>2
    <3> QED
      BY <3>1, <3>2
  <2> QED
    BY <2>1
<1>5. after = F(after)
  <2> HIDE DEF F, g
  <2> QED
    BY <1>4
<1>6. \A n \in 0..AheadMonths : after[n] = IF n = 0 THEN m ELSE AddMonth(after[n - 1])
  <2> HIDE DEF after
  <2> QED
    BY <1>5
<1>7. \A n \in 0..AheadMonths : after[n] = Mon(Num(m) + n)
  <2> HIDE DEF after, F, g
  <2> DEFINE bad == {n \in 0..AheadMonths : after[n] # Mon(Num(m) + n)}
  <2> SUFFICES ASSUME bad # {} PROVE FALSE
    OBVIOUS
  <2>1. PICK n \in bad : \A k \in bad : n <= k
    <3>1. bad \in SUBSET Nat
      OBVIOUS
    <3> HIDE DEF bad
    <3> QED
      BY <3>1, LeastOf
  <2>2. n # 0 /\ n \in 0..AheadMonths
    BY <1>2, <1>6
  <2>3. n - 1 \in 0..AheadMonths /\ n - 1 \notin bad /\ n \in Nat \ {0}
    <3>1. n - 1 \in 0..AheadMonths /\ n - 1 < n /\ n \in Nat \ {0} /\ n - 1 \in Nat
      BY <1>2, <2>2
    <3> HIDE DEF bad
    <3> QED
      BY <2>1, <2>2, <3>1
  <2>4. after[n - 1] = Mon(Num(m) + (n - 1))
    BY <2>3
  <2>5. after[n] = Mon(Num(m) + n)
    BY <1>3, <1>6, <2>2, <2>3, <2>4
  <2> QED
    BY <2>5
<1> HIDE DEF after, F, g
<1>8. {after[n] : n \in 0..AheadMonths} = {Mon(Num(m) + n) : n \in 0..AheadMonths}
  BY <1>7
<1> QED
  BY <1>1, <1>8 DEF after, F

-------------------------------------------------------------------------------
(* The partitions reach as far ahead as the last success of the job made   *)
(* them, unless it has failed for longer than that.                        *)
Covered ==
  \A m \in Months :
    /\ Num(FirstMonth) <= Num(m)
    /\ Num(m) <= Num(managed) + AheadMonths
    /\ Num(now) - Num(m) <= Retention
    => m \in partitions

AuditInv ==
  /\ {now, managed} \subseteq Months
  /\ partitions \subseteq Months
  /\ default \subseteq Months
  /\ gap \in Nat
  /\ Num(FirstMonth) <= Num(managed)
  /\ Num(managed) <= Num(now)
  /\ Num(now) - Num(managed) <= gap
  /\ gap <= AheadMonths => default = {} /\ Covered

LEMMA MonthNumbers ==
  /\ \A m \in Months : m \in Int \X (1..12) /\ Num(m) \in Nat
  /\ FirstMonth \in Months /\ AheadMonths \in Nat /\ Retention \in Nat
<1>1. ASSUME NEW m \in Months
      PROVE  m \in Int \X (1..12) /\ Num(m) \in Nat
  <2>1. m[1] \in Nat /\ m[2] \in 1..12 /\ m \in Int \X (1..12)
    BY DEF Months
  <2> QED
    BY <2>1 DEF Num
<1> QED
  BY <1>1, AuditAssumption DEF Months

(* A month within reach of the loop is one of its months.                  *)
LEMMA WithinReach ==
  ASSUME NEW a \in Months, NEW m \in Months, Num(a) <= Num(m), Num(m) <= Num(a) + AheadMonths
  PROVE  m \in Upcoming(a)
<1> DEFINE n == Num(m) - Num(a)
<1>1. n \in 0..AheadMonths /\ Num(a) + n = Num(m)
  BY MonthNumbers
<1>2. Mon(Num(a) + n) = m
  BY <1>1, MonthNumbers, MonOfNum
<1> HIDE DEF n
<1> QED
  BY <1>1, <1>2, UpcomingMonths

LEMMA UpcomingAreMonths ==
  ASSUME NEW a \in Months
  PROVE  Upcoming(a) \subseteq Months
<1> SUFFICES ASSUME NEW n \in 0..AheadMonths
             PROVE  Mon(Num(a) + n) \in Months
  BY UpcomingMonths
<1>1. Num(a) + n \in Nat
  BY MonthNumbers
<1> QED
  BY <1>1, NumOfMon

LEMMA AuditInitially == AuditInit => AuditInv
<1> SUFFICES ASSUME AuditInit
             PROVE  AuditInv
  OBVIOUS
<1>1. /\ now = FirstMonth /\ managed = FirstMonth /\ partitions = Upcoming(FirstMonth)
      /\ default = {} /\ gap = 0
  BY DEF AuditInit
<1>2. Covered
  BY <1>1, MonthNumbers, WithinReach DEF Covered
<1>3. partitions \subseteq Months
  BY <1>1, MonthNumbers, UpcomingAreMonths
<1>4. Num(FirstMonth) \in Nat
  BY MonthNumbers
<1> QED
  BY <1>1, <1>2, <1>3, <1>4, MonthNumbers DEF AuditInv

LEMMA AuditStep == AuditInv /\ [AuditNext]_auditVars => AuditInv'
<1> SUFFICES ASSUME AuditInv, [AuditNext]_auditVars
             PROVE  AuditInv'
  OBVIOUS
<1>1. /\ now \in Months /\ managed \in Months
      /\ Num(now) \in Nat /\ Num(managed) \in Nat /\ Num(FirstMonth) \in Nat
      /\ gap \in Nat
  BY MonthNumbers DEF AuditInv
<1>2. CASE AuditTick
  <2>1. /\ now' = AddMonth(now) /\ now' \in Months /\ Num(now') = Num(now) + 1
        /\ UNCHANGED <<partitions, default, managed>>
    BY <1>1, <1>2, NextMonth DEF AuditTick
  <2>2. MonthsFrom(managed, now') = Num(now') - Num(managed)
    BY <1>1, <2>1, MonthNumbers, SpanOfMonths
  <2>3. gap' \in Nat /\ gap <= gap' /\ Num(now') - Num(managed) <= gap'
    <3> DEFINE since == MonthsFrom(managed, now')
    <3>1. since \in Nat /\ since = Num(now') - Num(managed)
      BY <1>1, <2>1, <2>2 DEF AuditInv
    <3>2. gap' = IF since > gap THEN since ELSE gap
      BY <1>2 DEF AuditTick
    <3> HIDE DEF since
    <3> QED
      BY <1>1, <3>1, <3>2
  <2>4. Covered => Covered'
    <3> SUFFICES ASSUME Covered, NEW m \in Months,
                        Num(FirstMonth) <= Num(m),
                        Num(m) <= Num(managed') + AheadMonths,
                        Num(now') - Num(m) <= Retention
                 PROVE  m \in partitions
      BY <2>1 DEF Covered
    <3>1. Num(m) \in Nat /\ Retention \in Nat
      BY MonthNumbers
    <3>2. Num(now) - Num(m) <= Retention
      BY <1>1, <2>1, <3>1
    <3> QED
      BY <2>1, <3>2 DEF Covered
  <2>5. gap' <= AheadMonths => gap <= AheadMonths
    BY <1>1, <2>3, MonthNumbers
  <2>6. Num(managed) <= Num(now')
    BY <1>1, <2>1 DEF AuditInv
  <2> QED
    BY <1>1, <2>1, <2>3, <2>4, <2>5, <2>6 DEF AuditInv
<1>3. CASE Record
  <2>1. /\ default' = IF now \in partitions THEN default ELSE default \cup {now}
        /\ UNCHANGED <<now, partitions, managed, gap>>
    BY <1>3 DEF Record
  <2>2. Covered' <=> Covered
    BY <2>1 DEF Covered
  <2>3. gap <= AheadMonths => now \in partitions
    <3> SUFFICES ASSUME gap <= AheadMonths
                 PROVE  now \in partitions
      OBVIOUS
    <3>1. Num(now) <= Num(managed) + AheadMonths /\ Num(FirstMonth) <= Num(now)
      BY <1>1, MonthNumbers DEF AuditInv
    <3>2. Num(now) - Num(now) <= Retention
      BY <1>1, MonthNumbers
    <3> QED
      BY <1>1, <3>1, <3>2 DEF AuditInv, Covered
  <2> QED
    BY <1>1, <2>1, <2>2, <2>3 DEF AuditInv
<1>4. CASE Manage
  <2>1. /\ partitions' = {m \in partitions \cup Upcoming(now) :
                            ~Earlier(m, SubMonths(now, Retention))}
        /\ managed' = now
        /\ UNCHANGED <<now, default, gap>>
    BY <1>4 DEF Manage
  <2>2. partitions' \subseteq Months
    BY <1>1, <2>1, UpcomingAreMonths DEF AuditInv
  <2>3. ASSUME NEW m \in Months, Num(now) - Num(m) <= Retention
        PROVE  ~Earlier(m, SubMonths(now, Retention))
    <3>1. Num(m) \in Nat /\ Num(now) - Retention \in Int /\ Retention \in Nat
      BY <1>1, MonthNumbers
    <3>2. /\ SubMonths(now, Retention) \in Int \X (1..12)
          /\ Num(SubMonths(now, Retention)) = Num(now) - Retention
      BY <1>1, <3>1, MonthNumbers, SpanOfMonths, NumOfMon
    <3>3. ~(Num(m) < Num(now) - Retention)
      BY <1>1, <2>3, <3>1
    <3> QED
      BY <3>2, <3>3, MonthNumbers, EarlierIsLess
  <2>4. gap <= AheadMonths => Covered'
    <3> SUFFICES ASSUME gap <= AheadMonths, NEW m \in Months,
                        Num(FirstMonth) <= Num(m),
                        Num(m) <= Num(now) + AheadMonths,
                        Num(now) - Num(m) <= Retention
                 PROVE  m \in partitions'
      BY <2>1 DEF Covered
    <3>1. m \in partitions \cup Upcoming(now)
      <4>1. CASE Num(m) <= Num(managed) + AheadMonths
        BY <4>1 DEF AuditInv, Covered
      <4>2. CASE ~(Num(m) <= Num(managed) + AheadMonths)
        <5>1. Num(now) <= Num(m)
          BY <1>1, <4>2, MonthNumbers DEF AuditInv
        <5> QED
          BY <1>1, <5>1, WithinReach
      <4> QED
        BY <4>1, <4>2
    <3> QED
      BY <2>1, <2>3, <3>1
  <2>5. Num(now) - Num(now) = 0 /\ Num(FirstMonth) <= Num(now) /\ 0 <= gap
    BY <1>1 DEF AuditInv
  <2> QED
    BY <1>1, <2>1, <2>2, <2>4, <2>5 DEF AuditInv
<1>5. CASE UNCHANGED auditVars
  BY <1>5 DEF auditVars, AuditInv, Covered
<1> QED
  BY <1>2, <1>3, <1>4, <1>5 DEF AuditNext

LEMMA AuditHolds == AuditSpec => []AuditInv
  BY AuditInitially, AuditStep, PTL DEF AuditSpec

(* The months of rows, partitions and runs of the job are months.          *)
THEOREM AuditTypeCorrect == AuditSpec => []AuditTypeOK
<1>1. AuditInv => AuditTypeOK
  BY DEF AuditInv, AuditTypeOK, Months
<1> QED
  BY <1>1, AuditHolds, PTL

(* manage_audit_partitions_job: as long as it never fails for more months  *)
(* in a row than it creates ahead, every row finds its partition.          *)
THEOREM RowsFound == AuditSpec => []RowsFindTheirPartition
<1>1. AuditInv => RowsFindTheirPartition
  <2> SUFFICES ASSUME AuditInv, gap <= AheadMonths,
                      NEW m \in (FirstMonth[1]..now[1]) \X (1..12),
                      ~Earlier(m, FirstMonth), MonthsFrom(m, now) \in 0..Retention
               PROVE  m \in partitions
    BY DEF AuditInv, RowsFindTheirPartition
  <2>1. now \in Months /\ managed \in Months /\ m \in Months
    <3>1. now \in Months /\ managed \in Months /\ FirstMonth[1] \in Nat /\ now[1] \in Nat
      BY MonthNumbers DEF AuditInv, Months
    <3>2. m[1] \in FirstMonth[1]..now[1] /\ m[2] \in 1..12 /\ m = <<m[1], m[2]>>
      OBVIOUS
    <3>3. m[1] \in Nat
      BY <3>1, <3>2
    <3> QED
      BY <3>1, <3>2, <3>3 DEF Months
  <2>2. /\ Num(m) \in Nat /\ Num(now) \in Nat /\ Num(managed) \in Nat
        /\ Num(FirstMonth) \in Nat /\ Retention \in Nat /\ AheadMonths \in Nat
    BY <2>1, MonthNumbers
  <2>3. Num(FirstMonth) <= Num(m)
    BY <2>1, <2>2, MonthNumbers, EarlierIsLess
  <2>4. Num(now) - Num(m) \in 0..Retention
    BY <2>1, MonthNumbers, SpanOfMonths
  <2>5. Num(m) <= Num(managed) + AheadMonths
    BY <2>2, <2>4 DEF AuditInv
  <2> QED
    BY <2>1, <2>2, <2>3, <2>4, <2>5 DEF AuditInv, Covered
<1> QED
  BY AuditInitially, AuditStep, <1>1, PTL DEF AuditSpec

-------------------------------------------------------------------------------
(* The trends: they show the rows of their weeks or months, and all of them.*)

(* while month <= 0: whatever is borrowed, the month is the same one.      *)
LEMMA BorrowedMonths ==
  ASSUME NEW x \in -51..12
  PROVE  Borrowed[x].years \in Int /\ Borrowed[x].month = x + 12 * Borrowed[x].years
<1> DEFINE D == -51..12
           F(f) == [month \in D |->
                      IF month <= 0
                      THEN [month |-> f[month + 12].month, years |-> f[month + 12].years + 1]
                      ELSE [month |-> month, years |-> 0]]
           g == [month \in D |-> [month |-> month + 12 * ((12 - month) \div 12),
                                  years |-> (12 - month) \div 12]]
           B == Borrowed
<1>1. Borrowed = CHOOSE f : f = F(f)
  BY DEF Borrowed
<1>2. g = F(g)
  <2>1. ASSUME NEW m \in D
        PROVE  g[m] = IF m <= 0
                      THEN [month |-> g[m + 12].month, years |-> g[m + 12].years + 1]
                      ELSE [month |-> m, years |-> 0]
    <3>1. CASE m <= 0
      <4>1. m + 12 \in D /\ m \in Int
        BY <3>1
      <4>2. g[m] = [month |-> m + 12 * ((12 - m) \div 12), years |-> (12 - m) \div 12]
        OBVIOUS
      <4>3. g[m + 12] = [month |-> (m + 12) + 12 * ((12 - (m + 12)) \div 12),
                         years |-> (12 - (m + 12)) \div 12]
        BY <4>1
      <4>4. (12 - m) \div 12 = ((12 - (m + 12)) \div 12) + 1 /\ (12 - (m + 12)) \div 12 \in Int
        BY <4>1
      <4> DEFINE y == (12 - (m + 12)) \div 12
      <4>5. m + 12 * (y + 1) = (m + 12) + 12 * y
        <5>1. y \in Int
          BY <4>4
        <5> HIDE DEF y
        <5> QED
          BY <4>1, <5>1
      <4> HIDE DEF g
      <4> QED
        BY <3>1, <4>2, <4>3, <4>4, <4>5
    <3>2. CASE ~(m <= 0)
      <4>1. m \in 1..12
        BY <3>2
      <4>2. (12 - m) \div 12 = 0
        BY <4>1
      <4>3. g[m] = [month |-> m + 12 * 0, years |-> 0]
        BY <4>2
      <4> HIDE DEF g
      <4> QED
        BY <3>2, <4>1, <4>3
    <3> QED
      BY <3>1, <3>2
  <2> QED
    BY <2>1
<1>3. Borrowed = F(Borrowed)
  <2> HIDE DEF F, g
  <2> QED
    BY <1>1, <1>2
<1>4. \A m \in D : B[m] = IF m <= 0
                          THEN [month |-> B[m + 12].month, years |-> B[m + 12].years + 1]
                          ELSE [month |-> m, years |-> 0]
  <2> HIDE DEF B
  <2>1. B = F(B)
    BY <1>3 DEF B
  <2> QED
    BY <2>1
<1> HIDE DEF B, F, g
<1> DEFINE good(m) == B[m].years \in Int /\ B[m].month = m + 12 * B[m].years
           bad == {i \in 0..63 : ~good(12 - i)}
<1> SUFFICES ASSUME bad # {} PROVE FALSE
  <2>1. 12 - x \in 0..63 /\ 12 - (12 - x) = x
    OBVIOUS
  <2> QED
    BY <2>1 DEF B
<1>5. PICK i \in bad : \A k \in bad : i <= k
  <2>1. bad \in SUBSET Nat
    OBVIOUS
  <2> HIDE DEF bad
  <2> QED
    BY <2>1, LeastOf
<1>6. i \in 0..63 /\ ~good(12 - i)
  OBVIOUS
<1>7. i >= 12
  <2> SUFFICES ASSUME i < 12 PROVE FALSE
    BY <1>6
  <2>1. 12 - i \in 1..12 /\ 12 - i \in D /\ ~(12 - i <= 0)
    BY <1>6
  <2>2. B[12 - i] = [month |-> 12 - i, years |-> 0]
    BY <1>4, <2>1
  <2>3. good(12 - i)
    BY <2>1, <2>2
  <2> QED
    BY <1>6, <2>3
<1>8. i - 12 \in 0..63 /\ i - 12 < i /\ 12 - (i - 12) = (12 - i) + 12 /\ 12 - i \in D /\ 12 - i <= 0
  BY <1>6, <1>7
<1>9. good((12 - i) + 12)
  <2>1. i - 12 \notin bad
    <3> HIDE DEF bad
    <3> QED
      BY <1>5, <1>6, <1>8
  <2> QED
    BY <1>8, <2>1
<1>10. B[12 - i] = [month |-> B[(12 - i) + 12].month, years |-> B[(12 - i) + 12].years + 1]
  BY <1>4, <1>8
<1>11. good(12 - i)
  <2> DEFINE y == B[(12 - i) + 12].years
             m == B[(12 - i) + 12].month
  <2>1. y \in Int /\ m = ((12 - i) + 12) + 12 * y
    BY <1>9
  <2>2. B[12 - i].years = y + 1 /\ B[12 - i].month = m
    BY <1>10
  <2> HIDE DEF y, m
  <2> QED
    BY <1>6, <2>1, <2>2
<1> QED
  BY <1>6, <1>11

-------------------------------------------------------------------------------
(* The floors of the two trends are the first days of the oldest buckets.  *)
LEMMA WeekFloorIs ==
  ASSUME day \in Nat, NEW n \in 1..52
  PROVE  WeekFloor(n) = day - Weekday(day) - 7 * (n - 1)
<1> DEFINE oldest == day - 7 * (n - 1)
           r == day % 7
<1>1. oldest \in Int /\ r \in 0..6
  OBVIOUS
<1>2. oldest % 7 = r
  <2> DEFINE q == day \div 7
  <2>1. q \in Int /\ day = 7 * q + r
    OBVIOUS
  <2> HIDE DEF q, r
  <2>2. oldest = 7 * (q - (n - 1)) + r
    BY <1>1, <2>1
  <2> DEFINE p == q - (n - 1)
  <2>3. p \in Int
    BY <2>1
  <2> HIDE DEF oldest, p
  <2>4. (7 * p + r) % 7 = r
    BY <1>1, <2>3
  <2> QED
    BY <2>2, <2>4 DEF p
<1>3. WeekFloor(n) = oldest - (oldest % 7)
  BY DEF WeekFloor, Weekday
<1>4. Weekday(day) = r
  BY DEF Weekday
<1> HIDE DEF r
<1>5. oldest - r = day - r - 7 * (n - 1)
  BY <1>1
<1> QED
  BY <1>2, <1>3, <1>4, <1>5

LEMMA MonthFloorIs ==
  ASSUME day \in Dates, NEW n \in 1..52
  PROVE  MonthFloor(n) = FirstDay[MonthOf[day] - (n - 1)]
<1> DEFINE M == MonthOf[day]
           x == (M % 12) + 1 - (n - 1)
           y == Borrowed[x].years
           m == Borrowed[x].month
           q == M \div 12
           r == M % 12
<1>1. M \in Nat
  BY MonthOfDate
<1>2. q \in Nat /\ r \in 0..11 /\ M = 12 * q + r
  <2> HIDE DEF M
  <2> QED
    BY <1>1
<1>3. x \in -51..12
  <2> HIDE DEF r
  <2>1. r + 1 - (n - 1) \in -51..12
    BY <1>2
  <2> QED
    BY <2>1 DEF r
<1>4. y \in Int /\ m = x + 12 * y
  <2> HIDE DEF x
  <2> QED
    BY <1>3, BorrowedMonths
<1>5. MonthFloor(n) = FirstDay[((2024 + q) - y - 2024) * 12 + m - 1]
  BY DEF MonthFloor, Year
<1>6. x = r + 1 - (n - 1)
  OBVIOUS
<1> HIDE DEF M, x, y, m, q, r
<1>7. ((2024 + q) - y - 2024) * 12 + m - 1 = M - (n - 1)
  BY <1>1, <1>2, <1>4, <1>6
<1> QED
  BY <1>5, <1>7 DEF M

(* No two weeks, and no two months, share a label.                         *)
LEMMA WeeksOfLabels ==
  ASSUME NEW d \in Dates, NEW e \in Dates, IsoWeek(d) = IsoWeek(e)
  PROVE  d \div 7 = e \div 7
<1> DEFINE T(x) == x - (x % 7) + 3
           J(x) == FirstDay[(Year(MonthOf[T(x)]) - 2024) * 12]
           W(x) == (T(x) - J(x)) \div 7
<1>1. ASSUME NEW x \in Dates
      PROVE  /\ IsoWeek(x) = <<Year(MonthOf[T(x)]), W(x) + 1>>
             /\ T(x) \in Nat /\ T(x) = 7 * (x \div 7) + 3
             /\ J(x) \in Nat
  <2>1. x \in Nat
    BY DEF Dates
  <2>2. T(x) \in Nat /\ T(x) = 7 * (x \div 7) + 3
    BY <2>1
  <2>3. MonthOf[T(x)] \in Nat
    BY <2>2, MonthOfDate DEF Dates
  <2>4. (Year(MonthOf[T(x)]) - 2024) * 12 \in Nat
    <3> DEFINE M == MonthOf[T(x)]
    <3>1. M \in Nat
      BY <2>3
    <3> HIDE DEF M
    <3>2. M \div 12 \in Nat
      BY <3>1
    <3>3. (Year(M) - 2024) * 12 \in Nat
      BY <3>2 DEF Year
    <3> QED
      BY <3>3 DEF M
  <2>5. J(x) \in Nat
    <3> DEFINE z == (Year(MonthOf[T(x)]) - 2024) * 12
    <3>1. z \in Nat
      BY <2>4
    <3> HIDE DEF z
    <3>2. FirstDay[z] \in Nat
      BY <3>1, FirstDays
    <3> QED
      BY <3>2 DEF z
  <2>6. IsoWeek(x) = <<Year(MonthOf[T(x)]), W(x) + 1>>
    BY DEF IsoWeek, Weekday
  <2> QED
    BY <2>2, <2>5, <2>6
<1>2. Year(MonthOf[T(d)]) = Year(MonthOf[T(e)]) /\ W(d) + 1 = W(e) + 1
  BY <1>1
<1>3. J(d) = J(e)
  BY <1>2
<1> DEFINE a == d \div 7
           b == e \div 7
           j == J(d)
<1>4. /\ a \in Int /\ b \in Int /\ j \in Int
      /\ W(d) = (7 * a + 3 - j) \div 7 /\ W(e) = (7 * b + 3 - j) \div 7
  <2>1. d \in Nat /\ e \in Nat
    BY DEF Dates
  <2>2. a \in Int /\ b \in Int
    BY <2>1
  <2>3. j \in Int
    BY <1>1
  <2>4. T(d) = 7 * a + 3 /\ T(e) = 7 * b + 3
    BY <1>1
  <2> QED
    BY <1>3, <2>2, <2>3, <2>4
<1>5. W(d) \in Int /\ W(e) \in Int
  BY <1>4
<1> HIDE DEF a, b, j, W
<1>6. W(d) = W(e)
  BY <1>2, <1>5
<1>7. (7 * a + 3 - j) \div 7 = a + ((3 - j) \div 7) /\ (7 * b + 3 - j) \div 7 = b + ((3 - j) \div 7)
  BY <1>4
<1>8. (3 - j) \div 7 \in Int
  BY <1>4
<1>9. a = b
  BY <1>4, <1>6, <1>7, <1>8
<1> QED
  BY <1>9 DEF a, b

LEMMA MonthsOfLabels ==
  ASSUME NEW m \in Nat, NEW k \in Nat, Year(m) = Year(k), (m % 12) + 1 = (k % 12) + 1
  PROVE  m = k
BY DEF Year

(* A date and another one with its label are on the same side of the floor.*)
LEMMA SameSideOfFloor ==
  ASSUME day \in ReportDays, NEW n \in BucketCounts, NEW g \in {"week", "month"},
         NEW d \in Dates, NEW e \in Dates, Label(g, d) = Label(g, e)
  PROVE  LET first == IF g = "week" THEN day - Weekday(day) - 7 * (n - 1)
                      ELSE FirstDay[MonthOf[day] - (n - 1)]
         IN  e >= first => d >= first
<1>1. day \in Nat /\ n \in 1..52 /\ d \in Nat /\ e \in Nat /\ n <= MonthOf[day] + 1
  BY ReportAssumption DEF Dates
<1>2. CASE g = "week"
  <2> DEFINE f == (day \div 7) - (n - 1)
             first == day - Weekday(day) - 7 * (n - 1)
  <2>1. d \div 7 = e \div 7
    BY <1>2, WeeksOfLabels DEF Label
  <2>2. f \in Int /\ first = 7 * f
    <3> DEFINE q == day \div 7
               r == day % 7
    <3>1. q \in Int /\ r \in Int /\ day = 7 * q + r
      BY <1>1
    <3>2. first = day - r - 7 * (n - 1) /\ f = q - (n - 1)
      BY DEF Weekday
    <3> HIDE DEF q, r, f, first
    <3> QED
      BY <1>1, <3>1, <3>2
  <2> HIDE DEF f, first
  <2>3. ASSUME NEW x \in Nat
        PROVE  x >= 7 * f <=> x \div 7 >= f
    BY <2>2
  <2>4. e >= first => d >= first
    BY <1>1, <2>1, <2>2, <2>3
  <2> QED
    BY <1>2, <2>4 DEF first
<1>3. CASE g = "month"
  <2> DEFINE M == MonthOf[d]
             X == MonthOf[day] - (n - 1)
  <2>1. M \in Nat /\ MonthOf[e] \in Nat /\ MonthOf[day] \in Nat
    BY <1>1, MonthOfDate DEF Dates
  <2>2. MonthOf[e] = M
    BY <1>3, <2>1, MonthsOfLabels DEF Label
  <2>3. X \in Nat
    BY <1>1, <2>1
  <2>4. /\ FirstDay[M] <= d /\ e < FirstDay[M + 1]
        /\ FirstDay[M] \in Nat /\ FirstDay[M + 1] \in Nat /\ FirstDay[X] \in Nat
    <3>1. M + 1 \in Nat
      BY <2>1
    <3> QED
      BY <2>1, <2>2, <2>3, <3>1, MonthOfDate, FirstDays
  <2> HIDE DEF M, X
  <2>5. CASE M < X
    <3>1. FirstDay[M + 1] <= FirstDay[X]
      BY <2>1, <2>3, <2>5, InOrderOfMonths
    <3> QED
      BY <1>1, <1>3, <2>4, <3>1 DEF X
  <2>6. CASE X < M
    <3>1. FirstDay[X + 1] <= FirstDay[M] /\ FirstDay[X + 1] \in Nat
          /\ FirstDay[X] + 28 <= FirstDay[X + 1]
      <4>1. X + 1 \in Nat
        BY <2>3
      <4> QED
        BY <2>1, <2>3, <2>6, <4>1, InOrderOfMonths, FirstDays
    <3>2. d >= FirstDay[X]
      BY <1>1, <2>4, <3>1
    <3> QED
      BY <1>3, <3>2 DEF X
  <2>7. CASE X = M
    BY <1>1, <1>3, <2>4, <2>7 DEF X
  <2> QED
    BY <2>1, <2>3, <2>5, <2>6, <2>7
<1> QED
  BY <1>2, <1>3

-------------------------------------------------------------------------------
ReportsInv == day \in ReportDays /\ book \subseteq Entries /\ IsFiniteSet(book)

LEMMA ReportsInitially == ReportsInit => ReportsInv
<1>1. ReportDays \in SUBSET Nat /\ ReportDays # {}
  BY ReportAssumption DEF Dates
<1>2. \E d \in ReportDays : \A e \in ReportDays : d <= e
  BY <1>1, LeastOf
<1> QED
  BY <1>2, FS_EmptySet DEF ReportsInit, ReportsInv

LEMMA ReportsStep == ReportsInv /\ [ReportsNext]_reportVars => ReportsInv'
<1> SUFFICES ASSUME ReportsInv, [ReportsNext]_reportVars PROVE ReportsInv'
  OBVIOUS
<1>1. day' \in ReportDays /\ book' \subseteq Entries
  BY DEF ReportsInv, ReportsNext, NextDay, Enter, Remove, reportVars
<1>2. IsFiniteSet(book')
  <2>1. CASE Enter
    BY <2>1, FS_AddElement DEF Enter, ReportsInv
  <2>2. CASE Remove
    BY <2>2, FS_RemoveElement DEF Remove, ReportsInv
  <2>3. CASE NextDay \/ UNCHANGED reportVars
    BY <2>3 DEF NextDay, reportVars, ReportsInv
  <2> QED
    BY <2>1, <2>2, <2>3 DEF ReportsNext
<1> QED
  BY <1>1, <1>2 DEF ReportsInv

(* The trend selects exactly the past entries from the first day of the    *)
(* oldest bucket on.                                                       *)
LEMMA RowsOfTrend ==
  ASSUME ReportsInv, NEW n \in BucketCounts, NEW g \in {"week", "month"}, NEW c, NEW k
  PROVE  LET past == {t \in book : t.date <= day /\ t.currency = c /\ Kind(t) = k}
             first == IF g = "week" THEN day - Weekday(day) - 7 * (n - 1)
                      ELSE FirstDay[MonthOf[day] - (n - 1)]
         IN  TrendRows(g, n, c, k) = {t \in past : t.date >= first}
<1> DEFINE past == {t \in book : t.date <= day /\ t.currency = c /\ Kind(t) = k}
           first == IF g = "week" THEN day - Weekday(day) - 7 * (n - 1)
                    ELSE FirstDay[MonthOf[day] - (n - 1)]
           floor == IF g = "week" THEN WeekFloor(n) ELSE MonthFloor(n)
<1>1. day \in Dates /\ day \in Nat /\ n \in 1..52
  BY ReportAssumption DEF ReportsInv, Dates
<1>2. floor = first
  BY <1>1, WeekFloorIs, MonthFloorIs
<1>3. TrendRows(g, n, c, k) = {t \in Dated(floor, day) : t.currency = c /\ Kind(t) = k}
  BY DEF TrendRows
<1> HIDE DEF floor, first
<1>4. TrendRows(g, n, c, k) = {t \in past : t.date >= first}
  BY <1>2, <1>3 DEF Dated
<1> QED
  BY <1>4 DEF first

(* The spend trend shows whole buckets, no two of which share a label,     *)
(* whatever the day, the entries and the length that was asked for.        *)
THEOREM TrendsWhole == ReportsSpec => []TrendIsWhole
<1>1. ReportsInv => TrendIsWhole
  <2> SUFFICES ASSUME ReportsInv, NEW g \in {"week", "month"}, NEW n \in BucketCounts,
                      NEW c \in Currencies, NEW k \in {"expense", "income"}
               PROVE  LET past == {t \in book : t.date <= day /\ t.currency = c /\ Kind(t) = k}
                          trend == Trend(g, n, c, k)
                          first == IF g = "week" THEN day - Weekday(day) - 7 * (n - 1)
                                   ELSE FirstDay[MonthOf[day] - (n - 1)]
                      IN  /\ DOMAIN trend =
                               {Label(g, t.date) : t \in {u \in past : u.date >= first}}
                          /\ \A l \in DOMAIN trend :
                               trend[l] = Total({t \in past : Label(g, t.date) = l})
    BY DEF TrendIsWhole
  <2> DEFINE past == {t \in book : t.date <= day /\ t.currency = c /\ Kind(t) = k}
             trend == Trend(g, n, c, k)
             first == IF g = "week" THEN day - Weekday(day) - 7 * (n - 1)
                      ELSE FirstDay[MonthOf[day] - (n - 1)]
             rows == {t \in past : t.date >= first}
  <2>1. TrendRows(g, n, c, k) = rows
    BY RowsOfTrend
  <2>2. trend = [l \in {Label(g, t.date) : t \in rows} |->
                   Total({t \in rows : Label(g, t.date) = l})]
    BY <2>1 DEF Trend
  <2>3. \A t \in book : t.date \in Dates
    BY ReportAssumption DEF ReportsInv
  <2>4. \A d, e \in Dates : Label(g, d) = Label(g, e) /\ e >= first => d >= first
    BY SameSideOfFloor DEF ReportsInv
  <2> HIDE DEF first, trend
  <2>5. ASSUME NEW u \in rows
        PROVE  {t \in rows : Label(g, t.date) = Label(g, u.date)}
                 = {t \in past : Label(g, t.date) = Label(g, u.date)}
    BY <2>3, <2>4
  <2>6. \A l \in DOMAIN trend : trend[l] = Total({t \in past : Label(g, t.date) = l})
    <3> SUFFICES ASSUME NEW u \in rows
                 PROVE  trend[Label(g, u.date)]
                          = Total({t \in past : Label(g, t.date) = Label(g, u.date)})
      BY <2>2
    <3>1. trend[Label(g, u.date)] = Total({t \in rows : Label(g, t.date) = Label(g, u.date)})
      BY <2>2
    <3> QED
      BY <2>5, <3>1
  <2>7. DOMAIN trend = {Label(g, t.date) : t \in {u \in past : u.date >= first}}
    BY <2>2
  <2> QED
    BY <2>6, <2>7 DEF first, trend
<1> QED
  BY ReportsInitially, ReportsStep, <1>1, PTL DEF ReportsSpec

-------------------------------------------------------------------------------
(* The alerts: nothing is told twice, nothing that was found is kept back. *)

(* Periods and numbers of months go together.                              *)
LEMMA PeriodsOfMonths ==
  ASSUME NEW m \in Int
  PROVE  /\ PrevMonth(Period(m)) = Period(m - 1)
         /\ NotBefore(Period(m), Period(m))
         /\ NotBefore(Period(m), Period(m - 1))
         /\ \A n \in Int : Period(n) = Period(m) => n = m
<1> DEFINE y == m \div 12
           k == m % 12
           z == (m - 1) \div 12
           l == (m - 1) % 12
<1>1. /\ y \in Int /\ k \in 0..11 /\ m = 12 * y + k
      /\ k = 0 => z = y - 1 /\ l = 11
      /\ k > 0 => z = y /\ l = k - 1
  OBVIOUS
<1>2. Period(m) = <<2024 + y, k + 1>> /\ Period(m - 1) = <<2024 + z, l + 1>>
  BY DEF Period, Year
<1>3. \A n \in Int : Period(n) = Period(m) => n = m
  <2> SUFFICES ASSUME NEW n \in Int, Period(n) = Period(m)
               PROVE  n = m
    OBVIOUS
  <2> DEFINE x == n \div 12
             r == n % 12
  <2>1. Period(n) = <<2024 + x, r + 1>>
    BY DEF Period, Year
  <2>2. x \in Int /\ r \in 0..11 /\ n = 12 * x + r
    OBVIOUS
  <2> HIDE DEF x, r, y, k
  <2>3. 2024 + x = 2024 + y /\ r + 1 = k + 1
    BY <1>2, <2>1
  <2> QED
    BY <1>1, <2>2, <2>3
<1> HIDE DEF y, k, z, l
<1>4. NotBefore(Period(m), Period(m))
  BY <1>1, <1>2 DEF NotBefore
<1>5. CASE k = 0
  BY <1>1, <1>2, <1>3, <1>4, <1>5 DEF NotBefore, PrevMonth
<1>6. CASE k > 0
  BY <1>1, <1>2, <1>3, <1>4, <1>6 DEF NotBefore, PrevMonth
<1> QED
  BY <1>1, <1>5, <1>6

(* The months of a history, from the month it is the history of.           *)
MonthsBefore(m) ==
  [p \in {Period(n) : n \in (m - HistoryMonths)..(m - 1)} |-> ReadMonth(p)]

(* read_history_months walks back one month at a time.                     *)
LEMMA HistoryIsRead ==
  ASSUME NEW m \in Int
  PROVE  ReadHistory(Period(m)) = MonthsBefore(m)
<1> DEFINE p == Period(m)
           F(f) == [n \in 0..HistoryMonths |-> IF n = 0 THEN p ELSE PrevMonth(f[n - 1])]
           back == CHOOSE f : f = F(f)
           g == [n \in 0..HistoryMonths |-> Period(m - n)]
<1>1. ReadHistory(p) = [q \in {back[n] : n \in 1..HistoryMonths} |-> ReadMonth(q)]
  BY DEF ReadHistory
<1>2. HistoryMonths \in Nat \ {0}
  BY AlertAssumption
<1>3. \A n \in Nat \ {0} : Period(m - n) = PrevMonth(Period(m - (n - 1)))
  <2> SUFFICES ASSUME NEW n \in Nat \ {0}
               PROVE  Period(m - n) = PrevMonth(Period(m - (n - 1)))
    OBVIOUS
  <2> DEFINE k == m - (n - 1)
  <2>1. k \in Int /\ m - n = k - 1
    OBVIOUS
  <2> HIDE DEF k
  <2>2. PrevMonth(Period(k)) = Period(k - 1)
    BY <2>1, PeriodsOfMonths
  <2> QED
    BY <2>1, <2>2 DEF k
<1>4. g = F(g)
  <2>1. ASSUME NEW n \in 0..HistoryMonths
        PROVE  g[n] = IF n = 0 THEN p ELSE PrevMonth(g[n - 1])
    <3>1. CASE n = 0
      <4>1. m - 0 = m
        OBVIOUS
      <4> QED
        BY <3>1, <4>1
    <3>2. CASE n # 0
      <4>1. n - 1 \in 0..HistoryMonths /\ n \in Nat \ {0}
        BY <1>2, <3>2
      <4>2. g[n] = Period(m - n) /\ g[n - 1] = Period(m - (n - 1))
        BY <4>1
      <4> QED
        BY <1>3, <3>2, <4>1, <4>2
    <3> QED
      BY <3>1, <3>2
  <2> QED
    BY <2>1
<1>5. back = F(back)
  <2> HIDE DEF F, g
  <2> QED
    BY <1>4
<1>6. \A n \in 0..HistoryMonths : back[n] = IF n = 0 THEN p ELSE PrevMonth(back[n - 1])
  <2> HIDE DEF back
  <2> QED
    BY <1>5
<1>7. \A n \in 0..HistoryMonths : back[n] = Period(m - n)
  <2> HIDE DEF back, F, g
  <2> DEFINE bad == {n \in 0..HistoryMonths : back[n] # Period(m - n)}
  <2> SUFFICES ASSUME bad # {} PROVE FALSE
    OBVIOUS
  <2>1. PICK n \in bad : \A k \in bad : n <= k
    <3>1. bad \in SUBSET Nat
      OBVIOUS
    <3> HIDE DEF bad
    <3> QED
      BY <3>1, LeastOf
  <2>2. n # 0 /\ n \in 0..HistoryMonths
    <3>1. m - 0 = m
      OBVIOUS
    <3> QED
      BY <1>2, <1>6, <3>1
  <2>3. n - 1 \in 0..HistoryMonths /\ n - 1 \notin bad /\ n \in Nat \ {0}
    <3>1. n - 1 \in 0..HistoryMonths /\ n - 1 < n /\ n \in Nat \ {0} /\ n - 1 \in Nat
      BY <1>2, <2>2
    <3> HIDE DEF bad
    <3> QED
      BY <2>1, <2>2, <3>1
  <2>4. back[n - 1] = Period(m - (n - 1))
    BY <2>3
  <2>5. back[n] = Period(m - n)
    BY <1>3, <1>6, <2>2, <2>3, <2>4
  <2> QED
    BY <2>5
<1>8. {back[n] : n \in 1..HistoryMonths}
        = {Period(n) : n \in (m - HistoryMonths)..(m - 1)}
  <2> HIDE DEF back, F, g
  <2>1. \A n \in 1..HistoryMonths : back[n] = Period(m - n) /\ m - n \in (m - HistoryMonths)..(m - 1)
    BY <1>2, <1>7
  <2>2. \A n \in (m - HistoryMonths)..(m - 1) : m - n \in 1..HistoryMonths /\ m - (m - n) = n
    BY <1>2
  <2>3. ASSUME NEW n \in (m - HistoryMonths)..(m - 1)
        PROVE  Period(n) \in {back[i] : i \in 1..HistoryMonths}
    <3>1. m - n \in 1..HistoryMonths /\ back[m - n] = Period(n)
      <4>1. m - n \in 1..HistoryMonths /\ m - (m - n) = n
        BY <2>2
      <4>2. back[m - n] = Period(m - (m - n))
        BY <2>1, <4>1
      <4> QED
        BY <4>1, <4>2
    <3> QED
      BY <3>1
  <2> QED
    BY <2>1, <2>3
<1> HIDE DEF back, F, g
<1> QED
  BY <1>1, <1>8 DEF MonthsBefore

-------------------------------------------------------------------------------
(* What a run finds of a month, and what the user has been told of it.     *)
Found(m) == Detected(ReadMonth(Period(m)), MonthsBefore(m))
Told(m) == {k[1] : k \in {l \in told : l[2] = Period(m)}}

LEMMA NothingInNothing ==
  ASSUME NEW history
  PROVE  Detected({}, history) = {}
BY DEF Detected

(* The last day on which a run may tell of the month before q.             *)
LastTelling(q) == FirstDay[q] + 30 + LongestRun

Rows ==
  /\ today \in Days
  /\ \A t \in ledger : t.month \in Nat
  /\ ledger \subseteq (UNION Histories) \cup Offers
  /\ \A a \in alerts : \E s, p, d, r :
       a = [subtype |-> s, period |-> p, day |-> d, read |-> r]
  /\ job = [j \in Jobs |-> job[j]]
  /\ \A j \in Jobs : \E pc, d, m, rows, found :
       job[j] = [pc |-> pc, day |-> d, month |-> m, rows |-> rows, found |-> found]

(* A run under way is in one of the two months of its day.                 *)
RunsUnderWay ==
  \A j \in Jobs : job[j].pc # "asleep" =>
    /\ job[j].day \in Dates
    /\ job[j].day <= today /\ today <= job[j].day + LongestRun
    /\ \E m \in {MonthOf[job[j].day] - 1, MonthOf[job[j].day]} : job[j].month = Period(m)

(* An alert was not written before its month began.                        *)
AlertsAreDated ==
  \A a \in alerts : \E q \in Nat :
    a.period = Period(q - 1) /\ a.day \in Nat /\ FirstDay[q] <= a.day + 31

(* What the user was told is still there, or no run will tell it again.    *)
ToldIsKept ==
  \A k \in told :
    \/ \E a \in alerts : Key(a) = k
    \/ \E q \in Nat : k[2] = Period(q - 1) /\ today > LastTelling(q)

(* How far the run of a process that nothing disturbed has come.           *)
Undisturbed(j) ==
  LET c == MonthOf[today]
  IN  /\ job[j].pc = "asleep" => Found(c - 1) \subseteq Told(c - 1) /\ Found(c) \subseteq Told(c)
      /\ job[j].pc # "asleep" =>
           /\ job[j].day = today
           /\ job[j].month = Period(c) => Found(c - 1) \subseteq Told(c - 1)
      /\ job[j].pc = "history" => job[j].rows = ReadMonth(job[j].month)
      /\ job[j].pc = "write" => \A m \in Int : job[j].month = Period(m) => job[j].found = Found(m)

AlertsInv ==
  /\ Rows
  /\ RunsUnderWay
  /\ AlertsAreDated
  /\ ToldIsKept
  /\ fresh \subseteq Jobs
  /\ \A j \in fresh : Undisturbed(j)

LEMMA DaysAreNumbers ==
  /\ Days \in SUBSET Nat /\ Days # {}
  /\ LongestRun \in Nat /\ AlertRetention \in Nat /\ 61 + LongestRun <= AlertRetention
  /\ \A d \in Days : MonthOf[d] \in Nat
BY AlertAssumption, MonthOfDate DEF Dates

LEMMA AlertsInitially == AlertsInit => AlertsInv
<1> SUFFICES ASSUME AlertsInit
             PROVE  AlertsInv
  OBVIOUS
<1>1. /\ ledger \in Histories /\ alerts = {} /\ told = {} /\ fresh = {}
      /\ job = [j \in Jobs |-> Asleep]
  BY DEF AlertsInit
<1>2. today \in Days
  <2>1. \E d \in Days : \A e \in Days : d <= e
    BY DaysAreNumbers, LeastOf
  <2> QED
    BY <2>1 DEF AlertsInit
<1>3. Rows
  <2>1. ledger \subseteq (UNION Histories) \cup Offers
    BY <1>1
  <2>2. \A t \in ledger : t.month \in Nat
    BY <2>1, AlertAssumption
  <2> QED
    BY <1>1, <1>2, <2>1, <2>2 DEF Rows, Asleep
<1> QED
  BY <1>1, <1>3 DEF AlertsInv, RunsUnderWay, AlertsAreDated, ToldIsKept, Asleep

(* A run writes while nothing it tells of is forgotten.                    *)
LEMMA RunsAreInTime ==
  ASSUME AlertsInv, NEW j \in Jobs, job[j].pc # "asleep"
  PROVE  \E q \in Nat : /\ job[j].month = Period(q - 1)
                        /\ today <= LastTelling(q)
                        /\ FirstDay[q] <= today + 31
<1> DEFINE d == job[j].day
           c == MonthOf[d]
<1>1. PICK m \in {c - 1, c} : job[j].month = Period(m)
  BY DEF AlertsInv, RunsUnderWay
<1>2. d \in Dates /\ d \in Nat /\ d <= today /\ today <= d + LongestRun
  BY DEF AlertsInv, RunsUnderWay, Dates
<1>3. c \in Nat /\ FirstDay[c] <= d /\ d < FirstDay[c + 1]
  BY <1>2, MonthOfDate
<1>4. today \in Nat /\ LongestRun \in Nat
  BY DaysAreNumbers DEF AlertsInv, Rows
<1> HIDE DEF d, c
<1>5. c + 1 \in Nat /\ (c + 1) - 1 = c
  BY <1>3
<1>6. /\ FirstDay[c] \in Nat /\ FirstDay[c + 1] \in Nat
      /\ FirstDay[c + 1] <= FirstDay[c] + 31
  <2> DEFINE l == LengthOfMonth[c]
             f == FirstDay[c]
             g == FirstDay[c + 1]
  <2>1. f \in Nat /\ g \in Nat /\ g = f + l /\ l \in 28..31
    BY <1>3, <1>5, FirstDays, OneMonth
  <2> HIDE DEF l, f, g
  <2>2. f \in Nat /\ g \in Nat /\ g <= f + 31
    BY <2>1
  <2> QED
    BY <2>2 DEF f, g
<1>7. CASE m = c
  <2>1. today <= LastTelling(c + 1) /\ FirstDay[c + 1] <= today + 31
    BY <1>2, <1>3, <1>4, <1>6 DEF LastTelling
  <2> QED
    BY <1>1, <1>5, <1>7, <2>1
<1>8. CASE m = c - 1
  <2>1. today <= LastTelling(c) /\ FirstDay[c] <= today + 31
    BY <1>2, <1>3, <1>4, <1>6 DEF LastTelling
  <2> QED
    BY <1>1, <1>3, <1>8, <2>1
<1> QED
  BY <1>1, <1>7, <1>8

(* Steps that write no alert and clear none.                               *)
LEMMA AlertsUntouched ==
  ASSUME AlertsInv, UNCHANGED <<alerts, told>>, today' \in Days, today' >= today
  PROVE  AlertsAreDated' /\ ToldIsKept'
<1>1. AlertsAreDated'
  BY DEF AlertsInv, AlertsAreDated
<1>2. ASSUME NEW q \in Nat, today > LastTelling(q)
      PROVE  today' > LastTelling(q)
  <2>1. LastTelling(q) \in Nat /\ today \in Nat /\ today' \in Nat
    BY FirstDays, DaysAreNumbers DEF LastTelling, AlertsInv, Rows
  <2> HIDE DEF LastTelling
  <2> QED
    BY <1>2, <2>1
<1>3. ToldIsKept'
  <2> SUFFICES ASSUME NEW k \in told
               PROVE  \/ \E a \in alerts : Key(a) = k
                      \/ \E q \in Nat : k[2] = Period(q - 1) /\ today' > LastTelling(q)
    BY DEF ToldIsKept, LastTelling, Key
  <2> QED
    BY <1>2 DEF AlertsInv, ToldIsKept
<1> QED
  BY <1>1, <1>3

(* The world stands still for the runs nothing disturbed, and no more is   *)
(* forgotten of what the user was told.                                    *)
LEMMA StillUndisturbed ==
  ASSUME NEW j \in Jobs, Undisturbed(j), UNCHANGED <<today, ledger>>, told \subseteq told',
         job'[j] = job[j]
  PROVE  Undisturbed(j)'
BY DEF Undisturbed, Found, Told, MonthsBefore, ReadMonth

-------------------------------------------------------------------------------
LEMMA DayKeeps ==
  ASSUME AlertsInv, DayPasses
  PROVE  AlertsInv'
<1>1. /\ today' \in Days /\ today' > today /\ fresh' = {}
      /\ \A j \in Jobs : job[j].pc # "asleep" => today' <= job[j].day + LongestRun
      /\ UNCHANGED <<ledger, alerts, job, told>>
  BY DEF DayPasses
<1>2. today \in Nat /\ today' \in Nat
  BY <1>1, DaysAreNumbers DEF AlertsInv, Rows
<1>3. AlertsAreDated' /\ ToldIsKept'
  BY <1>1, <1>2, AlertsUntouched
<1>4. Rows'
  BY <1>1 DEF AlertsInv, Rows
<1>5. RunsUnderWay'
  <2> SUFFICES ASSUME NEW j \in Jobs, job[j].pc # "asleep"
               PROVE  /\ job[j].day \in Dates
                      /\ job[j].day <= today' /\ today' <= job[j].day + LongestRun
                      /\ \E m \in {MonthOf[job[j].day] - 1, MonthOf[job[j].day]} :
                           job[j].month = Period(m)
    BY <1>1 DEF RunsUnderWay
  <2>1. /\ job[j].day \in Dates /\ job[j].day <= today
        /\ \E m \in {MonthOf[job[j].day] - 1, MonthOf[job[j].day]} : job[j].month = Period(m)
    BY DEF AlertsInv, RunsUnderWay
  <2>2. job[j].day <= today'
    BY <1>1, <1>2, <2>1 DEF Dates
  <2> QED
    BY <1>1, <2>1, <2>2
<1> QED
  BY <1>1, <1>3, <1>4, <1>5 DEF AlertsInv

LEMMA RecordKeeps ==
  ASSUME AlertsInv, RecordTransaction
  PROVE  AlertsInv'
<1>1. PICK t \in Offers \ ledger : ledger' = ledger \cup {t}
  BY DEF RecordTransaction
<1>2. fresh' = {} /\ UNCHANGED <<today, alerts, job, told>>
  BY DEF RecordTransaction
<1>3. today \in Days /\ today \in Nat
  BY DaysAreNumbers DEF AlertsInv, Rows
<1>4. AlertsAreDated' /\ ToldIsKept'
  BY <1>2, <1>3, AlertsUntouched
<1>5. Rows'
  <2>1. t \in (UNION Histories) \cup Offers
    BY <1>1
  <2>2. t.month \in Nat
    BY <2>1, AlertAssumption
  <2> QED
    BY <1>1, <1>2, <2>1, <2>2 DEF AlertsInv, Rows
<1>6. RunsUnderWay'
  BY <1>2 DEF AlertsInv, RunsUnderWay
<1> QED
  BY <1>2, <1>4, <1>5, <1>6 DEF AlertsInv

(* Only what no run will tell again is purged.                             *)
LEMMA PurgeKeeps ==
  ASSUME AlertsInv, Purge
  PROVE  AlertsInv'
<1>1. /\ alerts' = {a \in alerts : a.day + AlertRetention >= today}
      /\ UNCHANGED <<today, ledger, job, told, fresh>>
  BY DEF Purge
<1>2. Rows' /\ RunsUnderWay' /\ AlertsAreDated'
  BY <1>1 DEF AlertsInv, Rows, RunsUnderWay, AlertsAreDated
<1>3. ToldIsKept'
  <2> SUFFICES ASSUME NEW k \in told
               PROVE  \/ \E a \in alerts' : Key(a) = k
                      \/ \E q \in Nat : k[2] = Period(q - 1) /\ today > LastTelling(q)
    BY <1>1 DEF ToldIsKept, LastTelling, Key
  <2>1. ASSUME NEW a \in alerts, Key(a) = k, a \notin alerts'
        PROVE  \E q \in Nat : k[2] = Period(q - 1) /\ today > LastTelling(q)
    <3>1. PICK q \in Nat :
            a.period = Period(q - 1) /\ a.day \in Nat /\ FirstDay[q] <= a.day + 31
      BY DEF AlertsInv, AlertsAreDated
    <3>2. k[2] = Period(q - 1)
      BY <2>1, <3>1 DEF Key
    <3>3. today > LastTelling(q)
      <4>1. /\ ~(a.day + AlertRetention >= today) /\ today \in Nat /\ FirstDay[q] \in Nat
            /\ LongestRun \in Nat /\ AlertRetention \in Nat
            /\ 61 + LongestRun <= AlertRetention
        BY <1>1, <2>1, FirstDays, DaysAreNumbers DEF AlertsInv, Rows
      <4> QED
        BY <3>1, <4>1 DEF LastTelling
    <3> QED
      BY <3>2, <3>3
  <2> QED
    BY <2>1 DEF AlertsInv, ToldIsKept
<1>4. \A j \in fresh : Undisturbed(j)'
  BY <1>1, StillUndisturbed DEF AlertsInv
<1> QED
  BY <1>1, <1>2, <1>3, <1>4 DEF AlertsInv

LEMMA MarkKeeps ==
  ASSUME AlertsInv, MarkRead
  PROVE  AlertsInv'
<1>1. PICK a \in alerts : alerts' = (alerts \ {a}) \cup {[a EXCEPT !.read = TRUE]}
  BY DEF MarkRead
<1>2. UNCHANGED <<today, ledger, job, told, fresh>>
  BY DEF MarkRead
<1>3. PICK s, p, d, r : a = [subtype |-> s, period |-> p, day |-> d, read |-> r]
  BY DEF AlertsInv, Rows
<1>a. PICK b : b = [a EXCEPT !.read = TRUE]
  OBVIOUS
<1>4. b = [subtype |-> s, period |-> p, day |-> d, read |-> TRUE]
  BY <1>3, <1>a
<1>5. b.period = a.period /\ b.day = a.day /\ Key(b) = Key(a)
  BY <1>3, <1>4 DEF Key
<1>6. Rows'
  <2>1. \A e \in alerts' : \E s2, p2, d2, r2 :
          e = [subtype |-> s2, period |-> p2, day |-> d2, read |-> r2]
    BY <1>1, <1>4, <1>a DEF AlertsInv, Rows
  <2> QED
    BY <1>2, <2>1 DEF AlertsInv, Rows
<1>7. RunsUnderWay'
  BY <1>2 DEF AlertsInv, RunsUnderWay
<1>8. alerts' = (alerts \ {a}) \cup {b}
  BY <1>1, <1>a
<1>9. AlertsAreDated'
  BY <1>5, <1>8 DEF AlertsInv, AlertsAreDated
<1>10. \A e \in alerts : \E f \in alerts' : Key(f) = Key(e)
  BY <1>5, <1>8
<1>11. ToldIsKept'
  <2> SUFFICES ASSUME NEW k \in told
               PROVE  \/ \E e \in alerts' : Key(e) = k
                      \/ \E q \in Nat : k[2] = Period(q - 1) /\ today > LastTelling(q)
    BY <1>2 DEF ToldIsKept, LastTelling, Key
  <2> QED
    BY <1>10 DEF AlertsInv, ToldIsKept
<1>12. \A j \in fresh : Undisturbed(j)'
  BY <1>2, StillUndisturbed DEF AlertsInv
<1> QED
  BY <1>2, <1>6, <1>7, <1>9, <1>11, <1>12 DEF AlertsInv

LEMMA ClearKeeps ==
  ASSUME AlertsInv, ClearAll
  PROVE  AlertsInv'
BY DEF ClearAll, AlertsInv, Rows, RunsUnderWay, AlertsAreDated, ToldIsKept

-------------------------------------------------------------------------------
(* What a step of one process is: the records of the others stay.          *)
OneRun(j, pc, d, p, rows, found) ==
  /\ job' = [k \in Jobs |-> job'[k]]
  /\ \A k \in Jobs \ {j} : job'[k] = job[k]
  /\ job'[j] = [pc |-> pc, day |-> d, month |-> p, rows |-> rows, found |-> found]

LEMMA RunWritten ==
  ASSUME AlertsInv, NEW j \in Jobs, NEW pc, NEW d, NEW p, NEW rows, NEW found,
         job' = [job EXCEPT ![j] =
                   [pc |-> pc, day |-> d, month |-> p, rows |-> rows, found |-> found]]
  PROVE  OneRun(j, pc, d, p, rows, found)
BY DEF AlertsInv, Rows, OneRun

(* A step of one run that writes no alert.                                 *)
LEMMA RunKeeps ==
  ASSUME AlertsInv, NEW j \in Jobs, UNCHANGED <<today, ledger, alerts, told>>,
         NEW pc, NEW d, NEW p, NEW rows, NEW found, OneRun(j, pc, d, p, rows, found),
         pc # "asleep" =>
           /\ d \in Dates /\ d <= today /\ today <= d + LongestRun
           /\ \E m \in {MonthOf[d] - 1, MonthOf[d]} : p = Period(m),
         fresh' \subseteq fresh \cup {j},
         j \in fresh' => Undisturbed(j)'
  PROVE  AlertsInv'
<1>1. /\ \A k \in Jobs \ {j} : job'[k] = job[k]
      /\ job'[j] = [pc |-> pc, day |-> d, month |-> p, rows |-> rows, found |-> found]
      /\ job' = [k \in Jobs |-> job'[k]]
  BY DEF OneRun
<1>2. Rows'
  <2>1. ASSUME NEW k \in Jobs
        PROVE  \E pc2, d2, m2, rows2, found2 : job'[k] =
                 [pc |-> pc2, day |-> d2, month |-> m2, rows |-> rows2, found |-> found2]
    <3>1. CASE k = j
      BY <1>1, <3>1
    <3>2. CASE k # j
      <4>1. job'[k] = job[k]
        BY <1>1, <3>2
      <4>2. \E pc2, d2, m2, rows2, found2 : job[k] =
              [pc |-> pc2, day |-> d2, month |-> m2, rows |-> rows2, found |-> found2]
        BY DEF AlertsInv, Rows
      <4> QED
        BY <4>1, <4>2
    <3> QED
      BY <3>1, <3>2
  <2> QED
    BY <1>1, <2>1 DEF AlertsInv, Rows
<1>3. RunsUnderWay'
  <2>1. job'[j].pc = pc /\ job'[j].day = d /\ job'[j].month = p
    BY <1>1
  <2> QED
    BY <1>1, <2>1 DEF AlertsInv, RunsUnderWay
<1>4. AlertsAreDated' /\ ToldIsKept'
  <2>1. today \in Days /\ today >= today
    BY DaysAreNumbers DEF AlertsInv, Rows
  <2> QED
    BY <2>1, AlertsUntouched
<1>5. \A k \in fresh' : k \in Jobs /\ Undisturbed(k)'
  <2> SUFFICES ASSUME NEW k \in fresh', k # j
               PROVE  k \in Jobs /\ Undisturbed(k)'
    OBVIOUS
  <2>1. k \in Jobs \ {j} /\ Undisturbed(k)
    BY DEF AlertsInv
  <2> QED
    BY <1>1, <2>1, StillUndisturbed
<1> QED
  BY <1>2, <1>3, <1>4, <1>5 DEF AlertsInv

(* A user with nothing recorded in the two months has nothing to be told.  *)
LEMMA StartKeeps ==
  ASSUME AlertsInv, NEW j \in Jobs, StartDetection(j)
  PROVE  AlertsInv'
<1> DEFINE c == MonthOf[today]
           active == \E t \in ledger : NotBefore(Period(t.month), PrevMonth(Period(c)))
           begun == [Asleep EXCEPT !.pc = "month", !.day = today, !.month = PrevMonth(Period(c))]
<1>1. /\ job' = [job EXCEPT ![j] = IF active THEN begun ELSE Asleep]
      /\ fresh' = fresh \cup {j}
      /\ UNCHANGED <<today, ledger, alerts, told>>
  BY DEF StartDetection
<1>2. c \in Nat /\ today \in Dates /\ today \in Nat /\ LongestRun \in Nat
  BY DaysAreNumbers DEF AlertsInv, Rows, Dates
<1>3. PrevMonth(Period(c)) = Period(c - 1) /\ c - 1 \in Int /\ c \in Int
  BY <1>2, PeriodsOfMonths
<1> HIDE DEF c, active, begun
<1>4. CASE active
  <2>1. job' = [job EXCEPT ![j] = [pc |-> "month", day |-> today, month |-> Period(c - 1),
                                   rows |-> {}, found |-> {}]]
    <3>1. PICK old : old = Asleep
      OBVIOUS
    <3>2. PICK before : before = PrevMonth(Period(c))
      OBVIOUS
    <3>3. PICK date : date = today
      OBVIOUS
    <3>a. begun = [old EXCEPT !.pc = "month", !.day = date, !.month = before]
      BY <3>1, <3>2, <3>3 DEF begun
    <3>b. PICK new : new = [old EXCEPT !.pc = "month", !.day = date, !.month = before]
      OBVIOUS
    <3>4. old = [pc |-> "asleep", day |-> 0, month |-> <<0, 0>>, rows |-> {}, found |-> {}]
      BY <3>1 DEF Asleep
    <3>5. new = [pc |-> "month", day |-> date, month |-> before, rows |-> {}, found |-> {}]
      BY <3>4, <3>b
    <3>6. begun = [pc |-> "month", day |-> today, month |-> Period(c - 1), rows |-> {},
                   found |-> {}]
      BY <1>3, <3>2, <3>3, <3>5, <3>a, <3>b
    <3> QED
      BY <1>1, <1>4, <3>6
  <2>2. Period(c - 1) # Period(c)
    <3>1. c - 1 # c
      BY <1>2
    <3> QED
      BY <1>3, <3>1, PeriodsOfMonths
  <2>3. OneRun(j, "month", today, Period(c - 1), {}, {})
    BY <2>1, RunWritten
  <2>4. Undisturbed(j)'
    BY <1>1, <2>2, <2>3 DEF Undisturbed, OneRun, c
  <2>5. /\ today \in Dates /\ today <= today /\ today <= today + LongestRun
        /\ \E m \in {MonthOf[today] - 1, MonthOf[today]} : Period(c - 1) = Period(m)
    BY <1>2 DEF c
  <2>6. fresh' \subseteq fresh \cup {j} /\ UNCHANGED <<today, ledger, alerts, told>>
    BY <1>1
  <2> QED
    BY <2>3, <2>4, <2>5, <2>6, RunKeeps
<1>5. CASE ~active
  <2>1. job' = [job EXCEPT ![j] = [pc |-> "asleep", day |-> 0, month |-> <<0, 0>>,
                                   rows |-> {}, found |-> {}]]
    BY <1>1, <1>5 DEF Asleep
  <2>2. ReadMonth(Period(c)) = {} /\ ReadMonth(Period(c - 1)) = {}
    <3>1. \A t \in ledger : ~NotBefore(Period(t.month), Period(c - 1))
      BY <1>3, <1>5 DEF active
    <3>2. NotBefore(Period(c), Period(c - 1)) /\ NotBefore(Period(c - 1), Period(c - 1))
      BY <1>3, PeriodsOfMonths
    <3> QED
      BY <3>1, <3>2 DEF ReadMonth
  <2>3. Found(c) = {} /\ Found(c - 1) = {}
    BY <2>2, NothingInNothing DEF Found
  <2>4. Found(c)' = Found(c) /\ Found(c - 1)' = Found(c - 1) /\ MonthOf[today'] = c
    BY <1>1 DEF Found, ReadMonth, MonthsBefore, c
  <2>5. OneRun(j, "asleep", 0, <<0, 0>>, {}, {})
    BY <2>1, RunWritten
  <2>6. Undisturbed(j)'
    BY <2>3, <2>4, <2>5 DEF Undisturbed, OneRun, c
  <2>7. fresh' \subseteq fresh \cup {j} /\ UNCHANGED <<today, ledger, alerts, told>>
    BY <1>1
  <2> QED
    BY <2>5, <2>6, <2>7, RunKeeps
<1> QED
  BY <1>4, <1>5

LEMMA MonthKeeps ==
  ASSUME AlertsInv, NEW j \in Jobs, DetectMonth(j)
  PROVE  AlertsInv'
<1>1. /\ job[j].pc = "month"
      /\ job' = [job EXCEPT ![j] =
                   [job[j] EXCEPT !.pc = "history", !.rows = ReadMonth(job[j].month)]]
      /\ UNCHANGED <<today, ledger, alerts, told, fresh>>
  BY DEF DetectMonth
<1>2. PICK pc, d, p, rows, found :
        job[j] = [pc |-> pc, day |-> d, month |-> p, rows |-> rows, found |-> found]
  BY DEF AlertsInv, Rows
<1>3. PICK read : read = ReadMonth(p)
  OBVIOUS
<1>4. job' = [job EXCEPT ![j] = [pc |-> "history", day |-> d, month |-> p, rows |-> read,
                                 found |-> found]]
  <2>1. job' = [job EXCEPT ![j] = [job[j] EXCEPT !.pc = "history", !.rows = read]]
    BY <1>1, <1>2, <1>3
  <2>2. PICK old : old = job[j]
    OBVIOUS
  <2>3. old = [pc |-> pc, day |-> d, month |-> p, rows |-> rows, found |-> found]
    BY <1>2, <2>2
  <2>4. PICK new : new = [old EXCEPT !.pc = "history", !.rows = read]
    OBVIOUS
  <2>5. new = [pc |-> "history", day |-> d, month |-> p, rows |-> read, found |-> found]
    BY <2>3, <2>4
  <2> QED
    BY <2>1, <2>2, <2>4, <2>5
<1>5. OneRun(j, "history", d, p, read, found)
  BY <1>4, RunWritten
<1>6. j \in fresh => Undisturbed(j)'
  <2> SUFFICES ASSUME j \in fresh
               PROVE  Undisturbed(j)'
    OBVIOUS
  <2>1. Undisturbed(j)
    BY DEF AlertsInv
  <2>2. d = today /\ (p = Period(MonthOf[today]) =>
                        Found(MonthOf[today] - 1) \subseteq Told(MonthOf[today] - 1))
    BY <1>1, <1>2, <2>1 DEF Undisturbed
  <2>3. (Found(MonthOf[today] - 1) \subseteq Told(MonthOf[today] - 1))'
          <=> Found(MonthOf[today] - 1) \subseteq Told(MonthOf[today] - 1)
    BY <1>1 DEF Found, Told, MonthsBefore, ReadMonth
  <2>4. ReadMonth(p)' = read
    BY <1>1, <1>3 DEF ReadMonth
  <2>5. job'[j].pc = "history" /\ job'[j].day = d /\ job'[j].month = p /\ job'[j].rows = read
    BY <1>5 DEF OneRun
  <2> QED
    BY <1>1, <2>2, <2>3, <2>4, <2>5 DEF Undisturbed
<1>7. /\ d \in Dates /\ d <= today /\ today <= d + LongestRun
      /\ \E m \in {MonthOf[d] - 1, MonthOf[d]} : p = Period(m)
  BY <1>1, <1>2 DEF AlertsInv, RunsUnderWay
<1>8. /\ fresh' \subseteq fresh \cup {j}
      /\ j \in fresh' => Undisturbed(j)'
      /\ UNCHANGED <<today, ledger, alerts, told>>
  BY <1>1, <1>6
<1> QED
  BY <1>5, <1>7, <1>8, RunKeeps

LEMMA HistoryKeeps ==
  ASSUME AlertsInv, NEW j \in Jobs, DetectHistory(j)
  PROVE  AlertsInv'
<1>1. /\ job[j].pc = "history"
      /\ job' = [job EXCEPT ![j] =
                   [job[j] EXCEPT !.pc = "write", !.rows = {},
                      !.found = Detected(job[j].rows, ReadHistory(job[j].month))]]
      /\ UNCHANGED <<today, ledger, alerts, told, fresh>>
  BY DEF DetectHistory
<1>2. PICK pc, d, p, rows, found :
        job[j] = [pc |-> pc, day |-> d, month |-> p, rows |-> rows, found |-> found]
  BY DEF AlertsInv, Rows
<1>3. PICK shifts : shifts = Detected(rows, ReadHistory(p))
  OBVIOUS
<1>4. job' = [job EXCEPT ![j] = [pc |-> "write", day |-> d, month |-> p, rows |-> {},
                                 found |-> shifts]]
  <2>1. job' = [job EXCEPT ![j] = [job[j] EXCEPT !.pc = "write", !.rows = {}, !.found = shifts]]
    BY <1>1, <1>2, <1>3
  <2>2. PICK old : old = job[j]
    OBVIOUS
  <2>3. old = [pc |-> pc, day |-> d, month |-> p, rows |-> rows, found |-> found]
    BY <1>2, <2>2
  <2>4. PICK new : new = [old EXCEPT !.pc = "write", !.rows = {}, !.found = shifts]
    OBVIOUS
  <2>5. new = [pc |-> "write", day |-> d, month |-> p, rows |-> {}, found |-> shifts]
    BY <2>3, <2>4
  <2> QED
    BY <2>1, <2>2, <2>4, <2>5
<1>5. OneRun(j, "write", d, p, {}, shifts)
  BY <1>4, RunWritten
<1>6. j \in fresh => Undisturbed(j)'
  <2> SUFFICES ASSUME j \in fresh
               PROVE  Undisturbed(j)'
    OBVIOUS
  <2>1. Undisturbed(j)
    BY DEF AlertsInv
  <2>2. /\ rows = ReadMonth(p) /\ d = today
        /\ p = Period(MonthOf[today]) =>
             Found(MonthOf[today] - 1) \subseteq Told(MonthOf[today] - 1)
    BY <1>1, <1>2, <2>1 DEF Undisturbed
  <2>3. (Found(MonthOf[today] - 1) \subseteq Told(MonthOf[today] - 1))'
          <=> Found(MonthOf[today] - 1) \subseteq Told(MonthOf[today] - 1)
    BY <1>1 DEF Found, Told, MonthsBefore, ReadMonth
  <2>4. ASSUME NEW n \in Int, p = Period(n)
        PROVE  shifts = Found(n)'
    <3>1. shifts = Found(n)
      BY <1>3, <2>2, <2>4, HistoryIsRead DEF Found
    <3>2. Found(n)' = Found(n)
      BY <1>1 DEF Found, MonthsBefore, ReadMonth
    <3> QED
      BY <3>1, <3>2
  <2>5. job'[j].pc = "write" /\ job'[j].day = d /\ job'[j].month = p /\ job'[j].found = shifts
    BY <1>5 DEF OneRun
  <2> QED
    BY <1>1, <2>2, <2>3, <2>4, <2>5 DEF Undisturbed
<1>7. /\ d \in Dates /\ d <= today /\ today <= d + LongestRun
      /\ \E m \in {MonthOf[d] - 1, MonthOf[d]} : p = Period(m)
  BY <1>1, <1>2 DEF AlertsInv, RunsUnderWay
<1>8. /\ fresh' \subseteq fresh \cup {j}
      /\ j \in fresh' => Undisturbed(j)'
      /\ UNCHANGED <<today, ledger, alerts, told>>
  BY <1>1, <1>6
<1> QED
  BY <1>5, <1>7, <1>8, RunKeeps

LEMMA FailureKeeps ==
  ASSUME AlertsInv, NEW j \in Jobs, DetectionFails(j)
  PROVE  AlertsInv'
<1>1. /\ job' = [job EXCEPT ![j] = [pc |-> "asleep", day |-> 0, month |-> <<0, 0>>,
                                    rows |-> {}, found |-> {}]]
      /\ fresh' = fresh \ {j}
      /\ UNCHANGED <<today, ledger, alerts, told>>
  BY DEF DetectionFails, Asleep
<1>2. OneRun(j, "asleep", 0, <<0, 0>>, {}, {})
  BY <1>1, RunWritten
<1>3. fresh' \subseteq fresh \cup {j} /\ j \notin fresh'
  BY <1>1
<1> QED
  BY <1>1, <1>2, <1>3, RunKeeps

-------------------------------------------------------------------------------
(* What a run writes is not there already, and was not told before: what   *)
(* was told is still there as long as a run may tell it.                   *)
LEMMA NothingTwice ==
  ASSUME AlertsInv, NEW j \in Jobs, WriteAlerts(j)
  PROVE  \A a \in alerts' \ alerts : Key(a) \notin told
<1> SUFFICES ASSUME NEW a \in alerts' \ alerts, Key(a) \in told
             PROVE  FALSE
  OBVIOUS
<1>1. /\ a.period = job[j].month /\ \A b \in alerts : Key(b) # Key(a)
      /\ job[j].pc # "asleep"
  <2> DEFINE rows == {[subtype |-> s, period |-> job[j].month, day |-> today, read |-> FALSE]
                        : s \in job[j].found}
  <2>1. alerts' = Upsert(rows) /\ job[j].pc = "write"
    BY DEF WriteAlerts
  <2>2. a \in rows /\ \A b \in alerts : Key(b) # Key(a)
    BY <2>1 DEF Upsert
  <2> QED
    BY <2>1, <2>2
<1>2. PICK q \in Nat : job[j].month = Period(q - 1) /\ today <= LastTelling(q)
  BY <1>1, RunsAreInTime
<1>3. Key(a)[2] = Period(q - 1)
  BY <1>1, <1>2 DEF Key
<1>4. PICK i \in Nat : Key(a)[2] = Period(i - 1) /\ today > LastTelling(i)
  BY <1>1 DEF AlertsInv, ToldIsKept
<1>5. i = q
  <2>1. i - 1 \in Int /\ q - 1 \in Int /\ Period(i - 1) = Period(q - 1)
    BY <1>3, <1>4
  <2>2. i - 1 = q - 1
    BY <2>1, PeriodsOfMonths
  <2> QED
    BY <2>2
<1>6. today \in Nat /\ LastTelling(q) \in Nat
  BY FirstDays, DaysAreNumbers DEF LastTelling, AlertsInv, Rows
<1> HIDE DEF LastTelling
<1> QED
  BY <1>2, <1>4, <1>5, <1>6

LEMMA WriteKeeps ==
  ASSUME AlertsInv, NEW j \in Jobs, WriteAlerts(j)
  PROVE  AlertsInv'
<1> DEFINE current == Period(MonthOf[job[j].day])
           rows == {[subtype |-> s, period |-> job[j].month, day |-> today, read |-> FALSE]
                      : s \in job[j].found}
           onward == [job[j] EXCEPT !.pc = "month", !.month = current, !.found = {}]
<1>1. /\ job[j].pc = "write"
      /\ alerts' = Upsert(rows)
      /\ told' = told \cup {Key(r) : r \in rows}
      /\ job' = [job EXCEPT ![j] = IF job[j].month = current THEN Asleep ELSE onward]
      /\ UNCHANGED <<today, ledger, fresh>>
  BY DEF WriteAlerts
<1>2. PICK pc, d, p, read, found :
        job[j] = [pc |-> pc, day |-> d, month |-> p, rows |-> read, found |-> found]
  BY DEF AlertsInv, Rows
<1>3. PICK q \in Nat : p = Period(q - 1) /\ FirstDay[q] <= today + 31
  <2>1. job[j].pc # "asleep"
    BY <1>1
  <2> QED
    BY <1>2, <2>1, RunsAreInTime
<1>4. today \in Nat
  BY DaysAreNumbers DEF AlertsInv, Rows
<1>5. \A r \in rows : /\ r.period = p /\ r.day = today
                      /\ \E s, e, f, g : r = [subtype |-> s, period |-> e, day |-> f, read |-> g]
  BY <1>2
<1>6. \A s \in found : \E r \in rows : Key(r) = <<s, p>>
  <2> SUFFICES ASSUME NEW s \in found
               PROVE  \E r \in rows : Key(r) = <<s, p>>
    OBVIOUS
  <2>1. PICK r : r = [subtype |-> s, period |-> job[j].month, day |-> today, read |-> FALSE]
    OBVIOUS
  <2>2. job[j].found = found /\ job[j].month = p
    BY <1>2
  <2>3. r \in rows
    BY <2>1, <2>2
  <2>4. r.subtype = s /\ r.period = p
    BY <2>1, <2>2
  <2> QED
    BY <2>3, <2>4 DEF Key
<1>7. /\ alerts \subseteq alerts' /\ \A a \in alerts' : a \in alerts \/ a \in rows
      /\ \A r \in rows : \E a \in alerts' : Key(a) = Key(r)
  <2> HIDE DEF rows
  <2>1. alerts' = alerts \cup {r \in rows : \A a \in alerts : Key(a) # Key(r)}
    BY <1>1 DEF Upsert
  <2> QED
    BY <2>1
<1>8. d \in Dates /\ d <= today /\ today <= d + LongestRun
  BY <1>1, <1>2 DEF AlertsInv, RunsUnderWay
<1> DEFINE then == [pc |-> "month", day |-> d, month |-> Period(MonthOf[d]), rows |-> read,
                    found |-> {}]
<1>9. onward = then
  <2>1. PICK old : old = job[j]
    OBVIOUS
  <2>2. old = [pc |-> pc, day |-> d, month |-> p, rows |-> read, found |-> found]
    BY <1>2, <2>1
  <2>3. PICK to : to = Period(MonthOf[d])
    OBVIOUS
  <2>6. PICK new : new = [old EXCEPT !.pc = "month", !.month = to, !.found = {}]
    OBVIOUS
  <2>7. new = [pc |-> "month", day |-> d, month |-> to, rows |-> read, found |-> {}]
    BY <2>2, <2>6
  <2>4. current = Period(MonthOf[d])
    BY <1>2
  <2>5. onward = [old EXCEPT !.pc = "month", !.month = Period(MonthOf[d]), !.found = {}]
    BY <2>1, <2>4
  <2> QED
    BY <2>3, <2>5, <2>6, <2>7
<1> DEFINE end == [pc |-> "asleep", day |-> 0, month |-> <<0, 0>>, rows |-> {}, found |-> {}]
<1>10. job' = [job EXCEPT ![j] = IF p = Period(MonthOf[d]) THEN end ELSE then]
  <2>1. job[j].month = p /\ job[j].day = d /\ Asleep = end
    BY <1>2 DEF Asleep
  <2> HIDE DEF onward, end, then
  <2> QED
    BY <1>1, <1>9, <2>1
<1> HIDE DEF rows, onward
<1>11. /\ \A k \in Jobs \ {j} : job'[k] = job[k]
       /\ job'[j] = IF p = Period(MonthOf[d]) THEN end ELSE then
       /\ job' = [k \in Jobs |-> job'[k]]
  BY <1>10 DEF AlertsInv, Rows
<1>12. Rows'
  <2>1. \A a \in alerts' : \E s, e, f, g :
          a = [subtype |-> s, period |-> e, day |-> f, read |-> g]
    BY <1>5, <1>7 DEF AlertsInv, Rows
  <2>2. \A k \in Jobs : \E pc2, d2, m2, rows2, found2 : job'[k] =
          [pc |-> pc2, day |-> d2, month |-> m2, rows |-> rows2, found |-> found2]
    BY <1>11 DEF AlertsInv, Rows
  <2> QED
    BY <1>1, <1>11, <2>1, <2>2 DEF AlertsInv, Rows
<1>13. RunsUnderWay'
  <2> SUFFICES ASSUME NEW k \in Jobs, job'[k].pc # "asleep"
               PROVE  /\ job'[k].day \in Dates
                      /\ job'[k].day <= today /\ today <= job'[k].day + LongestRun
                      /\ \E m \in {MonthOf[job'[k].day] - 1, MonthOf[job'[k].day]} :
                           job'[k].month = Period(m)
    BY <1>1 DEF RunsUnderWay
  <2>1. CASE k = j
    <3>1. job'[j] = then
      BY <1>11, <2>1
    <3>2. job'[k].day = d /\ job'[k].month = Period(MonthOf[d])
      BY <2>1, <3>1
    <3> QED
      BY <1>8, <3>2
  <2>2. CASE k # j
    BY <1>11, <2>2 DEF AlertsInv, RunsUnderWay
  <2> QED
    BY <2>1, <2>2
<1>14. AlertsAreDated'
  <2>1. \A a \in rows : a.period = Period(q - 1) /\ a.day \in Nat /\ FirstDay[q] <= a.day + 31
    BY <1>3, <1>4, <1>5
  <2> QED
    BY <1>7, <2>1 DEF AlertsInv, AlertsAreDated
<1>15. ToldIsKept'
  <2> SUFFICES ASSUME NEW k \in told'
               PROVE  \/ \E a \in alerts' : Key(a) = k
                      \/ \E i \in Nat : k[2] = Period(i - 1) /\ today > LastTelling(i)
    BY <1>1 DEF ToldIsKept, LastTelling, Key
  <2>1. CASE k \in told
    BY <1>7, <2>1 DEF AlertsInv, ToldIsKept
  <2>2. CASE k \notin told
    BY <1>1, <1>7, <2>2
  <2> QED
    BY <2>1, <2>2
<1>16. \A k \in fresh : Undisturbed(k)'
  <2>1. \A k \in fresh \ {j} : Undisturbed(k)'
    BY <1>1, <1>11, StillUndisturbed DEF AlertsInv
  <2>2. ASSUME j \in fresh
        PROVE  Undisturbed(j)'
    <3>0. PICK c : c = MonthOf[today]
      OBVIOUS
    <3>1. /\ d = today
          /\ p = Period(c) => Found(c - 1) \subseteq Told(c - 1)
          /\ \A m \in Int : p = Period(m) => found = Found(m)
      BY <1>1, <1>2, <2>2, <3>0 DEF AlertsInv, Undisturbed
    <3>2. \A m : Found(m)' = Found(m)
      BY <1>1 DEF Found, MonthsBefore, ReadMonth
    <3>3. ASSUME NEW m \in Int
          PROVE  Told(m) \subseteq Told(m)' /\ (p = Period(m) => found \subseteq Told(m)')
      <4>1. told \subseteq told' /\ \A r \in rows : Key(r) \in told'
        BY <1>1
      <4>2. Told(m) \subseteq Told(m)'
        BY <4>1 DEF Told
      <4>3. ASSUME p = Period(m), NEW s \in found
            PROVE  s \in Told(m)'
        <5>1. <<s, p>> \in told'
          BY <1>6, <4>1
        <5>2. <<s, p>>[1] = s /\ <<s, p>>[2] = Period(m)
          BY <4>3
        <5> QED
          BY <5>1, <5>2 DEF Told
      <4> QED
        BY <4>2, <4>3
    <3>4. c \in Int /\ c - 1 \in Int /\ c # c - 1 /\ p \in {Period(c - 1), Period(c)}
      <4>1. c \in Nat
        BY <3>0, DaysAreNumbers DEF AlertsInv, Rows
      <4>2. \E m \in {MonthOf[d] - 1, MonthOf[d]} : p = Period(m)
        BY <1>1, <1>2 DEF AlertsInv, RunsUnderWay
      <4>3. c \in Int /\ c - 1 \in Int /\ c # c - 1
        BY <4>1
      <4> QED
        BY <3>0, <3>1, <4>2, <4>3
    <3>5. CASE p = Period(c)
      <4>1. Found(c)' \subseteq Told(c)' /\ Found(c - 1)' \subseteq Told(c - 1)'
        <5>1. found = Found(c) /\ found \subseteq Told(c)'
          BY <3>1, <3>3, <3>4, <3>5
        <5>2. Found(c - 1) \subseteq Told(c - 1) /\ Told(c - 1) \subseteq Told(c - 1)'
          BY <3>1, <3>3, <3>4, <3>5
        <5>3. Found(c)' = Found(c) /\ Found(c - 1)' = Found(c - 1)
          BY <3>2
        <5> QED
          BY <5>1, <5>2, <5>3
      <4>2. job'[j] = end
        BY <1>11, <3>0, <3>1, <3>5
      <4>3. job'[j].pc = "asleep"
        BY <4>2
      <4> QED
        BY <1>1, <3>0, <4>1, <4>3 DEF Undisturbed
    <3>6. CASE p # Period(c)
      <4>1. Found(c - 1)' \subseteq Told(c - 1)'
        <5>1. p = Period(c - 1)
          BY <3>4, <3>6
        <5>2. found = Found(c - 1) /\ found \subseteq Told(c - 1)'
          BY <3>1, <3>3, <3>4, <5>1
        <5>3. Found(c - 1)' = Found(c - 1)
          BY <3>2
        <5> QED
          BY <5>2, <5>3
      <4>2. job'[j] = then
        BY <1>11, <3>0, <3>1, <3>6
      <4>3. job'[j].pc = "month" /\ job'[j].day = today
        BY <3>1, <4>2
      <4> QED
        BY <1>1, <3>0, <4>1, <4>3 DEF Undisturbed
    <3> QED
      BY <3>5, <3>6
  <2> QED
    BY <2>1, <2>2
<1> QED
  BY <1>1, <1>12, <1>13, <1>14, <1>15, <1>16 DEF AlertsInv

-------------------------------------------------------------------------------
LEMMA AlertsStep ==
  ASSUME AlertsInv, [AlertsNext]_alertVars
  PROVE  AlertsInv'
<1>1. CASE UNCHANGED alertVars
  BY <1>1 DEF alertVars, AlertsInv, Rows, RunsUnderWay, AlertsAreDated, ToldIsKept,
     LastTelling, Key, Undisturbed, Found, Told, MonthsBefore, ReadMonth
<1> QED
  BY <1>1, DayKeeps, RecordKeeps, PurgeKeeps, MarkKeeps, ClearKeeps, StartKeeps, MonthKeeps,
     HistoryKeeps, FailureKeeps, WriteKeeps DEF AlertsNext

LEMMA AlertsHold == AlertsSpec => []AlertsInv
  BY AlertsInitially, AlertsStep, PTL DEF AlertsSpec

LEMMA AlertTypesStep ==
  ASSUME AlertsInv, AlertsTypeOK, [AlertsNext]_alertVars
  PROVE  AlertsTypeOK'
<1>1. (today \in Days /\ ledger \subseteq (UNION Histories) \cup Offers /\ fresh \subseteq Jobs)'
  BY AlertsStep DEF AlertsInv, Rows
<1>2. \A a \in alerts' : a.day \in Days /\ a.read \in BOOLEAN
  <2>1. CASE alerts' \subseteq alerts
    BY <2>1 DEF AlertsTypeOK
  <2>2. CASE MarkRead
    <3>1. PICK a \in alerts : alerts' = (alerts \ {a}) \cup {[a EXCEPT !.read = TRUE]}
      BY <2>2 DEF MarkRead
    <3>2. PICK s, p, d, r : a = [subtype |-> s, period |-> p, day |-> d, read |-> r]
      BY DEF AlertsInv, Rows
    <3>3. PICK b : b = [a EXCEPT !.read = TRUE]
      OBVIOUS
    <3>4. b.read = TRUE /\ b.day = a.day
      BY <3>2, <3>3
    <3>5. \A e \in alerts' : e \in alerts \/ e = b
      BY <3>1, <3>3
    <3> QED
      BY <3>4, <3>5 DEF AlertsTypeOK
  <2>3. ASSUME NEW j \in Jobs, WriteAlerts(j)
        PROVE  \A a \in alerts' : a.day \in Days /\ a.read \in BOOLEAN
    <3> DEFINE rows == {[subtype |-> s, period |-> job[j].month, day |-> today,
                         read |-> FALSE] : s \in job[j].found}
    <3>1. \A e \in alerts' : e \in alerts \/ e \in rows
      BY <2>3 DEF WriteAlerts, Upsert
    <3>2. ASSUME NEW e \in rows
          PROVE  e.day \in Days /\ e.read \in BOOLEAN
      <4>1. PICK s \in job[j].found :
              e = [subtype |-> s, period |-> job[j].month, day |-> today, read |-> FALSE]
        OBVIOUS
      <4>2. PICK m : m = job[j].month
        OBVIOUS
      <4>3. e.day = today /\ e.read = FALSE
        BY <4>1, <4>2
      <4> QED
        BY <4>3 DEF AlertsTypeOK
    <3> QED
      BY <3>1, <3>2 DEF AlertsTypeOK
  <2> QED
    BY <2>1, <2>2, <2>3
    DEF AlertsNext, alertVars, DayPasses, RecordTransaction, Purge, ClearAll,
        StartDetection, DetectMonth, DetectHistory, DetectionFails
<1>3. \A j \in Jobs : job'[j].pc \in {"asleep", "month", "history", "write"}
  <2>1. \A j \in Jobs : job[j].pc \in {"asleep", "month", "history", "write"}
    BY DEF AlertsTypeOK
  <2>2. job = [j \in Jobs |-> job[j]]
    BY DEF AlertsInv, Rows
  <2>3. ASSUME NEW j \in Jobs,
               StartDetection(j) \/ DetectMonth(j) \/ DetectHistory(j)
                 \/ WriteAlerts(j) \/ DetectionFails(j)
        PROVE  \E row : /\ job' = [job EXCEPT ![j] = row]
                        /\ row.pc \in {"asleep", "month", "history", "write"}
    <3>1. PICK pc, d, m, rows, found :
            job[j] = [pc |-> pc, day |-> d, month |-> m, rows |-> rows, found |-> found]
      BY DEF AlertsInv, Rows
    <3>2. PICK old : old = job[j] /\ old = [pc |-> pc, day |-> d, month |-> m, rows |-> rows,
                                            found |-> found]
      BY <3>1
    <3>3. CASE StartDetection(j)
      <4>1. PICK p : p = PrevMonth(Period(MonthOf[today]))
        OBVIOUS
      <4>2. PICK new : new = [Asleep EXCEPT !.pc = "month", !.day = today, !.month = p]
        OBVIOUS
      <4>3. new.pc = "month" /\ Asleep.pc = "asleep"
        BY <4>2 DEF Asleep
      <4>4. job' = [job EXCEPT ![j] = new] \/ job' = [job EXCEPT ![j] = Asleep]
        BY <3>3, <4>1, <4>2 DEF StartDetection
      <4> QED
        BY <4>3, <4>4
    <3>4. CASE DetectMonth(j)
      <4>1. PICK read : read = ReadMonth(job[j].month)
        OBVIOUS
      <4>2. PICK new : new = [old EXCEPT !.pc = "history", !.rows = read]
        OBVIOUS
      <4>3. new.pc = "history"
        BY <3>2, <4>2
      <4>4. job' = [job EXCEPT ![j] = new]
        BY <3>2, <3>4, <4>1, <4>2 DEF DetectMonth
      <4> QED
        BY <4>3, <4>4
    <3>5. CASE DetectHistory(j)
      <4>1. PICK all : all = Detected(job[j].rows, ReadHistory(job[j].month))
        OBVIOUS
      <4>2. PICK new : new = [old EXCEPT !.pc = "write", !.rows = {}, !.found = all]
        OBVIOUS
      <4>3. new.pc = "write"
        BY <3>2, <4>2
      <4>4. job' = [job EXCEPT ![j] = new]
        BY <3>2, <3>5, <4>1, <4>2 DEF DetectHistory
      <4> QED
        BY <4>3, <4>4
    <3>6. CASE WriteAlerts(j)
      <4>1. PICK current : current = Period(MonthOf[job[j].day])
        OBVIOUS
      <4>2. PICK new : new = [old EXCEPT !.pc = "month", !.month = current, !.found = {}]
        OBVIOUS
      <4>3. new.pc = "month" /\ Asleep.pc = "asleep"
        BY <3>2, <4>2 DEF Asleep
      <4>4. job' = [job EXCEPT ![j] = new] \/ job' = [job EXCEPT ![j] = Asleep]
        BY <3>2, <3>6, <4>1, <4>2 DEF WriteAlerts
      <4> QED
        BY <4>3, <4>4
    <3>7. CASE DetectionFails(j)
      <4>1. job' = [job EXCEPT ![j] = Asleep]
        BY <3>7 DEF DetectionFails
      <4>2. Asleep.pc = "asleep"
        BY DEF Asleep
      <4> QED
        BY <4>1, <4>2
    <3> QED
      BY <2>3, <3>3, <3>4, <3>5, <3>6, <3>7
  <2> QED
    BY <2>1, <2>2, <2>3
    DEF AlertsNext, alertVars, DayPasses, RecordTransaction, Purge, ClearAll, MarkRead
<1> QED
  BY <1>1, <1>2, <1>3 DEF AlertsTypeOK

(* Alerts are written on days there are, and a run of the job is at one of *)
(* its statements or over.                                                 *)
THEOREM AlertsTypeCorrect == AlertsSpec => []AlertsTypeOK
<1>1. AlertsInit => AlertsTypeOK
  BY AlertsInitially DEF AlertsInit, AlertsInv, Rows, AlertsTypeOK, Asleep
<1>2. AlertsInv /\ AlertsTypeOK /\ [AlertsNext]_alertVars => AlertsTypeOK'
  BY AlertTypesStep
<1> QED
  BY <1>1, <1>2, AlertsHold, PTL DEF AlertsSpec

(* detect_shift_alerts_job: what a run that nothing disturbed found of the *)
(* previous and of the current month, the user has been told.              *)
THEOREM AllShiftsTold == AlertsSpec => []ShiftsAreTold
<1>1. AlertsInv => ShiftsAreTold
  <2> SUFFICES ASSUME AlertsInv, NEW j \in fresh, job[j].pc = "asleep",
                      NEW m \in {MonthOf[today] - 1, MonthOf[today]}
               PROVE  Found(m) \subseteq Told(m)
    BY DEF ShiftsAreTold, Found, Told, MonthsBefore
  <2> QED
    BY DEF AlertsInv, Undisturbed
<1> QED
  BY AlertsInitially, AlertsStep, <1>1, PTL DEF AlertsSpec

(* The unique key, DO NOTHING and the retention together: no alert is put  *)
(* before the user a second time, whatever runs overlap or repeat.         *)
THEOREM ToldOnce == AlertsSpec => NothingIsToldTwice
<1>1. ASSUME AlertsInv, [AlertsNext]_alertVars
      PROVE  [(Unread' \ Unread) \cap told = {}]_alertVars
  <2>1. CASE \E j \in Jobs : WriteAlerts(j)
    <3>1. \A a \in alerts' \ alerts : Key(a) \notin told
      BY <1>1, <2>1, NothingTwice
    <3>2. Unread' \ Unread \subseteq {Key(a) : a \in alerts' \ alerts}
      BY DEF Unread, Key
    <3> QED
      BY <3>1, <3>2
  <2>2. CASE MarkRead
    <3>1. PICK a \in alerts : alerts' = (alerts \ {a}) \cup {[a EXCEPT !.read = TRUE]}
      BY <2>2 DEF MarkRead
    <3>2. PICK s, p, d, r : a = [subtype |-> s, period |-> p, day |-> d, read |-> r]
      BY <1>1 DEF AlertsInv, Rows
    <3>3. [a EXCEPT !.read = TRUE].read = TRUE
      BY <3>2
    <3>4. Unread' \subseteq Unread
      BY <3>1, <3>3 DEF Unread, Key
    <3> QED
      BY <3>4
  <2>3. CASE alerts' \subseteq alerts
    BY <2>3 DEF Unread, Key
  <2>4. \/ \E j \in Jobs : WriteAlerts(j)
        \/ MarkRead
        \/ alerts' \subseteq alerts
    BY <1>1 DEF AlertsNext, alertVars, DayPasses, RecordTransaction, Purge, ClearAll,
       StartDetection, DetectMonth, DetectHistory, DetectionFails
  <2> QED
    BY <2>1, <2>2, <2>3, <2>4
<1> QED
  BY AlertsInitially, AlertsStep, <1>1, PTL DEF AlertsSpec, NothingIsToldTwice

-------------------------------------------------------------------------------
(* Sums over finite sets: a total is that of its parts.                    *)

(* An additive weighing of the parts of a set: w is what its members weigh.*)
Weighs(v, w, S) ==
  /\ v \in [SUBSET S -> Int]
  /\ v[{}] = 0
  /\ \A s \in SUBSET S : \A x \in s : v[s] = w[x] + v[s \ {x}]

(* The least of the finite sets.                                           *)
LEMMA SmallestOf ==
  ASSUME NEW Q, Q # {}, \A s \in Q : IsFiniteSet(s)
  PROVE  \E s \in Q : \A t \in Q : Cardinality(s) <= Cardinality(t)
<1> DEFINE sizes == {Cardinality(s) : s \in Q}
<1>1. sizes \in SUBSET Nat /\ sizes # {}
  BY FS_CardinalityType
<1>2. PICK n \in sizes : \A m \in sizes : n <= m
  <2> HIDE DEF sizes
  <2> QED
    BY <1>1, LeastOf
<1> QED
  BY <1>2

(* A set without one of its members is finite and smaller.                 *)
LEMMA OneLess ==
  ASSUME NEW s, IsFiniteSet(s), NEW x \in s
  PROVE  /\ IsFiniteSet(s \ {x})
         /\ Cardinality(s \ {x}) \in Nat /\ Cardinality(s) \in Nat
         /\ Cardinality(s \ {x}) < Cardinality(s)
<1>1. /\ IsFiniteSet(s \ {x}) /\ Cardinality(s \ {x}) = Cardinality(s) - 1
  BY FS_RemoveElement
<1>2. Cardinality(s) \in Nat /\ Cardinality(s \ {x}) \in Nat
  BY <1>1, FS_CardinalityType
<1> QED
  BY <1>1, <1>2

(* Whatever its members weigh, the parts of a finite set can be weighed.   *)
LEMMA CanBeWeighed ==
  ASSUME NEW S, IsFiniteSet(S), NEW w \in [S -> Int]
  PROVE  \E v : Weighs(v, w, S)
<1> DEFINE bad == {s \in SUBSET S : ~ \E v : Weighs(v, w, s)}
<1> SUFFICES ASSUME bad # {} PROVE FALSE
  OBVIOUS
<1>1. PICK s \in bad : \A t \in bad : Cardinality(s) <= Cardinality(t)
  <2>1. \A t \in bad : IsFiniteSet(t)
    BY FS_Subset
  <2> HIDE DEF bad
  <2> QED
    BY <2>1, SmallestOf
<1>2. s \in SUBSET S /\ IsFiniteSet(s) /\ ~ \E v : Weighs(v, w, s)
  BY FS_Subset
<1>3. s # {}
  <2> SUFFICES ASSUME s = {} PROVE FALSE
    OBVIOUS
  <2> DEFINE v == [a \in SUBSET s |-> 0]
  <2>1. Weighs(v, w, s)
    BY DEF Weighs
  <2> QED
    BY <1>2, <2>1
<1>4. PICK x \in s : TRUE
  BY <1>3
<1> DEFINE r == s \ {x}
<1>5. r \notin bad /\ r \in SUBSET S
  <2>1. Cardinality(r) \in Nat /\ Cardinality(s) \in Nat /\ Cardinality(r) < Cardinality(s)
    BY <1>2, OneLess
  <2>2. r \in bad => Cardinality(s) <= Cardinality(r)
    BY <1>1
  <2>3. r \in SUBSET S
    BY <1>2
  <2> HIDE DEF bad, r
  <2> QED
    BY <2>1, <2>2, <2>3
<1>6. PICK u : Weighs(u, w, r)
  BY <1>5
<1> DEFINE v == [a \in SUBSET s |-> IF x \in a THEN w[x] + u[a \ {x}] ELSE u[a]]
<1>7. Weighs(v, w, s)
  <2>1. \A a \in SUBSET s : a \ {x} \in SUBSET r /\ (x \notin a => a \in SUBSET r)
    OBVIOUS
  <2>2. u \in [SUBSET r -> Int] /\ u[{}] = 0
    BY <1>6 DEF Weighs
  <2>3. \A a \in SUBSET r : \A y \in a : u[a] = w[y] + u[a \ {y}]
    BY <1>6 DEF Weighs
  <2>4. \A y \in s : w[y] \in Int
    BY <1>2
  <2>5. v \in [SUBSET s -> Int]
    <3>1. ASSUME NEW a \in SUBSET s
          PROVE  (IF x \in a THEN w[x] + u[a \ {x}] ELSE u[a]) \in Int
      BY <2>1, <2>2, <2>4
    <3> QED
      BY <3>1
  <2>6. v[{}] = 0
    BY <2>2
  <2>7. ASSUME NEW a \in SUBSET s, NEW y \in a
        PROVE  v[a] = w[y] + v[a \ {y}]
    <3>1. a \ {y} \in SUBSET s /\ y \in s
      OBVIOUS
    <3>2. CASE x \notin a
      <4>1. v[a] = u[a] /\ v[a \ {y}] = u[a \ {y}]
        BY <3>1, <3>2
      <4> QED
        BY <2>1, <2>3, <3>2, <4>1
    <3>3. CASE x = y
      <4>1. v[a] = w[x] + u[a \ {x}] /\ v[a \ {y}] = u[a \ {y}]
        BY <3>1, <3>3
      <4> QED
        BY <3>3, <4>1
    <3>4. CASE x \in a /\ x # y
      <4>1. v[a] = w[x] + u[a \ {x}] /\ v[a \ {y}] = w[x] + u[(a \ {y}) \ {x}]
        BY <3>1, <3>4
      <4>2. u[a \ {x}] = w[y] + u[(a \ {x}) \ {y}]
        <5>1. a \ {x} \in SUBSET r /\ y \in a \ {x}
          BY <2>1, <3>4
        <5> QED
          BY <2>3, <5>1
      <4>3. (a \ {x}) \ {y} = (a \ {y}) \ {x} /\ (a \ {x}) \ {y} \in SUBSET r
        OBVIOUS
      <4>4. w[x] \in Int /\ w[y] \in Int /\ u[(a \ {x}) \ {y}] \in Int
        BY <2>2, <2>4, <3>1, <4>3
      <4>5. u[(a \ {x}) \ {y}] = u[(a \ {y}) \ {x}]
        BY <4>3
      <4> DEFINE k == u[(a \ {x}) \ {y}]
                 wx == w[x]
                 wy == w[y]
      <4>6. v[a] = wx + (wy + k) /\ v[a \ {y}] = wx + k
        <5> HIDE DEF v
        <5> QED
          BY <4>1, <4>2, <4>5
      <4>7. wx \in Int /\ wy \in Int /\ k \in Int
        BY <4>4
      <4> HIDE DEF v, k, wx, wy
      <4>8. v[a] = wy + v[a \ {y}]
        BY <4>6, <4>7
      <4> QED
        BY <4>8 DEF wy
    <3> QED
      BY <3>2, <3>3, <3>4
  <2> HIDE DEF v
  <2> QED
    BY <2>5, <2>6, <2>7 DEF Weighs
<1> QED
  BY <1>2, <1>7

(* Weighings of the same members agree, and two parts without a common     *)
(* member weigh together what each weighs.                                 *)
LEMMA PartsAddUp ==
  ASSUME NEW S, IsFiniteSet(S), NEW w \in [S -> Int], NEW v, Weighs(v, w, S),
         NEW a \in SUBSET S, NEW b \in SUBSET S, a \cap b = {}
  PROVE  v[a \cup b] = v[a] + v[b]
<1> DEFINE bad == {c \in SUBSET b : v[a \cup c] # v[a] + v[c]}
<1> SUFFICES ASSUME bad # {} PROVE FALSE
  OBVIOUS
<1>1. PICK c \in bad : \A t \in bad : Cardinality(c) <= Cardinality(t)
  <2>1. \A t \in bad : IsFiniteSet(t)
    BY FS_Subset
  <2> HIDE DEF bad
  <2> QED
    BY <2>1, SmallestOf
<1>2. c \in SUBSET b /\ IsFiniteSet(c) /\ v[a \cup c] # v[a] + v[c]
  BY FS_Subset
<1>3. v[{}] = 0 /\ v[a] \in Int
  BY DEF Weighs
<1>4. c # {}
  <2> SUFFICES ASSUME c = {} PROVE FALSE
    OBVIOUS
  <2>1. a \cup c = a
    OBVIOUS
  <2> QED
    BY <1>2, <1>3, <2>1
<1>5. PICK x \in c : TRUE
  BY <1>4
<1> DEFINE d == c \ {x}
<1>6. v[a \cup d] = v[a] + v[d]
  <2>1. Cardinality(d) \in Nat /\ Cardinality(c) \in Nat /\ Cardinality(d) < Cardinality(c)
    BY <1>2, OneLess
  <2>2. d \in bad => Cardinality(c) <= Cardinality(d)
    BY <1>1
  <2>3. d \in SUBSET b
    BY <1>2
  <2>4. d \notin bad
    <3> HIDE DEF bad, d
    <3> QED
      BY <2>1, <2>2
  <2> QED
    BY <2>3, <2>4
<1>7. v[a \cup c] = w[x] + v[a \cup d]
  <2>1. (a \cup c) \ {x} = a \cup d /\ a \cup c \in SUBSET S /\ x \in a \cup c
    BY <1>2
  <2>2. \A s \in SUBSET S : \A y \in s : v[s] = w[y] + v[s \ {y}]
    BY DEF Weighs
  <2> HIDE DEF d
  <2>3. v[a \cup c] = w[x] + v[(a \cup c) \ {x}]
    BY <2>1, <2>2
  <2> QED
    BY <2>1, <2>3
<1>8. v[c] = w[x] + v[d]
  <2>1. c \in SUBSET S
    BY <1>2
  <2> QED
    BY <2>1 DEF Weighs
<1>9. w[x] \in Int /\ v[a] \in Int /\ v[d] \in Int
  <2>1. x \in S /\ d \in SUBSET S
    BY <1>2
  <2> QED
    BY <1>3, <2>1 DEF Weighs
<1> HIDE DEF d
<1> QED
  BY <1>2, <1>6, <1>7, <1>8, <1>9

(* A sum over a set, as the library folds it: one chosen member at a time. *)
Chosen(s) == CHOOSE x \in s : TRUE
Step(f, w, S) ==
  [s \in SUBSET S |-> IF s = {} THEN 0 ELSE w[Chosen(s)] + f[s \ {Chosen(s)}]]

(* A weighing can be taken one chosen member at a time, as the fold is.    *)
LEMMA WeighingSteps ==
  ASSUME NEW S, NEW w, NEW v, Weighs(v, w, S)
  PROVE  v = Step(v, w, S)
<1>1. ASSUME NEW s \in SUBSET S
      PROVE  v[s] = IF s = {} THEN 0 ELSE w[Chosen(s)] + v[s \ {Chosen(s)}]
  <2>1. CASE s = {}
    BY <2>1 DEF Weighs
  <2>2. CASE s # {}
    <3>1. Chosen(s) \in s
      BY <2>2 DEF Chosen
    <3> QED
      BY <2>2, <3>1 DEF Weighs
  <2> QED
    BY <2>1, <2>2
<1>2. v \in [SUBSET S -> Int]
  BY DEF Weighs
<1> QED
  BY <1>1, <1>2 DEF Step

(* What is taken one chosen member at a time is the weighing.              *)
LEMMA FoldIs ==
  ASSUME NEW S, IsFiniteSet(S), NEW w, NEW v, Weighs(v, w, S), NEW f, f = Step(f, w, S)
  PROVE  f[S] = v[S]
<1>1. v = Step(v, w, S)
  BY WeighingSteps
<1> DEFINE bad == {s \in SUBSET S : f[s] # v[s]}
<1> SUFFICES ASSUME bad # {} PROVE FALSE
  OBVIOUS
<1>2. PICK s \in bad : \A t \in bad : Cardinality(s) <= Cardinality(t)
  <2>1. \A t \in bad : IsFiniteSet(t)
    BY FS_Subset
  <2> HIDE DEF bad
  <2> QED
    BY <2>1, SmallestOf
<1>3. s \in SUBSET S /\ IsFiniteSet(s) /\ f[s] # v[s]
  BY FS_Subset
<1>4. \A g : g = Step(g, w, S) =>
        g[s] = IF s = {} THEN 0 ELSE w[Chosen(s)] + g[s \ {Chosen(s)}]
  BY <1>3 DEF Step
<1>5. s # {}
  BY <1>1, <1>3, <1>4
<1> DEFINE r == s \ {Chosen(s)}
<1>6. f[r] = v[r]
  <2>1. Chosen(s) \in s
    BY <1>5 DEF Chosen
  <2>2. Cardinality(r) \in Nat /\ Cardinality(s) \in Nat /\ Cardinality(r) < Cardinality(s)
    BY <1>3, <2>1, OneLess
  <2>3. r \in bad => Cardinality(s) <= Cardinality(r)
    BY <1>2
  <2>4. r \in SUBSET S
    BY <1>3
  <2>5. r \notin bad
    <3> HIDE DEF bad, r
    <3> QED
      BY <2>2, <2>3
  <2> QED
    BY <2>4, <2>5
<1> QED
  BY <1>1, <1>3, <1>4, <1>5, <1>6

(* Total is such a fold: the recursion that defines it has a solution.     *)
LEMMA TotalUnfolded ==
  ASSUME NEW S, NEW w, \A t \in S : w[t] = t.amount,
         NEW g, g = Step(g, w, S)
  PROVE  \E f : f = Step(f, w, S) /\ Total(S) = f[S]
<1> DEFINE F(f) == [s \in SUBSET S |-> IF s = {} THEN 0
                       ELSE (CHOOSE x \in s : TRUE).amount + f[s \ {CHOOSE x \in s : TRUE}]]
           it == CHOOSE f : f = F(f)
<1>1. Total(S) = it[S]
  BY DEF Total, MapThenSumSet, MapThenFoldSet
<1>2. \A f : F(f) = Step(f, w, S)
  BY DEF Step, Chosen
<1> HIDE DEF F
<1>3. g = F(g)
  BY <1>2
<1>4. it = F(it)
  BY <1>3
<1> QED
  BY <1>1, <1>2, <1>4

(* Hence the total of a part is what it weighs.                            *)
LEMMA TotalIs ==
  ASSUME NEW S, IsFiniteSet(S), NEW w, \A t \in S : w[t] = t.amount,
         NEW v, Weighs(v, w, S), NEW a \in SUBSET S
  PROVE  Total(a) = v[a]
<1> DEFINE u == [s \in SUBSET a |-> v[s]]
<1>1. Weighs(u, w, a)
  <2>1. \A s \in SUBSET a : s \in SUBSET S /\ \A x \in s : s \ {x} \in SUBSET a
    OBVIOUS
  <2>2. u \in [SUBSET a -> Int]
    BY <2>1 DEF Weighs
  <2>3. u[{}] = 0
    BY DEF Weighs
  <2>4. ASSUME NEW s \in SUBSET a, NEW x \in s
        PROVE  u[s] = w[x] + u[s \ {x}]
    <3>1. u[s] = v[s] /\ u[s \ {x}] = v[s \ {x}]
      BY <2>1
    <3> QED
      BY <2>1, <3>1 DEF Weighs
  <2> HIDE DEF u
  <2> QED
    BY <2>2, <2>3, <2>4 DEF Weighs
<1>2. IsFiniteSet(a)
  BY FS_Subset
<1>3. u = Step(u, w, a)
  BY <1>1, WeighingSteps
<1>4. PICK f : f = Step(f, w, a) /\ Total(a) = f[a]
  <2>1. \A t \in a : w[t] = t.amount
    OBVIOUS
  <2> HIDE DEF u
  <2> QED
    BY <1>3, <2>1, TotalUnfolded
<1>5. f[a] = u[a]
  <2> HIDE DEF u
  <2> QED
    BY <1>1, <1>2, <1>4, FoldIs
<1> QED
  BY <1>4, <1>5

(* What a total is, of the parts of a finite set.                          *)
LEMMA Totals ==
  ASSUME NEW S, IsFiniteSet(S), \A t \in S : t.amount \in Int
  PROVE  /\ Total({}) = 0
         /\ \A a \in SUBSET S : Total(a) \in Int
         /\ \A a, b \in SUBSET S : a \cap b = {} => Total(a \cup b) = Total(a) + Total(b)
<1> DEFINE w == [t \in S |-> t.amount]
<1>1. w \in [S -> Int] /\ \A t \in S : w[t] = t.amount
  OBVIOUS
<1> HIDE DEF w
<1>2. PICK v : Weighs(v, w, S)
  BY <1>1, CanBeWeighed
<1>3. \A a \in SUBSET S : Total(a) = v[a]
  BY <1>1, <1>2, TotalIs
<1>4. v[{}] = 0 /\ \A a \in SUBSET S : v[a] \in Int
  BY <1>2 DEF Weighs
<1>5. \A a, b \in SUBSET S : a \cap b = {} => v[a \cup b] = v[a] + v[b]
  <2> SUFFICES ASSUME NEW a \in SUBSET S, NEW b \in SUBSET S, a \cap b = {}
               PROVE  v[a \cup b] = v[a] + v[b]
    OBVIOUS
  <2> QED
    BY <1>1, <1>2, PartsAddUp
<1>6. {} \in SUBSET S /\ \A a, b \in SUBSET S : a \cup b \in SUBSET S
  OBVIOUS
<1> QED
  BY <1>3, <1>4, <1>5, <1>6

-------------------------------------------------------------------------------
(* The figures: whoever shows them, they are totals of the same rows.      *)
(* A date is on or after the first day of a month when its month is.       *)
LEMMA FromFirstDay ==
  ASSUME NEW d \in Dates, NEW m \in Nat
  PROVE  FirstDay[m] <= d <=> m <= MonthOf[d]
<1> DEFINE n == MonthOf[d]
<1>1. n \in Nat /\ FirstDay[n] <= d /\ d < FirstDay[n + 1]
  BY MonthOfDate
<1> HIDE DEF n
<1>2. FirstDay[m] \in Nat /\ FirstDay[n] \in Nat /\ FirstDay[n + 1] \in Nat /\ d \in Nat
  <2>1. n + 1 \in Nat
    BY <1>1
  <2> QED
    BY <1>1, <2>1, FirstDays DEF Dates
<1>3. CASE m < n
  <2>1. FirstDay[m + 1] <= FirstDay[n] /\ FirstDay[m] + 28 <= FirstDay[m + 1]
        /\ FirstDay[m + 1] \in Nat
    <3>1. m + 1 \in Nat
      OBVIOUS
    <3> QED
      BY <1>1, <1>3, <3>1, InOrderOfMonths, FirstDays
  <2> QED
    BY <1>1, <1>2, <1>3, <2>1 DEF n
<1>4. CASE n < m
  <2>1. FirstDay[n + 1] <= FirstDay[m]
    BY <1>1, <1>4, InOrderOfMonths
  <2> QED
    BY <1>1, <1>2, <1>4, <2>1 DEF n
<1>5. CASE m = n
  BY <1>1, <1>5 DEF n
<1> QED
  BY <1>1, <1>3, <1>4, <1>5

(* What is dated in a span of months.                                      *)
LEMMA DatedInMonths ==
  ASSUME \A t \in book : t.date \in Dates, NEW lo \in Nat, NEW hi \in Int, lo <= hi + 1
  PROVE  /\ Dated(FirstDay[lo], LastDay(hi))
              = {t \in book : lo <= MonthOf[t.date] /\ MonthOf[t.date] <= hi}
         /\ \A d \in Dates : d <= LastDay(hi) <=> MonthOf[d] <= hi
         /\ LastDay(hi) \in Int
<1>1. hi + 1 \in Nat
  OBVIOUS
<1>2. FirstDay[hi + 1] \in Nat
  BY <1>1, FirstDays
<1>3. ASSUME NEW d \in Dates
      PROVE  d <= LastDay(hi) <=> MonthOf[d] <= hi
  <2>1. FirstDay[hi + 1] <= d <=> hi + 1 <= MonthOf[d]
    BY <1>1, FromFirstDay
  <2>2. MonthOf[d] \in Nat /\ d \in Nat
    BY MonthOfDate DEF Dates
  <2> QED
    BY <1>2, <2>1, <2>2 DEF LastDay
<1>4. \A d \in Dates : FirstDay[lo] <= d <=> lo <= MonthOf[d]
  BY FromFirstDay
<1>5. Dated(FirstDay[lo], LastDay(hi))
        = {t \in book : lo <= MonthOf[t.date] /\ MonthOf[t.date] <= hi}
  BY <1>3, <1>4 DEF Dated
<1> QED
  BY <1>2, <1>3, <1>5 DEF LastDay

(* The aggregation of a currency, also where there is nothing of it.       *)
LEMMA FigureOf ==
  ASSUME NEW c \in Currencies, NEW txs
  PROVE  Figure(Aggregate(txs), c) = Aggregation({t \in txs : t.currency = c})
<1> DEFINE aggs == Aggregate(txs)
           is == {i \in DOMAIN aggs : aggs[i].currency = c}
<1>1. /\ DOMAIN aggs = {j \in DOMAIN Order : \E t \in txs : t.currency = Order[j]}
      /\ \A i \in DOMAIN aggs :
           /\ aggs[i].currency = Order[i]
           /\ aggs[i].figures = Aggregation({t \in txs : t.currency = Order[i]})
  BY DEF Aggregate
<1>2. Figure(aggs, c) = IF is = {} THEN Aggregation({}) ELSE aggs[CHOOSE i \in is : TRUE].figures
  BY DEF Figure
<1> HIDE DEF aggs
<1>3. CASE is = {}
  <2>1. {t \in txs : t.currency = c} = {}
    <3> SUFFICES ASSUME NEW t \in txs, t.currency = c PROVE FALSE
      OBVIOUS
    <3>1. PICK i \in DOMAIN Order : Order[i] = c
      BY DEF Currencies
    <3>2. i \in is
      BY <1>1, <3>1
    <3> QED
      BY <1>3, <3>2
  <2> QED
    BY <1>2, <1>3, <2>1 DEF aggs
<1>4. CASE is # {}
  <2> DEFINE i == CHOOSE j \in is : TRUE
  <2>1. i \in is
    BY <1>4
  <2>2. Order[i] = c /\ aggs[i].figures = Aggregation({t \in txs : t.currency = Order[i]})
    BY <1>1, <2>1
  <2> HIDE DEF i
  <2>3. aggs[i].figures = Aggregation({t \in txs : t.currency = c})
    BY <2>2
  <2>4. Figure(aggs, c) = aggs[i].figures
    BY <1>2, <1>4 DEF i
  <2> QED
    BY <2>3, <2>4 DEF aggs
<1> QED
  BY <1>3, <1>4

(* Walking back from this month, one month at a time.                      *)
LEMMA MonthsBackIs ==
  ASSUME day \in Dates, NEW n \in Nat \ {0}
  PROVE  MonthsBack(n) = <<FirstDay[MonthOf[day] - n], LastDay(MonthOf[day] - 1)>>
<1> DEFINE M == MonthOf[day]
           p == <<Year(MonthOf[day]), (MonthOf[day] % 12) + 1>>
           F(f) == [i \in 0..n |-> IF i = 0 THEN p ELSE MonthBefore(f[i - 1])]
           back == CHOOSE f : f = F(f)
           g == [i \in 0..n |-> Period(M - i)]
           number(q) == (q[1] - 2024) * 12 + q[2] - 1
<1>1. MonthsBack(n) = <<FirstDay[number(back[n])], LastDay(number(back[1]))>>
  BY DEF MonthsBack
<1>2. M \in Nat
  BY MonthOfDate
<1>3. p = Period(M)
  BY DEF Period
<1> HIDE DEF M, p
<1>4. ASSUME NEW i \in Nat \ {0}
      PROVE  Period(M - i) = MonthBefore(Period(M - (i - 1)))
  <2> DEFINE k == M - (i - 1)
  <2>1. k \in Int /\ M - i = k - 1
    BY <1>2
  <2> HIDE DEF k
  <2>2. PrevMonth(Period(k)) = Period(k - 1)
    BY <2>1, PeriodsOfMonths
  <2>3. PrevMonth(Period(k)) = MonthBefore(Period(k))
    BY DEF PrevMonth, MonthBefore
  <2> QED
    BY <2>1, <2>2, <2>3 DEF k
<1>5. g = F(g)
  <2>1. ASSUME NEW i \in 0..n
        PROVE  g[i] = IF i = 0 THEN p ELSE MonthBefore(g[i - 1])
    <3>1. CASE i = 0
      <4>1. M - 0 = M
        BY <1>2
      <4> QED
        BY <1>3, <3>1, <4>1
    <3>2. CASE i # 0
      <4>1. i - 1 \in 0..n /\ i \in Nat \ {0}
        BY <3>2
      <4>2. g[i] = Period(M - i) /\ g[i - 1] = Period(M - (i - 1))
        BY <4>1
      <4> HIDE DEF g
      <4> QED
        BY <1>4, <3>2, <4>1, <4>2
    <3> QED
      BY <3>1, <3>2
  <2> QED
    BY <2>1
<1>6. back = F(back)
  <2> HIDE DEF F, g
  <2> QED
    BY <1>5
<1>7. \A i \in 0..n : back[i] = IF i = 0 THEN p ELSE MonthBefore(back[i - 1])
  <2> HIDE DEF back
  <2> QED
    BY <1>6
<1> HIDE DEF back, F, g
<1>8. ASSUME NEW j \in 0..n
      PROVE  back[j] = Period(M - j)
  <2> DEFINE bad == {i \in 0..n : back[i] # Period(M - i)}
  <2> SUFFICES ASSUME bad # {} PROVE FALSE
    OBVIOUS
  <2>1. PICK i \in bad : \A k \in bad : i <= k
    <3>1. bad \in SUBSET Nat
      OBVIOUS
    <3> HIDE DEF bad
    <3> QED
      BY <3>1, LeastOf
  <2>2. i \in 0..n /\ back[i] # Period(M - i) /\ i # 0
    <3>1. M - 0 = M
      BY <1>2
    <3> QED
      BY <1>3, <1>7, <3>1
  <2>3. i - 1 \in 0..n /\ i \in Nat \ {0} /\ i - 1 < i /\ i - 1 \in Nat
    BY <2>2
  <2>4. i - 1 \notin bad
    <3> HIDE DEF bad
    <3> QED
      BY <2>1, <2>2, <2>3
  <2>5. back[i - 1] = Period(M - (i - 1))
    BY <2>3, <2>4
  <2> QED
    BY <1>4, <1>7, <2>2, <2>3, <2>5
<1>9. ASSUME NEW k \in Int
      PROVE  number(Period(k)) = k
  <2> DEFINE y == k \div 12
             r == k % 12
  <2>1. y \in Int /\ r \in 0..11 /\ k = 12 * y + r
    OBVIOUS
  <2>2. Period(k) = <<2024 + y, r + 1>>
    BY DEF Period, Year
  <2> HIDE DEF y, r
  <2>3. number(Period(k)) = (Period(k)[1] - 2024) * 12 + Period(k)[2] - 1
    OBVIOUS
  <2>4. Period(k)[1] = 2024 + y /\ Period(k)[2] = r + 1
    BY <2>2
  <2> DEFINE a == Period(k)[1]
             b == Period(k)[2]
  <2>5. (a - 2024) * 12 + b - 1 = k
    <3> HIDE DEF a, b
    <3>1. a = 2024 + y /\ b = r + 1
      BY <2>4 DEF a, b
    <3> QED
      BY <2>1, <3>1
  <2> HIDE DEF number
  <2> QED
    BY <2>3, <2>5
<1>10. number(back[n]) = M - n /\ number(back[1]) = M - 1
  <2>1. M - n \in Int /\ M - 1 \in Int /\ n \in 0..n /\ 1 \in 0..n
    BY <1>2
  <2>2. back[n] = Period(M - n) /\ back[1] = Period(M - 1)
    BY <1>8, <2>1
  <2> HIDE DEF number
  <2> QED
    BY <1>9, <2>1, <2>2
<1> HIDE DEF number
<1> QED
  BY <1>1, <1>10 DEF M

-------------------------------------------------------------------------------
(* What there is of a currency in a month, and of a type up to today.      *)
RowsOf(m, c) == {t \in book : MonthOf[t.date] = m /\ t.currency = c}
PastOf(m, c, k) == {t \in RowsOf(m, c) : t.date <= day /\ Kind(t) = k}

(* What the figures stand on.                                              *)
LEMMA OfTheBook ==
  ASSUME ReportsInv
  PROVE  /\ day \in Dates /\ day \in Nat
         /\ MonthOf[day] \in Nat /\ ProfileMonths \in 1..51 /\ ProfileMonths <= MonthOf[day]
         /\ \A t \in book : /\ t.date \in Dates /\ t.date \in Nat /\ t.amount \in Int
                            /\ MonthOf[t.date] \in Nat
<1>1. day \in Dates /\ \A t \in book : t.date \in Dates /\ t.amount \in Int
  <2>1. day \in ReportDays /\ book \subseteq Entries
    BY DEF ReportsInv
  <2>2. ReportDays \subseteq Dates
    BY ReportAssumption
  <2>3. \A t \in Entries : t.date \in Dates /\ t.amount \in Int
    BY ReportAssumption
  <2> QED
    BY <2>1, <2>2, <2>3
<1>2. ProfileMonths \in 1..51 /\ ProfileMonths <= MonthOf[day]
  <2>1. day \in ReportDays
    BY DEF ReportsInv
  <2>2. ProfileMonths \in 1..51
    BY ReportAssumption
  <2>3. \A d \in ReportDays : ProfileMonths <= MonthOf[d]
    BY ReportAssumption
  <2> QED
    BY <2>1, <2>2, <2>3
<1> QED
  BY <1>1, <1>2, MonthOfDate DEF Dates

(* The chat's tools, for one month and for the last ones.                  *)
LEMMA ChatSays ==
  ASSUME ReportsInv, NEW c \in Currencies, NEW m \in Nat
  PROVE  Figure(MonthSummary(m), c) = Aggregation(RowsOf(m, c))
<1>1. m <= m + 1 /\ m \in Int
  OBVIOUS
<1>2. Dated(FirstDay[m], LastDay(m))
        = {t \in book : m <= MonthOf[t.date] /\ MonthOf[t.date] <= m}
  BY <1>1, OfTheBook, DatedInMonths
<1>3. {t \in Dated(FirstDay[m], LastDay(m)) : t.currency = c} = RowsOf(m, c)
  BY <1>2, OfTheBook DEF RowsOf
<1> QED
  BY <1>3, FigureOf DEF MonthSummary, SpendWindow

(* The profile is one aggregation of all the months before this one.       *)
LEMMA ProfileSays ==
  ASSUME ReportsInv, NEW c \in Currencies
  PROVE  Figure(Profile, c) =
           Aggregation({t \in book : /\ MonthOf[day] - ProfileMonths <= MonthOf[t.date]
                                     /\ MonthOf[t.date] <= MonthOf[day] - 1
                                     /\ t.currency = c})
<1> DEFINE M == MonthOf[day]
           lo == M - ProfileMonths
           hi == M - 1
           rows == {t \in book : lo <= MonthOf[t.date] /\ MonthOf[t.date] <= hi}
<1>1. lo \in Nat /\ hi \in Int /\ lo <= hi + 1
  <2> DEFINE P == ProfileMonths
  <2>1. M \in Nat /\ P \in 1..51 /\ P <= M
    BY OfTheBook
  <2> HIDE DEF M, P
  <2>2. M - P \in Nat /\ M - 1 \in Int /\ M - P <= (M - 1) + 1
    BY <2>1
  <2> QED
    BY <2>2 DEF P
<1>2. MonthsBack(ProfileMonths) = <<FirstDay[lo], LastDay(hi)>>
  <2>1. ProfileMonths \in Nat \ {0}
    BY OfTheBook
  <2> QED
    BY <2>1, OfTheBook, MonthsBackIs
<1> HIDE DEF lo, hi
<1>3. Dated(FirstDay[lo], LastDay(hi)) = rows
  BY <1>1, OfTheBook, DatedInMonths
<1>4. Profile = Aggregate(rows)
  <2>1. MonthsBack(ProfileMonths)[1] = FirstDay[lo] /\ MonthsBack(ProfileMonths)[2] = LastDay(hi)
    BY <1>2
  <2>2. Profile = Aggregate(Dated(FirstDay[lo], LastDay(hi)))
    BY <2>1 DEF Profile, SpendWindow
  <2> QED
    BY <1>3, <2>2
<1>5. {t \in rows : t.currency = c}
        = {t \in book : lo <= MonthOf[t.date] /\ MonthOf[t.date] <= hi /\ t.currency = c}
  OBVIOUS
<1> HIDE DEF rows
<1>6. Figure(Profile, c) = Aggregation({t \in rows : t.currency = c})
  BY <1>4, FigureOf
<1> QED
  BY <1>5, <1>6 DEF lo, hi, M

(* A row is an income or an expense.                                       *)
LEMMA KindIs ==
  \A t : /\ Kind(t) = "income" <=> t.category = Income
         /\ Kind(t) = "expense" <=> t.category # Income
         /\ Kind(t) \in {"income", "expense"}
BY DEF Kind

(* The page.                                                               *)
LEMMA RowsRead ==
  ASSUME ReportsInv, NEW m \in Nat
  PROVE  Dated(FirstDay[m], IF LastDay(m) < day THEN LastDay(m) ELSE day)
           = {t \in book : MonthOf[t.date] = m /\ t.date <= day}
<1> DEFINE last == LastDay(m)
<1>1. m <= m + 1 /\ m \in Int
  OBVIOUS
<1>2. /\ Dated(FirstDay[m], last) = {t \in book : m <= MonthOf[t.date] /\ MonthOf[t.date] <= m}
      /\ last \in Int
  BY <1>1, OfTheBook, DatedInMonths
<1>3. \A t \in book : FirstDay[m] <= t.date /\ t.date <= last <=> MonthOf[t.date] = m
  <2> SUFFICES ASSUME NEW t \in book
               PROVE  FirstDay[m] <= t.date /\ t.date <= last <=> MonthOf[t.date] = m
    OBVIOUS
  <2>1. t \in Dated(FirstDay[m], last) <=> FirstDay[m] <= t.date /\ t.date <= last
    BY DEF Dated
  <2>2. MonthOf[t.date] \in Nat
    BY OfTheBook
  <2> HIDE DEF last
  <2> QED
    BY <1>2, <2>1, <2>2
<1>4. day \in Nat /\ \A t \in book : t.date \in Nat
  BY OfTheBook
<1>5. \A t \in book : MonthOf[t.date] = m => t.date <= last
  BY <1>3
<1>6. \A t \in book : FirstDay[m] <= t.date /\ t.date <= (IF last < day THEN last ELSE day)
                        <=> MonthOf[t.date] = m /\ t.date <= day
  <2> HIDE DEF last
  <2> QED
    BY <1>2, <1>3, <1>4
<1> HIDE DEF last
<1> QED
  BY <1>6 DEF Dated, last

(* The budget summary shows the past rows of a month, or nothing.          *)
LEMMA PageSays ==
  ASSUME ReportsInv, NEW m \in Nat, NEW c, NEW k \in {"income", "expense"}
  PROVE  (LET of == Summary(m)[k] IN IF c \in DOMAIN of THEN of[c].total ELSE 0)
           = Total(PastOf(m, c, k))
<1> DEFINE rows == {t \in book : MonthOf[t.date] = m /\ t.date <= day}
           groups == {<<t.currency, Kind(t)>> : t \in rows}
           group(g) == {t \in rows : <<t.currency, Kind(t)>> = g}
           read == ReadClipped(m, day)
           of == Summary(m)[k]
<1>1. read = [g \in groups |-> [total |-> Total(group(g)), count |-> Cardinality(group(g))]]
  <2>1. Dated(FirstDay[m], IF LastDay(m) < day THEN LastDay(m) ELSE day) = rows
    BY RowsRead
  <2> HIDE DEF rows
  <2> QED
    BY <2>1 DEF ReadClipped
<1>2. of = [d \in {g[1] : g \in {h \in DOMAIN read : h[2] = k}} |-> read[<<d, k>>]]
  BY DEF Summary
<1>3. group(<<c, k>>) = PastOf(m, c, k)
  BY DEF PastOf, RowsOf
<1>4. c \in DOMAIN of <=> <<c, k>> \in groups
  <2> HIDE DEF rows, read
  <2>1. DOMAIN read = groups
    BY <1>1
  <2>2. \A g \in groups : g = <<g[1], g[2]>>
    OBVIOUS
  <2> HIDE DEF of, groups
  <2>3. DOMAIN of = {g[1] : g \in {h \in groups : h[2] = k}}
    BY <1>2, <2>1
  <2>4. ASSUME c \in DOMAIN of PROVE <<c, k>> \in groups
    <3>1. PICK g \in groups : g[2] = k /\ g[1] = c
      BY <2>3, <2>4
    <3>2. g = <<c, k>>
      BY <2>2, <3>1
    <3> QED
      BY <3>2
  <2>5. ASSUME <<c, k>> \in groups PROVE c \in DOMAIN of
    <3>1. <<c, k>>[2] = k /\ <<c, k>>[1] = c
      OBVIOUS
    <3> QED
      BY <2>3, <2>5, <3>1
  <2> QED
    BY <2>4, <2>5
<1>5. CASE c \in DOMAIN of
  <2>1. of[c] = read[<<c, k>>]
    <3> HIDE DEF read, of
    <3> QED
      BY <1>2, <1>5
  <2>2. read[<<c, k>>].total = Total(group(<<c, k>>))
    <3>1. <<c, k>> \in groups
      BY <1>4, <1>5
    <3> HIDE DEF groups, group, read
    <3> QED
      BY <1>1, <3>1
  <2> HIDE DEF read, of, group
  <2> QED
    BY <1>3, <1>5, <2>1, <2>2 DEF of
<1>6. CASE c \notin DOMAIN of
  <2>1. PastOf(m, c, k) = {}
    <3>1. <<c, k>> \notin groups
      BY <1>4, <1>6
    <3>2. group(<<c, k>>) = {}
      BY <3>1
    <3> QED
      BY <1>3, <3>2
  <2>2. Total({}) = 0
    BY OfTheBook, Totals DEF ReportsInv
  <2> HIDE DEF of
  <2> QED
    BY <1>6, <2>1, <2>2 DEF of
<1> QED
  BY <1>5, <1>6

(* The trend, asked for the months from this one on.                       *)
LEMMA TrendSays ==
  ASSUME ReportsInv, NEW c, NEW k \in {"income", "expense"},
         NEW m \in (MonthOf[day] - ProfileMonths)..MonthOf[day]
  PROVE  At(Trend("month", MonthOf[day] - m + 1, c, k), <<Year(m), (m % 12) + 1>>)
           = Total(PastOf(m, c, k))
<1> DEFINE M == MonthOf[day]
           n == M - m + 1
           l == <<Year(m), (m % 12) + 1>>
           trend == Trend("month", n, c, k)
           rows == TrendRows("month", n, c, k)
<1>1. m \in Nat /\ n \in 1..52 /\ M - (n - 1) = m
  <2> DEFINE P == ProfileMonths
  <2>1. M \in Nat /\ P \in 1..51 /\ P <= M
    BY OfTheBook
  <2>2. m \in (M - P)..M
    OBVIOUS
  <2> HIDE DEF M, P
  <2> QED
    BY <2>1, <2>2
<1>2. MonthFloor(n) = FirstDay[m]
  <2> HIDE DEF n
  <2>1. MonthFloor(n) = FirstDay[MonthOf[day] - (n - 1)]
    BY <1>1, OfTheBook, MonthFloorIs
  <2> QED
    BY <1>1, <2>1
<1> HIDE DEF M, n
<1>3. rows = {t \in book : m <= MonthOf[t.date] /\ t.date <= day /\ t.currency = c /\ Kind(t) = k}
  <2>1. \A t \in book : FirstDay[m] <= t.date <=> m <= MonthOf[t.date]
    BY <1>1, OfTheBook, FromFirstDay
  <2> QED
    BY <1>2, <2>1 DEF TrendRows, Dated
<1>4. \A t \in rows : Label("month", t.date) = l <=> MonthOf[t.date] = m
  <2> SUFFICES ASSUME NEW t \in book
               PROVE  Label("month", t.date) = l <=> MonthOf[t.date] = m
    BY <1>3
  <2>1. Label("month", t.date) = <<Year(MonthOf[t.date]), (MonthOf[t.date] % 12) + 1>>
    BY DEF Label
  <2>2. MonthOf[t.date] \in Nat
    BY OfTheBook
  <2> QED
    BY <1>1, <2>1, <2>2, MonthsOfLabels
<1>5. {t \in rows : Label("month", t.date) = l} = PastOf(m, c, k)
  <2> HIDE DEF l
  <2> QED
    BY <1>1, <1>3, <1>4 DEF PastOf, RowsOf
<1>6. trend = [x \in {Label("month", t.date) : t \in rows} |->
                 Total({t \in rows : Label("month", t.date) = x})]
  BY DEF Trend
<1> HIDE DEF l, rows, trend
<1>7. CASE l \in DOMAIN trend
  <2>1. trend[l] = Total(PastOf(m, c, k))
    BY <1>5, <1>6, <1>7
  <2> QED
    BY <1>7, <2>1 DEF At, l, trend, n, M
<1>8. CASE l \notin DOMAIN trend
  <2>1. {t \in rows : Label("month", t.date) = l} = {}
    BY <1>6, <1>8
  <2>2. Total({}) = 0
    BY OfTheBook, Totals DEF ReportsInv
  <2>3. Total(PastOf(m, c, k)) = 0
    BY <1>5, <2>1, <2>2
  <2> QED
    BY <1>8, <2>3 DEF At, l, trend, n, M
<1> QED
  BY <1>7, <1>8

(* An insight's snapshot.                                                  *)
LEMMA SnapshotSays ==
  ASSUME ReportsInv, NEW m \in Nat, NEW c \in DOMAIN Snapshot(m)
  PROVE  /\ Snapshot(m)[c].income = Aggregation(RowsOf(m, c)).income
         /\ Snapshot(m)[c].expense = Aggregation(RowsOf(m, c)).expenses
<1> DEFINE rows == Dated(FirstDay[m], LastDay(m))
           mine == RowsOf(m, c)
           spent == {t \in mine : t.category # Income}
<1>1. rows = {t \in book : MonthOf[t.date] = m}
  <2>1. m <= m + 1 /\ m \in Int
    OBVIOUS
  <2>2. rows = {t \in book : m <= MonthOf[t.date] /\ MonthOf[t.date] <= m}
    BY <2>1, OfTheBook, DatedInMonths
  <2>3. \A t \in book : MonthOf[t.date] \in Nat
    BY OfTheBook
  <2> QED
    BY <2>2, <2>3
<1>2. Snapshot(m) = [d \in {t.currency : t \in rows} |->
         [income  |-> Total({t \in rows : t.currency = d /\ Kind(t) = "income"}),
          expense |-> Total({t \in rows : t.currency = d /\ Kind(t) = "expense"}),
          count   |-> Cardinality({t \in rows : t.currency = d})]]
  BY DEF Snapshot
<1>3. /\ Snapshot(m)[c].income = Total({t \in rows : t.currency = c /\ Kind(t) = "income"})
      /\ Snapshot(m)[c].expense = Total({t \in rows : t.currency = c /\ Kind(t) = "expense"})
  <2> HIDE DEF rows
  <2> QED
    BY <1>2
<1>4. /\ {t \in rows : t.currency = c /\ Kind(t) = "income"} = mine \ spent
      /\ {t \in rows : t.currency = c /\ Kind(t) = "expense"} = spent
  <2> HIDE DEF rows
  <2> QED
    BY <1>1, KindIs DEF RowsOf
<1>5. Aggregation(mine).income = Total(mine \ spent) /\ Aggregation(mine).expenses = Total(spent)
  BY DEF Aggregation
<1> HIDE DEF rows, mine, spent
<1> QED
  BY <1>3, <1>4, <1>5 DEF mine

(* With nothing dated after today, the past is all there is.               *)
LEMMA ChatIsPage ==
  ASSUME ReportsInv, NEW m, NEW c, \A t \in book : t.date <= day
  PROVE  /\ Aggregation(RowsOf(m, c)).income = Total(PastOf(m, c, "income"))
         /\ Aggregation(RowsOf(m, c)).expenses = Total(PastOf(m, c, "expense"))
<1> DEFINE mine == RowsOf(m, c)
           spent == {t \in mine : t.category # Income}
<1>1. mine \ spent = PastOf(m, c, "income") /\ spent = PastOf(m, c, "expense")
  BY KindIs DEF PastOf, RowsOf
<1>2. Aggregation(mine).income = Total(mine \ spent) /\ Aggregation(mine).expenses = Total(spent)
  BY DEF Aggregation
<1> HIDE DEF mine, spent
<1> QED
  BY <1>1, <1>2 DEF mine

(* The chat's trend of a category.                                         *)
LEMMA CategoryTrendSays ==
  ASSUME ReportsInv, NEW c, NEW x \in Categories,
         NEW m \in (MonthOf[day] - ProfileMonths)..(MonthOf[day] - 1)
  PROVE  At(CategoryTrend(x, MonthOf[day] - m), <<m, c>>)
           = At(Aggregation(RowsOf(m, c)).categories, x)
<1> DEFINE M == MonthOf[day]
           n == M - m
           hi == M - 1
           rows == {t \in book : /\ m <= MonthOf[t.date] /\ MonthOf[t.date] <= hi
                                 /\ t.category = x}
           trend == CategoryTrend(x, n)
           mine == RowsOf(m, c)
           spent == {t \in mine : t.category # Income}
           cats == Aggregation(mine).categories
<1>1. /\ m \in Nat /\ n \in Nat \ {0} /\ M - n = m
      /\ hi \in Int /\ m <= hi + 1 /\ m <= hi
  <2> DEFINE P == ProfileMonths
  <2>1. M \in Nat /\ P \in 1..51 /\ P <= M
    BY OfTheBook
  <2>2. m \in (M - P)..(M - 1)
    OBVIOUS
  <2> HIDE DEF M, P
  <2> QED
    BY <2>1, <2>2
<1>2. MonthsBack(n) = <<FirstDay[m], LastDay(hi)>>
  <2> HIDE DEF n
  <2>1. MonthsBack(n) = <<FirstDay[MonthOf[day] - n], LastDay(MonthOf[day] - 1)>>
    BY <1>1, OfTheBook, MonthsBackIs
  <2> QED
    BY <1>1, <2>1
<1> HIDE DEF n, hi, M
<1>3. {t \in Dated(MonthsBack(n)[1], MonthsBack(n)[2]) : t.category = x} = rows
  <2>1. Dated(FirstDay[m], LastDay(hi))
          = {t \in book : m <= MonthOf[t.date] /\ MonthOf[t.date] <= hi}
    BY <1>1, OfTheBook, DatedInMonths
  <2>2. MonthsBack(n)[1] = FirstDay[m] /\ MonthsBack(n)[2] = LastDay(hi)
    BY <1>2
  <2> QED
    BY <2>1, <2>2
<1>4. trend = [g \in {<<MonthOf[t.date], t.currency>> : t \in rows} |->
                 Total({t \in rows : <<MonthOf[t.date], t.currency>> = g})]
  <2> HIDE DEF rows
  <2> QED
    BY <1>3 DEF CategoryTrend
<1>5. {t \in rows : <<MonthOf[t.date], t.currency>> = <<m, c>>} = {t \in spent : t.category = x}
  <2>1. x # Income
    BY FiguresAssumption
  <2> QED
    BY <1>1, <2>1 DEF RowsOf
<1>6. Total({}) = 0
  BY OfTheBook, Totals DEF ReportsInv
<1>7. At(trend, <<m, c>>) = Total({t \in spent : t.category = x})
  <2> HIDE DEF trend, rows, spent
  <2>1. CASE <<m, c>> \in DOMAIN trend
    BY <1>4, <1>5, <2>1 DEF At
  <2>2. CASE <<m, c>> \notin DOMAIN trend
    <3>1. {t \in rows : <<MonthOf[t.date], t.currency>> = <<m, c>>} = {}
      BY <1>4, <2>2
    <3> QED
      BY <1>5, <1>6, <2>2, <3>1 DEF At
  <2> QED
    BY <2>1, <2>2
<1>8. cats = [y \in {t.category : t \in spent} \cap Categories |->
                Total({t \in spent : t.category = y})]
  BY DEF Aggregation
<1>9. At(cats, x) = Total({t \in spent : t.category = x})
  <2> HIDE DEF cats, spent
  <2>1. CASE x \in DOMAIN cats
    BY <1>8, <2>1 DEF At
  <2>2. CASE x \notin DOMAIN cats
    <3>1. {t \in spent : t.category = x} = {}
      BY <1>8, <2>2
    <3> QED
      BY <1>6, <2>2, <3>1 DEF At
  <2> QED
    BY <2>1, <2>2
<1> QED
  BY <1>7, <1>9 DEF trend, n, M

-------------------------------------------------------------------------------
(* The sum of what the chat says of some months is their rows' total.      *)
Side(rows, f) ==
  IF f = "income" THEN {t \in rows : t.category = Income}
  ELSE {t \in rows : t.category # Income}

(* Either figure of an aggregation is the total of one side of it.         *)
LEMMA SidesOf ==
  ASSUME NEW rows, NEW f \in {"income", "expenses"}
  PROVE  Aggregation(rows)[f] = Total(Side(rows, f))
<1> DEFINE spent == {t \in rows : t.category # Income}
<1>1. Aggregation(rows).income = Total(rows \ spent) /\ Aggregation(rows).expenses = Total(spent)
  BY DEF Aggregation
<1>2. rows \ spent = {t \in rows : t.category = Income}
  OBVIOUS
<1>3. CASE f = "income"
  <2>1. Side(rows, f) = rows \ spent
    BY <1>2, <1>3 DEF Side
  <2>2. Aggregation(rows)[f] = Aggregation(rows).income
    BY <1>3
  <2> QED
    BY <1>1, <2>1, <2>2
<1>4. CASE f = "expenses"
  <2>1. Side(rows, f) = spent
    BY <1>4 DEF Side
  <2>2. Aggregation(rows)[f] = Aggregation(rows).expenses
    BY <1>4
  <2> QED
    BY <1>1, <2>1, <2>2
<1> QED
  BY <1>3, <1>4

(* The sum over months is a fold too.                                      *)
LEMMA MonthsUnfolded ==
  ASSUME NEW S, NEW c, NEW f, NEW w, \A m \in S : w[m] = Figure(MonthSummary(m), c)[f],
         NEW g, g = Step(g, w, S)
  PROVE  \E h : /\ h = Step(h, w, S)
                /\ SumOfSummaries(f, c, S) = h[S]
<1> DEFINE F(h) == [s \in SUBSET S |-> IF s = {} THEN 0
                       ELSE Figure(MonthSummary(CHOOSE x \in s : TRUE), c)[f]
                              + h[s \ {CHOOSE x \in s : TRUE}]]
           it == CHOOSE h : h = F(h)
<1>1. SumOfSummaries(f, c, S) = it[S]
  BY DEF SumOfSummaries, MapThenSumSet, MapThenFoldSet
<1>2. \A h : F(h) = Step(h, w, S)
  <2>1. \A s \in SUBSET S : s # {} =>
          w[CHOOSE x \in s : TRUE] = Figure(MonthSummary(CHOOSE x \in s : TRUE), c)[f]
    OBVIOUS
  <2> QED
    BY <2>1 DEF Step, Chosen
<1> HIDE DEF F
<1>3. g = F(g)
  BY <1>2
<1>4. it = F(it)
  BY <1>3
<1> QED
  BY <1>1, <1>2, <1>4

(* Month by month: the rows up to one are those up to the month before and *)
(* its own, so that the sum over the months is the total of all of them.   *)
LEMMA SumOfMonths ==
  ASSUME ReportsInv, NEW c \in Currencies, NEW f \in {"income", "expenses"},
         NEW lo \in Nat, NEW hi \in Int, lo <= hi + 1
  PROVE  SumOfSummaries(f, c, lo..hi)
           = Aggregation({t \in book : /\ lo <= MonthOf[t.date]
                                       /\ MonthOf[t.date] <= hi
                                       /\ t.currency = c})[f]
<1> DEFINE S == lo..hi
           w == [m \in S |-> Total(Side(RowsOf(m, c), f))]
           rows(k) == {t \in book : lo <= MonthOf[t.date] /\ MonthOf[t.date] <= k /\ t.currency = c}
           sum(k) == Total(Side(rows(k), f))
<1>1. /\ Total({}) = 0
      /\ \A a \in SUBSET book : Total(a) \in Int
      /\ \A a, b \in SUBSET book : a \cap b = {} => Total(a \cup b) = Total(a) + Total(b)
  BY OfTheBook, Totals DEF ReportsInv
<1>2. /\ \A k : Side(rows(k), f) \in SUBSET book
      /\ \A k : Side(RowsOf(k, c), f) \in SUBSET book
  BY DEF Side, RowsOf
<1>3. IsFiniteSet(S) /\ w \in [S -> Int]
  <2>1. IsFiniteSet(S)
    BY FS_Interval
  <2>2. \A m \in S : Total(Side(RowsOf(m, c), f)) \in Int
    BY <1>1, <1>2
  <2> HIDE DEF S
  <2> QED
    BY <2>1, <2>2
<1>4. \A m \in S : w[m] = Figure(MonthSummary(m), c)[f]
  <2> SUFFICES ASSUME NEW m \in S PROVE w[m] = Figure(MonthSummary(m), c)[f]
    OBVIOUS
  <2>1. m \in Nat
    OBVIOUS
  <2>2. Figure(MonthSummary(m), c)[f] = Total(Side(RowsOf(m, c), f))
    BY <2>1, ChatSays, SidesOf
  <2> QED
    BY <2>2
<1>5. PICK v : Weighs(v, w, S)
  <2> HIDE DEF S, w
  <2> QED
    BY <1>3, CanBeWeighed
<1>6. SumOfSummaries(f, c, S) = v[S]
  <2> HIDE DEF S, w
  <2>1. v = Step(v, w, S)
    BY <1>5, WeighingSteps
  <2>2. PICK h : /\ h = Step(h, w, S)
                 /\ SumOfSummaries(f, c, S) = h[S]
    BY <1>4, <2>1, MonthsUnfolded
  <2>3. h[S] = v[S]
    BY <1>3, <1>5, <2>2, FoldIs
  <2> QED
    BY <2>2, <2>3
<1>7. v[{}] = 0 /\ \A s \in SUBSET S : \A x \in s : v[s] = w[x] + v[s \ {x}]
  BY <1>5 DEF Weighs
<1>8. ASSUME NEW k \in S
      PROVE  sum(k) = Total(Side(RowsOf(k, c), f)) + sum(k - 1)
  <2>1. k \in Nat /\ lo <= k
    OBVIOUS
  <2>2. \A t \in book : MonthOf[t.date] \in Nat
    BY OfTheBook
  <2>3. \A t \in book : (lo <= MonthOf[t.date] /\ MonthOf[t.date] <= k)
                          <=> \/ MonthOf[t.date] = k
                              \/ lo <= MonthOf[t.date] /\ MonthOf[t.date] <= k - 1
    BY <2>1, <2>2
  <2>4. \A t \in book : ~(MonthOf[t.date] = k /\ MonthOf[t.date] <= k - 1)
    BY <2>1, <2>2
  <2> HIDE DEF S
  <2> DEFINE a == Side(RowsOf(k, c), f)
             b == Side(rows(k - 1), f)
  <2>5. rows(k) = RowsOf(k, c) \cup rows(k - 1) /\ RowsOf(k, c) \cap rows(k - 1) = {}
    BY <2>3, <2>4 DEF RowsOf
  <2>6. Side(rows(k), f) = a \cup b /\ a \cap b = {}
    <3> HIDE DEF rows
    <3> QED
      BY <2>5 DEF Side
  <2>7. a \in SUBSET book /\ b \in SUBSET book
    BY <1>2
  <2> HIDE DEF a, b
  <2>8. Total(a \cup b) = Total(a) + Total(b)
    BY <1>1, <2>6, <2>7
  <2> QED
    BY <2>6, <2>8 DEF a, b
<1>9. sum(lo - 1) = 0
  <2>1. \A t \in book : MonthOf[t.date] \in Nat
    BY OfTheBook
  <2>2. rows(lo - 1) = {}
    BY <2>1
  <2>3. Side({}, f) = {}
    BY DEF Side
  <2> HIDE DEF rows
  <2> QED
    BY <1>1, <2>2, <2>3
<1>10. \A k : sum(k) \in Int
  BY <1>1, <1>2
<1> HIDE DEF rows, sum
<1>11. ASSUME NEW j \in 0..(hi - lo + 1)
       PROVE  v[lo..(lo + j - 1)] = sum(lo + j - 1)
  <2> DEFINE bad == {i \in 0..(hi - lo + 1) : v[lo..(lo + i - 1)] # sum(lo + i - 1)}
  <2> SUFFICES ASSUME bad # {} PROVE FALSE
    OBVIOUS
  <2>1. PICK i \in bad : \A n \in bad : i <= n
    <3>1. bad \in SUBSET Nat
      OBVIOUS
    <3> HIDE DEF bad
    <3> QED
      BY <3>1, LeastOf
  <2>2. i \in 0..(hi - lo + 1) /\ v[lo..(lo + i - 1)] # sum(lo + i - 1)
    OBVIOUS
  <2>3. i # 0
    <3> SUFFICES ASSUME i = 0 PROVE FALSE
      OBVIOUS
    <3>1. lo + i - 1 = lo - 1 /\ lo..(lo - 1) = {}
      OBVIOUS
    <3> QED
      BY <1>7, <1>9, <2>2, <3>1
  <2> DEFINE k == lo + i - 1
  <2>4. /\ i - 1 \in 0..(hi - lo + 1) /\ i - 1 < i /\ i \in Nat /\ i - 1 \in Nat
        /\ k \in S /\ lo + (i - 1) - 1 = k - 1
    BY <2>2, <2>3
  <2>5. i - 1 \notin bad
    <3> HIDE DEF bad, k, S
    <3> QED
      BY <2>1, <2>4
  <2>6. v[lo..(k - 1)] = sum(k - 1)
    <3> HIDE DEF k, S
    <3>1. v[lo..(lo + (i - 1) - 1)] = sum(lo + (i - 1) - 1)
      BY <2>4, <2>5
    <3> QED
      BY <2>4, <3>1
  <2>7. v[lo..k] = w[k] + v[lo..(k - 1)]
    <3>1. lo..k \in SUBSET S /\ k \in lo..k /\ (lo..k) \ {k} = lo..(k - 1)
      <4> HIDE DEF k
      <4> QED
        BY <2>4
    <3> HIDE DEF k, S, w
    <3>2. v[lo..k] = w[k] + v[(lo..k) \ {k}]
      BY <1>7, <3>1
    <3> QED
      BY <3>1, <3>2
  <2>8. w[k] = Total(Side(RowsOf(k, c), f))
    <3> HIDE DEF k, S
    <3> QED
      BY <2>4
  <2>9. v[lo..k] = sum(k)
    <3> HIDE DEF k, S, w
    <3> QED
      BY <1>8, <2>4, <2>6, <2>7, <2>8
  <2> QED
    BY <2>2, <2>9
<1>12. v[S] = sum(hi)
  <2>1. hi - lo + 1 \in 0..(hi - lo + 1) /\ lo + (hi - lo + 1) - 1 = hi
    OBVIOUS
  <2>2. v[lo..(lo + (hi - lo + 1) - 1)] = sum(lo + (hi - lo + 1) - 1)
    BY <1>11, <2>1
  <2> QED
    BY <2>1, <2>2
<1>13. Aggregation(rows(hi))[f] = sum(hi)
  BY SidesOf DEF sum
<1> HIDE DEF S, w
<1> QED
  BY <1>6, <1>12, <1>13 DEF S, rows

(* Each claim of FiguresAgree, from the lemma on either side of it.        *)
LEMMA FiguresDoAgree ==
  ASSUME ReportsInv
  PROVE  FiguresAgree
<1> DEFINE M == MonthOf[day]
           P == ProfileMonths
           months == (M - P)..M
           before == (M - P)..(M - 1)
<1>1. M - P \in Nat /\ M \in Nat /\ M - 1 \in Int /\ M - P <= (M - 1) + 1
  <2>1. M \in Nat /\ P \in 1..51 /\ P <= M
    BY OfTheBook
  <2> HIDE DEF M, P
  <2> QED
    BY <2>1
<1>2. \A m \in months : m \in Nat
  <2> HIDE DEF M, P
  <2> QED
    BY <1>1
<1>3. \A m \in before : m \in months
  <2> HIDE DEF M, P
  <2> QED
    BY <1>1
<1>4. ASSUME NEW m \in months, NEW c \in Currencies
      PROVE  LET chat == Figure(MonthSummary(m), c)
                 page(k) == LET of == Summary(m)[k] IN IF c \in DOMAIN of THEN of[c].total ELSE 0
                 trend(k) == At(Trend("month", M - m + 1, c, k), <<Year(m), (m % 12) + 1>>)
             IN  /\ \A k \in {"income", "expense"} : page(k) = trend(k)
                 /\ c \in DOMAIN Snapshot(m) =>
                      /\ Snapshot(m)[c].income = chat.income
                      /\ Snapshot(m)[c].expense = chat.expenses
                 /\ (\A t \in book : t.date <= day) =>
                      chat.income = page("income") /\ chat.expenses = page("expense")
  <2> DEFINE chat == Figure(MonthSummary(m), c)
             page(k) == LET of == Summary(m)[k] IN IF c \in DOMAIN of THEN of[c].total ELSE 0
             trend(k) == At(Trend("month", M - m + 1, c, k), <<Year(m), (m % 12) + 1>>)
  <2>1. m \in Nat
    BY <1>2
  <2>2. chat = Aggregation(RowsOf(m, c))
    BY <2>1, ChatSays
  <2>3. \A k \in {"income", "expense"} : page(k) = Total(PastOf(m, c, k))
    BY <2>1, PageSays
  <2>4. \A k \in {"income", "expense"} : trend(k) = Total(PastOf(m, c, k))
    BY TrendSays
  <2> HIDE DEF chat, page, trend
  <2>5. c \in DOMAIN Snapshot(m) =>
          Snapshot(m)[c].income = chat.income /\ Snapshot(m)[c].expense = chat.expenses
    BY <2>1, <2>2, SnapshotSays
  <2>6. (\A t \in book : t.date <= day) =>
          chat.income = page("income") /\ chat.expenses = page("expense")
    BY <2>2, <2>3, ChatIsPage
  <2>7. \A k \in {"income", "expense"} : page(k) = trend(k)
    BY <2>3, <2>4
  <2> QED
    BY <2>5, <2>6, <2>7 DEF chat, page, trend
<1>5. ASSUME NEW c \in Currencies, NEW f \in {"income", "expenses"}
      PROVE  Figure(Profile, c)[f] =
               SumOfSummaries(f, c, before)
  <2>1. Figure(Profile, c) =
          Aggregation({t \in book : /\ M - P <= MonthOf[t.date] /\ MonthOf[t.date] <= M - 1
                                    /\ t.currency = c})
    BY ProfileSays
  <2> HIDE DEF M, P
  <2>2. SumOfSummaries(f, c, before)
          = Aggregation({t \in book : /\ M - P <= MonthOf[t.date] /\ MonthOf[t.date] <= M - 1
                                      /\ t.currency = c})[f]
    BY <1>1, SumOfMonths
  <2> QED
    BY <2>1, <2>2
<1>6. ASSUME NEW c \in Currencies, NEW m \in before, NEW x \in Categories
      PROVE  At(CategoryTrend(x, M - m), <<m, c>>)
               = At(Figure(MonthSummary(m), c).categories, x)
  <2>1. Figure(MonthSummary(m), c) = Aggregation(RowsOf(m, c))
    BY <1>2, <1>3, ChatSays
  <2>2. At(CategoryTrend(x, M - m), <<m, c>>) = At(Aggregation(RowsOf(m, c)).categories, x)
    BY CategoryTrendSays
  <2> QED
    BY <2>1, <2>2
<1> HIDE DEF M, P
<1> QED
  BY <1>4, <1>5, <1>6 DEF FiguresAgree, M, P

(* The page, the chat and an insight never tell a user different figures   *)
(* of a month, and what is told of several months is the sum of them,      *)
(* whatever was recorded and removed and on whatever day they look.        *)
THEOREM AllFiguresAgree == ReportsSpec => []FiguresAgree
BY ReportsInitially, ReportsStep, FiguresDoAgree, PTL DEF ReportsSpec

-------------------------------------------------------------------------------
(* The three parts together                                                *)

(* The alerts, the figures and the partitions share the arithmetic of      *)
(* months but no state: what they do together is, to each, its own steps,  *)
(* and the theorems above are theorems about all of them running.          *)
THEOREM EachPartByItself == Spec => AlertsSpec /\ ReportsSpec /\ AuditSpec
<1>1. Init => AlertsInit /\ ReportsInit /\ AuditInit
  BY DEF Init
<1>2. [Next]_vars => /\ [AlertsNext]_alertVars
                     /\ [ReportsNext]_reportVars
                     /\ [AuditNext]_auditVars
  BY DEF Next, vars
<1> QED
  BY <1>1, <1>2, PTL DEF Spec, AlertsSpec, ReportsSpec, AuditSpec

===============================================================================
