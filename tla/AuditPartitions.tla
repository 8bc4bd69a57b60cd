---------------------------- MODULE AuditPartitions ----------------------------
(***************************************************************************)
(* The audit_events table, range-partitioned by month, and the scheduler's *)
(* manage_audit_partitions_job: it runs when the scheduler starts and on   *)
(* the first of every month, creates the partitions of the months ahead    *)
(* and drops the ones past retention.  Months are <<year, month>>.         *)
(***************************************************************************)
EXTENDS Naturals

CONSTANTS
  FirstMonth,   \* the month of the migration
  LastMonth,    \* bound of the model
  AheadMonths,  \* _AUDIT_PARTITION_AHEAD_MONTHS
  Retention     \* _AUDIT_PARTITION_RETENTION_MONTHS

ASSUME AuditAssumption ==
  /\ {FirstMonth, LastMonth} \subseteq Nat \X (1..12)
  /\ {AheadMonths, Retention} \subseteq Nat

VARIABLES
  now,         \* the current month
  partitions,  \* the monthly partitions that exist
  default,     \* the months of the rows in audit_events_default
  managed,     \* the month of the job's last success
  gap          \* history: the most months there have been without one

auditVars == <<now, partitions, default, managed, gap>>

(* The order of Python tuples, which the retention compares names with.    *)
Earlier(a, b) == a[1] < b[1] \/ (a[1] = b[1] /\ a[2] < b[2])

AddMonth(m) == IF m[2] = 12 THEN <<m[1] + 1, 1>> ELSE <<m[1], m[2] + 1>>

(* Mutant: the month is not counted from zero.                             *)
SubMonthsOneBased(m, n) ==
  LET idx == m[1] * 12 + m[2] - n IN <<idx \div 12, (idx % 12) + 1>>

SubMonths(m, n) ==
  LET idx == m[1] * 12 + (m[2] - 1) - n IN <<idx \div 12, (idx % 12) + 1>>

(* Mutant: the loop is one round short.                                    *)
UpcomingOneShort(m) ==
  LET after[n \in 0..AheadMonths] == IF n = 0 THEN m ELSE AddMonth(after[n - 1])
  IN  {after[n] : n \in 0..(AheadMonths - 1)}

(* The loop of the job: the current month and AheadMonths more.            *)
Upcoming(m) ==
  LET after[n \in 0..AheadMonths] == IF n = 0 THEN m ELSE AddMonth(after[n - 1])
  IN  {after[n] : n \in 0..AheadMonths}

AuditInit ==
  /\ now = FirstMonth
  /\ partitions = Upcoming(FirstMonth)
  /\ default = {}
  /\ managed = FirstMonth
  /\ gap = 0

(* How many months after a the month b is.                                 *)
MonthsFrom(a, b) == (b[1] * 12 + b[2]) - (a[1] * 12 + a[2])

AuditTick ==
  /\ Earlier(now, LastMonth)
  /\ now' = AddMonth(now)
  /\ gap' = IF MonthsFrom(managed, now') > gap THEN MonthsFrom(managed, now') ELSE gap
  /\ UNCHANGED <<partitions, default, managed>>

(* AuditLog.record: a row whose month has no partition goes to the default *)
(* partition.                                                              *)
Record ==
  /\ default' = IF now \in partitions THEN default ELSE default \cup {now}
  /\ UNCHANGED <<now, partitions, managed, gap>>

(* CREATE TABLE IF NOT EXISTS ... PARTITION OF: refused when the default   *)
(* partition holds a row of that month, which rolls the whole job back.    *)
Manage ==
  /\ Upcoming(now) \cap default = {}
  /\ partitions' = {m \in partitions \cup Upcoming(now) :
                      ~Earlier(m, SubMonths(now, Retention))}
  /\ managed' = now
  /\ UNCHANGED <<now, default, gap>>

AuditNext == AuditTick \/ Record \/ Manage

AuditSpec == AuditInit /\ [][AuditNext]_auditVars

-------------------------------------------------------------------------------
AuditTypeOK ==
  /\ now \in Nat \X (1..12)
  /\ partitions \subseteq Nat \X (1..12)
  /\ default \subseteq Nat \X (1..12)
  /\ managed \in Nat \X (1..12)
  /\ gap \in Nat

(* Once a row is in the default partition, the job fails in its month and  *)
(* the AheadMonths before.  The months created ahead are there to prevent  *)
(* that: a scheduler that was down, or a job that failed, for up to that   *)
(* many months in a row does not matter, across the turn of a year too.    *)
(* And the retention drops no month of the last Retention months.          *)
RowsFindTheirPartition ==
  gap <= AheadMonths =>
    /\ default = {}
    /\ \A m \in (FirstMonth[1]..now[1]) \X (1..12) :
         /\ ~Earlier(m, FirstMonth)
         /\ MonthsFrom(m, now) \in 0..Retention
         => m \in partitions

===============================================================================
