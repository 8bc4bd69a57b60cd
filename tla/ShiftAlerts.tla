------------------------------ MODULE ShiftAlerts ------------------------------
(***************************************************************************)
(* The alerts about shifts of behaviour of one user (users share nothing): *)
(* the scheduler's daily detect_shift_alerts_job, which looks at the       *)
(* previous and the current month in a transaction each, its weekly        *)
(* purge_old_alerts_job, and the user's requests.  Periods are             *)
(* <<year, month>>, as in the code; transactions carry the calendar's      *)
(* number of their month.                                                  *)
(***************************************************************************)
EXTENDS Calendar, MonthlyFigures

CONSTANTS
  Jobs,            \* scheduler processes: two while a new one is rolled out
  Days,            \* the days on which anything happens
  Histories,       \* what the user may have recorded at the start
  Offers,          \* the transactions the user may still record
  HistoryMonths,   \* _N_HISTORY_MONTHS
  AlertRetention,  \* _ALERT_RETENTION_DAYS
  LongestRun       \* assumed: no run of the job takes more days

ASSUME AlertAssumption ==
  /\ Days \subseteq Dates /\ Days # {}
  /\ \A t \in (UNION Histories) \cup Offers : t.month \in Nat
  /\ {HistoryMonths, AlertRetention, LongestRun} \subseteq Nat \ {0}
  \* an alert outlives the two months a run may tell of, and that run
  /\ 61 + LongestRun <= AlertRetention

VARIABLES
  today,
  ledger,  \* the user's transactions
  alerts,  \* rows of user_alerts
  job,     \* what each process's run of the job knows
  told,    \* history: the alerts written and not cleared by the user since
  fresh    \* history: the processes whose run saw the world as it is now

alertVars == <<today, ledger, alerts, job, told, fresh>>

Period(m) == <<Year(m), (m % 12) + 1>>
NotBefore(p, q) == p[1] > q[1] \/ (p[1] = q[1] /\ p[2] >= q[2])
Key(a) == <<a.subtype, a.period>>

Asleep == [pc |-> "asleep", day |-> 0, month |-> <<0, 0>>, rows |-> {}, found |-> {}]

AlertsInit ==
  /\ today = CHOOSE d \in Days : \A e \in Days : d <= e
  /\ ledger \in Histories
  /\ alerts = {}
  /\ job = [j \in Jobs |-> Asleep]
  /\ told = {}
  /\ fresh = {}

DayPasses ==
  /\ today' \in {d \in Days : d > today}
  /\ \A j \in Jobs : job[j].pc # "asleep" => today' <= job[j].day + LongestRun
  /\ fresh' = {}
  /\ UNCHANGED <<ledger, alerts, job, told>>

RecordTransaction ==
  /\ \E t \in Offers \ ledger : ledger' = ledger \cup {t}
  /\ fresh' = {}
  /\ UNCHANGED <<today, alerts, job, told>>

-------------------------------------------------------------------------------
(* The detection job                                                       *)

(* Mutant: the year is kept.                                               *)
PrevMonthSameYear(p) == IF p[2] = 1 THEN <<p[1], 12>> ELSE <<p[1], p[2] - 1>>

PrevMonth(p) == IF p[2] = 1 THEN <<p[1] - 1, 12>> ELSE <<p[1], p[2] - 1>>

ReadMonth(p) == {t \in ledger : Period(t.month) = p}

(* read_history_months: walking back from the month before.                *)
ReadHistory(p) ==
  LET back[n \in 0..HistoryMonths] == IF n = 0 THEN p ELSE PrevMonth(back[n - 1])
  IN  [q \in {back[n] : n \in 1..HistoryMonths} |-> ReadMonth(q)]

(* The job takes the date once; a user with nothing recorded since the     *)
(* first of the previous month is passed over.                             *)
StartDetection(j) ==
  LET current == Period(MonthOf[today])
      active == \E t \in ledger : NotBefore(Period(t.month), PrevMonth(current))
  IN  /\ job[j].pc = "asleep"
      /\ job' = [job EXCEPT ![j] =
                   IF active THEN [Asleep EXCEPT !.pc = "month", !.day = today,
                                                 !.month = PrevMonth(current)]
                   ELSE Asleep]
      /\ fresh' = fresh \cup {j}
      /\ UNCHANGED <<today, ledger, alerts, told>>

DetectMonth(j) ==
  /\ job[j].pc = "month"
  /\ job' = [job EXCEPT ![j] =
               [job[j] EXCEPT !.pc = "history", !.rows = ReadMonth(job[j].month)]]
  /\ UNCHANGED <<today, ledger, alerts, told, fresh>>

DetectHistory(j) ==
  /\ job[j].pc = "history"
  /\ job' = [job EXCEPT ![j] =
               [job[j] EXCEPT !.pc = "write", !.rows = {},
                  !.found = Detected(job[j].rows, ReadHistory(job[j].month))]]
  /\ UNCHANGED <<today, ledger, alerts, told, fresh>>

(* INSERT ... ON CONFLICT DO NOTHING                                       *)
Upsert(rows) ==
  alerts \cup {r \in rows : \A a \in alerts : Key(a) # Key(r)}

(* write_shift_alerts and the commit; after the previous month, the        *)
(* current one.                                                            *)
WriteAlerts(j) ==
  LET current == Period(MonthOf[job[j].day])
      rows == {[subtype |-> s, period |-> job[j].month, day |-> today, read |-> FALSE]
                 : s \in job[j].found}
  IN  /\ job[j].pc = "write"
      /\ alerts' = Upsert(rows)
      /\ told' = told \cup {Key(r) : r \in rows}
      /\ job' = [job EXCEPT ![j] =
                   IF job[j].month = current THEN Asleep
                   ELSE [job[j] EXCEPT !.pc = "month", !.month = current, !.found = {}]]
      /\ UNCHANGED <<today, ledger, fresh>>

(* A statement fails, or the process is replaced: the transaction under    *)
(* way is rolled back, the rest of the run is not done.                    *)
DetectionFails(j) ==
  /\ job[j].pc # "asleep"
  /\ job' = [job EXCEPT ![j] = Asleep]
  /\ fresh' = fresh \ {j}
  /\ UNCHANGED <<today, ledger, alerts, told>>

(* Mutant: what is kept is kept for four weeks.                            *)
PurgeEarly ==
  /\ alerts' = {a \in alerts : a.day + 28 >= today}
  /\ UNCHANGED <<today, ledger, job, told, fresh>>

Purge ==
  /\ alerts' = {a \in alerts : a.day + AlertRetention >= today}
  /\ UNCHANGED <<today, ledger, job, told, fresh>>

-------------------------------------------------------------------------------
(* Requests                                                                *)

(* unread_count, by the key of each                                        *)
Unread == {Key(a) : a \in {b \in alerts : ~b.read}}

MarkRead ==
  /\ \E a \in alerts : alerts' = (alerts \ {a}) \cup {[a EXCEPT !.read = TRUE]}
  /\ UNCHANGED <<today, ledger, job, told, fresh>>

ClearAll ==
  /\ alerts' = {}
  /\ told' = {}
  /\ fresh' = {}
  /\ UNCHANGED <<today, ledger, job>>

AlertsNext ==
  \/ DayPasses
  \/ RecordTransaction
  \/ Purge
  \/ MarkRead
  \/ ClearAll
  \/ \E j \in Jobs :
       \/ StartDetection(j)
       \/ DetectMonth(j)
       \/ DetectHistory(j)
       \/ WriteAlerts(j)
       \/ DetectionFails(j)

AlertsSpec == AlertsInit /\ [][AlertsNext]_alertVars

-------------------------------------------------------------------------------
AlertsTypeOK ==
  /\ today \in Days
  /\ ledger \subseteq (UNION Histories) \cup Offers
  /\ \A a \in alerts : a.day \in Days /\ a.read \in BOOLEAN
  /\ \A j \in Jobs : job[j].pc \in {"asleep", "month", "history", "write"}
  /\ fresh \subseteq Jobs

(* No alert comes back: what the user was told of a period, read or        *)
(* unread, is not put before them a second time unless they cleared it.    *)
(* It takes the unique key, DO NOTHING, two months of look-back and a      *)
(* retention longer than them, against overlapping runs and repeated ones. *)
NothingIsToldTwice ==
  [][(Unread' \ Unread) \cap told = {}]_alertVars

(* What a run that nothing disturbed found, the user has been told: the    *)
(* months before are counted by the calendar here, not walked by the job.  *)
ShiftsAreTold ==
  \A j \in fresh : job[j].pc = "asleep" =>
    \A m \in {MonthOf[today] - 1, MonthOf[today]} :
      Detected(ReadMonth(Period(m)),
               [p \in {Period(n) : n \in (m - HistoryMonths)..(m - 1)} |-> ReadMonth(p)])
        \subseteq {k[1] : k \in {l \in told : l[2] = Period(m)}}

===============================================================================
