----------------------------- MODULE RecurringFire -----------------------------
(***************************************************************************)
(* Recurring rules: the daily fire_due_rules_job of the scheduler, racing  *)
(* with the users' PATCH and DELETE requests and, while a deployment rolls *)
(* over, with a second scheduler.                                          *)
(*                                                                         *)
(* One job is one database transaction and one ORM session.  The session   *)
(* does not flush before a query (autoflush=False), so every batch is      *)
(* selected from the COMMITTED rows, while the entities handed out for     *)
(* rows it has already loaded are those in memory; the transactions of the *)
(* job meet the unique index on <<recurring_rule_id, date>> at its commit. *)
(***************************************************************************)
EXTENDS Calendar, FiniteSets

CONSTANTS
  Rules,       \* recurring_rules rows
  Offers,      \* the schedules a user may choose for each rule
  Broken,      \* rules whose transaction can not be created
  Ending,      \* rules with an end_date ...
  EndDay,      \* ... and that date
  Jobs,        \* scheduler processes
  Batch,       \* _BATCH
  MaxBatches,  \* _MAX_BATCHES
  Days,        \* the days on which something happens
  MaxEdits,    \* bound of the model: PATCH requests per rule
  MaxAborts    \* bound of the model: jobs that die or roll back

(* _validate_schedule: each recurrence has the fields it needs, in range.  *)
Schedules ==
  [kind : {"weekly"}, day : 0..6] \cup [kind : {"monthly"}, day : 1..28]
    \cup [kind : {"yearly"}, day : 1..28, month : 1..12]

ASSUME FireAssumption ==
  /\ Offers \in [Rules -> SUBSET Schedules]
  /\ Broken \subseteq Rules /\ Ending \subseteq Rules /\ EndDay \in Nat
  /\ {Batch, MaxBatches} \subseteq Nat \ {0}
  /\ Days \subseteq Dates /\ Days # {}
  /\ MaxEdits \in [Rules -> Nat] /\ MaxAborts \in Nat

VARIABLES
  today,    \* the date
  status,   \* committed recurring_rules.status; "none", "deleted": no row
  plan,     \* committed recurrence, day_of_week, day_of_month and month
  next,     \* committed recurring_rules.next_fire_date
  booked,   \* committed transactions: their recurring_rule_id and date
  job,      \* what each scheduler is doing
  edits,    \* the PATCH requests between their SELECT and their UPDATE
  edited,   \* the PATCH requests each rule has seen
  aborts    \* jobs rolled back so far (bound of the model)

fireVars == <<today, status, plan, next, booked, job, edits, edited, aborts>>

-------------------------------------------------------------------------------
(* compute_first_fire_date: the first occurrence from the start on.        *)
FirstFire(start, s) ==
  CASE s.kind = "weekly" -> start + ((s.day + 7 - Weekday(start)) % 7)
    [] s.kind = "monthly" ->
         LET m == MonthOf[start]
         IN  IF OnDay(m, s.day) >= start THEN OnDay(m, s.day) ELSE OnDay(m + 1, s.day)
    [] s.kind = "yearly" ->
         LET m == 12 * (MonthOf[start] \div 12) + s.month - 1
         IN  IF OnDay(m, s.day) >= start THEN OnDay(m, s.day) ELSE OnDay(m + 12, s.day)

(* Mutant: the month rolls over by four weeks.                             *)
AdvanceFourWeeks(d, s, n) ==
  CASE s.kind = "weekly"  -> d + 7 * n
    [] s.kind = "monthly" -> d + 28 * n
    [] s.kind = "yearly"  -> OnDay(12 * (MonthOf[d] \div 12 + n) + s.month - 1, s.day)

(* The date n periods after d: advance_next_fire_date, n times.            *)
Advance(d, s, n) ==
  CASE s.kind = "weekly"  -> d + 7 * n
    [] s.kind = "monthly" -> OnDay(MonthOf[d] + n, s.day)
    [] s.kind = "yearly"  -> OnDay(12 * (MonthOf[d] \div 12 + n) + s.month - 1, s.day)

(* The loop of the job: advanced once, and until the date is past day, so  *)
(* that missed periods are skipped.                                        *)
NextAfter(d, s, day) ==
  Advance(d, s, CHOOSE n \in 1..(day + 1) :
    Advance(d, s, n) > day /\ (n > 1 => Advance(d, s, n - 1) <= day))

(* The date is one its schedule names.                                     *)
Falls(d, s) ==
  CASE s.kind = "weekly"  -> Weekday(d) = s.day
    [] s.kind = "monthly" -> DayOfMonth(d) = s.day
    [] s.kind = "yearly"  -> DayOfMonth(d) = s.day /\ MonthOf[d] % 12 = s.month - 1

-------------------------------------------------------------------------------
(* The session of a job: the rows it holds locked, the entities in memory, *)
(* the transactions to be inserted, and the state of the batch loop.       *)
JobState ==
  [pc : {"idle", "fetch", "fire", "commit"}, day : Days, batch : 0..MaxBatches,
   held : SUBSET Rules, pending : SUBSET Rules, failed : SUBSET Rules,
   status : [Rules -> {"none", "active", "paused"}], next : [Rules -> Dates],
   new : SUBSET (Rules \X Dates)]

FirstOfDays == CHOOSE d \in Days : \A e \in Days : d <= e

NoJob ==
  [pc |-> "idle", day |-> FirstOfDays, batch |-> 0, held |-> {}, pending |-> {},
   failed |-> {}, status |-> [r \in Rules |-> "none"],
   next |-> [r \in Rules |-> 0], new |-> {}]

(* A PATCH in flight: the rule and, for each column, the value its UPDATE  *)
(* will set, if any.                                                       *)
Edit ==
  [rule : Rules, status : SUBSET {"active", "paused"},
   plan : SUBSET Schedules, next : SUBSET Dates]

Held(r) == \E j \in Jobs : r \in job[j].held
Due(r, day) == status[r] = "active" /\ next[r] <= day

NoSchedule == [kind |-> "weekly", day |-> 0]

FireInit ==
  /\ today = FirstOfDays
  /\ status = [r \in Rules |-> "none"]
  /\ plan = [r \in Rules |-> NoSchedule]
  /\ next = [r \in Rules |-> 0]
  /\ booked = {}
  /\ job = [j \in Jobs |-> NoJob]
  /\ edits = {}
  /\ edited = [r \in Rules |-> 0]
  /\ aborts = 0

Tick ==
  /\ \E d \in Days : d > today /\ today' = d
  /\ UNCHANGED <<status, plan, next, booked, job, edits, edited, aborts>>

-------------------------------------------------------------------------------
(* The users.  A start date may lie in the past, or after the end date.    *)
Create(r) ==
  /\ status[r] = "none"
  /\ \E start \in Days, s \in Offers[r] :
       /\ plan' = [plan EXCEPT ![r] = s]
       /\ next' = [next EXCEPT ![r] = FirstFire(start, s)]
  /\ status' = [status EXCEPT ![r] = "active"]
  /\ UNCHANGED <<today, booked, job, edits, edited, aborts>>

(* PATCH reads the rule without a lock and works out what to write: the    *)
(* columns that come out different from the ones it read.  Any of the      *)
(* schedule's fields in the request, even unchanged, makes the next date   *)
(* the first one from today on.                                            *)
EditRead(r) ==
  /\ status[r] \in {"active", "paused"}
  /\ edited[r] < MaxEdits[r]
  /\ \E new \in {"active", "paused"},
        asked \in {{}} \cup {{t} : t \in {u \in Offers[r] : u.kind = plan[r].kind}} :
       edits' = edits \cup
         {[rule   |-> r,
           status |-> {new} \ {status[r]},
           plan   |-> asked \ {plan[r]},
           next   |-> {FirstFire(today, s) : s \in asked} \ {next[r]}]}
  /\ edited' = [edited EXCEPT ![r] = @ + 1]
  /\ UNCHANGED <<today, status, plan, next, booked, job, aborts>>

(* The row after the UPDATE, which sets the changed columns only.          *)
Written(column, r, value) ==
  [column EXCEPT ![r] = IF value = {} THEN @ ELSE CHOOSE x \in value : TRUE]

Patch(e) ==
  /\ status' = Written(status, e.rule, e.status)
  /\ plan' = Written(plan, e.rule, e.plan)
  /\ next' = Written(next, e.rule, e.next)

(* The UPDATE waits for the row lock.                                      *)
EditWrite(e) ==
  /\ status[e.rule] # "deleted"
  /\ ~Held(e.rule)
  /\ Patch(e)
  /\ edits' = edits \ {e}
  /\ UNCHANGED <<today, booked, job, edited, aborts>>

(* An UPDATE that finds its row gone rolls the request back.               *)
EditStale(e) ==
  /\ status[e.rule] = "deleted"
  /\ edits' = edits \ {e}
  /\ UNCHANGED <<today, status, plan, next, booked, job, edited, aborts>>

Delete(r) ==
  /\ status[r] \in {"active", "paused"}
  /\ ~Held(r)
  /\ status' = [status EXCEPT ![r] = "deleted"]
  /\ UNCHANGED <<today, plan, next, booked, job, edits, edited, aborts>>

-------------------------------------------------------------------------------
Start(j) ==
  /\ job[j].pc = "idle"
  /\ job' = [job EXCEPT ![j] = [NoJob EXCEPT !.pc = "fetch", !.day = today]]
  /\ UNCHANGED <<today, status, plan, next, booked, edits, edited, aborts>>

(* SELECT ... WHERE next_fire_date <= today AND status = 'active'          *)
(* LIMIT Batch FOR UPDATE SKIP LOCKED, in no particular order.             *)
Selectable(j) ==
  {r \in Rules : Due(r, job[j].day) /\ \A k \in Jobs \ {j} : r \notin job[k].held}

(* A fresh row is loaded, one the session knows keeps its values in memory.*)
Fetch(j) ==
  /\ job[j].pc = "fetch"
  /\ \E S \in SUBSET Selectable(j) :
       LET all   == Cardinality(Selectable(j))
           fresh == S \ job[j].held
           pending == S \ job[j].failed
       IN  /\ Cardinality(S) = IF all < Batch THEN all ELSE Batch
           /\ job' = [job EXCEPT ![j] =
                [job[j] EXCEPT
                   !.pc = IF pending = {} THEN "commit" ELSE "fire",
                   !.batch = @ + 1,
                   !.held = @ \cup S,
                   !.pending = pending,
                   !.status = [r \in Rules |-> IF r \in fresh THEN status[r] ELSE @[r]],
                   !.next = [r \in Rules |-> IF r \in fresh THEN next[r] ELSE @[r]]]]
  /\ UNCHANGED <<today, status, plan, next, booked, edits, edited, aborts>>

(* Where the loop goes once r is done with.                                *)
Onward(j, r) ==
  IF job[j].pending # {r} THEN "fire"
  ELSE IF job[j].batch < MaxBatches THEN "fetch" ELSE "commit"

(* The transaction is dated next_fire_date, then the rule moves past the   *)
(* job's day and is paused if it moved past its end.                       *)
Fire(j, r) ==
  LET after == NextAfter(job[j].next[r], plan[r], job[j].day)
  IN  /\ job[j].pc = "fire"
      /\ r \in job[j].pending \ Broken
      /\ job' = [job EXCEPT ![j] =
           [job[j] EXCEPT
              !.pc = Onward(j, r),
              !.pending = @ \ {r},
              !.new = @ \cup {<<r, job[j].next[r]>>},
              !.next[r] = after,
              !.status[r] = IF r \in Ending /\ after > EndDay THEN "paused" ELSE @]]
      /\ UNCHANGED <<today, status, plan, next, booked, edits, edited, aborts>>

(* Mutant: a rule that could not be fired is advanced all the same.        *)
FireFailsAdvancing(j, r) ==
  /\ job[j].pc = "fire"
  /\ r \in job[j].pending \cap Broken
  /\ job' = [job EXCEPT ![j] =
       [job[j] EXCEPT !.pc = Onward(j, r), !.pending = @ \ {r}, !.failed = @ \cup {r},
                 !.next[r] = NextAfter(@, plan[r], job[j].day)]]
  /\ UNCHANGED <<today, status, plan, next, booked, edits, edited, aborts>>

(* Mutant: the exception of one rule ends the whole job.                   *)
FireFailsFatally(j, r) ==
  /\ job[j].pc = "fire"
  /\ r \in job[j].pending \cap Broken
  /\ job' = [job EXCEPT ![j] = NoJob]
  /\ UNCHANGED <<today, status, plan, next, booked, edits, edited, aborts>>

FireFails(j, r) ==
  /\ job[j].pc = "fire"
  /\ r \in job[j].pending \cap Broken
  /\ job' = [job EXCEPT ![j] =
       [job[j] EXCEPT !.pc = Onward(j, r), !.pending = @ \ {r}, !.failed = @ \cup {r}]]
  /\ UNCHANGED <<today, status, plan, next, booked, edits, edited, aborts>>

(* Mutant: the advanced rules are not saved with the transactions.         *)
CommitJobUnsaved(j) ==
  /\ job[j].pc = "commit"
  /\ job[j].new \cap booked = {}
  /\ booked' = booked \cup job[j].new
  /\ job' = [job EXCEPT ![j] = NoJob]
  /\ UNCHANGED <<today, status, plan, next, edits, edited, aborts>>

CommitJob(j) ==
  /\ job[j].pc = "commit"
  /\ job[j].new \cap booked = {}
  /\ status' = [r \in Rules |-> IF r \in job[j].held THEN job[j].status[r] ELSE status[r]]
  /\ next' = [r \in Rules |-> IF r \in job[j].held THEN job[j].next[r] ELSE next[r]]
  /\ booked' = booked \cup job[j].new
  /\ job' = [job EXCEPT ![j] = NoJob]
  /\ UNCHANGED <<today, plan, edits, edited, aborts>>

(* uq_transactions_recurring_rule_date: one date that is booked already    *)
(* fails the flush, and the work for every rule is rolled back.            *)
CommitRejected(j) ==
  /\ job[j].pc = "commit"
  /\ job[j].new \cap booked # {}
  /\ job' = [job EXCEPT ![j] = NoJob]
  /\ UNCHANGED <<today, status, plan, next, booked, edits, edited, aborts>>

(* The process dies, or a database error (which poisons the session for    *)
(* every later rule) ends the job: all of it is rolled back.               *)
Abort(j) ==
  /\ job[j].pc # "idle"
  /\ aborts < MaxAborts
  /\ aborts' = aborts + 1
  /\ job' = [job EXCEPT ![j] = NoJob]
  /\ UNCHANGED <<today, status, plan, next, booked, edits, edited>>

JobStep(j) ==
  \/ Start(j) \/ Fetch(j) \/ CommitJob(j) \/ CommitRejected(j)
  \/ \E r \in Rules : Fire(j, r) \/ FireFails(j, r)

FireNext ==
  \/ Tick
  \/ \E e \in edits : EditWrite(e) \/ EditStale(e)
  \/ \E r \in Rules : Create(r) \/ EditRead(r) \/ Delete(r)
  \/ \E j \in Jobs : JobStep(j) \/ Abort(j)

FireSpec == FireInit /\ [][FireNext]_fireVars

(* The cron trigger starts the job again and again.                        *)
FairFireSpec == FireSpec /\ \A j \in Jobs : WF_fireVars(JobStep(j))

-------------------------------------------------------------------------------
FireTypeOK ==
  /\ today \in Days
  /\ status \in [Rules -> {"none", "active", "paused", "deleted"}]
  /\ plan \in [Rules -> Schedules]
  /\ next \in [Rules -> Dates]
  /\ booked \subseteq Rules \X Dates
  /\ job \in [Jobs -> JobState]
  /\ edits \subseteq Edit
  /\ edited \in [Rules -> Nat]
  /\ aborts \in 0..MaxAborts

(* FOR UPDATE SKIP LOCKED: from the batch query to the commit, no edit, no *)
(* deletion and no other scheduler gets at a rule the job fires.  It stays *)
(* active and due, so the commit overwrites nothing but what it read.      *)
HeldRulesAreCurrent ==
  \A j \in Jobs : \A r \in job[j].held : Due(r, job[j].day)

(* No occurrence is lost: a job moves a rule past a date only together     *)
(* with the transaction of that date, whatever failed on the way.          *)
EveryOccurrenceBooked ==
  [][\A j \in Jobs : \A r \in job[j].held :
       next'[r] # next[r] => <<r, next[r]>> \in booked' \ booked]_fireVars

(* Two schedulers, a job that died or was rolled back: unless a user moved *)
(* the rule, whatever it has booked lies before its next date, so that no  *)
(* job ever fails on the unique index of rule and date.                    *)
BookingsLieBehind ==
  \A b \in booked : edited[b[1]] = 0 => b[2] < next[b[1]]

(* A PATCH that raced the job, or came between two of its runs, leaves a   *)
(* next date that the rule's schedule names.  (Two PATCHes of one rule may *)
(* mix: each writes the columns it saw change.)                            *)
NextFollowsSchedule ==
  \A r \in Rules : status[r] # "none" /\ edited[r] <= 1 => Falls(next[r], plan[r])

(* A rule that a PATCH set back to dates it has already booked.            *)
Jammed ==
  \E b \in booked : status[b[1]] = "active" /\ next[b[1]] <= b[2]

(* A rule that always raises does not keep the others from being fired;    *)
(* only one whose next commit meets the unique index does.                 *)
DueRulesFire ==
  \A r \in Rules \ Broken : Due(r, today) ~> (~Due(r, today) \/ Jammed)

(* tests: a due rule "fires once; next date is in the future".             *)
FiresOnce ==
  \A j \in Jobs : \A r \in Rules :
    Cardinality({b \in job[j].new : b[1] = r}) <= 1

===============================================================================
