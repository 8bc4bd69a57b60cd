----------------------------- MODULE BackgroundJobs -----------------------------
(***************************************************************************)
(* Two loops that run without a request: the outbox poller of the worker   *)
(* process and fire_due_rules_job of the scheduler.  They share no rows: a *)
(* behaviour takes the steps of one of the two, chosen at the start.       *)
(***************************************************************************)
EXTENDS OutboxRelay, RecurringFire

VARIABLE part  \* bound of the model: whose steps are taken

jobVars == <<part, vars, fireVars>>

JobsInit ==
  /\ part \in {"outbox", "recurring"}
  /\ Init
  /\ FireInit

JobsNext ==
  /\ UNCHANGED part
  /\ \/ part = "outbox" /\ Next /\ UNCHANGED fireVars
     \/ part = "recurring" /\ FireNext /\ UNCHANGED vars

Polls(p) == part = "outbox" /\ PollerStep(p) /\ UNCHANGED <<part, fireVars>>
Runs(j) == part = "recurring" /\ JobStep(j) /\ UNCHANGED <<part, vars>>

(* The poller polls as long as its process is up; the cron trigger starts  *)
(* the job again and again.                                                *)
JobsSpec ==
  /\ JobsInit /\ [][JobsNext]_jobVars
  /\ \A p \in Pollers : WF_jobVars(Polls(p))
  /\ \A j \in Jobs : WF_jobVars(Runs(j))

===============================================================================
