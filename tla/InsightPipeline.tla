---------------------------- MODULE InsightPipeline ----------------------------
(***************************************************************************)
(* The life of an insight across four processes: the API transaction that  *)
(* queues it, the outbox row and its delivery through Kafka (EventDelivery)*)
(* the insight-worker consumers with their Redis keys and dead-letter      *)
(* topic, and the scheduler's reaper.                                      *)
(*                                                                         *)
(* A worker's transactions, Redis calls and publications are separate      *)
(* steps, and it may crash, lose its partition or see the call fail        *)
(* between any two of them.  complete_insight and record_failure read the  *)
(* row without a lock and write it later, so each is two steps.            *)
(***************************************************************************)
EXTENDS InsightRow

CONSTANTS
  Workers,           \* insight-worker processes
  MaxFailures,       \* consumer_max_retries: failed deliveries before the DLQ
  MaxPublishes,      \* bound of the model: publications of one outbox row
  MaxFaults,         \* bound of the model: crashes, rebalances, failed calls
  LeasePersisted,    \* see Claim
  LeaseOutlivesWork  \* see LeaseExpires

ASSUME ConstantsAssumption ==
  /\ MaxReaps \in Nat \ {0}
  /\ MaxFailures \in Nat \ {0}
  /\ MaxPublishes \in Nat \ {0}
  /\ MaxFaults \in Nat
  /\ LeasePersisted \in BOOLEAN
  /\ LeaseOutlivesWork \in BOOLEAN

VARIABLES
  lease,       \* insights.processing_deadline: NULL, in the future, passed
  error,       \* insights.error_message
  row,         \* outbox_events.status, per event (EventDelivery)
  available,   \* copies of an event in the topic, not handed to a worker
  published,   \* publications of an event
  processed,   \* events with a consumer:idempotency key in Redis
  failures,    \* consumer:failures counter of an event in Redis
  dlq,         \* copies of an event in the dead-letter topic
  worker,      \* what each worker is doing
  faults       \* faults so far (bound of the model)

insightVars  == <<status, retry, lease, error>>
outboxVars   == <<row, published>>
redisVars    == <<processed, failures>>
vars == <<status, retry, lease, error, row, available, published,
          processed, failures, dlq, worker, faults>>

(* Event <<i, n>> is the InsightRequested event for the n-th requeue of i; *)
(* the request itself writes <<i, 0>>.                                     *)
Events == Insights \X (0..MaxReaps)

Delivery == INSTANCE EventDelivery

Errors == {"none", "no_data", "unexpected", "max_retries"}

(* pc of a worker, by the call it is about to make.  Those of Working hold *)
(* the claim; "count" is increment_failures, "park" the DLQ publication    *)
(* and "unpark" the mark_processed that follows it.                        *)
Working == {"generate", "completeRead", "completeWrite", "failRead", "failWrite"}
Pcs == {"idle", "claim", "mark", "count", "park", "unpark"} \cup Working

NoEvent == <<>>
Idle == [pc |-> "idle", event |-> NoEvent, owns |-> FALSE, error |-> "none"]
Busy(e) == [pc |-> "claim", event |-> e, owns |-> TRUE, error |-> "none"]

WorkerState ==
  [pc : Pcs, event : Events \cup {NoEvent}, owns : BOOLEAN,
   error : {"none", "no_data", "unexpected"}]

At(w, pc) == worker[w].pc = pc
Event(w) == worker[w].event
Insight(w) == worker[w].event[1]
Goto(w, pc) == worker' = [worker EXCEPT ![w].pc = pc]
GotoFailing(w, err) ==
  worker' = [worker EXCEPT ![w].pc = "failRead", ![w].error = err]

WorksOn(w, i) == worker[w].pc \in Working /\ Insight(w) = i

Fault ==
  /\ faults < MaxFaults
  /\ faults' = faults + 1

(* The broker's view of a worker that is done with its message: the offset *)
(* is committed, or sought back, unless the partition has moved away.      *)
Ack(w) ==
  /\ worker' = [worker EXCEPT ![w] = Idle]
  /\ UNCHANGED available

Nack(w) ==
  /\ worker' = [worker EXCEPT ![w] = Idle]
  /\ available' = IF worker[w].owns
                  THEN [available EXCEPT ![Event(w)] = @ + 1]
                  ELSE available

-------------------------------------------------------------------------------
Init ==
  /\ status = [i \in Insights |-> "none"]
  /\ retry = [i \in Insights |-> 0]
  /\ lease = [i \in Insights |-> "none"]
  /\ error = [i \in Insights |-> "none"]
  /\ Delivery!Init
  /\ processed = {}
  /\ failures = [e \in Events |-> 0]
  /\ dlq = [e \in Events |-> 0]
  /\ worker = [w \in Workers |-> Idle]
  /\ faults = 0

(* POST /v1/insights/requests: the row and its event commit together.      *)
Request(i) ==
  /\ status[i] = "none"
  /\ status' = [status EXCEPT ![i] = "queued"]
  /\ Delivery!Append({<<i, 0>>})
  /\ UNCHANGED <<retry, lease, error, processed, failures, dlq, worker, faults>>

(* The outbox poller and what can go wrong with it, the replay script and  *)
(* the purge job, as EventDelivery promises them.                          *)
Relay(e) ==
  /\ Delivery!Publish(e) \/ Delivery!Confirm(e)
  /\ UNCHANGED <<insightVars, redisVars, dlq, worker, faults>>

RelayFault(e) ==
  /\ \/ Delivery!Rollback(e) /\ published[e] < MaxPublishes
     \/ Delivery!Quarantine(e)
  /\ UNCHANGED <<insightVars, redisVars, dlq, worker, faults>>

Administer(e) ==
  /\ \/ Delivery!Replay({e}) /\ published[e] < MaxPublishes
     \/ Delivery!Purge({e})
  /\ UNCHANGED <<insightVars, redisVars, dlq, worker, faults>>

-------------------------------------------------------------------------------
(* A delivery and the is_processed check of handle_insight_event: a        *)
(* duplicate returns at once and its offset is committed.                  *)
Receive(w, e) ==
  /\ At(w, "idle")
  /\ available[e] > 0
  /\ available' = [available EXCEPT ![e] = @ - 1]
  /\ worker' = IF e \in processed
               THEN worker
               ELSE [worker EXCEPT ![w] = Busy(e)]
  /\ UNCHANGED <<insightVars, outboxVars, redisVars, dlq, faults>>

(* Mutant: whatever the status of the row, the claim succeeds.             *)
ClaimUnchecked(w) ==
  /\ At(w, "claim")
  /\ status' = [status EXCEPT ![Insight(w)] = "processing"]
  /\ lease' = IF LeasePersisted THEN [lease EXCEPT ![Insight(w)] = "live"] ELSE lease
  /\ Goto(w, "generate")
  /\ UNCHANGED <<retry, error, available, outboxVars, redisVars, dlq, faults>>

(* Mutant: the claim leaves processing_deadline NULL.                      *)
ClaimWithoutDeadline(w) ==
  /\ At(w, "claim")
  /\ IF status[Insight(w)] = "queued"
     THEN /\ status' = [status EXCEPT ![Insight(w)] = "processing"]
          /\ Goto(w, "generate")
     ELSE Goto(w, "mark") /\ UNCHANGED status
  /\ UNCHANGED <<retry, lease, error, available, outboxVars, redisVars, dlq, faults>>

(* InsightAlreadyTerminalError: the row is not queued, which includes a    *)
(* live claim of another worker.  The use case returns a terminal skip,    *)
(* and the handler counts it as success.                                   *)
TerminalSkip(w) ==
  /\ Goto(w, "mark")
  /\ UNCHANGED <<status, lease>>

(* TX1, SELECT ... FOR UPDATE.  A row that is not queued is skipped.       *)
(* The repository assigns processing_deadline, but the ORM mapping of this *)
(* commit has no such column, so the UPDATE never carries it:              *)
(* LeasePersisted is FALSE for the code as it is, and TRUE for a mapping   *)
(* that lists the column, which is what the reaper's queries and its tests *)
(* work on.                                                                *)
Claim(w) ==
  /\ At(w, "claim")
  /\ IF status[Insight(w)] = "queued"
     THEN /\ status' = [status EXCEPT ![Insight(w)] = "processing"]
          /\ lease' = IF LeasePersisted
                      THEN [lease EXCEPT ![Insight(w)] = "live"]
                      ELSE lease
          /\ Goto(w, "generate")
     ELSE TerminalSkip(w)
  /\ UNCHANGED <<retry, error, available, outboxVars, redisVars, dlq, faults>>

(* A storage error in TX1 is raised to the consumer: nothing is recorded.  *)
ClaimFails(w) ==
  /\ At(w, "claim")
  /\ Fault
  /\ Goto(w, "count")
  /\ UNCHANGED <<insightVars, available, outboxVars, redisVars, dlq>>

(* build_insight_context and the AI call, no transaction open.  A gateway  *)
(* error is absorbed by the deterministic fallback; a period without rows  *)
(* is recorded as a failure and returns; anything else is recorded and     *)
(* raised.                                                                 *)
Generate(w) ==
  /\ At(w, "generate")
  /\ \/ Goto(w, "completeRead")
     \/ \E err \in {"no_data", "unexpected"} : GotoFailing(w, err)
  /\ UNCHANGED <<insightVars, available, outboxVars, redisVars, dlq, faults>>

(* TX4: the row is read without a lock; mark_completed raises unless it is *)
(* still processing.                                                       *)
CompleteRead(w) ==
  /\ At(w, "completeRead")
  /\ IF status[Insight(w)] = "processing"
     THEN Goto(w, "completeWrite")
     ELSE GotoFailing(w, "unexpected")
  /\ UNCHANGED <<insightVars, available, outboxVars, redisVars, dlq, faults>>

CompleteWrite(w) ==
  /\ At(w, "completeWrite")
  /\ \/ /\ status' = [status EXCEPT ![Insight(w)] = "completed"]
        /\ Goto(w, "mark")
        /\ UNCHANGED faults
     \/ Fault /\ GotoFailing(w, "unexpected") /\ UNCHANGED status
  /\ UNCHANGED <<retry, lease, error, available, outboxVars, redisVars, dlq>>

(* After record_failure the use case returns if the period had no data and *)
(* re-raises otherwise.                                                    *)
AfterFailure(w) == IF worker[w].error = "no_data" THEN "mark" ELSE "count"

(* TX5, best effort: the ValueError of mark_failed and a failed write are  *)
(* logged and swallowed.                                                   *)
FailRead(w) ==
  /\ At(w, "failRead")
  /\ Goto(w, IF status[Insight(w)] = "processing" THEN "failWrite" ELSE AfterFailure(w))
  /\ UNCHANGED <<insightVars, available, outboxVars, redisVars, dlq, faults>>

FailWrite(w) ==
  /\ At(w, "failWrite")
  /\ \/ /\ status' = [status EXCEPT ![Insight(w)] = "failed"]
        /\ error' = [error EXCEPT ![Insight(w)] = worker[w].error]
        /\ UNCHANGED faults
     \/ Fault /\ UNCHANGED <<status, error>>
  /\ Goto(w, AfterFailure(w))
  /\ UNCHANGED <<retry, lease, available, outboxVars, redisVars, dlq>>

-------------------------------------------------------------------------------
(* mark_processed after success; a Redis error here is caught by the same  *)
(* handler that counts failures.                                           *)
MarkProcessed(w) ==
  /\ At(w, "mark")
  /\ processed' = processed \cup {Event(w)}
  /\ Ack(w)
  /\ UNCHANGED <<insightVars, outboxVars, failures, dlq, faults>>

MarkFails(w) ==
  /\ At(w, "mark")
  /\ Fault
  /\ Goto(w, "count")
  /\ UNCHANGED <<insightVars, available, outboxVars, redisVars, dlq>>

(* Mutant: the last failure marks the event processed and never parks it.  *)
CountFailureWithoutParking(w) ==
  /\ At(w, "count")
  /\ failures' = [failures EXCEPT ![Event(w)] = @ + 1]
  /\ IF failures[Event(w)] + 1 >= MaxFailures
     THEN Goto(w, "unpark") /\ UNCHANGED available
     ELSE Nack(w)
  /\ UNCHANGED <<insightVars, outboxVars, processed, dlq, faults>>

(* increment_failures, then either the DLQ or a re-raise: NACK_ON_ERROR    *)
(* seeks back to the message.                                              *)
CountFailure(w) ==
  /\ At(w, "count")
  /\ failures' = [failures EXCEPT ![Event(w)] = @ + 1]
  /\ IF failures[Event(w)] + 1 >= MaxFailures
     THEN Goto(w, "park") /\ UNCHANGED available
     ELSE Nack(w)
  /\ UNCHANGED <<insightVars, outboxVars, processed, dlq, faults>>

Park(w) ==
  /\ At(w, "park")
  /\ dlq' = [dlq EXCEPT ![Event(w)] = @ + 1]
  /\ Goto(w, "unpark")
  /\ UNCHANGED <<insightVars, available, outboxVars, redisVars, faults>>

MarkParked(w) ==
  /\ At(w, "unpark")
  /\ processed' = processed \cup {Event(w)}
  /\ Ack(w)
  /\ UNCHANGED <<insightVars, outboxVars, failures, dlq, faults>>

(* The process dies, or a Redis or Kafka call of the failure path raises   *)
(* out of the handler: either way the message is delivered again.          *)
Crash(w) ==
  /\ ~At(w, "idle")
  /\ Fault
  /\ Nack(w)
  /\ UNCHANGED <<insightVars, outboxVars, redisVars, dlq>>

(* A rebalance gives the partition to another worker while w, unaware,     *)
(* carries on.                                                             *)
Rebalance(w) ==
  /\ worker[w].owns
  /\ Fault
  /\ worker' = [worker EXCEPT ![w].owns = FALSE]
  /\ available' = [available EXCEPT ![Event(w)] = @ + 1]
  /\ UNCHANGED <<insightVars, outboxVars, redisVars, dlq>>

(* A Redis key reaches its TTL.                                            *)
KeyExpires(e) ==
  /\ \/ /\ e \in processed
        /\ processed' = processed \ {e}
        /\ UNCHANGED failures
     \/ /\ failures[e] > 0
        /\ failures' = [failures EXCEPT ![e] = 0]
        /\ UNCHANGED processed
  /\ UNCHANGED <<insightVars, available, outboxVars, dlq, worker, faults>>

WorkerStep(w) ==
  \/ \E e \in Events : Receive(w, e)
  \/ Claim(w) \/ Generate(w)
  \/ CompleteRead(w) \/ CompleteWrite(w) \/ FailRead(w) \/ FailWrite(w)
  \/ MarkProcessed(w) \/ CountFailure(w) \/ Park(w) \/ MarkParked(w)

WorkerFault(w) == ClaimFails(w) \/ MarkFails(w) \/ Crash(w) \/ Rebalance(w)

-------------------------------------------------------------------------------
(* processing_deadline passes.  Under LeaseOutlivesWork it does so only    *)
(* once no worker is on the insight any more: the 15 minutes exceed what   *)
(* one run of the pipeline takes.                                          *)
LeaseExpires(i) ==
  /\ lease[i] = "live"
  /\ LeaseOutlivesWork => \A w \in Workers : ~WorksOn(w, i)
  /\ lease' = [lease EXCEPT ![i] = "passed"]
  /\ UNCHANGED <<status, retry, error, available, outboxVars, redisVars, dlq,
                 worker, faults>>

Expired == {i \in Insights : status[i] = "processing" /\ lease[i] = "passed"}
Requeued == {i \in Expired : retry[i] < MaxReaps}

(* Mutant: the requeue does not write the new outbox row.                  *)
ReapSilently ==
  /\ Expired # {}
  /\ status' = [i \in Insights |-> IF i \in Requeued THEN "queued"
                                   ELSE IF i \in Expired THEN "failed"
                                   ELSE status[i]]
  /\ retry' = [i \in Insights |-> IF i \in Requeued THEN retry[i] + 1 ELSE retry[i]]
  /\ lease' = [i \in Insights |-> IF i \in Requeued THEN "none" ELSE lease[i]]
  /\ error' = [i \in Insights |-> IF i \in Expired \ Requeued THEN "max_retries"
                                  ELSE error[i]]
  /\ UNCHANGED <<row, published, available, redisVars, dlq, worker, faults>>

(* reaper_tick: both UPDATEs and the new outbox rows in one transaction.   *)
Reap ==
  /\ Expired # {}
  /\ status' = [i \in Insights |-> IF i \in Requeued THEN "queued"
                                   ELSE IF i \in Expired THEN "failed"
                                   ELSE status[i]]
  /\ retry' = [i \in Insights |-> IF i \in Requeued THEN retry[i] + 1 ELSE retry[i]]
  /\ lease' = [i \in Insights |-> IF i \in Requeued THEN "none" ELSE lease[i]]
  /\ error' = [i \in Insights |-> IF i \in Expired \ Requeued THEN "max_retries"
                                  ELSE error[i]]
  /\ Delivery!Append({<<i, retry[i] + 1>> : i \in Requeued})
  /\ UNCHANGED <<redisVars, dlq, worker, faults>>

-------------------------------------------------------------------------------
Next ==
  \/ \E i \in Insights : Request(i) \/ LeaseExpires(i)
  \/ \E e \in Events : Relay(e) \/ RelayFault(e) \/ Administer(e) \/ KeyExpires(e)
  \/ \E w \in Workers : WorkerStep(w) \/ WorkerFault(w)
  \/ Reap

Spec == Init /\ [][Next]_vars

(* The worker loop, the poller loop and the scheduler run as long as their *)
(* process is up, and a lease runs out by itself.  Nothing obliges a user  *)
(* to request, an operator to replay, a fault or a TTL to happen.          *)
Fairness ==
  /\ \A w \in Workers : WF_vars(WorkerStep(w))
  /\ \A e \in Events : WF_vars(Relay(e))
  /\ \A i \in Insights : WF_vars(LeaseExpires(i))
  /\ WF_vars(Reap)

FairSpec == Spec /\ Fairness

-------------------------------------------------------------------------------
TypeOK ==
  /\ status \in [Insights -> Status]
  /\ retry \in [Insights -> 0..MaxReaps]
  /\ lease \in [Insights -> {"none", "live", "passed"}]
  /\ error \in [Insights -> Errors]
  /\ row \in [Events -> Delivery!Row]
  /\ available \in [Events -> Nat]
  /\ published \in [Events -> Nat]
  /\ processed \in SUBSET Events
  /\ failures \in [Events -> Nat]
  /\ dlq \in [Events -> Nat]
  /\ worker \in [Workers -> WorkerState]
  /\ faults \in Nat

(* The event whose delivery the insight is waiting for.                    *)
Current(i) == <<i, retry[i]>>

Holds(w, e) == ~At(w, "idle") /\ Event(w) = e /\ worker[w].owns

Carried(e) ==
  \/ row[e] \in {"pending", "failed"}
  \/ available[e] > 0
  \/ \E w \in Workers : Holds(w, e)
  \/ dlq[e] > 0

(* A queued insight is never forgotten: whatever crashes, rebalances,      *)
(* duplicates and expired keys happened, its event is in the outbox, in    *)
(* the topic, with a consumer that will hand it back, or in the DLQ.       *)
(* There is no reaper for QUEUED rows, so nothing else would find it.      *)
NoStrandedInsight ==
  \A i \in Insights : status[i] = "queued" => Carried(Current(i))

(* An idempotency key never hides an event nobody acted upon: if the       *)
(* insight still waits for it, a copy was parked in the DLQ.               *)
KeyHidesNoWork ==
  \A i \in Insights :
    status[i] = "queued" /\ Current(i) \in processed => dlq[Current(i)] > 0

(* SELECT ... FOR UPDATE and the status check of the claim: two workers    *)
(* never spend an AI call on the same insight.                             *)
OneWorkerPerInsight ==
  \A i \in Insights : \A v, w \in Workers :
    WorksOn(v, i) /\ WorksOn(w, i) => v = w

(* A completed insight carries no error message: no failure path wrote to  *)
(* the row that another path completed.                                    *)
CompletedWithoutError ==
  \A i \in Insights : status[i] = "completed" => error[i] = "none"

(* The pipeline moves a row only along the status graph that insight.py    *)
(* and the reaper promise (InsightLifecycle): claimed while queued only,   *)
(* terminal for good, requeued at most MaxReaps times.                     *)
Lifecycle == INSTANCE InsightLifecycle
ImplementsLifecycle == Lifecycle!Spec

(* The event of a queued insight is quarantined or parked: only            *)
(* scripts/outbox_replay or a look at the DLQ can move it on.              *)
NeedsOperator(i) ==
  status[i] = "queued" /\ (row[Current(i)] = "failed" \/ dlq[Current(i)] > 0)

(* An accepted request comes to an end by itself, or an operator finds its *)
(* event in the outbox or in the DLQ.                                      *)
EventuallySettled ==
  \A i \in Insights :
    status[i] \in {"queued", "processing"}
      ~> status[i] \in Terminal \/ NeedsOperator(i)

(* A queued insight does not wait forever for a worker.                    *)
EventuallyPickedUp ==
  \A i \in Insights :
    status[i] = "queued" ~> status[i] # "queued" \/ NeedsOperator(i)

(* Nothing is under way for an insight any more.                           *)
Quiet(i) ==
  \A n \in 0..MaxReaps :
    /\ row[<<i, n>>] \in {"none", "sent", "purged"}
    /\ available[<<i, n>>] = 0
    /\ \A w \in Workers : At(w, "idle") \/ Event(w) # <<i, n>>

(* docs: an unexpected (non-gateway) error ends with the event in the DLQ. *)
UnexpectedErrorReachesDlq ==
  \A i \in Insights :
    error[i] = "unexpected" /\ Quiet(i) => \E n \in 0..MaxReaps : dlq[<<i, n>>] > 0

(* docs: no insight stays in PROCESSING, the reaper recovers the row of a  *)
(* worker that died.                                                       *)
ProcessingEnds ==
  \A i \in Insights : status[i] = "processing" ~> status[i] # "processing"

===============================================================================
