--------------------------- MODULE InsightLifecycle ---------------------------
(***************************************************************************)
(* What the insight pipeline promises about one row of the `insights`      *)
(* table, however its events are delivered: the status graph of            *)
(* domain/entities/insight.py together with the two transitions of the     *)
(* reaper.  A row is claimed only while it is queued, a terminal row never *)
(* changes again, and it goes back to the queue at most MaxReaps times.    *)
(* InsightPipeline is shown to implement this specification.               *)
(***************************************************************************)
EXTENDS InsightRow

vars == <<status, retry>>

Init ==
  /\ status = [i \in Insights |-> "none"]
  /\ retry = [i \in Insights |-> 0]

(* mark_queued on a new row: RequestInsightUseCase. *)
Queue(i) ==
  /\ status[i] = "none"
  /\ status' = [status EXCEPT ![i] = "queued"]
  /\ UNCHANGED retry

(* mark_processing. *)
Claim(i) ==
  /\ status[i] = "queued"
  /\ status' = [status EXCEPT ![i] = "processing"]
  /\ UNCHANGED retry

(* mark_completed, mark_failed. *)
Finish(i) ==
  /\ status[i] = "processing"
  /\ \E s \in Terminal : status' = [status EXCEPT ![i] = s]
  /\ UNCHANGED retry

(* One reaper transaction over the rows S whose lease has run out. *)
Reap(S) ==
  /\ \A i \in S : status[i] = "processing"
  /\ status' = [i \in Insights |->
                  IF i \notin S THEN status[i]
                  ELSE IF retry[i] < MaxReaps THEN "queued" ELSE "failed"]
  /\ retry' = [i \in Insights |->
                 IF i \in S /\ retry[i] < MaxReaps THEN retry[i] + 1 ELSE retry[i]]

Next ==
  \/ \E i \in Insights : Queue(i) \/ Claim(i) \/ Finish(i)
  \/ \E S \in SUBSET Insights : Reap(S)

Spec == Init /\ [][Next]_vars

===============================================================================
