------------------------------ MODULE OutboxRelay ------------------------------
(***************************************************************************)
(* The relay from the outbox_events table to Kafka: the poller of          *)
(* app/outbound/outbox/poller.py, the replay script and the purge job.     *)
(*                                                                         *)
(* A poller takes a snapshot of the oldest pending rows, then handles each *)
(* one in a transaction of its own: lock, publish, mark SENT, commit.  A   *)
(* failure rolls that transaction back and is recorded in another, and     *)
(* between the two the row is free for another poller.                     *)
(***************************************************************************)
EXTENDS Naturals, FiniteSets

CONSTANTS
  LastEvent,   \* bound of the model: rows that may be appended
  Unmapped,    \* events whose type has no topic
  Poison,      \* events the broker never accepts
  Pollers,     \* outbox-worker processes
  BatchSize,   \* outbox_batch_size
  MaxRetries,  \* outbox_max_retries
  MaxFaults,   \* bound of the model: crashes and failed calls
  MaxReplays,  \* bound of the model: runs of the replay script
  CommitMayLie \* may a commit raise although the server carried it out?

(* The rows, numbered by created_at.                                       *)
Events == 1..LastEvent

ASSUME ConstantsAssumption ==
  /\ LastEvent \in Nat
  /\ Unmapped \subseteq Events
  /\ Poison \subseteq Events
  /\ BatchSize \in Nat \ {0}
  /\ MaxRetries \in Nat \ {0}
  /\ MaxFaults \in Nat
  /\ MaxReplays \in Nat
  /\ CommitMayLie \in BOOLEAN

VARIABLES
  row,        \* committed outbox_events.status; "none" and "purged": no row
  retries,    \* outbox_events.retry_count
  published,  \* copies the broker has acknowledged
  poller,     \* what each poller is doing
  faults,     \* faults so far (bound of the model)
  replays     \* replays so far (bound of the model)

vars == <<row, retries, published, poller, faults, replays>>

(* "locked" and "published" are inside the transaction that holds the row  *)
(* lock, "failing" is between its rollback and _record_failure.            *)
Pcs == {"idle", "scan", "locked", "published", "failing"}
PollerState == [pc : Pcs, batch : SUBSET Events]
Idle == [pc |-> "idle", batch |-> {}]

At(p, pc) == poller[p].pc = pc
Goto(p, pc) == poller' = [poller EXCEPT ![p].pc = pc]

(* The row at hand: the oldest of what is left of the batch.               *)
Event(p) == CHOOSE e \in poller[p].batch : \A f \in poller[p].batch : e <= f

Leave(p) ==
  LET rest == poller[p].batch \ {Event(p)}
  IN  poller' = [poller EXCEPT
        ![p] = IF rest = {} THEN Idle ELSE [pc |-> "scan", batch |-> rest]]

Locks(p, e) == poller[p].pc \in {"locked", "published"} /\ Event(p) = e
Locked(e) == \E p \in Pollers : Locks(p, e)

Fault ==
  /\ faults < MaxFaults
  /\ faults' = faults + 1

-------------------------------------------------------------------------------
Init ==
  /\ row = [e \in Events |-> "none"]
  /\ retries = [e \in Events |-> 0]
  /\ published = [e \in Events |-> 0]
  /\ poller = [p \in Pollers |-> Idle]
  /\ faults = 0
  /\ replays = 0

Append(e) ==
  /\ row[e] = "none"
  /\ row' = [row EXCEPT ![e] = "pending"]
  /\ UNCHANGED <<retries, published, poller, faults, replays>>

Pending == {e \in Events : row[e] = "pending"}

OldestPending ==
  {e \in Pending : Cardinality({f \in Pending : f < e}) < BatchSize}

Snapshot(p) ==
  /\ At(p, "idle")
  /\ Pending # {}
  /\ poller' = [poller EXCEPT ![p] = [pc |-> "scan", batch |-> OldestPending]]
  /\ UNCHANGED <<row, retries, published, faults, replays>>

(* Mutant: the snapshot is trusted, the status is not looked at again.     *)
LockUnchecked(p) ==
  /\ At(p, "scan")
  /\ IF ~Locked(Event(p)) THEN Goto(p, "locked") ELSE Leave(p)
  /\ UNCHANGED <<row, retries, published, faults, replays>>

(* SELECT ... WHERE status = 'PENDING' FOR UPDATE SKIP LOCKED.             *)
Lock(p) ==
  /\ At(p, "scan")
  /\ IF row[Event(p)] = "pending" /\ ~Locked(Event(p))
     THEN Goto(p, "locked")
     ELSE Leave(p)
  /\ UNCHANGED <<row, retries, published, faults, replays>>

(* The lock query raises: a failure is recorded for a row the poller has   *)
(* not looked at.                                                          *)
LockFails(p) ==
  /\ At(p, "scan")
  /\ Fault
  /\ Goto(p, "failing")
  /\ UNCHANGED <<row, retries, published, replays>>

(* No topic for the event type: quarantined at once.                       *)
UnknownTopic(p) ==
  /\ At(p, "locked")
  /\ Event(p) \in Unmapped
  /\ row' = [row EXCEPT ![Event(p)] = "failed"]
  /\ Leave(p)
  /\ UNCHANGED <<retries, published, faults, replays>>

(* Mutant: the publication is not awaited, and lost.                       *)
PublishUnawaited(p) ==
  /\ At(p, "locked")
  /\ Event(p) \notin Unmapped \cup Poison
  /\ Goto(p, "published")
  /\ UNCHANGED <<row, retries, published, faults, replays>>

Publish(p) ==
  /\ At(p, "locked")
  /\ Event(p) \notin Unmapped \cup Poison
  /\ published' = [published EXCEPT ![Event(p)] = @ + 1]
  /\ Goto(p, "published")
  /\ UNCHANGED <<row, retries, faults, replays>>

(* The publication or the quarantine raises: the transaction rolls back.   *)
(* A publication that times out although the broker took the message is    *)
(* Publish followed by CommitFails.                                        *)
PublishFails(p) ==
  /\ At(p, "locked")
  /\ \/ Event(p) \in Poison \ Unmapped /\ UNCHANGED faults
     \/ Fault
  /\ Goto(p, "failing")
  /\ UNCHANGED <<row, retries, published, replays>>

Commit(p) ==
  /\ At(p, "published")
  /\ row' = [row EXCEPT ![Event(p)] = "sent"]
  /\ Leave(p)
  /\ UNCHANGED <<retries, published, faults, replays>>

(* The commit raises; the server may have carried it out all the same.     *)
CommitFails(p) ==
  /\ At(p, "published")
  /\ Fault
  /\ \/ UNCHANGED row
     \/ CommitMayLie /\ row' = [row EXCEPT ![Event(p)] = "sent"]
  /\ Goto(p, "failing")
  /\ UNCHANGED <<retries, published, replays>>

(* Mutant: one retry too few is allowed before the quarantine.             *)
RecordFailureEarly(p) ==
  /\ At(p, "failing")
  /\ ~Locked(Event(p))
  /\ retries' = [retries EXCEPT ![Event(p)] = @ + 1]
  /\ row' = IF retries[Event(p)] + 2 >= MaxRetries
            THEN [row EXCEPT ![Event(p)] = "failed"]
            ELSE row
  /\ Leave(p)
  /\ UNCHANGED <<published, faults, replays>>

(* Mutant: the row is never quarantined.                                   *)
RecordFailureOnly(p) ==
  /\ At(p, "failing")
  /\ ~Locked(Event(p))
  /\ Leave(p)
  /\ UNCHANGED <<row, retries, published, faults, replays>>

(* _record_failure waits for the row lock and looks at retry_count only,   *)
(* whatever the status has become.                                         *)
RecordFailure(p) ==
  /\ At(p, "failing")
  /\ ~Locked(Event(p))
  /\ IF row[Event(p)] = "purged"
     THEN UNCHANGED <<row, retries>>
     ELSE /\ retries' = [retries EXCEPT ![Event(p)] = @ + 1]
          /\ row' = IF retries[Event(p)] + 1 >= MaxRetries
                    THEN [row EXCEPT ![Event(p)] = "failed"]
                    ELSE row
  /\ Leave(p)
  /\ UNCHANGED <<published, faults, replays>>

RecordFailureFails(p) ==
  /\ At(p, "failing")
  /\ Fault
  /\ Leave(p)
  /\ UNCHANGED <<row, retries, published, replays>>

(* Open transactions are rolled back.                                      *)
Crash(p) ==
  /\ ~At(p, "idle")
  /\ Fault
  /\ poller' = [poller EXCEPT ![p] = Idle]
  /\ UNCHANGED <<row, retries, published, replays>>

(* scripts/replay_outbox.py over the failed rows S that nobody has locked. *)
Replay(S) ==
  /\ S # {}
  /\ \A e \in S : row[e] = "failed" /\ ~Locked(e)
  /\ replays < MaxReplays
  /\ row' = [e \in Events |-> IF e \in S THEN "pending" ELSE row[e]]
  /\ retries' = [e \in Events |-> IF e \in S THEN 0 ELSE retries[e]]
  /\ replays' = replays + 1
  /\ UNCHANGED <<published, poller, faults>>

(* purge_sent_outbox_job deletes one batch of rows past their retention.   *)
Purge(S) ==
  /\ S # {}
  /\ \A e \in S : row[e] = "sent" /\ ~Locked(e)
  /\ row' = [e \in Events |-> IF e \in S THEN "purged" ELSE row[e]]
  /\ UNCHANGED <<retries, published, poller, faults, replays>>

PollerStep(p) ==
  \/ Snapshot(p) \/ Lock(p) \/ UnknownTopic(p) \/ Publish(p) \/ Commit(p)
  \/ PublishFails(p) \/ RecordFailure(p)

PollerFault(p) ==
  LockFails(p) \/ CommitFails(p) \/ RecordFailureFails(p) \/ Crash(p)

Next ==
  \/ \E e \in Events : Append(e)
  \/ \E p \in Pollers : PollerStep(p) \/ PollerFault(p)
  \/ \E S \in SUBSET Events : Replay(S) \/ Purge(S)

Spec == Init /\ [][Next]_vars

(* The worker loop polls for as long as its process is up.                 *)
FairSpec == Spec /\ \A p \in Pollers : WF_vars(PollerStep(p))

-------------------------------------------------------------------------------
TypeOK ==
  /\ row \in [Events -> {"none", "pending", "sent", "failed", "purged"}]
  /\ retries \in [Events -> Nat]
  /\ published \in [Events -> Nat]
  /\ poller \in [Pollers -> PollerState]
  /\ faults \in 0..MaxFaults
  /\ replays \in 0..MaxReplays

(* The poller keeps the outbox's promise (EventDelivery): a row is marked  *)
(* SENT only once the broker has the event, and never lost otherwise.  To  *)
(* the outside a row is "relayed" between publication and commit.          *)
Delivery ==
  INSTANCE EventDelivery WITH
    row <- [e \in Events |->
              IF \E p \in Pollers : At(p, "published") /\ Event(p) = e
              THEN "relayed" ELSE row[e]],
    available <- published
ImplementsDelivery == Delivery!Spec

(* FOR UPDATE SKIP LOCKED and the second look at the status: however many  *)
(* pollers have the row in their snapshots, it is published again only     *)
(* after a fault or a replay.                                              *)
NoSpontaneousDuplicate ==
  \A e \in Events : published[e] <= 1 + faults + replays

(* A row with a topic is quarantined after MaxRetries recorded failures    *)
(* and no earlier, and a pending row always has attempts left.             *)
QuarantineIsEarned ==
  \A e \in Events \ Unmapped :
    /\ row[e] = "failed" => retries[e] >= MaxRetries
    /\ row[e] = "pending" => retries[e] < MaxRetries

(* "A row that fails repeatedly is quarantined so the queue can drain":    *)
(* rows the broker never takes do not hold up the rows behind them.        *)
QueueDrains ==
  \A e \in Events : row[e] = "pending" ~> row[e] # "pending"

(* docs: pollers do not step on each other.  A row one of them has marked  *)
(* SENT is not quarantined by another.                                     *)
SentStays ==
  [][\A e \in Events : row[e] = "sent" => row'[e] # "failed"]_vars

===============================================================================
