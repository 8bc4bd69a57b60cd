----------------------------- MODULE EventDelivery -----------------------------
(***************************************************************************)
(* What the transactional outbox promises to whoever appends an event: the *)
(* row stays in the table until the broker has acknowledged a copy of it,  *)
(* a row that cannot be sent is quarantined where an operator finds it,    *)
(* and nothing bounds the copies to one (at-least-once).  OutboxRelay, the *)
(* poller as written, is shown to implement this specification, and        *)
(* InsightPipeline is built on its actions.                                *)
(***************************************************************************)
EXTENDS Naturals

CONSTANT Events   \* outbox rows that may ever be written

VARIABLES
  row,         \* row[e]: the outbox row of e, see Row
  available,   \* available[e]: copies of e the broker has yet to hand out
  published    \* published[e]: publications of e the broker acknowledged

(* "relayed": the broker has a copy and the transaction that will mark the *)
(* row SENT is still open.                                                 *)
Row == {"none", "pending", "relayed", "sent", "failed", "purged"}

vars == <<row, available, published>>

Init ==
  /\ row = [e \in Events |-> "none"]
  /\ available = [e \in Events |-> 0]
  /\ published = [e \in Events |-> 0]

(* The rows of S are inserted by the transaction that also changes the     *)
(* aggregate: they exist together or not at all.                           *)
Append(S) ==
  /\ \A e \in S : row[e] = "none"
  /\ row' = [e \in Events |-> IF e \in S THEN "pending" ELSE row[e]]
  /\ UNCHANGED <<available, published>>

Publish(e) ==
  /\ row[e] = "pending"
  /\ row' = [row EXCEPT ![e] = "relayed"]
  /\ available' = [available EXCEPT ![e] = @ + 1]
  /\ published' = [published EXCEPT ![e] = @ + 1]

Confirm(e) ==
  /\ row[e] = "relayed"
  /\ row' = [row EXCEPT ![e] = "sent"]
  /\ UNCHANGED <<available, published>>

(* The commit failed or the poller died after the broker took the copy:    *)
(* the row will be published again.                                        *)
Rollback(e) ==
  /\ row[e] = "relayed"
  /\ row' = [row EXCEPT ![e] = "pending"]
  /\ UNCHANGED <<available, published>>

(* Quarantine takes a pending row, or (two pollers, see OutboxRelay) one   *)
(* that another poller has already marked sent.                            *)
Quarantine(e) ==
  /\ row[e] \in {"pending", "sent"}
  /\ row' = [row EXCEPT ![e] = "failed"]
  /\ UNCHANGED <<available, published>>

Replay(S) ==
  /\ \A e \in S : row[e] = "failed"
  /\ row' = [e \in Events |-> IF e \in S THEN "pending" ELSE row[e]]
  /\ UNCHANGED <<available, published>>

Purge(S) ==
  /\ \A e \in S : row[e] = "sent"
  /\ row' = [e \in Events |-> IF e \in S THEN "purged" ELSE row[e]]
  /\ UNCHANGED <<available, published>>

Next ==
  \/ \E S \in SUBSET Events : Append(S) \/ Replay(S) \/ Purge(S)
  \/ \E e \in Events :
       Publish(e) \/ Confirm(e) \/ Rollback(e) \/ Quarantine(e)

Spec == Init /\ [][Next]_vars

===============================================================================
