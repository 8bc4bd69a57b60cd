------------------------- MODULE BackgroundJobsProofs -------------------------
(***************************************************************************)
(* The outbox poller, for any numbers of events, pollers, batch sizes,     *)
(* retries, faults and replays; and fire_due_rules_job, for any rules, any *)
(* schedules, any number of schedulers and any batch size.                 *)
(***************************************************************************)
EXTENDS BackgroundJobs, CalendarProofs, FiniteSetTheorems

-------------------------------------------------------------------------------
(* The outbox: the rows, the locks on them and the copies published.       *)

(* A poller is idle, or has something left in its batch, all of it rows    *)
(* that exist or once did.                                                 *)
BatchesOK ==
  \A p \in Pollers :
    IF At(p, "idle") THEN poller[p].batch = {}
    ELSE poller[p].batch # {} /\ \A e \in poller[p].batch : row[e] # "none"

(* A row lock has one holder, and only pending rows are ever locked.       *)
LocksOK ==
  \A p \in Pollers : \A e \in Events :
    Locks(p, e) =>
      /\ row[e] = "pending"
      /\ \A q \in Pollers : Locks(q, e) => q = p

Relaying(e) == \E p \in Pollers : At(p, "published") /\ Event(p) = e

(* A row that is to be published once more owes it to a fault or a replay. *)
CopiesOK ==
  \A e \in Events :
    /\ published[e] <= 1 + faults + replays
    /\ row[e] = "none" => published[e] = 0 /\ retries[e] = 0
    /\ row[e] = "pending" /\ ~Relaying(e) => published[e] <= faults + replays

OInv == TypeOK /\ BatchesOK /\ LocksOK /\ CopiesOK /\ QuarantineIsEarned

(* Event(p) is in the batch of p, if there is one.                         *)
LEMMA EventInBatch ==
  ASSUME NEW p \in Pollers, poller[p].batch \subseteq Events, poller[p].batch # {}
  PROVE  Event(p) \in poller[p].batch /\ Event(p) \in Events
<1> DEFINE b == poller[p].batch
<1>1. b \subseteq Nat
  BY DEF Events
<1>2. PICK m \in b : \A x \in b : <<x, m>> \notin OpToRel(<, Nat)
  BY <1>1, NatLessThanWellFounded, WFMin, Zenon
<1>3. ASSUME NEW x \in b PROVE m <= x
  <2>1. x \in Nat /\ m \in Nat /\ ~(<<x, m>> \in {s \in Nat \X Nat : s[1] < s[2]})
    BY <1>1, <1>2 DEF OpToRel
  <2> QED
    BY <2>1
<1> QED
  BY <1>3 DEF Event

-------------------------------------------------------------------------------
(* The ways in which a poller moves: to another pc with the same batch, on  *)
(* to the rest of its batch, or to where it has nothing in hand.            *)
LEMMA GotoEffect ==
  ASSUME TypeOK, NEW p \in Pollers, NEW pc \in Pcs, Goto(p, pc)
  PROVE  /\ poller'[p] = [pc |-> pc, batch |-> poller[p].batch]
         /\ Event(p)' = Event(p)
         /\ \A q \in Pollers \ {p} : poller'[q] = poller[q] /\ Event(q)' = Event(q)
         /\ poller' \in [Pollers -> PollerState]
<1>1. /\ poller'[p] = [pc |-> pc, batch |-> poller[p].batch]
      /\ \A q \in Pollers \ {p} : poller'[q] = poller[q]
      /\ poller' \in [Pollers -> PollerState]
  BY DEF TypeOK, PollerState, Goto
<1> QED
  BY <1>1 DEF Event

(* Leaving a row behind: the rest of the batch, or nothing.                *)
LEMMA LeaveEffect ==
  ASSUME TypeOK, NEW p \in Pollers, Leave(p)
  PROVE  /\ poller'[p].pc \in {"idle", "scan"}
         /\ poller'[p].batch \subseteq poller[p].batch
         /\ poller'[p].pc = "idle" <=> poller'[p].batch = {}
         /\ \A q \in Pollers \ {p} : poller'[q] = poller[q] /\ Event(q)' = Event(q)
         /\ poller' \in [Pollers -> PollerState]
<1> DEFINE rest == poller[p].batch \ {Event(p)}
           left == IF rest = {} THEN Idle ELSE [pc |-> "scan", batch |-> rest]
<1>1. poller' = [poller EXCEPT ![p] = left]
  BY DEF Leave
<1>2. rest \subseteq poller[p].batch /\ poller[p].batch \subseteq Events
  BY DEF TypeOK, PollerState
<1>3. /\ left \in PollerState
      /\ left.pc \in {"idle", "scan"}
      /\ left.batch \subseteq poller[p].batch
      /\ left.pc = "idle" <=> left.batch = {}
  BY <1>2 DEF Idle, PollerState, Pcs
<1> HIDE DEF rest, left
<1>4. /\ poller'[p] = left
      /\ \A q \in Pollers \ {p} : poller'[q] = poller[q]
      /\ poller' \in [Pollers -> PollerState]
  BY <1>1, <1>3 DEF TypeOK
<1> QED
  BY <1>3, <1>4 DEF Event

(* A poller that is not idle has an existing row in hand.                  *)
LEMMA BusyEvent ==
  ASSUME TypeOK, BatchesOK, NEW p \in Pollers, ~At(p, "idle")
  PROVE  Event(p) \in Events /\ Event(p) \in poller[p].batch /\ row[Event(p)] # "none"
  BY EventInBatch DEF TypeOK, PollerState, BatchesOK

(* Types and batches survive every step of run_once, the replay and the    *)
(* purge.                                                                  *)
LEMMA NextTyped == TypeOK /\ BatchesOK /\ [Next]_vars => TypeOK' /\ BatchesOK'
<1> USE ConstantsAssumption
<1> SUFFICES ASSUME TypeOK, BatchesOK, [Next]_vars PROVE TypeOK' /\ BatchesOK'
  OBVIOUS
<1>1. ASSUME NEW e \in Events, Append(e) PROVE TypeOK' /\ BatchesOK'
  BY <1>1 DEF Append, TypeOK, BatchesOK, At
<1>2. ASSUME NEW S \in SUBSET Events, Replay(S) \/ Purge(S) PROVE TypeOK' /\ BatchesOK'
  BY <1>2 DEF Replay, Purge, TypeOK, BatchesOK, At, PollerState
<1>3. ASSUME NEW p \in Pollers, PollerStep(p) \/ PollerFault(p)
      PROVE  TypeOK' /\ BatchesOK'
  <2>1. ~At(p, "idle") => Event(p) \in Events
    BY BusyEvent
  <2>2. CASE Snapshot(p)
    <3>1. OldestPending \subseteq Pending /\ OldestPending # {}
      <4>1. Pending \subseteq Nat /\ Pending # {}
        BY <2>2 DEF Snapshot, Pending, Events
      <4>2. PICK m \in Pending : \A x \in Pending : <<x, m>> \notin OpToRel(<, Nat)
        BY <4>1, NatLessThanWellFounded, WFMin, Zenon
      <4>3. {f \in Pending : f < m} = {}
        <5> SUFFICES ASSUME NEW x \in Pending, x < m PROVE FALSE
          OBVIOUS
        <5>1. x \in Nat /\ m \in Nat
          BY <4>1
        <5>2. <<x, m>> \in {s \in Nat \X Nat : s[1] < s[2]}
          BY <5>1
        <5> QED
          BY <4>2, <5>2 DEF OpToRel
      <4>4. Cardinality({f \in Pending : f < m}) < BatchSize
        BY <4>3, FS_EmptySet
      <4>5. m \in OldestPending
        BY <4>4, Zenon DEF OldestPending
      <4> QED
        BY <4>5 DEF OldestPending
    <3>2. poller' = [poller EXCEPT ![p] = [pc |-> "scan", batch |-> OldestPending]]
      BY <2>2 DEF Snapshot
    <3>3. OldestPending \in SUBSET Events /\ \A e \in OldestPending : row[e] # "none"
      BY <3>1 DEF Pending
    <3> HIDE DEF OldestPending
    <3> QED
      BY <2>2, <3>1, <3>2, <3>3 DEF Snapshot, TypeOK, BatchesOK, PollerState, Pcs, At
  <2>3. CASE Crash(p)
    BY <2>3 DEF Crash, Fault, TypeOK, BatchesOK, PollerState, Pcs, Idle, At
  <2>4. ASSUME row' \in [Events -> {"none", "pending", "sent", "failed", "purged"}],
               \A e \in Events : row'[e] = "none" => row[e] = "none",
               (\E pc \in Pcs \ {"idle"} : Goto(p, pc) /\ ~At(p, "idle")) \/ Leave(p)
        PROVE  poller' \in [Pollers -> PollerState] /\ BatchesOK'
    <3>1. CASE Leave(p)
      BY <2>4, <3>1, LeaveEffect DEF TypeOK, BatchesOK, At, PollerState
    <3>2. ASSUME NEW pc \in Pcs \ {"idle"}, Goto(p, pc), ~At(p, "idle")
          PROVE  poller' \in [Pollers -> PollerState] /\ BatchesOK'
      <4>1. /\ poller'[p] = [pc |-> pc, batch |-> poller[p].batch]
            /\ \A q \in Pollers \ {p} : poller'[q] = poller[q]
            /\ poller' \in [Pollers -> PollerState]
        BY <3>2, GotoEffect
      <4>2. poller'[p].pc # "idle" /\ poller'[p].batch = poller[p].batch
        BY <4>1
      <4>3. \A q \in Pollers : \A e \in poller[q].batch : e \in Events
        BY DEF TypeOK, PollerState
      <4> QED
        BY <2>4, <3>2, <4>1, <4>2, <4>3 DEF BatchesOK, At
    <3> QED
      BY <2>4, <3>1, <3>2
  <2>5. CASE Lock(p) \/ LockFails(p)
    BY <2>4, <2>5 DEF Lock, LockFails, Fault, TypeOK, Pcs, At
  <2>6. CASE UnknownTopic(p)
    BY <2>1, <2>4, <2>6 DEF UnknownTopic, TypeOK, At
  <2>7. CASE Publish(p)
    BY <2>1, <2>4, <2>7 DEF Publish, TypeOK, Pcs, At
  <2>8. CASE PublishFails(p)
    BY <2>4, <2>8 DEF PublishFails, Fault, TypeOK, Pcs, At
  <2>9. CASE Commit(p)
    BY <2>1, <2>4, <2>9 DEF Commit, TypeOK, At
  <2>10. CASE CommitFails(p)
    BY <2>1, <2>4, <2>10 DEF CommitFails, Fault, TypeOK, Pcs, At
  <2>11. CASE RecordFailure(p)
    BY <2>1, <2>4, <2>11 DEF RecordFailure, TypeOK, At
  <2>12. CASE RecordFailureFails(p)
    BY <2>4, <2>12 DEF RecordFailureFails, Fault, TypeOK, At
  <2> QED
    BY <1>3, <2>2, <2>3, <2>5, <2>6, <2>7, <2>8, <2>9, <2>10, <2>11, <2>12
    DEF PollerStep, PollerFault
<1>4. CASE UNCHANGED vars
  BY <1>4 DEF vars, TypeOK, BatchesOK, At
<1> QED
  BY <1>1, <1>2, <1>3, <1>4 DEF Next

-------------------------------------------------------------------------------
(* What a step of p leaves alone, and the four things it may do to the row  *)
(* at hand.                                                                 *)
Others(p) ==
  /\ \A q \in Pollers \ {p} : poller'[q] = poller[q] /\ Event(q)' = Event(q)
  /\ \A e \in Events : e # Event(p) => row'[e] = row[e]

Takes(p) ==
  /\ row[Event(p)] = "pending" /\ ~Locked(Event(p))
  /\ poller'[p].pc = "locked" /\ Event(p)' = Event(p)
  /\ UNCHANGED <<row, published, retries, faults, replays>>

Relays(p) ==
  /\ At(p, "locked") /\ poller'[p].pc = "published" /\ Event(p)' = Event(p)
  /\ published' = [published EXCEPT ![Event(p)] = @ + 1]
  /\ UNCHANGED <<row, retries, faults, replays>>

Releases(p) ==
  /\ poller'[p].pc \notin {"locked", "published"}
  /\ ~At(p, "idle") /\ UNCHANGED <<published, replays>>
  /\ \/ UNCHANGED <<row, retries>> /\ faults' = faults + 1
     \/ UNCHANGED <<row, retries, faults>> /\ ~At(p, "published")
     \/ /\ At(p, "published") /\ row' = [row EXCEPT ![Event(p)] = "sent"]
        /\ retries' = retries /\ faults' \in {faults, faults + 1}
     \/ /\ At(p, "locked") /\ Event(p) \in Unmapped
        /\ row' = [row EXCEPT ![Event(p)] = "failed"] /\ UNCHANGED <<retries, faults>>
     \/ /\ At(p, "failing") /\ ~Locked(Event(p)) /\ row[Event(p)] # "purged"
        /\ retries' = [retries EXCEPT ![Event(p)] = @ + 1]
        /\ row' = IF retries[Event(p)] + 1 >= MaxRetries
                  THEN [row EXCEPT ![Event(p)] = "failed"] ELSE row
        /\ UNCHANGED faults

(* Every step but the snapshot takes a row, relays it or releases it.      *)
LEMMA PollerEffect ==
  ASSUME TypeOK, BatchesOK, NEW p \in Pollers, PollerStep(p) \/ PollerFault(p),
         ~Snapshot(p)
  PROVE  Others(p) /\ (Takes(p) \/ Relays(p) \/ Releases(p))
<1>1. ~At(p, "idle") /\ Event(p) \in Events
  <2>1. ~At(p, "idle")
    BY DEF PollerStep, PollerFault, Lock, LockFails, UnknownTopic, Publish, PublishFails,
       Commit, CommitFails, RecordFailure, RecordFailureFails, Crash, At
  <2> QED
    BY <2>1, BusyEvent
<1>2. Leave(p) =>
        /\ poller'[p].pc \notin {"locked", "published"}
        /\ \A q \in Pollers \ {p} : poller'[q] = poller[q] /\ Event(q)' = Event(q)
  BY LeaveEffect
<1>3. \A pc \in Pcs : Goto(p, pc) =>
        /\ poller'[p].pc = pc /\ Event(p)' = Event(p)
        /\ \A q \in Pollers \ {p} : poller'[q] = poller[q] /\ Event(q)' = Event(q)
  <2> TAKE pc \in Pcs
  <2> HAVE Goto(p, pc)
  <2>1. /\ poller'[p] = [pc |-> pc, batch |-> poller[p].batch]
        /\ Event(p)' = Event(p)
        /\ \A q \in Pollers \ {p} : poller'[q] = poller[q] /\ Event(q)' = Event(q)
    BY GotoEffect
  <2>2. poller'[p].pc = pc
    BY <2>1
  <2> QED
    BY <2>1, <2>2
<1> USE DEF TypeOK
<1>4. CASE Lock(p)
  BY <1>1, <1>2, <1>3, <1>4 DEF Lock, Others, Takes, Releases, Pcs, At
<1>5. CASE Publish(p)
  BY <1>3, <1>5 DEF Publish, Others, Relays, Pcs
<1>6. CASE LockFails(p) \/ PublishFails(p)
  BY <1>1, <1>3, <1>6 DEF LockFails, PublishFails, Fault, Others, Releases, Pcs, At
<1>7. CASE CommitFails(p)
  BY <1>1, <1>3, <1>7 DEF CommitFails, Fault, Others, Releases, Pcs, At
<1>8. CASE UnknownTopic(p) \/ Commit(p)
  BY <1>1, <1>2, <1>8 DEF UnknownTopic, Commit, Others, Releases, At
<1>9. CASE RecordFailureFails(p)
  BY <1>1, <1>2, <1>9 DEF RecordFailureFails, Fault, Others, Releases, At
<1>10. CASE RecordFailure(p)
  <2>1. CASE row[Event(p)] = "purged"
    BY <1>1, <1>2, <1>10, <2>1 DEF RecordFailure, Others, Releases, At
  <2>2. CASE row[Event(p)] # "purged"
    BY <1>1, <1>2, <1>10, <2>2 DEF RecordFailure, Others, Releases, At
  <2> QED
    BY <2>1, <2>2
<1>11. CASE Crash(p)
  <2>1. /\ \A q \in Pollers \ {p} : poller'[q] = poller[q] /\ Event(q)' = Event(q)
        /\ poller'[p].pc = "idle"
    BY <1>11 DEF Crash, Idle, Event
  <2> QED
    BY <1>1, <1>11, <2>1 DEF Crash, Fault, Others, Releases
<1> QED
  BY <1>4, <1>5, <1>6, <1>7, <1>8, <1>9, <1>10, <1>11 DEF PollerStep, PollerFault

(* The snapshot query changes nothing but the poller that made it.         *)
LEMMA SnapshotEffect ==
  ASSUME TypeOK, NEW p \in Pollers, Snapshot(p)
  PROVE  /\ poller'[p].pc = "scan" /\ At(p, "idle")
         /\ \A q \in Pollers \ {p} : poller'[q] = poller[q] /\ Event(q)' = Event(q)
         /\ UNCHANGED <<row, retries, published, faults, replays>>
<1>1. /\ poller'[p].pc = "scan" /\ At(p, "idle")
      /\ \A q \in Pollers \ {p} : poller'[q] = poller[q]
      /\ UNCHANGED <<row, retries, published, faults, replays>>
  BY DEF Snapshot, TypeOK
<1> QED
  BY <1>1 DEF Event

(* SKIP LOCKED: no step gives a row a second holder, and nobody changes    *)
(* the status of a row under the holder of its lock.                       *)
LEMMA NextLocks == TypeOK /\ BatchesOK /\ LocksOK /\ [Next]_vars => LocksOK'
<1> SUFFICES ASSUME TypeOK, BatchesOK, LocksOK, [Next]_vars PROVE LocksOK'
  OBVIOUS
<1>1. CASE \/ \E e \in Events : Append(e)
           \/ \E S \in SUBSET Events : Replay(S) \/ Purge(S)
           \/ UNCHANGED vars
  <2>1. poller' = poller /\ \A e \in Events : row[e] = "pending" => row'[e] = "pending"
    BY <1>1 DEF Append, Replay, Purge, vars, TypeOK
  <2> QED
    BY <2>1 DEF LocksOK, Locks, Event
<1>2. ASSUME NEW p \in Pollers, Snapshot(p) PROVE LocksOK'
  BY <1>2, SnapshotEffect DEF LocksOK, Locks
<1>3. ASSUME NEW p \in Pollers, PollerStep(p) \/ PollerFault(p), ~Snapshot(p)
      PROVE  LocksOK'
  <2>1. Others(p) /\ (Takes(p) \/ Relays(p) \/ Releases(p))
    BY <1>3, PollerEffect
  <2>2. \A q \in Pollers \ {p} : \A e \in Events : Locks(q, e)' <=> Locks(q, e)
    BY <2>1 DEF Others, Locks
  <2>3. CASE Takes(p)
    <3>1. \A e \in Events : Locks(p, e)' => e = Event(p)
      BY <2>3 DEF Takes, Locks
    <3>2. \A q \in Pollers : ~Locks(q, Event(p))
      BY <2>3 DEF Takes, Locked
    <3> QED
      BY <2>2, <2>3, <3>1, <3>2 DEF Takes, LocksOK
  <2>4. CASE Relays(p)
    <3>1. \A e \in Events : Locks(p, e)' <=> Locks(p, e)
      BY <2>4 DEF Relays, Locks, At
    <3> QED
      BY <2>2, <2>4, <3>1 DEF Relays, LocksOK
  <2>5. CASE Releases(p)
    <3>1. \A e \in Events : ~Locks(p, e)'
      BY <2>5 DEF Releases, Locks
    <3>2. \A q \in Pollers \ {p} : \A e \in Events : Locks(q, e) => row'[e] = row[e]
      <4> SUFFICES ASSUME NEW q \in Pollers \ {p}, Locks(q, Event(p)), Event(p) \in Events
                   PROVE  row' = row
        BY <2>1 DEF Others
      <4>1. Locked(Event(p)) /\ ~Locks(p, Event(p))
        BY DEF LocksOK, Locked
      <4> QED
        BY <2>5, <4>1 DEF Releases, Locks, At
    <3> QED
      BY <2>2, <3>1, <3>2 DEF LocksOK
  <2> QED
    BY <2>1, <2>3, <2>4, <2>5
<1> QED
  BY <1>1, <1>2, <1>3 DEF Next, PollerStep

(* Who is between publication and commit after a step of p.                *)
LEMMA RelayingAfter ==
  ASSUME TypeOK, BatchesOK, LocksOK, NEW p \in Pollers, Others(p)
  PROVE  /\ Takes(p) => \A e \in Events : Relaying(e)' <=> Relaying(e)
         /\ Relays(p) =>
              \A e \in Events : Relaying(e)' <=> Relaying(e) \/ e = Event(p)
         /\ Releases(p) =>
              \A e \in Events :
                Relaying(e)' <=> Relaying(e) /\ ~(At(p, "published") /\ e = Event(p))
<1>1. \A q \in Pollers \ {p} : \A e \in Events :
        At(q, "published")' /\ Event(q)' = e <=> At(q, "published") /\ Event(q) = e
  BY DEF Others, At
<1>2. ASSUME Takes(p) PROVE \A e \in Events : Relaying(e)' <=> Relaying(e)
  <2>1. ~At(p, "published")'
    BY <1>2 DEF Takes, At
  <2>2. ~(At(p, "published"))
    BY <1>2 DEF Takes, Locked, Locks, At
  <2> QED
    BY <1>1, <2>1, <2>2 DEF Relaying
<1>3. ASSUME Relays(p)
      PROVE  \A e \in Events : Relaying(e)' <=> Relaying(e) \/ e = Event(p)
  BY <1>1, <1>3 DEF Relays, Relaying, At
<1>4. ASSUME Releases(p)
      PROVE  \A e \in Events :
               Relaying(e)' <=> Relaying(e) /\ ~(At(p, "published") /\ e = Event(p))
  <2>1. ~At(p, "published")'
    BY <1>4 DEF Releases, At
  <2>2. \A q \in Pollers \ {p} : \A e \in Events :
          At(q, "published") /\ Event(q) = e => ~(At(p, "published") /\ e = Event(p))
    BY DEF LocksOK, Locks, At
  <2> QED
    BY <1>1, <2>1, <2>2 DEF Relaying
<1> QED
  BY <1>2, <1>3, <1>4

(* A copy beyond the first is paid for by a fault or by a replay.          *)
LEMMA NextCopies ==
  TypeOK /\ BatchesOK /\ LocksOK /\ CopiesOK /\ [Next]_vars => CopiesOK'
<1> SUFFICES ASSUME TypeOK, BatchesOK, LocksOK, CopiesOK, [Next]_vars PROVE CopiesOK'
  OBVIOUS
<1> USE ConstantsAssumption
<1> faults \in Nat /\ replays \in Nat /\ published \in [Events -> Nat]
  BY DEF TypeOK
<1>1. ASSUME NEW d \in Events, Append(d) PROVE CopiesOK'
  <2>1. \A e \in Events : Relaying(e)' <=> Relaying(e)
    BY <1>1 DEF Append, Relaying, At, Event
  <2> QED
    BY <1>1, <2>1 DEF Append, CopiesOK, TypeOK
<1>2. ASSUME NEW S \in SUBSET Events, Replay(S) \/ Purge(S) PROVE CopiesOK'
  <2>1. \A e \in Events : Relaying(e)' <=> Relaying(e)
    BY <1>2 DEF Replay, Purge, Relaying, At, Event
  <2> QED
    BY <1>2, <2>1 DEF Replay, Purge, CopiesOK, TypeOK
<1>3. ASSUME NEW p \in Pollers, Snapshot(p) PROVE CopiesOK'
  <2>1. \A e \in Events : Relaying(e)' <=> Relaying(e)
    BY <1>3, SnapshotEffect DEF Relaying, At
  <2> QED
    BY <1>3, <2>1, SnapshotEffect DEF CopiesOK
<1>4. ASSUME NEW p \in Pollers, PollerStep(p) \/ PollerFault(p), ~Snapshot(p)
      PROVE  CopiesOK'
  <2>1. Others(p) /\ (Takes(p) \/ Relays(p) \/ Releases(p))
    BY <1>4, PollerEffect
  <2>2. ~At(p, "idle") => Event(p) \in Events /\ row[Event(p)] # "none"
    BY BusyEvent
  <2>3. CASE Takes(p)
    BY <2>1, <2>3, RelayingAfter DEF Takes, CopiesOK
  <2>4. CASE Relays(p)
    <3>1. Event(p) \in Events /\ row[Event(p)] = "pending" /\ ~Relaying(Event(p))
      BY <2>2, <2>4 DEF Relays, LocksOK, Locks, Relaying, At
    <3>2. \A e \in Events : Relaying(e)' <=> Relaying(e) \/ e = Event(p)
      BY <2>1, <2>4, RelayingAfter
    <3>3. \A e \in Events :
            published'[e] = IF e = Event(p) THEN published[e] + 1 ELSE published[e]
      BY <2>4, <3>1 DEF Relays
    <3>4. row' = row /\ retries' = retries /\ faults' = faults /\ replays' = replays
      BY <2>4 DEF Relays
    <3>5. ASSUME NEW e \in Events
          PROVE  /\ published'[e] <= 1 + faults + replays
                 /\ row[e] = "none" => published'[e] = 0 /\ retries[e] = 0
                 /\ row[e] = "pending" /\ ~Relaying(e)' => published'[e] <= faults + replays
      <4>1. published[e] \in Nat
        OBVIOUS
      <4>2. CASE e = Event(p)
        <5>1. published[e] <= faults + replays /\ row[e] = "pending"
          BY <3>1, <4>2 DEF CopiesOK
        <5> QED
          BY <3>2, <3>3, <4>1, <4>2, <5>1
      <4>3. CASE e # Event(p)
        BY <3>2, <3>3, <4>3 DEF CopiesOK
      <4> QED
        BY <4>2, <4>3
    <3> QED
      BY <3>4, <3>5 DEF CopiesOK
  <2>5. CASE Releases(p)
    <3>1. faults' \in Nat /\ faults <= faults' /\ replays' = replays /\ published' = published
      BY <2>5 DEF Releases
    <3>2. \A e \in Events : row'[e] = "none" => row[e] = "none" /\ retries'[e] = retries[e]
      BY <2>2, <2>5 DEF Releases, TypeOK
    <3>3. ASSUME NEW e \in Events, row'[e] = "pending", ~Relaying(e)'
          PROVE  row[e] = "pending" /\ (~Relaying(e) \/ faults' = faults + 1)
      BY <2>1, <2>2, <2>5, <3>3, RelayingAfter DEF Releases, TypeOK, At
    <3> QED
      BY <3>1, <3>2, <3>3 DEF CopiesOK
  <2> QED
    BY <2>1, <2>3, <2>4, <2>5
<1>5. CASE UNCHANGED vars
  BY <1>5 DEF vars, CopiesOK, Relaying, At, Event
<1> QED
  BY <1>1, <1>2, <1>3, <1>4, <1>5 DEF Next, PollerStep

(* Only _record_failure and the unknown topic quarantine a row, and a row  *)
(* is replayed with its counter reset.                                     *)
LEMMA NextQuarantine ==
  OInv /\ [Next]_vars => QuarantineIsEarned'
<1> SUFFICES ASSUME OInv, [Next]_vars PROVE QuarantineIsEarned'
  OBVIOUS
<1> USE ConstantsAssumption
<1> TypeOK /\ BatchesOK /\ LocksOK /\ CopiesOK /\ QuarantineIsEarned
  BY DEF OInv
<1> row \in [Events -> {"none", "pending", "sent", "failed", "purged"}]
    /\ retries \in [Events -> Nat]
  BY DEF TypeOK
<1>1. ASSUME NEW d \in Events, Append(d) PROVE QuarantineIsEarned'
  <2>1. \A e \in Events : row'[e] = IF e = d THEN "pending" ELSE row[e]
    BY <1>1 DEF Append
  <2>2. retries[d] = 0 /\ retries' = retries
    BY <1>1 DEF Append, CopiesOK
  <2> QED
    BY <2>1, <2>2 DEF QuarantineIsEarned
<1>2. ASSUME NEW S \in SUBSET Events, Replay(S) \/ Purge(S) PROVE QuarantineIsEarned'
  BY <1>2 DEF Replay, Purge, QuarantineIsEarned
<1>3. ASSUME NEW p \in Pollers, Snapshot(p) PROVE QuarantineIsEarned'
  BY <1>3, SnapshotEffect DEF QuarantineIsEarned
<1>4. ASSUME NEW p \in Pollers, PollerStep(p) \/ PollerFault(p), ~Snapshot(p)
      PROVE  QuarantineIsEarned'
  <2>1. Others(p) /\ (Takes(p) \/ Relays(p) \/ Releases(p))
    BY <1>4, PollerEffect
  <2>2. CASE Takes(p) \/ Relays(p)
    BY <2>2 DEF Takes, Relays, QuarantineIsEarned
  <2>3. CASE Releases(p)
    <3>1. CASE UNCHANGED <<row, retries>>
      BY <3>1 DEF QuarantineIsEarned
    <3>2. CASE row' = [row EXCEPT ![Event(p)] = "sent"] /\ retries' = retries
      BY <3>2 DEF QuarantineIsEarned
    <3>3. CASE /\ Event(p) \in Unmapped
               /\ row' = [row EXCEPT ![Event(p)] = "failed"] /\ retries' = retries
      BY <3>3 DEF QuarantineIsEarned
    <3>4. CASE /\ retries' = [retries EXCEPT ![Event(p)] = @ + 1]
               /\ row' = IF retries[Event(p)] + 1 >= MaxRetries
                         THEN [row EXCEPT ![Event(p)] = "failed"] ELSE row
      <4> SUFFICES ASSUME NEW e \in Events \ Unmapped
                   PROVE  /\ row'[e] = "failed" => retries'[e] >= MaxRetries
                          /\ row'[e] = "pending" => retries'[e] < MaxRetries
        BY DEF QuarantineIsEarned
      <4>1. /\ row[e] = "failed" => retries[e] >= MaxRetries
            /\ row[e] = "pending" => retries[e] < MaxRetries
        BY DEF QuarantineIsEarned
      <4>2. CASE e # Event(p)
        BY <3>4, <4>1, <4>2
      <4>3. CASE e = Event(p)
        BY <3>4, <4>1, <4>3
      <4> QED
        BY <4>2, <4>3
    <3> QED
      BY <2>3, <3>1, <3>2, <3>3, <3>4 DEF Releases
  <2> QED
    BY <2>1, <2>2, <2>3
<1>5. CASE UNCHANGED vars
  BY <1>5 DEF vars, QuarantineIsEarned
<1> QED
  BY <1>1, <1>2, <1>3, <1>4, <1>5 DEF Next, PollerStep

-------------------------------------------------------------------------------
(* The start, and the invariant as a whole.                                *)
LEMMA InitOInv == Init => OInv
<1> SUFFICES ASSUME Init PROVE OInv
  OBVIOUS
<1> USE ConstantsAssumption
<1>1. TypeOK
  BY DEF Init, TypeOK, Idle, PollerState, Pcs
<1>2. BatchesOK
  BY DEF Init, BatchesOK, At, Idle
<1>3. LocksOK
  BY DEF Init, LocksOK, Locks, Idle
<1>4. CopiesOK
  BY DEF Init, CopiesOK
<1>5. QuarantineIsEarned
  BY DEF Init, QuarantineIsEarned
<1> QED
  BY <1>1, <1>2, <1>3, <1>4, <1>5 DEF OInv

(* OInv is invariant: the strengthening every theorem below draws on.      *)
THEOREM RelayInvariance == Spec => []OInv
<1>1. OInv /\ [Next]_vars => OInv'
  BY NextTyped, NextLocks, NextCopies, NextQuarantine DEF OInv
<1> QED
  BY InitOInv, <1>1, PTL DEF Spec

(* Statuses, counters and pollers stay in their ranges, whatever fails.    *)
THEOREM RelayTypeCorrect == Spec => []TypeOK
BY RelayInvariance, PTL DEF OInv

(* However many pollers share a snapshot, a row is published again only    *)
(* after a fault or a replay.                                              *)
THEOREM NoneStepsOnAnother == Spec => []NoSpontaneousDuplicate
<1>1. OInv => NoSpontaneousDuplicate
  BY DEF OInv, CopiesOK, NoSpontaneousDuplicate
<1> QED
  BY RelayInvariance, <1>1, PTL

(* A row with a topic is quarantined after MaxRetries recorded failures,   *)
(* and a row that is still pending has attempts left.                      *)
THEOREM QuarantineEarned == Spec => []QuarantineIsEarned
<1>1. OInv => QuarantineIsEarned
  BY DEF OInv
<1> QED
  BY RelayInvariance, <1>1, PTL

-------------------------------------------------------------------------------
(* The rows as EventDelivery sees them.                                    *)
Seen == [e \in Events |->
           IF \E p \in Pollers : At(p, "published") /\ Event(p) = e
           THEN "relayed" ELSE row[e]]

(* Seen, row by row.                                                       *)
LEMMA SeenIs ==
  /\ Seen = [e \in Events |-> Seen[e]]
  /\ \A e \in Events : Seen[e] = IF Relaying(e) THEN "relayed" ELSE row[e]
BY DEF Seen, Relaying

(* Seen after a step, row by row.                                          *)
LEMMA SeenAfter ==
  /\ Seen' = [e \in Events |-> Seen'[e]]
  /\ \A e \in Events : Seen'[e] = IF Relaying(e)' THEN "relayed" ELSE row'[e]
BY DEF Seen, Relaying

(* The steps of EventDelivery in terms of Seen.                            *)
LEMMA DeliveryStep ==
  /\ \A S \in SUBSET Events :
       /\ published' = published
       /\ \/ /\ \A e \in S : Seen[e] = "none"
             /\ Seen' = [e \in Events |-> IF e \in S THEN "pending" ELSE Seen[e]]
          \/ /\ \A e \in S : Seen[e] = "failed"
             /\ Seen' = [e \in Events |-> IF e \in S THEN "pending" ELSE Seen[e]]
          \/ /\ \A e \in S : Seen[e] = "sent"
             /\ Seen' = [e \in Events |-> IF e \in S THEN "purged" ELSE Seen[e]]
       => Delivery!Next
  /\ \A e \in Events :
       \/ /\ Seen[e] = "pending" /\ Seen' = [Seen EXCEPT ![e] = "relayed"]
          /\ published' = [published EXCEPT ![e] = @ + 1]
       \/ /\ published' = published
          /\ \/ Seen[e] = "relayed" /\ Seen' = [Seen EXCEPT ![e] = "sent"]
             \/ Seen[e] = "relayed" /\ Seen' = [Seen EXCEPT ![e] = "pending"]
             \/ Seen[e] \in {"pending", "sent"} /\ Seen' = [Seen EXCEPT ![e] = "failed"]
       => Delivery!Next
  /\ Seen' = Seen /\ published' = published => UNCHANGED Delivery!vars
<1>1. ASSUME NEW S \in SUBSET Events, published' = published,
             \/ /\ \A e \in S : Seen[e] = "none"
                /\ Seen' = [e \in Events |-> IF e \in S THEN "pending" ELSE Seen[e]]
             \/ /\ \A e \in S : Seen[e] = "failed"
                /\ Seen' = [e \in Events |-> IF e \in S THEN "pending" ELSE Seen[e]]
             \/ /\ \A e \in S : Seen[e] = "sent"
                /\ Seen' = [e \in Events |-> IF e \in S THEN "purged" ELSE Seen[e]]
      PROVE  Delivery!Next
  <2>1. Delivery!Append(S) \/ Delivery!Replay(S) \/ Delivery!Purge(S)
    BY <1>1, Zenon DEF Delivery!Append, Delivery!Replay, Delivery!Purge, Seen
  <2> QED
    BY <2>1, Zenon DEF Delivery!Next
<1>2. ASSUME NEW e \in Events,
             \/ /\ Seen[e] = "pending" /\ Seen' = [Seen EXCEPT ![e] = "relayed"]
                /\ published' = [published EXCEPT ![e] = @ + 1]
             \/ /\ published' = published
                /\ \/ Seen[e] = "relayed" /\ Seen' = [Seen EXCEPT ![e] = "sent"]
                   \/ Seen[e] = "relayed" /\ Seen' = [Seen EXCEPT ![e] = "pending"]
                   \/ Seen[e] \in {"pending", "sent"} /\ Seen' = [Seen EXCEPT ![e] = "failed"]
      PROVE  Delivery!Next
  <2>1. \/ Delivery!Publish(e) \/ Delivery!Confirm(e) \/ Delivery!Rollback(e)
        \/ Delivery!Quarantine(e)
    BY <1>2, Zenon DEF Delivery!Publish, Delivery!Confirm, Delivery!Rollback,
       Delivery!Quarantine, Seen
  <2> QED
    BY <2>1, Zenon DEF Delivery!Next
<1>3. Seen' = Seen /\ published' = published => UNCHANGED Delivery!vars
  BY Zenon DEF Delivery!vars, Seen
<1> QED
  BY <1>1, <1>2, <1>3, Zenon

(* Every step of the relay is a step of EventDelivery, or none.            *)
LEMMA StepDelivers ==
  OInv /\ [Next]_vars => [Delivery!Next]_(Delivery!vars)
<1> SUFFICES ASSUME OInv, [Next]_vars PROVE [Delivery!Next]_(Delivery!vars)
  OBVIOUS
<1> TypeOK /\ BatchesOK /\ LocksOK
  BY DEF OInv
<1>1. \A e \in Events : Relaying(e) => row[e] = "pending"
  BY DEF Relaying, LocksOK, Locks, At
<1>2. ASSUME NEW d \in Events, Append(d) PROVE Delivery!Next
  <2>1. \A e \in Events : Relaying(e)' <=> Relaying(e)
    BY <1>2 DEF Append, Relaying, At, Event
  <2>2. /\ published' = published
        /\ \A e \in {d} : Seen[e] = "none"
        /\ Seen' = [e \in Events |-> IF e \in {d} THEN "pending" ELSE Seen[e]]
    <3>1. /\ published' = published /\ row[d] = "none"
          /\ \A e \in Events : row'[e] = IF e = d THEN "pending" ELSE row[e]
      BY <1>2 DEF Append, TypeOK
    <3>2. ~Relaying(d)
      BY <1>1, <3>1
    <3>3. \A e \in Events : Seen'[e] = IF e = d THEN "pending" ELSE Seen[e]
      BY <2>1, <3>1, <3>2, SeenIs, SeenAfter
    <3>4. Seen[d] = "none"
      BY <3>1, <3>2, SeenIs
    <3> QED
      BY <3>1, <3>3, <3>4, SeenAfter
  <2> {d} \in SUBSET Events
    OBVIOUS
  <2> DEFINE S == {d}
  <2> HIDE DEF S
  <2> QED
    BY <2>2, DeliveryStep, Zenon DEF S
<1>3. ASSUME NEW S \in SUBSET Events, Replay(S) \/ Purge(S) PROVE Delivery!Next
  <2>1. \A e \in Events : Relaying(e)' <=> Relaying(e)
    BY <1>3 DEF Replay, Purge, Relaying, At, Event
  <2>2. /\ published' = published
        /\ \/ /\ \A e \in S : Seen[e] = "failed"
              /\ Seen' = [e \in Events |-> IF e \in S THEN "pending" ELSE Seen[e]]
           \/ /\ \A e \in S : Seen[e] = "sent"
              /\ Seen' = [e \in Events |-> IF e \in S THEN "purged" ELSE Seen[e]]
    BY <1>1, <1>3, <2>1, SeenIs, SeenAfter DEF Replay, Purge, TypeOK
  <2> DEFINE back == [e \in Events |-> IF e \in S THEN "pending" ELSE Seen[e]]
             gone == [e \in Events |-> IF e \in S THEN "purged" ELSE Seen[e]]
  <2> HIDE DEF back, gone
  <2>3. CASE (\A e \in S : Seen[e] = "failed") /\ Seen' = back
    BY <2>2, <2>3, DeliveryStep, Zenon DEF back
  <2>4. CASE (\A e \in S : Seen[e] = "sent") /\ Seen' = gone
    BY <2>2, <2>4, DeliveryStep, Zenon DEF gone
  <2> QED
    BY <2>2, <2>3, <2>4, Zenon DEF back, gone
<1>4. ASSUME published' = published, row' = row, \A e \in Events : Relaying(e)' <=> Relaying(e)
      PROVE  UNCHANGED Delivery!vars
  <2>1. Seen' = Seen
    BY <1>4, SeenIs, SeenAfter
  <2> QED
    BY <1>4, <2>1, DeliveryStep, Zenon
<1>5. ASSUME NEW p \in Pollers, Snapshot(p) PROVE UNCHANGED Delivery!vars
  <2>1. \A e \in Events : Relaying(e)' <=> Relaying(e)
    BY <1>5, SnapshotEffect DEF Relaying, At
  <2> QED
    BY <1>4, <1>5, <2>1, SnapshotEffect
<1>6. ASSUME NEW p \in Pollers, PollerStep(p) \/ PollerFault(p), ~Snapshot(p)
      PROVE  [Delivery!Next]_(Delivery!vars)
  <2>1. Others(p) /\ (Takes(p) \/ Relays(p) \/ Releases(p))
    BY <1>6, PollerEffect
  <2>2. ~At(p, "idle") => Event(p) \in Events /\ row[Event(p)] # "none"
    BY BusyEvent
  <2>3. CASE Takes(p)
    BY <1>4, <2>1, <2>3, RelayingAfter DEF Takes
  <2>4. CASE Relays(p)
    <3>1. Event(p) \in Events /\ row[Event(p)] = "pending" /\ ~Relaying(Event(p))
      BY <2>2, <2>4 DEF Relays, LocksOK, Locks, Relaying, At
    <3>2. \A e \in Events : Relaying(e)' <=> Relaying(e) \/ e = Event(p)
      BY <2>1, <2>4, RelayingAfter
    <3>3. /\ Seen[Event(p)] = "pending" /\ Seen' = [Seen EXCEPT ![Event(p)] = "relayed"]
          /\ published' = [published EXCEPT ![Event(p)] = @ + 1]
      BY <2>4, <3>1, <3>2, SeenIs, SeenAfter DEF Relays
    <3> QED
      BY <3>1, <3>3, DeliveryStep, Zenon
  <2>5. CASE Releases(p)
    <3>1. Event(p) \in Events /\ row[Event(p)] # "none"
      BY <2>2, <2>5 DEF Releases
    <3>2. \A e \in Events :
            Relaying(e)' <=> Relaying(e) /\ ~(At(p, "published") /\ e = Event(p))
      BY <2>1, <2>5, RelayingAfter
    <3>3. CASE At(p, "published")
      <4>1. Relaying(Event(p)) /\ row[Event(p)] = "pending"
        BY <1>1, <3>1, <3>3 DEF Relaying
      <4>2. published' = published /\ (row' = row \/ row' = [row EXCEPT ![Event(p)] = "sent"])
        BY <2>5, <3>3 DEF Releases, At
      <4>3. /\ Seen[Event(p)] = "relayed"
            /\ \/ Seen' = [Seen EXCEPT ![Event(p)] = "sent"]
               \/ Seen' = [Seen EXCEPT ![Event(p)] = "pending"]
        BY <3>1, <3>2, <3>3, <4>1, <4>2, SeenIs, SeenAfter DEF TypeOK
      <4> QED
        BY <3>1, <4>2, <4>3, DeliveryStep, Zenon
    <3>4. CASE ~At(p, "published")
      <4>1. \A e \in Events : Relaying(e)' <=> Relaying(e)
        BY <3>2, <3>4
      <4>2. CASE row' = row
        BY <1>4, <2>5, <4>1, <4>2 DEF Releases
      <4>3. CASE row' = [row EXCEPT ![Event(p)] = "failed"] /\ row' # row
        <5>1. row[Event(p)] \in {"pending", "sent"} /\ ~Relaying(Event(p))
          <6>1. CASE At(p, "locked")
            BY <3>1, <6>1 DEF LocksOK, Locks, Relaying, At
          <6>2. CASE At(p, "failing") /\ ~Locked(Event(p)) /\ row[Event(p)] # "purged"
            BY <3>1, <4>3, <6>2 DEF Locked, Locks, Relaying, At, TypeOK
          <6> QED
            BY <2>5, <3>4, <4>3, <6>1, <6>2 DEF Releases
        <5>2. published' = published
          BY <2>5 DEF Releases
        <5>3. /\ Seen[Event(p)] \in {"pending", "sent"}
              /\ Seen' = [Seen EXCEPT ![Event(p)] = "failed"]
          <6>1. Seen[Event(p)] = row[Event(p)]
            BY <3>1, <5>1, SeenIs
          <6>2. \A e \in Events : row'[e] = IF e = Event(p) THEN "failed" ELSE row[e]
            BY <4>3 DEF TypeOK
          <6>3. \A e \in Events : Seen'[e] = IF e = Event(p) THEN "failed" ELSE Seen[e]
            BY <4>1, <5>1, <6>2, SeenIs, SeenAfter
          <6> QED
            BY <3>1, <5>1, <6>1, <6>3, SeenIs, SeenAfter
        <5> QED
          BY <3>1, <5>2, <5>3, DeliveryStep, Zenon
      <4> QED
        BY <2>5, <3>4, <4>2, <4>3 DEF Releases
    <3> QED
      BY <3>3, <3>4
  <2> QED
    BY <2>1, <2>3, <2>4, <2>5
<1>7. CASE UNCHANGED vars
  BY <1>4, <1>7 DEF vars, Relaying, At, Event
<1> QED
  BY <1>2, <1>3, <1>5, <1>6, <1>7 DEF Next, PollerStep

(* An empty table is where EventDelivery starts.                           *)
LEMMA InitDelivers == Init => Delivery!Init
<1> SUFFICES ASSUME Init PROVE Delivery!Init
  OBVIOUS
<1>1. /\ Seen = [e \in Events |-> "none"]
      /\ published = [e \in Events |-> 0]
  BY SeenIs DEF Init, Relaying, At, Idle
<1> QED
  BY <1>1, Zenon DEF Delivery!Init, Seen

(* The poller keeps the promise of EventDelivery: at least one copy before *)
(* SENT, and a row that is neither lost nor resurrected by anything but a  *)
(* replay.                                                                 *)
THEOREM Deliverance == Spec => ImplementsDelivery
BY InitDelivers, StepDelivers, RelayInvariance, PTL
DEF Spec, ImplementsDelivery, Delivery!Spec

-------------------------------------------------------------------------------
(* The recurring rules.  First the row locks: a scheduler holds what it    *)
(* read until it commits, and moves a rule on only together with the       *)
(* transaction of the occurrence it leaves behind.  Then the dates: what   *)
(* is booked lies behind the rule, and the rule is at a date that its      *)
(* schedule names.                                                         *)

(* A session: its fields, and the columns in memory, one row for each rule.*)
Session(s) ==
  /\ \E pc, day, batch, held, pending, failed, st, nx, new :
       s = [pc |-> pc, day |-> day, batch |-> batch, held |-> held, pending |-> pending,
            failed |-> failed, status |-> st, next |-> nx, new |-> new]
  /\ s.next = [r \in Rules |-> s.next[r]]
  /\ s.status = [r \in Rules |-> s.status[r]]
  /\ s.held \subseteq Rules

(* What the entities in memory look like.  Nothing is said of the dates    *)
(* themselves: the argument does not depend on the calendar.               *)
Shape ==
  /\ status = [r \in Rules |-> status[r]]
  /\ next = [r \in Rules |-> next[r]]
  /\ job = [j \in Jobs |-> job[j]]
  /\ \A j \in Jobs : Session(job[j])

(* FOR UPDATE SKIP LOCKED: no row is held by two schedulers.               *)
HeldByOne ==
  \A j, k \in Jobs : j # k => job[j].held \cap job[k].held = {}

(* A rule moved in memory has the occurrence it left among the new ones.   *)
MovedIsNew ==
  \A j \in Jobs : \A r \in job[j].held :
    job[j].next[r] # next[r] => <<r, next[r]>> \in job[j].new

HoldInv == Shape /\ HeldByOne /\ HeldRulesAreCurrent /\ MovedIsNew

-------------------------------------------------------------------------------
(* Nothing is held at the start.                                           *)
LEMMA IdleSession == Session(NoJob)
BY DEF NoJob, Session

LEMMA HoldInit == FireInit => HoldInv
<1> SUFFICES ASSUME FireInit
             PROVE  HoldInv
  OBVIOUS
<1>1. /\ status = [r \in Rules |-> status[r]]
      /\ next = [r \in Rules |-> next[r]]
      /\ job = [j \in Jobs |-> job[j]]
  BY DEF FireInit
<1>2. \A j \in Jobs : job[j] = NoJob /\ job[j].held = {}
  BY DEF FireInit, NoJob
<1> QED
  BY <1>1, <1>2, IdleSession DEF HoldInv, Shape, HeldByOne, HeldRulesAreCurrent, MovedIsNew

(* A step of the users, or of the clock, leaves alone every row that is    *)
(* held and everything a scheduler has in memory.                          *)
LEMMA UsersKeep ==
  ASSUME HoldInv, job' = job, Shape',
         \A j \in Jobs : \A r \in job[j].held : status'[r] = status[r] /\ next'[r] = next[r]
  PROVE  HoldInv'
BY DEF HoldInv, HeldByOne, HeldRulesAreCurrent, MovedIsNew, Due

(* A scheduler that drops what it holds leaves the others as they were.    *)
LEMMA DroppedKeeps ==
  ASSUME HoldInv, NEW j \in Jobs, job' = [job EXCEPT ![j] = NoJob],
         status' = [r \in Rules |-> status'[r]], next' = [r \in Rules |-> next'[r]],
         \A k \in Jobs \ {j} : \A r \in job[k].held :
           status'[r] = status[r] /\ next'[r] = next[r]
  PROVE  HoldInv'
<1>1. job'[j] = NoJob /\ \A k \in Jobs \ {j} : job'[k] = job[k]
  BY DEF HoldInv, Shape
<1>2. NoJob.held = {}
  BY DEF NoJob
<1>3. Shape'
  BY <1>1, IdleSession DEF HoldInv, Shape
<1>4. HeldByOne'
  BY <1>1, <1>2 DEF HoldInv, HeldByOne
<1>5. HeldRulesAreCurrent' /\ MovedIsNew'
  BY <1>1, <1>2 DEF HoldInv, HeldRulesAreCurrent, MovedIsNew, Due
<1> QED
  BY <1>3, <1>4, <1>5 DEF HoldInv

(* What the batch query does to its session: due rows that nobody else     *)
(* holds are locked, and those it did not know are read.                   *)
LEMMA Fetched ==
  ASSUME Shape, NEW j \in Jobs, Fetch(j)
  PROVE  \E S \in SUBSET Selectable(j) :
           /\ job' = [k \in Jobs |-> job'[k]]
           /\ \A k \in Jobs \ {j} : job'[k] = job[k]
           /\ Session(job'[j])
           /\ job'[j].held = job[j].held \cup S
           /\ job'[j].day = job[j].day
           /\ job'[j].new = job[j].new
           /\ job'[j].pending \subseteq S
           /\ \A r \in Rules :
                /\ job'[j].next[r] =
                     IF r \in S \ job[j].held THEN next[r] ELSE job[j].next[r]
                /\ job'[j].status[r] =
                     IF r \in S \ job[j].held THEN status[r] ELSE job[j].status[r]
<1>1. PICK S \in SUBSET Selectable(j) :
        LET fresh == S \ job[j].held
            pending == S \ job[j].failed
        IN  job' = [job EXCEPT ![j] =
              [job[j] EXCEPT
                 !.pc = IF pending = {} THEN "commit" ELSE "fire",
                 !.batch = @ + 1,
                 !.held = @ \cup S,
                 !.pending = pending,
                 !.status = [r \in Rules |-> IF r \in fresh THEN status[r] ELSE @[r]],
                 !.next = [r \in Rules |-> IF r \in fresh THEN next[r] ELSE @[r]]]]
  BY DEF Fetch
<1> DEFINE fresh == S \ job[j].held
           pending == S \ job[j].failed
           read(column, memory) == [r \in Rules |-> IF r \in fresh THEN column[r]
                                                     ELSE memory[r]]
<1>2. job' = [job EXCEPT ![j] =
         [job[j] EXCEPT !.pc = IF pending = {} THEN "commit" ELSE "fire",
                        !.batch = @ + 1, !.held = @ \cup S, !.pending = pending,
                        !.status = read(status, job[j].status),
                        !.next = read(next, job[j].next)]]
  BY <1>1
<1>3. PICK old : old = job[j]
  OBVIOUS
<1>4. PICK now : now = job'[j]
  OBVIOUS
<1>5. /\ job' = [k \in Jobs |-> job'[k]]
      /\ \A k \in Jobs \ {j} : job'[k] = job[k]
  BY <1>2 DEF Shape
<1>6. now = [old EXCEPT !.pc = IF pending = {} THEN "commit" ELSE "fire",
                        !.batch = @ + 1, !.held = @ \cup S, !.pending = pending,
                        !.status = read(status, old.status),
                        !.next = read(next, old.next)]
  BY <1>2, <1>3, <1>4 DEF Shape
<1>7. Session(old)
  BY <1>3 DEF Shape
<1>8. /\ Session(now)
      /\ now.held = old.held \cup S
      /\ now.day = old.day
      /\ now.new = old.new
      /\ now.pending = pending
      /\ now.next = read(next, old.next)
      /\ now.status = read(status, old.status)
  <2>1. PICK pc, day, batch, held, wait, failed, st, nx, new :
          old = [pc |-> pc, day |-> day, batch |-> batch, held |-> held,
                 pending |-> wait, failed |-> failed, status |-> st, next |-> nx,
                 new |-> new]
    BY <1>7 DEF Session
  <2> DEFINE to == IF pending = {} THEN "commit" ELSE "fire"
             sts == read(status, st)
             nxs == read(next, nx)
  <2>2. old.status = st /\ old.next = nx
    BY <2>1
  <2>3. now = [old EXCEPT !.pc = to, !.batch = @ + 1, !.held = @ \cup S,
                          !.pending = pending, !.status = sts, !.next = nxs]
    BY <1>6, <2>2
  <2> HIDE DEF to, pending, sts, nxs
  <2>4. now = [pc |-> to, day |-> day, batch |-> batch + 1, held |-> held \cup S,
               pending |-> pending, failed |-> failed, status |-> sts, next |-> nxs,
               new |-> new]
    BY <2>1, <2>3
  <2>5. nxs = [r \in Rules |-> nxs[r]] /\ sts = [r \in Rules |-> sts[r]]
    BY DEF nxs, sts
  <2>6. S \subseteq Rules
    BY DEF Selectable
  <2>7. Session(now)
    BY <1>7, <2>1, <2>4, <2>5, <2>6 DEF Session
  <2> QED
    BY <2>1, <2>2, <2>4, <2>7 DEF nxs, sts
<1>9. now.pending \subseteq S
  BY <1>8
<1>10. \A r \in Rules :
         /\ now.next[r] = IF r \in S \ old.held THEN next[r] ELSE old.next[r]
         /\ now.status[r] = IF r \in S \ old.held THEN status[r] ELSE old.status[r]
  BY <1>3, <1>8
<1> QED
  BY <1>3, <1>4, <1>5, <1>8, <1>9, <1>10

(* The batch query takes due rows that nobody else holds.                  *)
LEMMA FetchKeeps ==
  ASSUME HoldInv, NEW j \in Jobs, Fetch(j)
  PROVE  HoldInv'
<1>1. PICK S \in SUBSET Selectable(j) :
        /\ job' = [k \in Jobs |-> job'[k]]
        /\ \A k \in Jobs \ {j} : job'[k] = job[k]
        /\ Session(job'[j])
        /\ job'[j].held = job[j].held \cup S
        /\ job'[j].day = job[j].day
        /\ job'[j].new = job[j].new
        /\ \A r \in Rules : job'[j].next[r] =
             IF r \in S \ job[j].held THEN next[r] ELSE job[j].next[r]
  BY Fetched DEF HoldInv
<1>2. status' = status /\ next' = next
  BY DEF Fetch
<1>3. \A r \in S : /\ r \in Rules /\ Due(r, job[j].day)
                   /\ \A k \in Jobs \ {j} : r \notin job[k].held
  BY DEF Selectable
<1>4. Shape'
  BY <1>1, <1>2 DEF HoldInv, Shape
<1>5. HeldByOne' /\ HeldRulesAreCurrent'
  BY <1>1, <1>2, <1>3 DEF HoldInv, HeldByOne, HeldRulesAreCurrent, Due
<1>6. MovedIsNew'
  <2>1. \A r \in job[j].held : r \in Rules
    BY DEF HoldInv, Shape, Session
  <2>2. \A r \in job'[j].held :
          job'[j].next[r] # next[r] => <<r, next[r]>> \in job'[j].new
    BY <1>1, <1>3, <2>1 DEF HoldInv, MovedIsNew
  <2> QED
    BY <1>1, <1>2, <2>2 DEF HoldInv, MovedIsNew
<1> QED
  BY <1>4, <1>5, <1>6 DEF HoldInv

(* What firing a rule does to its session: the rule moves in memory and    *)
(* the occurrence it was at is new.                                        *)
LEMMA Fired ==
  ASSUME Shape, NEW j \in Jobs, NEW r \in Rules, Fire(j, r)
  PROVE  /\ job' = [k \in Jobs |-> job'[k]]
         /\ \A k \in Jobs \ {j} : job'[k] = job[k]
         /\ Session(job'[j])
         /\ job'[j].held = job[j].held
         /\ job'[j].day = job[j].day
         /\ job'[j].pending = job[j].pending \ {r}
         /\ job'[j].new = job[j].new \cup {<<r, job[j].next[r]>>}
         /\ job'[j].next[r] = NextAfter(job[j].next[r], plan[r], job[j].day)
         /\ \A q \in Rules \ {r} : job'[j].next[q] = job[j].next[q]
         /\ \A q \in Rules : job'[j].status[q] \in {job[j].status[q], "paused"}
<1> DEFINE after == NextAfter(job[j].next[r], plan[r], job[j].day)
           left == job[j].pending \ {r}
           booking == <<r, job[j].next[r]>>
<1>1. job' = [job EXCEPT ![j] =
         [job[j] EXCEPT
            !.pc = Onward(j, r),
            !.pending = left,
            !.new = @ \cup {booking},
            !.next[r] = after,
            !.status[r] = IF r \in Ending /\ after > EndDay THEN "paused" ELSE @]]
  BY DEF Fire
<1> HIDE DEF after, left, booking
<1>2. PICK old : old = job[j]
  OBVIOUS
<1>3. PICK now : now = job'[j]
  OBVIOUS
<1>4. /\ job' = [k \in Jobs |-> job'[k]]
      /\ \A k \in Jobs \ {j} : job'[k] = job[k]
  BY <1>1 DEF Shape
<1>5. now = [old EXCEPT
                !.pc = Onward(j, r),
                !.pending = left,
                !.new = @ \cup {booking},
                !.next[r] = after,
                !.status[r] = IF r \in Ending /\ after > EndDay THEN "paused" ELSE @]
  BY <1>1, <1>2, <1>3 DEF Shape
<1>6. Session(old)
  BY <1>2 DEF Shape
<1>7. /\ Session(now)
      /\ now.held = old.held
      /\ now.day = old.day
      /\ now.pending = left
      /\ now.new = old.new \cup {booking}
      /\ now.next = [old.next EXCEPT ![r] = after]
      /\ \A q \in Rules : now.status[q] \in {old.status[q], "paused"}
  <2>1. PICK pc, day, batch, held, wait, failed, st, nx, new :
          old = [pc |-> pc, day |-> day, batch |-> batch, held |-> held,
                 pending |-> wait, failed |-> failed, status |-> st, next |-> nx,
                 new |-> new]
    BY <1>6 DEF Session
  <2> DEFINE st2 == [st EXCEPT ![r] =
                        IF r \in Ending /\ after > EndDay THEN "paused" ELSE @]
  <2>2. now = [pc |-> Onward(j, r), day |-> day, batch |-> batch, held |-> held,
               pending |-> left, failed |-> failed, status |-> st2,
               next |-> [nx EXCEPT ![r] = after], new |-> new \cup {booking}]
    BY <1>5, <2>1
  <2>3. /\ now.next = [q \in Rules |-> now.next[q]]
        /\ now.status = [q \in Rules |-> now.status[q]]
        /\ \A q \in Rules : now.status[q] \in {old.status[q], "paused"}
    BY <1>6, <2>1, <2>2 DEF Session
  <2>4. /\ now.held = old.held /\ now.day = old.day /\ now.pending = left
        /\ now.new = old.new \cup {booking}
    BY <2>1, <2>2
  <2>5. now.next = [old.next EXCEPT ![r] = after]
    BY <2>1, <2>2
  <2>6. old.held \subseteq Rules
    BY <1>6 DEF Session
  <2>7. Session(now)
    <3>1. \E p2, d2, b2, h2, w2, f2, s2, x2, e2 :
            now = [pc |-> p2, day |-> d2, batch |-> b2, held |-> h2, pending |-> w2,
                   failed |-> f2, status |-> s2, next |-> x2, new |-> e2]
      <4>1. PICK pl, s3, x3, e3 : /\ pl = Onward(j, r) /\ s3 = st2
                                  /\ x3 = [nx EXCEPT ![r] = after]
                                  /\ e3 = new \cup {booking}
        OBVIOUS
      <4>2. PICK w3 : w3 = left
        OBVIOUS
      <4> HIDE DEF st2, left
      <4>3. now = [pc |-> pl, day |-> day, batch |-> batch, held |-> held, pending |-> w3,
                   failed |-> failed, status |-> s3, next |-> x3, new |-> e3]
        BY <2>2, <4>1, <4>2
      <4> QED
        BY <4>3
    <3> QED
      BY <2>3, <2>4, <2>6, <3>1 DEF Session
  <2> QED
    BY <2>3, <2>4, <2>5, <2>7
<1>8. now.next[r] = after /\ \A q \in Rules \ {r} : now.next[q] = old.next[q]
  BY <1>6, <1>7 DEF Session
<1> QED
  BY <1>2, <1>3, <1>4, <1>7, <1>8 DEF after, left, booking

(* Firing a rule moves it in memory and adds the occurrence it was at.     *)
LEMMA FireKeeps ==
  ASSUME HoldInv, NEW j \in Jobs, NEW r \in Rules, Fire(j, r)
  PROVE  HoldInv'
<1>1. /\ job' = [k \in Jobs |-> job'[k]]
      /\ \A k \in Jobs \ {j} : job'[k] = job[k]
      /\ Session(job'[j])
      /\ job'[j].held = job[j].held
      /\ job'[j].day = job[j].day
      /\ job'[j].new = job[j].new \cup {<<r, job[j].next[r]>>}
      /\ \A q \in Rules \ {r} : job'[j].next[q] = job[j].next[q]
  BY Fired DEF HoldInv
<1>2. status' = status /\ next' = next
  BY DEF Fire
<1>3. Shape'
  BY <1>1, <1>2 DEF HoldInv, Shape
<1>4. HeldByOne' /\ HeldRulesAreCurrent'
  BY <1>1, <1>2 DEF HoldInv, HeldByOne, HeldRulesAreCurrent, Due
<1>5. MovedIsNew'
  <2>1. job[j].held \subseteq Rules
    BY DEF HoldInv, Shape, Session
  <2>2. \A q \in job'[j].held :
          job'[j].next[q] # next[q] => <<q, next[q]>> \in job'[j].new
    BY <1>1, <2>1 DEF HoldInv, MovedIsNew
  <2> QED
    BY <1>1, <1>2, <2>2 DEF HoldInv, MovedIsNew
<1> QED
  BY <1>3, <1>4, <1>5 DEF HoldInv

(* What a rule that can not be fired does to its session: it is put aside. *)
LEMMA Skipped ==
  ASSUME Shape, NEW j \in Jobs, NEW r \in Rules, FireFails(j, r)
  PROVE  /\ job' = [k \in Jobs |-> job'[k]]
         /\ \A k \in Jobs \ {j} : job'[k] = job[k]
         /\ Session(job'[j])
         /\ job'[j].held = job[j].held
         /\ job'[j].day = job[j].day
         /\ job'[j].pending = job[j].pending \ {r}
         /\ job'[j].new = job[j].new
         /\ job'[j].next = job[j].next
         /\ job'[j].status = job[j].status
<1>1. job' = [job EXCEPT ![j] =
         [job[j] EXCEPT !.pc = Onward(j, r), !.pending = @ \ {r}, !.failed = @ \cup {r}]]
  BY DEF FireFails
<1>2. PICK old : old = job[j]
  OBVIOUS
<1>3. PICK now : now = job'[j]
  OBVIOUS
<1>4. /\ job' = [k \in Jobs |-> job'[k]]
      /\ \A k \in Jobs \ {j} : job'[k] = job[k]
  BY <1>1 DEF Shape
<1>5. now = [old EXCEPT !.pc = Onward(j, r), !.pending = @ \ {r}, !.failed = @ \cup {r}]
  BY <1>1, <1>2, <1>3 DEF Shape
<1>6. Session(old)
  BY <1>2 DEF Shape
<1>7. /\ Session(now)
      /\ now.held = old.held
      /\ now.day = old.day
      /\ now.pending = old.pending \ {r}
      /\ now.new = old.new
      /\ now.next = old.next
      /\ now.status = old.status
  <2>1. PICK pc, day, batch, held, wait, failed, st, nx, new :
          old = [pc |-> pc, day |-> day, batch |-> batch, held |-> held,
                 pending |-> wait, failed |-> failed, status |-> st, next |-> nx,
                 new |-> new]
    BY <1>6 DEF Session
  <2>2. now = [pc |-> Onward(j, r), day |-> day, batch |-> batch, held |-> held,
               pending |-> wait \ {r}, failed |-> failed \cup {r}, status |-> st,
               next |-> nx, new |-> new]
    BY <1>5, <2>1
  <2> QED
    BY <1>6, <2>1, <2>2 DEF Session
<1> QED
  BY <1>2, <1>3, <1>4, <1>7

(* A rule that can not be fired stays where it was.                        *)
LEMMA FireFailsKeeps ==
  ASSUME HoldInv, NEW j \in Jobs, NEW r \in Rules, FireFails(j, r)
  PROVE  HoldInv'
<1>1. status' = status /\ next' = next
  BY DEF FireFails
<1>2. /\ job' = [k \in Jobs |-> job'[k]]
      /\ \A k \in Jobs \ {j} : job'[k] = job[k]
      /\ Session(job'[j])
      /\ job'[j].held = job[j].held
      /\ job'[j].day = job[j].day
      /\ job'[j].new = job[j].new
      /\ job'[j].next = job[j].next
  BY Skipped DEF HoldInv
<1>3. Shape'
  BY <1>1, <1>2 DEF HoldInv, Shape
<1>4. HeldByOne' /\ HeldRulesAreCurrent' /\ MovedIsNew'
  BY <1>1, <1>2 DEF HoldInv, HeldByOne, HeldRulesAreCurrent, MovedIsNew, Due
<1> QED
  BY <1>3, <1>4 DEF HoldInv

(* A job begins with nothing held.                                         *)
LEMMA StartKeeps ==
  ASSUME HoldInv, NEW j \in Jobs, Start(j)
  PROVE  HoldInv'
<1>1. job' = [job EXCEPT ![j] = [NoJob EXCEPT !.pc = "fetch", !.day = today]]
      /\ status' = status /\ next' = next
  BY DEF Start
<1>2. /\ job'[j].held = {} /\ Session(job'[j])
      /\ job' = [k \in Jobs |-> job'[k]]
      /\ \A k \in Jobs \ {j} : job'[k] = job[k]
  <2>1. PICK day : day = today
    OBVIOUS
  <2>2. PICK begun : begun = [NoJob EXCEPT !.pc = "fetch", !.day = day]
    OBVIOUS
  <2>3. begun.held = {} /\ Session(begun)
    <3>1. PICK idle : idle = NoJob
      OBVIOUS
    <3>2. /\ begun = [idle EXCEPT !.pc = "fetch", !.day = day]
          /\ idle.held = {} /\ Session(idle)
      BY <2>2, <3>1, IdleSession DEF NoJob
    <3>3. PICK pc, d, batch, held, wait, failed, st, nx, new :
            idle = [pc |-> pc, day |-> d, batch |-> batch, held |-> held,
                    pending |-> wait, failed |-> failed, status |-> st, next |-> nx,
                    new |-> new]
      BY <3>2 DEF Session
    <3>4. begun = [pc |-> "fetch", day |-> day, batch |-> batch, held |-> held,
                   pending |-> wait, failed |-> failed, status |-> st, next |-> nx,
                   new |-> new]
      BY <3>2, <3>3
    <3>5. begun.held = idle.held /\ begun.next = idle.next /\ begun.status = idle.status
      BY <3>3, <3>4
    <3> QED
      BY <3>2, <3>4, <3>5 DEF Session
  <2>4. job' = [job EXCEPT ![j] = begun]
    BY <1>1, <2>1, <2>2
  <2>5. job = [k \in Jobs |-> job[k]]
    BY DEF HoldInv, Shape
  <2> QED
    BY <2>3, <2>4, <2>5
<1>3. Shape'
  BY <1>1, <1>2 DEF HoldInv, Shape
<1>4. HeldByOne' /\ HeldRulesAreCurrent' /\ MovedIsNew'
  BY <1>1, <1>2 DEF HoldInv, HeldByOne, HeldRulesAreCurrent, MovedIsNew, Due
<1> QED
  BY <1>3, <1>4 DEF HoldInv

(* A commit writes the rows its job holds, and no others.                  *)
LEMMA CommitKeeps ==
  ASSUME HoldInv, NEW j \in Jobs, CommitJob(j)
  PROVE  HoldInv'
<1>1. \A k \in Jobs \ {j} : \A r \in job[k].held :
        r \in Rules /\ status'[r] = status[r] /\ next'[r] = next[r]
  BY DEF CommitJob, HoldInv, Shape, Session, HeldByOne
<1>2. status' = [r \in Rules |-> status'[r]] /\ next' = [r \in Rules |-> next'[r]]
  BY DEF CommitJob
<1>3. job' = [job EXCEPT ![j] = NoJob]
  BY DEF CommitJob
<1> QED
  BY <1>1, <1>2, <1>3, DroppedKeeps

(* Requests of users wait for the lock, or find the rule not yet there.    *)
LEMMA EditKeeps ==
  ASSUME HoldInv, NEW e \in edits, EditWrite(e) \/ EditStale(e)
  PROVE  HoldInv'
<1>1. CASE EditStale(e)
  BY <1>1, UsersKeep DEF EditStale, HoldInv, Shape
<1>2. CASE EditWrite(e)
  <2>1. job' = job /\ Shape'
    BY <1>2 DEF EditWrite, Patch, Written, HoldInv, Shape
  <2>2. \A j \in Jobs : \A r \in job[j].held : r \in Rules /\ r # e.rule
    BY <1>2 DEF EditWrite, Held, HoldInv, Shape, Session
  <2>3. \A r \in Rules : r # e.rule => status'[r] = status[r] /\ next'[r] = next[r]
    BY <1>2 DEF EditWrite, Patch, Written, HoldInv, Shape
  <2> QED
    BY <2>1, <2>2, <2>3, UsersKeep
<1> QED
  BY <1>1, <1>2

LEMMA RuleKeeps ==
  ASSUME HoldInv, NEW r \in Rules, Create(r) \/ EditRead(r) \/ Delete(r)
  PROVE  HoldInv'
<1>1. \A j \in Jobs : \A q \in job[j].held : q \in Rules /\ status[q] = "active"
  BY DEF HoldInv, Shape, Session, HeldRulesAreCurrent, Due
<1>2. CASE Create(r)
  <2>1. job' = job /\ Shape'
    BY <1>2 DEF Create, HoldInv, Shape
  <2>2. \A q \in Rules \ {r} : status'[q] = status[q] /\ next'[q] = next[q]
    BY <1>2 DEF Create, HoldInv, Shape
  <2>3. status[r] = "none"
    BY <1>2 DEF Create
  <2> QED
    BY <1>1, <2>1, <2>2, <2>3, UsersKeep
<1>3. CASE EditRead(r)
  BY <1>3, UsersKeep DEF EditRead, HoldInv, Shape
<1>4. CASE Delete(r)
  <2>1. job' = job /\ Shape'
    BY <1>4 DEF Delete, HoldInv, Shape
  <2>2. \A q \in Rules \ {r} : status'[q] = status[q] /\ next'[q] = next[q]
    BY <1>4 DEF Delete, HoldInv, Shape
  <2>3. \A j \in Jobs : r \notin job[j].held
    BY <1>4 DEF Delete, Held
  <2> QED
    BY <1>1, <2>1, <2>2, <2>3, UsersKeep
<1> QED
  BY <1>2, <1>3, <1>4

(* Every step of the system keeps the invariant.                           *)
LEMMA HoldStep ==
  ASSUME HoldInv, [FireNext]_fireVars
  PROVE  HoldInv'
<1>1. CASE Tick
  BY <1>1, UsersKeep DEF Tick, HoldInv, Shape
<1>2. CASE \E e \in edits : EditWrite(e) \/ EditStale(e)
  BY <1>2, EditKeeps
<1>3. CASE \E r \in Rules : Create(r) \/ EditRead(r) \/ Delete(r)
  BY <1>3, RuleKeeps
<1>4. ASSUME NEW j \in Jobs, JobStep(j) \/ Abort(j)
      PROVE  HoldInv'
  <2>1. CASE Start(j)
    BY <2>1, StartKeeps
  <2>2. CASE Fetch(j)
    BY <2>2, FetchKeeps
  <2>3. CASE CommitJob(j)
    BY <2>3, CommitKeeps
  <2>4. CASE CommitRejected(j) \/ Abort(j)
    <3>1. job' = [job EXCEPT ![j] = NoJob] /\ status' = status /\ next' = next
      BY <2>4 DEF CommitRejected, Abort
    <3> QED
      BY <3>1, DroppedKeeps DEF HoldInv, Shape
  <2>5. ASSUME NEW r \in Rules, Fire(j, r) \/ FireFails(j, r)
        PROVE  HoldInv'
    BY <2>5, FireKeeps, FireFailsKeeps
  <2> QED
    BY <1>4, <2>1, <2>2, <2>3, <2>4, <2>5 DEF JobStep
<1>5. CASE UNCHANGED fireVars
  BY <1>5, UsersKeep DEF fireVars, HoldInv, Shape
<1> QED
  BY <1>1, <1>2, <1>3, <1>4, <1>5 DEF FireNext

(* FOR UPDATE SKIP LOCKED: what a job read is what its commit replaces.    *)
(* Every rule it holds is still active and due when it commits.            *)
THEOREM HeldStaysCurrent == FireSpec => []HeldRulesAreCurrent
<1>1. HoldInv => HeldRulesAreCurrent
  BY DEF HoldInv
<1> QED
  BY HoldInit, HoldStep, <1>1, PTL DEF FireSpec

-------------------------------------------------------------------------------
(* Only the job that holds a rule moves it, in the commit that books the   *)
(* occurrence it was at.                                                   *)
LEMMA MovesAreBooked ==
  ASSUME HoldInv, [FireNext]_fireVars,
         NEW j \in Jobs, NEW r \in job[j].held, next'[r] # next[r]
  PROVE  <<r, next[r]>> \in booked' \ booked
<1>1. r \in Rules /\ status[r] = "active"
  BY DEF HoldInv, Shape, Session, HeldRulesAreCurrent, Due
<1>2. PICK k \in Jobs : CommitJob(k)
  <2>1. ~(\E e \in edits : EditWrite(e))
    <3> SUFFICES ASSUME NEW e \in edits, EditWrite(e)
                 PROVE  FALSE
      OBVIOUS
    <3>1. r # e.rule
      BY DEF EditWrite, Held
    <3> QED
      BY <1>1, <3>1 DEF EditWrite, Patch, Written, HoldInv, Shape
  <2>2. ~(\E q \in Rules : Create(q))
    <3> SUFFICES ASSUME NEW q \in Rules, Create(q)
                 PROVE  FALSE
      OBVIOUS
    <3>1. r # q
      BY <1>1 DEF Create
    <3> QED
      BY <1>1, <3>1 DEF Create, HoldInv, Shape
  <2>3. ~UNCHANGED fireVars /\ ~Tick /\ ~(\E e \in edits : EditStale(e))
    BY DEF fireVars, Tick, EditStale
  <2>4. ~(\E q \in Rules : EditRead(q) \/ Delete(q))
    BY DEF EditRead, Delete
  <2>5. \A k \in Jobs : ~(Start(k) \/ Fetch(k) \/ CommitRejected(k) \/ Abort(k))
    BY DEF Start, Fetch, CommitRejected, Abort
  <2>6. \A k \in Jobs, q \in Rules : ~(Fire(k, q) \/ FireFails(k, q))
    BY DEF Fire, FireFails
  <2> QED
    BY <2>1, <2>2, <2>3, <2>4, <2>5, <2>6 DEF FireNext, JobStep
<1>3. r \in job[k].held /\ next'[r] = job[k].next[r]
  BY <1>1, <1>2 DEF CommitJob
<1>4. <<r, next[r]>> \in job[k].new
  BY <1>3 DEF HoldInv, MovedIsNew
<1> QED
  BY <1>2, <1>4 DEF CommitJob

(* No occurrence of a recurring rule is lost: whatever fails on the way,   *)
(* and however many schedulers run, a job moves a rule past a date only in *)
(* the commit that books the transaction of that date.                     *)
THEOREM OccurrencesBooked == FireSpec => EveryOccurrenceBooked
<1>1. ASSUME HoldInv, [FireNext]_fireVars
      PROVE  [\A j \in Jobs : \A r \in job[j].held :
                next'[r] # next[r] => <<r, next[r]>> \in booked' \ booked]_fireVars
  BY <1>1, MovesAreBooked
<1> QED
  BY HoldInit, HoldStep, <1>1, PTL DEF FireSpec, EveryOccurrenceBooked

-------------------------------------------------------------------------------
(* The fields each recurrence comes with.                                  *)
LEMMA KindsOfSchedule ==
  ASSUME NEW s \in Schedules
  PROVE  \/ s.kind = "weekly" /\ s.day \in 0..6
         \/ s.kind = "monthly" /\ s.day \in 1..28
         \/ s.kind = "yearly" /\ s.day \in 1..28 /\ s.month \in 1..12
BY DEF Schedules

(* Two schedules of one kind that name the same date are the same.         *)
LEMMA OneScheduleOfAKind ==
  ASSUME NEW s \in Schedules, NEW t \in Schedules, s.kind = t.kind,
         NEW d \in Dates, Falls(d, s), Falls(d, t)
  PROVE  s = t
<1>1. CASE s.kind = "weekly"
  <2>1. s = [kind |-> "weekly", day |-> s.day] /\ t = [kind |-> "weekly", day |-> t.day]
    BY <1>1 DEF Schedules
  <2>2. s.day = t.day
    BY <1>1 DEF Falls
  <2> QED
    BY <2>1, <2>2
<1>2. CASE s.kind = "monthly"
  <2>1. s = [kind |-> "monthly", day |-> s.day] /\ t = [kind |-> "monthly", day |-> t.day]
    BY <1>2 DEF Schedules
  <2>2. s.day = t.day
    BY <1>2 DEF Falls
  <2> QED
    BY <2>1, <2>2
<1>3. CASE s.kind = "yearly"
  <2> DEFINE k == MonthOf[d] % 12
  <2>1. s.day = t.day /\ k = s.month - 1 /\ k = t.month - 1
    BY <1>3 DEF Falls
  <2>2. /\ s = [kind |-> "yearly", day |-> s.day, month |-> s.month]
        /\ t = [kind |-> "yearly", day |-> t.day, month |-> t.month]
        /\ s.month \in 1..12 /\ t.month \in 1..12
    BY <1>3 DEF Schedules
  <2> HIDE DEF k
  <2>3. s.month = t.month
    BY <2>1, <2>2
  <2> QED
    BY <2>1, <2>2, <2>3
<1> QED
  BY <1>1, <1>2, <1>3, KindsOfSchedule

(* A yearly schedule's month in some year.                                 *)
LEMMA MonthOfYear ==
  ASSUME NEW y \in Nat, NEW k \in 1..12
  PROVE  /\ 12 * y + k - 1 \in Nat
         /\ (12 * y + k - 1) % 12 = k - 1
         /\ 12 * y <= 12 * y + k - 1
OBVIOUS

(* The date of a schedule in a later month comes later.                    *)
LEMMA LaterMonthIsLater ==
  ASSUME NEW d \in Dates, NEW m \in Nat, MonthOf[d] < m, NEW day \in 1..28
  PROVE  OnDay(m, day) \in Dates /\ OnDay(m, day) > d
<1> DEFINE k == MonthOf[d]
<1>1. k \in Nat /\ d < FirstDay[k + 1]
  BY MonthOfDate
<1> HIDE DEF k
<1>2. k + 1 = m \/ k + 1 < m
  BY <1>1 DEF k
<1>3. FirstDay[k + 1] <= FirstDay[m] /\ FirstDay[m] \in Nat /\ FirstDay[k + 1] \in Nat
  <2>1. FirstDay[m] \in Nat /\ FirstDay[k + 1] \in Nat
    BY <1>1, FirstDays
  <2>2. FirstDay[k + 1] <= FirstDay[m]
    BY <1>1, <2>1, InOrderOfMonths DEF k
  <2> QED
    BY <2>1, <2>2
<1>4. OnDay(m, day) = FirstDay[m] + day - 1 /\ OnDay(m, day) \in Dates
  BY DayOfAnyMonth
<1> QED
  BY <1>1, <1>3, <1>4 DEF Dates

(* advance_next_fire_date: forward, to a date the schedule names.          *)
LEMMA Advanced ==
  ASSUME NEW d \in Dates, NEW s \in Schedules, NEW n \in Nat \ {0}
  PROVE  /\ Advance(d, s, n) \in Dates
         /\ Advance(d, s, n) > d
         /\ Falls(d, s) => Falls(Advance(d, s, n), s)
         /\ Advance(d, s, n) >= n
<1>1. CASE s.kind = "weekly"
  <2> DEFINE a == Advance(d, s, n)
  <2>1. a = d + 7 * n /\ d \in Nat
    BY <1>1 DEF Advance, Dates
  <2>2. Weekday(a) = Weekday(d)
    BY <2>1 DEF Weekday
  <2>3. Falls(d, s) => Falls(a, s)
    BY <1>1, <2>2 DEF Falls
  <2> HIDE DEF a
  <2>4. a \in Dates /\ a > d /\ a >= n
    BY <2>1 DEF Dates
  <2> QED
    BY <2>3, <2>4 DEF a
<1>2. CASE s.kind = "monthly"
  <2> DEFINE m == MonthOf[d] + n
  <2>1. m \in Nat /\ MonthOf[d] < m /\ n <= m
    BY MonthOfDate
  <2>2. Advance(d, s, n) = OnDay(m, s.day) /\ s.day \in 1..28
    BY <1>2, KindsOfSchedule DEF Advance
  <2> HIDE DEF m
  <2>3. OnDay(m, s.day) > d
    BY <2>1, <2>2, LaterMonthIsLater
  <2>4. /\ OnDay(m, s.day) \in Dates /\ DayOfMonth(OnDay(m, s.day)) = s.day
        /\ OnDay(m, s.day) = FirstDay[m] + s.day - 1
        /\ FirstDay[m] \in Nat /\ FirstDay[m] >= 28 * m
    BY <2>1, <2>2, DayOfAnyMonth, FirstDays
  <2>5. OnDay(m, s.day) >= n
    BY <2>1, <2>2, <2>4
  <2> QED
    BY <1>2, <2>2, <2>3, <2>4, <2>5 DEF Falls
<1>3. CASE s.kind = "yearly"
  <2> DEFINE k == MonthOf[d]
             y == k \div 12 + n
             m == 12 * y + s.month - 1
  <2>1. Advance(d, s, n) = OnDay(m, s.day)
    BY <1>3 DEF Advance
  <2>2. s.day \in 1..28 /\ s.month \in 1..12
    BY <1>3, KindsOfSchedule
  <2>3. k \in Nat
    BY MonthOfDate
  <2>4. k < 12 * (k \div 12 + 1) /\ k \div 12 \in Nat
    <3> HIDE DEF k
    <3> QED
      BY <2>3
  <2>5. y \in Nat /\ n <= y /\ k < 12 * y
    <3>1. PICK q \in Nat : q = k \div 12
      BY <2>4
    <3>2. y = q + n /\ k < 12 * (q + 1)
      BY <2>4, <3>1
    <3> HIDE DEF k, y
    <3>3. q + 1 <= y
      BY <3>1, <3>2
    <3> QED
      BY <2>3, <3>1, <3>2, <3>3
  <2>6. m \in Nat /\ m % 12 = s.month - 1 /\ 12 * y <= m
    <3> HIDE DEF y
    <3> QED
      BY <2>2, <2>5, MonthOfYear
  <2>7. k < m /\ n <= m
    <3> HIDE DEF k, y, m
    <3> QED
      BY <2>3, <2>5, <2>6
  <2> HIDE DEF m
  <2>8. OnDay(m, s.day) > d
    BY <2>2, <2>6, <2>7, LaterMonthIsLater DEF k
  <2>9. /\ OnDay(m, s.day) \in Dates /\ DayOfMonth(OnDay(m, s.day)) = s.day
        /\ MonthOf[OnDay(m, s.day)] = m
        /\ OnDay(m, s.day) = FirstDay[m] + s.day - 1
        /\ FirstDay[m] \in Nat /\ FirstDay[m] >= 28 * m
    BY <2>2, <2>6, DayOfAnyMonth, FirstDays
  <2>10. OnDay(m, s.day) >= n
    BY <2>2, <2>6, <2>7, <2>9
  <2>11. Falls(OnDay(m, s.day), s)
    BY <1>3, <2>6, <2>9 DEF Falls
  <2> QED
    BY <2>1, <2>8, <2>9, <2>10, <2>11
<1> QED
  BY <1>1, <1>2, <1>3, KindsOfSchedule

(* The loop of the job ends, past the job's day and past where it began.   *)
LEMMA NextAfterDay ==
  ASSUME NEW d \in Dates, NEW s \in Schedules, NEW day \in Dates
  PROVE  /\ NextAfter(d, s, day) \in Dates
         /\ NextAfter(d, s, day) > d
         /\ NextAfter(d, s, day) > day
         /\ Falls(d, s) => Falls(NextAfter(d, s, day), s)
<1> DEFINE A(n) == Advance(d, s, n)
           past == {n \in 1..(day + 1) : A(n) > day}
           stops(n) == A(n) > day /\ (n > 1 => A(n - 1) <= day)
<1>1. day \in Nat
  BY DEF Dates
<1>2. past \in SUBSET Nat /\ past # {}
  <2>1. day + 1 \in Nat \ {0} /\ day + 1 \in 1..(day + 1)
    BY <1>1
  <2>2. A(day + 1) >= day + 1 /\ A(day + 1) \in Nat
    BY <2>1, Advanced DEF Dates
  <2>3. A(day + 1) > day
    <3> HIDE DEF A
    <3> QED
      BY <1>1, <2>2
  <2>4. past \in SUBSET Nat
    BY <1>1
  <2> QED
    BY <2>1, <2>3, <2>4
<1>3. PICK n \in past : \A m \in past : n <= m
  <2> HIDE DEF past
  <2> QED
    BY <1>2, LeastOf
<1>4. n \in 1..(day + 1) /\ stops(n)
  <2>1. n \in 1..(day + 1) /\ A(n) > day
    OBVIOUS
  <2>2. ASSUME n > 1 PROVE A(n - 1) <= day
    <3>1. n - 1 \in 1..(day + 1) /\ n - 1 < n /\ n - 1 \in Nat \ {0} /\ n \in Nat
      BY <1>1, <2>1, <2>2
    <3>2. n - 1 \notin past
      <4> HIDE DEF past
      <4> QED
        BY <1>3, <3>1
    <3>3. ~(A(n - 1) > day)
      BY <3>1, <3>2
    <3>4. A(n - 1) \in Nat
      BY <3>1, Advanced DEF Dates
    <3> HIDE DEF A
    <3> QED
      BY <1>1, <3>3, <3>4
  <2> QED
    BY <2>1, <2>2
<1>5. PICK c : c \in 1..(day + 1) /\ stops(c) /\ NextAfter(d, s, day) = A(c)
  <2>1. \E k \in 1..(day + 1) : stops(k)
    BY <1>4
  <2>2. (CHOOSE k \in 1..(day + 1) : stops(k)) \in 1..(day + 1)
        /\ stops(CHOOSE k \in 1..(day + 1) : stops(k))
    <3> HIDE DEF stops
    <3> QED
      BY <2>1
  <2> QED
    BY <2>2 DEF NextAfter
<1>6. c \in Nat \ {0} /\ A(c) > day
  BY <1>1, <1>5
<1> QED
  BY <1>5, <1>6, Advanced

(* compute_first_fire_date: a date the schedule names.                     *)
LEMMA FirstFireFalls ==
  ASSUME NEW start \in Dates, NEW s \in Schedules
  PROVE  FirstFire(start, s) \in Dates /\ Falls(FirstFire(start, s), s)
<1>1. CASE s.kind = "weekly"
  <2> DEFINE a == FirstFire(start, s)
  <2>1. a = start + ((s.day + 7 - (start % 7)) % 7)
    BY <1>1 DEF FirstFire, Weekday
  <2>2. s.day \in 0..6 /\ start \in Nat
    BY <1>1, KindsOfSchedule DEF Dates
  <2>3. a \in Nat /\ a % 7 = s.day
    <3> DEFINE day == s.day
    <3>1. day \in 0..6
      BY <2>2
    <3>2. a = start + ((day + 7 - (start % 7)) % 7)
      BY <2>1
    <3> HIDE DEF a, day
    <3>3. a \in Nat /\ a % 7 = day
      BY <2>2, <3>1, <3>2
    <3> QED
      BY <3>3 DEF day
  <2> QED
    BY <1>1, <2>3 DEF Falls, Weekday, Dates
<1>2. CASE s.kind = "monthly"
  <2> DEFINE m == MonthOf[start]
  <2>1. FirstFire(start, s) \in {OnDay(m, s.day), OnDay(m + 1, s.day)}
    BY <1>2 DEF FirstFire
  <2>2. m \in Nat /\ m + 1 \in Nat /\ s.day \in 1..28
    BY <1>2, MonthOfDate, KindsOfSchedule
  <2> HIDE DEF m
  <2> QED
    BY <1>2, <2>1, <2>2, DayOfAnyMonth DEF Falls
<1>3. CASE s.kind = "yearly"
  <2> DEFINE y == MonthOf[start] \div 12
             m == 12 * y + s.month - 1
  <2>1. FirstFire(start, s) \in {OnDay(m, s.day), OnDay(m + 12, s.day)}
    BY <1>3 DEF FirstFire
  <2>2. y \in Nat /\ s.day \in 1..28 /\ s.month \in 1..12
    BY <1>3, MonthOfDate, KindsOfSchedule
  <2>3. m \in Nat /\ m % 12 = s.month - 1
    <3> HIDE DEF y
    <3> QED
      BY <2>2, MonthOfYear
  <2> HIDE DEF m
  <2>4. m + 12 \in Nat /\ (m + 12) % 12 = s.month - 1
    BY <2>2, <2>3
  <2> QED
    BY <1>3, <2>1, <2>2, <2>3, <2>4, DayOfAnyMonth DEF Falls
<1> QED
  BY <1>1, <1>2, <1>3, KindsOfSchedule

-------------------------------------------------------------------------------
(* A session's dates are dates; what it holds is as far as the committed   *)
(* rows or further, its new bookings lie behind, and a rule no PATCH has   *)
(* mixed up is at a date its schedule names.                               *)
SessionDates(j) ==
  /\ job[j].day \in Dates
  /\ job[j].pending \subseteq job[j].held
  /\ \A r \in Rules : job[j].next[r] \in Dates
  /\ \A r \in job[j].held :
       /\ job[j].status[r] # "none"
       /\ edited[r] <= 1 => Falls(job[j].next[r], plan[r])
       /\ edited[r] = 0 => next[r] <= job[j].next[r]
  /\ \A b \in job[j].new :
       /\ b[1] \in job[j].held /\ b[2] \in Dates
       /\ edited[b[1]] = 0 => b[2] < job[j].next[b[1]]

(* What a request that is the first of its rule will write fits together:  *)
(* a schedule comes with a date it names, and a date without a schedule is *)
(* named by the one that is there.                                         *)
EditFits(e) ==
  /\ e.next = {} => e.plan = {}
  /\ \A x \in e.next :
       /\ e.plan = {} => Falls(x, plan[e.rule])
       /\ \A s \in e.plan : Falls(x, s)

RuleDates ==
  /\ today \in Dates
  /\ plan \in [Rules -> Schedules]
  /\ next \in [Rules -> Dates]
  /\ edited \in [Rules -> Nat]
  /\ \A r \in Rules :
       /\ status[r] = "none" => edited[r] = 0
       /\ status[r] # "none" /\ edited[r] <= 1 => Falls(next[r], plan[r])
  /\ \A b \in booked :
       b[1] \in Rules /\ b[2] \in Dates /\ status[b[1]] # "none"

EditsInFlight ==
  /\ \A e \in edits :
       /\ e.rule \in Rules /\ e.plan \subseteq Schedules /\ e.next \subseteq Dates
       /\ "none" \notin e.status
       /\ edited[e.rule] >= 1
       /\ edited[e.rule] = 1 => EditFits(e)
  /\ \A e, f \in edits : e.rule = f.rule /\ edited[e.rule] = 1 => e = f

PlanInv ==
  /\ HoldInv
  /\ RuleDates
  /\ EditsInFlight
  /\ BookingsLieBehind
  /\ \A j \in Jobs : SessionDates(j)

-------------------------------------------------------------------------------
(* The first of the days is one of them, and a date.                       *)
LEMMA DaysAreDates == FirstOfDays \in Days \cap Dates /\ Days \subseteq Dates
<1>1. Days \in SUBSET Nat /\ Days # {}
  BY FireAssumption DEF Dates
<1>2. \E d \in Days : \A e \in Days : d <= e
  BY <1>1, LeastOf
<1>3. FirstOfDays \in Days
  BY <1>2 DEF FirstOfDays
<1> QED
  BY <1>3, FireAssumption

LEMMA NothingHeld ==
  ASSUME NEW j \in Jobs, job[j].day \in Dates, job[j].held = {}, job[j].pending = {},
         job[j].new = {}, job[j].next = [r \in Rules |-> 0]
  PROVE  SessionDates(j)
<1>1. 0 \in Dates
  BY DEF Dates
<1> QED
  BY <1>1 DEF SessionDates

LEMMA PlanInit == FireInit => PlanInv
<1> SUFFICES ASSUME FireInit
             PROVE  PlanInv
  OBVIOUS
<1>1. \A j \in Jobs : job[j] = NoJob
  BY DEF FireInit
<1>2. \A j \in Jobs : SessionDates(j)
  BY <1>1, DaysAreDates, NothingHeld DEF NoJob
<1>3. RuleDates
  <2>1. NoSchedule \in Schedules /\ 0 \in Dates
    BY DEF NoSchedule, Schedules, Dates
  <2> QED
    BY <2>1, DaysAreDates DEF FireInit, RuleDates
<1>4. EditsInFlight /\ BookingsLieBehind
  BY DEF FireInit, EditsInFlight, BookingsLieBehind
<1> QED
  BY <1>2, <1>3, <1>4, HoldInit DEF PlanInv

-------------------------------------------------------------------------------
(* A session none of whose rows were touched.                              *)
LEMMA SessionKept ==
  ASSUME PlanInv, NEW j \in Jobs, SessionDates(j), job'[j] = job[j],
         \A r \in job[j].held :
           plan'[r] = plan[r] /\ next'[r] = next[r] /\ edited'[r] \in {edited[r], edited[r] + 1}
  PROVE  SessionDates(j)'
<1>1. \A r \in job[j].held : r \in Rules /\ edited[r] \in Nat
  BY DEF PlanInv, HoldInv, Shape, Session, RuleDates
<1>2. \A r \in job[j].held : /\ edited'[r] <= 1 => edited[r] <= 1
                             /\ edited'[r] = 0 => edited[r] = 0
  BY <1>1
<1> QED
  BY <1>2 DEF SessionDates

(* Steps that leave the rows, and the requests in flight, as they are.     *)
LEMMA RowsKept ==
  ASSUME PlanInv, UNCHANGED <<status, plan, next, booked, edits, edited>>, today' \in Dates
  PROVE  RuleDates' /\ EditsInFlight' /\ BookingsLieBehind'
BY DEF PlanInv, RuleDates, EditsInFlight, EditFits, BookingsLieBehind

LEMMA TodayIsADate ==
  ASSUME PlanInv, [FireNext]_fireVars
  PROVE  today' \in Dates
<1>1. today' = today \/ today' \in Days
  <2>1. UNCHANGED fireVars => today' = today
    BY DEF fireVars
  <2>2. Tick => today' \in Days
    BY DEF Tick
  <2>3. \A e \in edits : EditWrite(e) \/ EditStale(e) => today' = today
    BY DEF EditWrite, EditStale
  <2>4. \A q \in Rules : Create(q) \/ EditRead(q) \/ Delete(q) => today' = today
    BY DEF Create, EditRead, Delete
  <2>5. \A j \in Jobs :
          Start(j) \/ Fetch(j) \/ CommitJob(j) \/ CommitRejected(j) \/ Abort(j) => today' = today
    BY DEF Start, Fetch, CommitJob, CommitRejected, Abort
  <2>6. \A j \in Jobs, q \in Rules : Fire(j, q) \/ FireFails(j, q) => today' = today
    BY DEF Fire, FireFails
  <2> QED
    BY <2>1, <2>2, <2>3, <2>4, <2>5, <2>6 DEF FireNext, JobStep
<1> QED
  BY <1>1, DaysAreDates DEF PlanInv, RuleDates

-------------------------------------------------------------------------------
(* A new rule starts at a date of its schedule.                            *)
LEMMA CreatePlans ==
  ASSUME PlanInv, NEW r \in Rules, Create(r)
  PROVE  /\ RuleDates' /\ EditsInFlight' /\ BookingsLieBehind'
         /\ \A j \in Jobs : SessionDates(j)'
<1>1. PICK start \in Days, s \in Offers[r] :
        /\ plan' = [plan EXCEPT ![r] = s]
        /\ next' = [next EXCEPT ![r] = FirstFire(start, s)]
  BY DEF Create
<1>2. /\ status[r] = "none" /\ status' = [status EXCEPT ![r] = "active"]
      /\ UNCHANGED <<today, booked, job, edits, edited, aborts>>
  BY DEF Create
<1>3. s \in Schedules /\ FirstFire(start, s) \in Dates /\ Falls(FirstFire(start, s), s)
  <2>1. s \in Schedules /\ start \in Dates
    BY FireAssumption, DaysAreDates
  <2> QED
    BY <2>1, FirstFireFalls
<1>4. /\ edited[r] = 0
      /\ \A e \in edits : e.rule \in Rules \ {r}
      /\ \A b \in booked : b[1] \in Rules \ {r}
      /\ \A j \in Jobs : \A q \in job[j].held : q \in Rules \ {r}
  <2>1. edited[r] = 0 /\ \A b \in booked : b[1] \in Rules \ {r}
    BY <1>2 DEF PlanInv, RuleDates
  <2>2. \A e \in edits : e.rule \in Rules \ {r}
    <3>1. \A e \in edits : e.rule \in Rules /\ edited[e.rule] >= 1
      BY DEF PlanInv, EditsInFlight
    <3> QED
      BY <2>1, <3>1
  <2>3. \A j \in Jobs : \A q \in job[j].held : q \in Rules /\ status[q] = "active"
    BY DEF PlanInv, HoldInv, Shape, Session, HeldRulesAreCurrent, Due
  <2>4. \A j \in Jobs : \A q \in job[j].held : q \in Rules \ {r}
    BY <1>2, <2>3
  <2> QED
    BY <2>1, <2>2, <2>4
<1>5. /\ plan'[r] = s /\ next'[r] = FirstFire(start, s) /\ status'[r] = "active"
      /\ \A q \in Rules \ {r} :
           plan'[q] = plan[q] /\ next'[q] = next[q] /\ status'[q] = status[q]
      /\ plan' \in [Rules -> Schedules] /\ next' \in [Rules -> Dates]
  BY <1>1, <1>2, <1>3 DEF PlanInv, RuleDates, HoldInv, Shape
<1>6. RuleDates'
  BY <1>2, <1>3, <1>4, <1>5 DEF PlanInv, RuleDates
<1>7. EditsInFlight' /\ BookingsLieBehind'
  BY <1>2, <1>4, <1>5 DEF PlanInv, EditsInFlight, EditFits, BookingsLieBehind
<1>8. \A j \in Jobs : SessionDates(j)'
  BY <1>2, <1>4, <1>5, SessionKept DEF PlanInv
<1> QED
  BY <1>6, <1>7, <1>8

(* A request sets a date its schedule names, or leaves both alone.         *)
LEMMA EditReadPlans ==
  ASSUME PlanInv, NEW r \in Rules, EditRead(r)
  PROVE  /\ RuleDates' /\ EditsInFlight' /\ BookingsLieBehind'
         /\ \A j \in Jobs : SessionDates(j)'
<1>1. PICK new \in {"active", "paused"},
           asked \in {{}} \cup {{t} : t \in {u \in Offers[r] : u.kind = plan[r].kind}} :
        edits' = edits \cup
          {[rule   |-> r,
            status |-> {new} \ {status[r]},
            plan   |-> asked \ {plan[r]},
            next   |-> {FirstFire(today, s) : s \in asked} \ {next[r]}]}
  BY DEF EditRead
<1>2. /\ status[r] \in {"active", "paused"}
      /\ edited' = [edited EXCEPT ![r] = @ + 1]
      /\ UNCHANGED <<today, status, plan, next, booked, job, aborts>>
  BY DEF EditRead
<1>3. /\ edited \in [Rules -> Nat] /\ edited'[r] = edited[r] + 1
      /\ edited' \in [Rules -> Nat]
      /\ \A q \in Rules \ {r} : edited'[q] = edited[q]
  BY <1>2 DEF PlanInv, RuleDates
<1>4. \A q \in Rules : /\ edited'[q] \in {edited[q], edited[q] + 1}
                       /\ edited'[q] <= 1 => edited[q] <= 1
                       /\ edited'[q] = 0 => edited[q] = 0 /\ q # r
                       /\ edited[q] >= 1 => edited'[q] >= 1
  BY <1>3
<1>5. RuleDates'
  BY <1>2, <1>3, <1>4 DEF PlanInv, RuleDates
<1>6. BookingsLieBehind'
  BY <1>2, <1>4 DEF PlanInv, RuleDates, BookingsLieBehind
<1>7. \A j \in Jobs : SessionDates(j)'
  BY <1>2, <1>4, SessionKept DEF PlanInv, HoldInv, Shape, Session
<1> DEFINE e == [rule   |-> r,
                 status |-> {new} \ {status[r]},
                 plan   |-> asked \ {plan[r]},
                 next   |-> {FirstFire(today, s) : s \in asked} \ {next[r]}]
<1>8. /\ e.rule = r /\ "none" \notin e.status
      /\ e.plan = asked \ {plan[r]}
      /\ e.next = {FirstFire(today, s) : s \in asked} \ {next[r]}
      /\ edits' = edits \cup {e}
  BY <1>1
<1>9. \A s \in asked :
        /\ s \in Schedules /\ s.kind = plan[r].kind /\ asked = {s}
        /\ FirstFire(today, s) \in Dates /\ Falls(FirstFire(today, s), s)
  <2>1. \A s \in asked : s \in Schedules /\ s.kind = plan[r].kind /\ asked = {s}
    BY FireAssumption
  <2>2. today \in Dates
    BY DEF PlanInv, RuleDates
  <2> QED
    BY <2>1, <2>2, FirstFireFalls
<1> HIDE DEF e
<1>10. e.plan \subseteq Schedules /\ e.next \subseteq Dates
  BY <1>8, <1>9
<1>11. edited[r] = 0 => EditFits(e)
  <2> SUFFICES ASSUME edited[r] = 0
               PROVE  EditFits(e)
    OBVIOUS
  <2>1. Falls(next[r], plan[r]) /\ next[r] \in Dates /\ plan[r] \in Schedules
    BY <1>2 DEF PlanInv, RuleDates
  <2>2. CASE asked = {}
    BY <1>8, <2>2 DEF EditFits
  <2>3. ASSUME NEW s \in asked
        PROVE  EditFits(e)
    <3>1. /\ e.plan = {s} \ {plan[r]}
          /\ e.next = {FirstFire(today, s)} \ {next[r]}
      BY <1>8, <1>9
    <3>2. FirstFire(today, s) = next[r] => s = plan[r]
      BY <1>9, <2>1, OneScheduleOfAKind
    <3> QED
      BY <1>8, <1>9, <3>1, <3>2 DEF EditFits
  <2> QED
    BY <2>2, <2>3
<1>12. \A f \in edits : f.rule \in Rules /\ edited[f.rule] >= 1
  BY DEF PlanInv, EditsInFlight
<1>13. \A f \in edits : edited'[f.rule] = 1 => f.rule # r /\ edited[f.rule] = 1
  BY <1>3, <1>12
<1>14. \A f \in edits' :
        /\ f.rule \in Rules /\ f.plan \subseteq Schedules /\ f.next \subseteq Dates
        /\ "none" \notin f.status
        /\ edited'[f.rule] >= 1
        /\ edited'[f.rule] = 1 => EditFits(f)
  <2>1. ASSUME NEW f \in edits
        PROVE  /\ f.rule \in Rules /\ f.plan \subseteq Schedules /\ f.next \subseteq Dates
               /\ "none" \notin f.status
               /\ edited'[f.rule] >= 1
               /\ edited'[f.rule] = 1 => EditFits(f)
    BY <1>4, <1>12, <1>13 DEF PlanInv, EditsInFlight
  <2>2. edited'[r] >= 1 /\ (edited'[r] = 1 => edited[r] = 0)
    BY <1>3
  <2> QED
    BY <1>8, <1>10, <1>11, <2>1, <2>2
<1>15. \A f, g \in edits' : f.rule = g.rule /\ edited'[f.rule] = 1 => f = g
  BY <1>8, <1>13 DEF PlanInv, EditsInFlight
<1>16. EditsInFlight'
  BY <1>2, <1>14, <1>15 DEF EditsInFlight, EditFits
<1> QED
  BY <1>5, <1>6, <1>7, <1>16

(* The UPDATE of the first request of a rule finds the plan it read.       *)
LEMMA EditWritePlans ==
  ASSUME PlanInv, NEW e \in edits, EditWrite(e)
  PROVE  /\ RuleDates' /\ EditsInFlight' /\ BookingsLieBehind'
         /\ \A j \in Jobs : SessionDates(j)'
<1> DEFINE r == e.rule
<1>1. /\ status' = Written(status, r, e.status)
      /\ plan' = Written(plan, r, e.plan)
      /\ next' = Written(next, r, e.next)
      /\ edits' = edits \ {e}
      /\ UNCHANGED <<today, booked, job, edited, aborts>>
      /\ ~Held(r)
  BY DEF EditWrite, Patch
<1>2. /\ r \in Rules /\ e.plan \subseteq Schedules /\ e.next \subseteq Dates
      /\ "none" \notin e.status
      /\ edited[r] >= 1 /\ edited[r] \in Nat
      /\ edited[r] = 1 => EditFits(e)
      /\ status[r] # "none"
  BY DEF PlanInv, EditsInFlight, RuleDates
<1> HIDE DEF r
<1>3. /\ \A q \in Rules \ {r} :
           plan'[q] = plan[q] /\ next'[q] = next[q] /\ status'[q] = status[q]
      /\ plan'[r] = IF e.plan = {} THEN plan[r] ELSE CHOOSE x \in e.plan : TRUE
      /\ next'[r] = IF e.next = {} THEN next[r] ELSE CHOOSE x \in e.next : TRUE
      /\ status'[r] = IF e.status = {} THEN status[r] ELSE CHOOSE x \in e.status : TRUE
      /\ plan' = [q \in Rules |-> plan'[q]] /\ next' = [q \in Rules |-> next'[q]]
  BY <1>1, <1>2 DEF Written, PlanInv, RuleDates, HoldInv, Shape
<1>4. /\ e.plan = {} => plan'[r] = plan[r]
      /\ e.plan # {} => plan'[r] \in e.plan
      /\ e.next = {} => next'[r] = next[r]
      /\ e.next # {} => next'[r] \in e.next
      /\ status'[r] # "none"
  BY <1>2, <1>3
<1>5. plan' \in [Rules -> Schedules] /\ next' \in [Rules -> Dates]
  <2>1. plan'[r] \in Schedules /\ next'[r] \in Dates
    BY <1>2, <1>4 DEF PlanInv, RuleDates
  <2>2. \A q \in Rules : plan'[q] \in Schedules /\ next'[q] \in Dates
    BY <1>3, <2>1 DEF PlanInv, RuleDates
  <2> QED
    BY <1>3, <2>2
<1>6. edited[r] <= 1 => Falls(next'[r], plan'[r])
  <2> SUFFICES ASSUME edited[r] <= 1
               PROVE  Falls(next'[r], plan'[r])
    OBVIOUS
  <2>1. EditFits(e) /\ Falls(next[r], plan[r])
    BY <1>2 DEF PlanInv, RuleDates
  <2> QED
    BY <1>4, <2>1 DEF EditFits, r
<1>7. RuleDates'
  BY <1>1, <1>2, <1>3, <1>4, <1>5, <1>6 DEF PlanInv, RuleDates
<1>8. BookingsLieBehind'
  <2>1. \A b \in booked : edited[b[1]] = 0 => b[1] \in Rules \ {r}
    BY <1>2 DEF PlanInv, RuleDates
  <2> QED
    BY <1>1, <1>3, <2>1 DEF PlanInv, BookingsLieBehind
<1>9. EditsInFlight'
  <2>1. \A f \in edits' : edited[f.rule] = 1 => EditFits(f) /\ plan'[f.rule] = plan[f.rule]
    BY <1>1, <1>3 DEF PlanInv, EditsInFlight, r
  <2> QED
    BY <1>1, <2>1 DEF PlanInv, EditsInFlight, EditFits
<1>10. \A j \in Jobs : SessionDates(j)'
  <2>1. \A j \in Jobs : \A q \in job[j].held : q \in Rules \ {r}
    BY <1>1 DEF Held, PlanInv, HoldInv, Shape, Session
  <2> QED
    BY <1>1, <1>3, <2>1, SessionKept DEF PlanInv
<1> QED
  BY <1>7, <1>8, <1>9, <1>10

(* A request whose row is gone, and a deletion.                            *)
LEMMA GonePlans ==
  ASSUME PlanInv, \/ \E e \in edits : EditStale(e)
                  \/ \E r \in Rules : Delete(r)
  PROVE  /\ RuleDates' /\ EditsInFlight' /\ BookingsLieBehind'
         /\ \A j \in Jobs : SessionDates(j)'
<1>1. /\ UNCHANGED <<today, plan, next, booked, job, edited>>
      /\ edits' \subseteq edits
      /\ \A q \in Rules : status'[q] = status[q] \/ (status[q] # "none" /\ status'[q] = "deleted")
  BY DEF EditStale, Delete, PlanInv, HoldInv, Shape
<1>2. RuleDates'
  BY <1>1 DEF PlanInv, RuleDates
<1>3. EditsInFlight' /\ BookingsLieBehind'
  BY <1>1 DEF PlanInv, EditsInFlight, EditFits, BookingsLieBehind
<1>4. \A j \in Jobs : SessionDates(j)'
  BY <1>1, SessionKept DEF PlanInv
<1> QED
  BY <1>2, <1>3, <1>4

-------------------------------------------------------------------------------
(* What a job has in memory as it goes from rule to rule.                  *)
LEMMA FetchPlans ==
  ASSUME PlanInv, NEW j \in Jobs, Fetch(j)
  PROVE  \A k \in Jobs : SessionDates(k)'
<1>1. PICK S \in SUBSET Selectable(j) :
        /\ \A k \in Jobs \ {j} : job'[k] = job[k]
        /\ job'[j].held = job[j].held \cup S
        /\ job'[j].day = job[j].day
        /\ job'[j].new = job[j].new
        /\ job'[j].pending \subseteq S
        /\ \A r \in Rules :
             /\ job'[j].next[r] = IF r \in S \ job[j].held THEN next[r] ELSE job[j].next[r]
             /\ job'[j].status[r] = IF r \in S \ job[j].held THEN status[r] ELSE job[j].status[r]
  BY Fetched DEF PlanInv, HoldInv
<1>2. UNCHANGED <<plan, next, edited>>
  BY DEF Fetch
<1>3. \A r \in S : r \in Rules /\ status[r] = "active"
  BY DEF Selectable, Due
<1>4. \A r \in job[j].held : r \in Rules
  BY DEF PlanInv, HoldInv, Shape, Session
<1>5. SessionDates(j)
  BY DEF PlanInv
<1>6. \A r \in Rules : job'[j].next[r] \in Dates
  BY <1>1, <1>5 DEF SessionDates, PlanInv, RuleDates
<1>7. \A r \in job'[j].held :
        /\ job'[j].status[r] # "none"
        /\ edited[r] <= 1 => Falls(job'[j].next[r], plan[r])
        /\ edited[r] = 0 => next[r] <= job'[j].next[r]
  <2>1. ASSUME NEW r \in S \ job[j].held
        PROVE  /\ job'[j].status[r] # "none"
               /\ edited[r] <= 1 => Falls(job'[j].next[r], plan[r])
               /\ next[r] <= job'[j].next[r]
    <3>1. job'[j].status[r] = "active" /\ job'[j].next[r] = next[r] /\ next[r] \in Nat
      BY <1>1, <1>3 DEF PlanInv, RuleDates, Dates
    <3>2. edited[r] <= 1 => Falls(next[r], plan[r])
      BY <1>3 DEF PlanInv, RuleDates
    <3> QED
      BY <3>1, <3>2
  <2>2. ASSUME NEW r \in job[j].held
        PROVE  /\ job'[j].status[r] = job[j].status[r]
               /\ job'[j].next[r] = job[j].next[r]
    BY <1>1, <1>4
  <2> QED
    BY <1>1, <1>5, <2>1, <2>2 DEF SessionDates
<1>8. \A b \in job'[j].new :
        /\ b[1] \in job'[j].held /\ b[2] \in Dates
        /\ edited[b[1]] = 0 => b[2] < job'[j].next[b[1]]
  BY <1>1, <1>4, <1>5 DEF SessionDates
<1>9. job'[j].day \in Dates /\ job'[j].pending \subseteq job'[j].held
  BY <1>1, <1>5 DEF SessionDates
<1>10. SessionDates(j)'
  BY <1>2, <1>6, <1>7, <1>8, <1>9 DEF SessionDates
<1>11. \A k \in Jobs \ {j} : SessionDates(k)'
  BY <1>1, <1>2, SessionKept DEF PlanInv
<1> QED
  BY <1>10, <1>11

LEMMA FirePlans ==
  ASSUME PlanInv, NEW j \in Jobs, NEW r \in Rules, Fire(j, r)
  PROVE  \A k \in Jobs : SessionDates(k)'
<1> DEFINE old == job[j].next[r]
           after == NextAfter(old, plan[r], job[j].day)
<1>1. /\ \A k \in Jobs \ {j} : job'[k] = job[k]
      /\ job'[j].held = job[j].held
      /\ job'[j].day = job[j].day
      /\ job'[j].pending = job[j].pending \ {r}
      /\ job'[j].new = job[j].new \cup {<<r, old>>}
      /\ job'[j].next[r] = after
      /\ \A q \in Rules \ {r} : job'[j].next[q] = job[j].next[q]
      /\ \A q \in Rules : job'[j].status[q] \in {job[j].status[q], "paused"}
  BY Fired DEF PlanInv, HoldInv
<1>2. UNCHANGED <<plan, next, edited>> /\ r \in job[j].pending
  BY DEF Fire
<1>3. SessionDates(j) /\ r \in job[j].held
  BY <1>2 DEF PlanInv, SessionDates
<1>4. /\ old \in Dates /\ after \in Dates /\ after > old
      /\ Falls(old, plan[r]) => Falls(after, plan[r])
  <2>1. old \in Dates /\ plan[r] \in Schedules /\ job[j].day \in Dates
    BY <1>3 DEF SessionDates, PlanInv, RuleDates
  <2> QED
    BY <2>1, NextAfterDay
<1>5. \A q \in job[j].held : q \in Rules
  BY DEF PlanInv, HoldInv, Shape, Session
<1> HIDE DEF after, old
<1>6. \A q \in Rules : job'[j].next[q] \in Dates
  BY <1>1, <1>3, <1>4 DEF SessionDates
<1>7. /\ edited[r] <= 1 => Falls(after, plan[r])
      /\ edited[r] = 0 => next[r] <= after
  <2>1. /\ edited[r] <= 1 => Falls(old, plan[r])
        /\ edited[r] = 0 => next[r] <= old
    BY <1>3 DEF SessionDates, old
  <2>2. next[r] \in Nat /\ old \in Nat /\ after \in Nat
    BY <1>4 DEF PlanInv, RuleDates, Dates
  <2> QED
    BY <1>4, <2>1, <2>2
<1>8. \A q \in job'[j].held :
        /\ job'[j].status[q] # "none"
        /\ edited[q] <= 1 => Falls(job'[j].next[q], plan[q])
        /\ edited[q] = 0 => next[q] <= job'[j].next[q]
  BY <1>1, <1>3, <1>5, <1>7 DEF SessionDates
<1>9. \A b \in job'[j].new :
        /\ b[1] \in job'[j].held /\ b[2] \in Dates
        /\ edited[b[1]] = 0 => b[2] < job'[j].next[b[1]]
  <2>1. ASSUME NEW b \in job[j].new
        PROVE  /\ b[1] \in job'[j].held /\ b[2] \in Dates
               /\ edited[b[1]] = 0 => b[2] < job'[j].next[b[1]]
    <3>1. /\ b[1] \in job[j].held /\ b[2] \in Dates
          /\ edited[b[1]] = 0 => b[2] < job[j].next[b[1]]
      BY <1>3 DEF SessionDates
    <3>2. CASE b[1] = r
      <4>1. edited[r] = 0 => b[2] < old
        BY <3>1, <3>2 DEF old
      <4>2. edited[r] = 0 => b[2] < after
        BY <1>4, <3>1, <4>1 DEF Dates
      <4> QED
        BY <1>1, <3>1, <3>2, <4>2
    <3>3. CASE b[1] # r
      BY <1>1, <1>5, <3>1, <3>3
    <3> QED
      BY <3>2, <3>3
  <2>2. ASSUME NEW b, b = <<r, old>>
        PROVE  /\ b[1] \in job'[j].held /\ b[2] \in Dates
               /\ edited[b[1]] = 0 => b[2] < job'[j].next[b[1]]
    <3>1. b[1] = r /\ b[2] = old /\ old < after
      BY <1>4, <2>2 DEF Dates
    <3> QED
      BY <1>1, <1>3, <1>4, <3>1
  <2> QED
    BY <1>1, <2>1, <2>2
<1>10. job'[j].day \in Dates /\ job'[j].pending \subseteq job'[j].held
  BY <1>1, <1>3 DEF SessionDates
<1>11. SessionDates(j)'
  BY <1>2, <1>6, <1>8, <1>9, <1>10 DEF SessionDates
<1>12. \A k \in Jobs \ {j} : SessionDates(k)'
  BY <1>1, <1>2, SessionKept DEF PlanInv
<1> QED
  BY <1>11, <1>12

LEMMA FireFailsPlans ==
  ASSUME PlanInv, NEW j \in Jobs, NEW r \in Rules, FireFails(j, r)
  PROVE  \A k \in Jobs : SessionDates(k)'
<1>1. /\ \A k \in Jobs \ {j} : job'[k] = job[k]
      /\ job'[j].held = job[j].held
      /\ job'[j].day = job[j].day
      /\ job'[j].pending = job[j].pending \ {r}
      /\ job'[j].new = job[j].new
      /\ job'[j].next = job[j].next
      /\ job'[j].status = job[j].status
  BY Skipped DEF PlanInv, HoldInv
<1>2. UNCHANGED <<plan, next, edited>>
  BY DEF FireFails
<1>3. SessionDates(j)'
  BY <1>1, <1>2 DEF PlanInv, SessionDates
<1>4. \A k \in Jobs \ {j} : SessionDates(k)'
  BY <1>1, <1>2, SessionKept DEF PlanInv
<1> QED
  BY <1>3, <1>4

(* A job begins, or drops all it has.                                      *)
LEMMA EmptyPlans ==
  ASSUME PlanInv, NEW j \in Jobs, UNCHANGED <<plan, next, edited>>,
         \/ job' = [job EXCEPT ![j] = NoJob]
         \/ job' = [job EXCEPT ![j] = [NoJob EXCEPT !.pc = "fetch", !.day = today]]
  PROVE  \A k \in Jobs : SessionDates(k)'
<1>1. \A k \in Jobs \ {j} : job'[k] = job[k]
  BY DEF PlanInv, HoldInv, Shape
<1>2. /\ job'[j].day \in Dates /\ job'[j].held = {} /\ job'[j].pending = {}
      /\ job'[j].new = {} /\ job'[j].next = [r \in Rules |-> 0]
  <2>1. today \in Dates /\ NoJob.day \in Dates
    BY DaysAreDates DEF NoJob, PlanInv, RuleDates
  <2>2. job'[j] = NoJob \/ job'[j] = [NoJob EXCEPT !.pc = "fetch", !.day = today]
    BY DEF PlanInv, HoldInv, Shape
  <2>3. CASE job'[j] = NoJob
    BY <2>1, <2>3 DEF NoJob
  <2>4. CASE job'[j] = [NoJob EXCEPT !.pc = "fetch", !.day = today]
    <3>1. job'[j].day = today
      BY <2>4 DEF NoJob
    <3>2. /\ job'[j].held = {} /\ job'[j].pending = {}
          /\ job'[j].new = {} /\ job'[j].next = [r \in Rules |-> 0]
      BY <2>4 DEF NoJob
    <3> QED
      BY <2>1, <3>1, <3>2
  <2> QED
    BY <2>2, <2>3, <2>4
<1>3. SessionDates(j)'
  BY <1>2 DEF SessionDates, Dates
<1>4. \A k \in Jobs \ {j} : SessionDates(k)'
  BY <1>1, SessionKept DEF PlanInv
<1> QED
  BY <1>3, <1>4

(* What a commit writes lies ahead of what it books.                       *)
LEMMA CommitPlans ==
  ASSUME PlanInv, NEW j \in Jobs, CommitJob(j)
  PROVE  /\ RuleDates' /\ EditsInFlight' /\ BookingsLieBehind'
         /\ \A k \in Jobs : SessionDates(k)'
<1>1. /\ UNCHANGED <<today, plan, edits, edited>>
      /\ booked' = booked \cup job[j].new
      /\ job' = [job EXCEPT ![j] = NoJob]
      /\ status' = [r \in Rules |-> IF r \in job[j].held THEN job[j].status[r] ELSE status[r]]
      /\ next' = [r \in Rules |-> IF r \in job[j].held THEN job[j].next[r] ELSE next[r]]
  BY DEF CommitJob
<1>2. SessionDates(j)
  BY DEF PlanInv
<1>3. job[j].held \subseteq Rules
  BY DEF PlanInv, HoldInv, Shape, Session
<1>4. \A r \in job[j].held :
        /\ status'[r] # "none" /\ next'[r] = job[j].next[r]
        /\ status[r] = "active"
        /\ edited[r] <= 1 => Falls(next'[r], plan[r])
        /\ edited[r] = 0 => next[r] <= next'[r]
  BY <1>1, <1>2, <1>3 DEF SessionDates, PlanInv, HoldInv, HeldRulesAreCurrent, Due
<1>5. \A r \in Rules \ job[j].held : status'[r] = status[r] /\ next'[r] = next[r]
  BY <1>1
<1>6. next' \in [Rules -> Dates]
  BY <1>1, <1>2, <1>3 DEF SessionDates, PlanInv, RuleDates
<1>7. \A b \in job[j].new : b[1] \in job[j].held /\ b[2] \in Dates
  BY <1>2 DEF SessionDates
<1>8. RuleDates'
  <2>1. \A r \in Rules :
          /\ status'[r] = "none" => edited[r] = 0
          /\ status'[r] # "none" /\ edited[r] <= 1 => Falls(next'[r], plan[r])
    BY <1>4, <1>5 DEF PlanInv, RuleDates
  <2>2. \A b \in booked' : b[1] \in Rules /\ b[2] \in Dates /\ status'[b[1]] # "none"
    <3>1. \A b \in booked : b[1] \in Rules /\ b[2] \in Dates /\ status[b[1]] # "none"
      BY DEF PlanInv, RuleDates
    <3> QED
      BY <1>1, <1>3, <1>4, <1>5, <1>7, <3>1
  <2> QED
    BY <1>1, <1>6, <2>1, <2>2 DEF PlanInv, RuleDates
<1>9. EditsInFlight'
  BY <1>1 DEF PlanInv, EditsInFlight, EditFits
<1>10. BookingsLieBehind'
  <2>1. ASSUME NEW b \in booked, edited[b[1]] = 0
        PROVE  b[2] < next'[b[1]]
    <3>1. b[1] \in Rules /\ b[2] \in Nat /\ b[2] < next[b[1]] /\ next[b[1]] \in Nat
      BY <2>1 DEF PlanInv, RuleDates, BookingsLieBehind, Dates
    <3>2. next'[b[1]] \in Nat
      BY <1>6, <3>1 DEF Dates
    <3>3. next[b[1]] <= next'[b[1]]
      BY <1>4, <1>5, <2>1, <3>1
    <3> QED
      BY <3>1, <3>2, <3>3
  <2>2. ASSUME NEW b \in job[j].new, edited[b[1]] = 0
        PROVE  b[2] < next'[b[1]]
    BY <1>2, <1>4, <1>7, <2>2 DEF SessionDates
  <2> QED
    BY <1>1, <2>1, <2>2 DEF BookingsLieBehind
<1>11. \A k \in Jobs : SessionDates(k)'
  <2>1. \A k \in Jobs \ {j} : job'[k] = job[k]
    BY <1>1 DEF PlanInv, HoldInv, Shape
  <2>2. \A k \in Jobs \ {j} : \A r \in job[k].held : r \in Rules \ job[j].held
    BY DEF PlanInv, HoldInv, Shape, Session, HeldByOne
  <2>3. \A k \in Jobs \ {j} : SessionDates(k)'
    BY <1>1, <1>5, <2>1, <2>2, SessionKept DEF PlanInv
  <2>4. /\ job'[j].day \in Dates /\ job'[j].held = {} /\ job'[j].pending = {}
        /\ job'[j].new = {} /\ job'[j].next = [r \in Rules |-> 0]
    BY <1>1, DaysAreDates DEF NoJob, PlanInv, HoldInv, Shape
  <2>5. SessionDates(j)'
    BY <2>4 DEF SessionDates, Dates
  <2> QED
    BY <2>3, <2>5
<1> QED
  BY <1>8, <1>9, <1>10, <1>11

-------------------------------------------------------------------------------
LEMMA PlanStep ==
  ASSUME PlanInv, [FireNext]_fireVars
  PROVE  PlanInv'
<1>1. HoldInv'
  BY HoldStep DEF PlanInv

<1>2. CASE Tick \/ UNCHANGED fireVars
  <2>1. UNCHANGED <<status, plan, next, booked, job, edits, edited>>
    BY <1>2 DEF Tick, fireVars
  <2>2. RuleDates' /\ EditsInFlight' /\ BookingsLieBehind'
    BY <2>1, RowsKept, TodayIsADate
  <2>3. \A k \in Jobs : SessionDates(k)'
    BY <2>1, SessionKept DEF PlanInv
  <2> QED
    BY <1>1, <2>2, <2>3 DEF PlanInv
<1>3. CASE \E e \in edits : EditWrite(e) \/ EditStale(e)
  BY <1>1, <1>3, EditWritePlans, GonePlans DEF PlanInv
<1>4. CASE \E r \in Rules : Create(r) \/ EditRead(r) \/ Delete(r)
  BY <1>1, <1>4, CreatePlans, EditReadPlans, GonePlans DEF PlanInv
<1>5. ASSUME NEW j \in Jobs, JobStep(j) \/ Abort(j)
      PROVE  PlanInv'
  <2>1. CASE CommitJob(j)
    BY <1>1, <2>1, CommitPlans DEF PlanInv
  <2>2. ASSUME ~CommitJob(j)
        PROVE  PlanInv'
    <3>1. UNCHANGED <<today, status, plan, next, booked, edits, edited>>
      BY <1>5, <2>2 DEF JobStep, Start, Fetch, CommitRejected, Fire, FireFails, Abort
    <3>2. RuleDates' /\ EditsInFlight' /\ BookingsLieBehind'
      BY <3>1, RowsKept, TodayIsADate
    <3>3. CASE Start(j) \/ CommitRejected(j) \/ Abort(j)
      <4>1. \/ job' = [job EXCEPT ![j] = NoJob]
            \/ job' = [job EXCEPT ![j] = [NoJob EXCEPT !.pc = "fetch", !.day = today]]
        BY <3>3 DEF Start, CommitRejected, Abort
      <4>2. \A k \in Jobs : SessionDates(k)'
        BY <3>1, <4>1, EmptyPlans
      <4> QED
        BY <1>1, <3>2, <4>2 DEF PlanInv
    <3>4. CASE Fetch(j)
      <4>1. \A k \in Jobs : SessionDates(k)'
        BY <3>4, FetchPlans
      <4> QED
        BY <1>1, <3>2, <4>1 DEF PlanInv
    <3>5. ASSUME NEW r \in Rules, Fire(j, r) \/ FireFails(j, r)
          PROVE  PlanInv'
      <4>1. \A k \in Jobs : SessionDates(k)'
        BY <3>5, FirePlans, FireFailsPlans
      <4> QED
        BY <1>1, <3>2, <4>1 DEF PlanInv
    <3> QED
      BY <1>5, <2>2, <3>3, <3>4, <3>5 DEF JobStep
  <2> QED
    BY <2>1, <2>2
<1> QED
  BY <1>2, <1>3, <1>4, <1>5 DEF FireNext

(* Two schedulers, jobs that die or are rolled back: whatever a rule has   *)
(* booked lies before its next date, unless a user moved the rule.         *)
THEOREM BookingsBehind == FireSpec => []BookingsLieBehind
<1>1. PlanInv => BookingsLieBehind
  BY DEF PlanInv
<1> QED
  BY PlanInit, PlanStep, <1>1, PTL DEF FireSpec

(* A PATCH that raced the job leaves a next date its schedule names.       *)
THEOREM ScheduleFollowed == FireSpec => []NextFollowsSchedule
<1>1. PlanInv => NextFollowsSchedule
  BY DEF PlanInv, RuleDates, NextFollowsSchedule
<1> QED
  BY PlanInit, PlanStep, <1>1, PTL DEF FireSpec

-------------------------------------------------------------------------------
(* Types: a session fetches while it has a batch left, so that the bound   *)
(* on the batches of a job is kept.                                        *)
BatchLeft == \A j \in Jobs : job[j].pc = "fetch" => job[j].batch < MaxBatches

LEMMA SettingsAreNumbers == MaxBatches \in Nat \ {0} /\ MaxAborts \in Nat
BY FireAssumption

LEMMA IdleTyped == NoJob \in JobState
<1>1. FirstOfDays \in Days /\ 0 \in Dates /\ 0 \in 0..MaxBatches
  BY DaysAreDates, SettingsAreNumbers DEF Dates
<1>2. /\ [r \in Rules |-> "none"] \in [Rules -> {"none", "active", "paused"}]
      /\ [r \in Rules |-> 0] \in [Rules -> Dates]
  BY <1>1
<1> QED
  BY <1>1, <1>2 DEF NoJob, JobState

LEMMA FetchTyped ==
  ASSUME PlanInv, FireTypeOK, BatchLeft, NEW j \in Jobs, Fetch(j)
  PROVE  \E u \in JobState : job' = [job EXCEPT ![j] = u] /\ u.pc # "fetch"
<1>1. PICK v \in JobState : v = job[j]
  BY DEF FireTypeOK
<1>2. PICK S, q, to, st, nx :
        /\ S \subseteq Selectable(j) /\ q = S \ v.failed /\ to \in {"commit", "fire"}
        /\ st = [r \in Rules |-> IF r \in S \ v.held THEN status[r] ELSE v.status[r]]
        /\ nx = [r \in Rules |-> IF r \in S \ v.held THEN next[r] ELSE v.next[r]]
        /\ job' = [job EXCEPT ![j] = [v EXCEPT !.pc = to, !.batch = v.batch + 1,
                                        !.held = v.held \cup S, !.pending = q,
                                        !.status = st, !.next = nx]]
  <2>1. PICK S \in SUBSET Selectable(j) :
          LET fresh   == S \ job[j].held
              pending == S \ job[j].failed
          IN  job' = [job EXCEPT ![j] =
                [job[j] EXCEPT
                   !.pc = IF pending = {} THEN "commit" ELSE "fire",
                   !.batch = @ + 1,
                   !.held = @ \cup S,
                   !.pending = pending,
                   !.status = [r \in Rules |-> IF r \in fresh THEN status[r] ELSE @[r]],
                   !.next = [r \in Rules |-> IF r \in fresh THEN next[r] ELSE @[r]]]]
    BY DEF Fetch
  <2>2. PICK q, to, st, nx :
          /\ q = S \ v.failed /\ to = IF q = {} THEN "commit" ELSE "fire"
          /\ st = [r \in Rules |-> IF r \in S \ v.held THEN status[r] ELSE v.status[r]]
          /\ nx = [r \in Rules |-> IF r \in S \ v.held THEN next[r] ELSE v.next[r]]
    OBVIOUS
  <2>3. job' = [job EXCEPT ![j] = [v EXCEPT !.pc = to, !.batch = v.batch + 1,
                                     !.held = v.held \cup S, !.pending = q,
                                     !.status = st, !.next = nx]]
    BY <1>1, <2>1, <2>2
  <2>4. to \in {"commit", "fire"} /\ S \subseteq Selectable(j)
    BY <2>2
  <2> QED
    BY <2>2, <2>3, <2>4
<1>3. S \subseteq Rules /\ \A r \in S : status[r] = "active"
  BY <1>2 DEF Selectable, Due
<1>4. st \in [Rules -> {"none", "active", "paused"}] /\ nx \in [Rules -> Dates]
  BY <1>1, <1>2, <1>3 DEF JobState, FireTypeOK
<1>5. v.batch + 1 \in 0..MaxBatches
  <2>1. v.pc = "fetch" /\ v.batch < MaxBatches /\ v.batch \in 0..MaxBatches
    BY <1>1 DEF Fetch, BatchLeft, JobState
  <2> QED
    BY <2>1, SettingsAreNumbers
<1>6. PICK u : u = [v EXCEPT !.pc = to, !.batch = v.batch + 1, !.held = v.held \cup S,
                             !.pending = q, !.status = st, !.next = nx]
  OBVIOUS
<1>7. u \in JobState /\ u.pc = to
  BY <1>1, <1>2, <1>3, <1>4, <1>5, <1>6 DEF JobState
<1> QED
  BY <1>2, <1>6, <1>7

LEMMA FireTyped ==
  ASSUME PlanInv, FireTypeOK, NEW j \in Jobs, NEW r \in Rules, Fire(j, r) \/ FireFails(j, r)
  PROVE  \E u \in JobState : /\ job' = [job EXCEPT ![j] = u]
                             /\ u.pc = "fetch" => u.batch < MaxBatches
<1>1. PICK v \in JobState : v = job[j]
  BY DEF FireTypeOK
<1>2. PICK to : to = Onward(j, r)
  OBVIOUS
<1>3. /\ to \in {"fetch", "fire", "commit"}
      /\ to = "fetch" => v.batch < MaxBatches
  BY <1>1, <1>2 DEF Onward
<1>4. CASE FireFails(j, r)
  <2>1. PICK u : u = [v EXCEPT !.pc = to, !.pending = v.pending \ {r},
                               !.failed = v.failed \cup {r}]
    OBVIOUS
  <2>2. job' = [job EXCEPT ![j] = u]
    BY <1>1, <1>2, <1>4, <2>1 DEF FireFails
  <2>3. u \in JobState /\ u.pc = to /\ u.batch = v.batch
    BY <1>1, <1>3, <2>1 DEF JobState
  <2> QED
    BY <1>3, <2>2, <2>3
<1>5. CASE Fire(j, r)
  <2> DEFINE after == NextAfter(job[j].next[r], plan[r], job[j].day)
  <2>1. PICK st, nx, new :
          /\ st = [v.status EXCEPT ![r] = IF r \in Ending /\ after > EndDay THEN "paused" ELSE @]
          /\ nx = [v.next EXCEPT ![r] = after]
          /\ new = v.new \cup {<<r, v.next[r]>>}
    OBVIOUS
  <2>2. PICK u : u = [v EXCEPT !.pc = to, !.pending = v.pending \ {r}, !.new = new,
                               !.next = nx, !.status = st]
    OBVIOUS
  <2>3. job' = [job EXCEPT ![j] = u]
    BY <1>1, <1>2, <1>5, <2>1, <2>2 DEF Fire
  <2>4. /\ v.status \in [Rules -> {"none", "active", "paused"}]
        /\ v.next \in [Rules -> Dates] /\ v.new \subseteq Rules \X Dates /\ v.day \in Dates
    BY <1>1, DaysAreDates DEF JobState
  <2>5. after \in Dates
    <3>1. v.next[r] \in Dates /\ plan[r] \in Schedules
      BY <2>4 DEF FireTypeOK
    <3> QED
      BY <1>1, <2>4, <3>1, NextAfterDay
  <2>6. /\ st \in [Rules -> {"none", "active", "paused"}] /\ nx \in [Rules -> Dates]
        /\ new \subseteq Rules \X Dates
    <3> HIDE DEF after
    <3> QED
      BY <2>1, <2>4, <2>5
  <2>7. u \in JobState /\ u.pc = to /\ u.batch = v.batch
    BY <1>1, <1>3, <2>2, <2>6 DEF JobState
  <2> QED
    BY <1>3, <2>3, <2>7
<1> QED
  BY <1>4, <1>5

LEMMA EditsTyped ==
  ASSUME PlanInv, FireTypeOK, [FireNext]_fireVars
  PROVE  edits' \subseteq Edit
<1>1. ASSUME NEW r \in Rules, EditRead(r)
      PROVE  edits' \subseteq Edit
  <2>1. PICK new \in {"active", "paused"},
             asked \in {{}} \cup {{t} : t \in {u \in Offers[r] : u.kind = plan[r].kind}} :
          edits' = edits \cup
            {[rule   |-> r,
              status |-> {new} \ {status[r]},
              plan   |-> asked \ {plan[r]},
              next   |-> {FirstFire(today, s) : s \in asked} \ {next[r]}]}
    BY <1>1 DEF EditRead
  <2>2. asked \subseteq Schedules /\ today \in Dates
    BY <2>1, FireAssumption, DaysAreDates DEF FireTypeOK
  <2>3. \A s \in asked : FirstFire(today, s) \in Dates
    BY <2>2, FirstFireFalls
  <2> QED
    BY <2>1, <2>2, <2>3 DEF Edit, FireTypeOK
<1>2. (\A r \in Rules : ~EditRead(r)) => edits' \subseteq edits
  BY ZenonT(60) DEF FireNext, fireVars, Tick, EditWrite, EditStale, Create, Delete, JobStep, Start,
     Fetch, CommitJob, CommitRejected, Fire, FireFails, Abort
<1> QED
  BY <1>1, <1>2 DEF FireTypeOK

LEMMA JobsTyped ==
  ASSUME PlanInv, FireTypeOK, BatchLeft, [FireNext]_fireVars
  PROVE  job' \in [Jobs -> JobState] /\ BatchLeft'
<1>1. ASSUME NEW j \in Jobs, NEW u \in JobState, job' = [job EXCEPT ![j] = u],
             u.pc = "fetch" => u.batch < MaxBatches
      PROVE  job' \in [Jobs -> JobState] /\ BatchLeft'
  BY <1>1 DEF FireTypeOK, BatchLeft
<1>2. ASSUME NEW j \in Jobs, Start(j)
      PROVE  job' \in [Jobs -> JobState] /\ BatchLeft'
  <2>1. PICK u : u = [NoJob EXCEPT !.pc = "fetch", !.day = today]
    OBVIOUS
  <2>2. u \in JobState /\ u.batch = 0
    BY <2>1, IdleTyped DEF FireTypeOK, JobState, NoJob
  <2>3. job' = [job EXCEPT ![j] = u]
    BY <1>2, <2>1 DEF Start
  <2>4. u.batch < MaxBatches
    BY <2>2, SettingsAreNumbers
  <2> QED
    BY <1>1, <2>2, <2>3, <2>4
<1>3. ASSUME NEW j \in Jobs, CommitJob(j) \/ CommitRejected(j) \/ Abort(j)
      PROVE  job' \in [Jobs -> JobState] /\ BatchLeft'
  <2>1. job' = [job EXCEPT ![j] = NoJob] /\ NoJob.pc = "idle"
    BY <1>3 DEF CommitJob, CommitRejected, Abort, NoJob
  <2> QED
    BY <1>1, <2>1, IdleTyped
<1>4. ASSUME UNCHANGED job
      PROVE  job' \in [Jobs -> JobState] /\ BatchLeft'
  BY <1>4 DEF FireTypeOK, BatchLeft
<1> QED
  BY <1>1, <1>2, <1>3, <1>4, FetchTyped, FireTyped
  DEF FireNext, fireVars, Tick, EditRead, EditWrite, EditStale, Create, Delete, JobStep

LEMMA RowsTyped ==
  ASSUME PlanInv, FireTypeOK, [FireNext]_fireVars
  PROVE  /\ today' \in Days
         /\ status' \in [Rules -> {"none", "active", "paused", "deleted"}]
         /\ booked' \subseteq Rules \X Dates
         /\ aborts' \in 0..MaxAborts
<1>1. today' \in Days
  BY ZenonT(60) DEF FireTypeOK, FireNext, fireVars, Tick, EditRead, EditWrite, EditStale, Create,
     Delete, JobStep, Start, Fetch, CommitJob, CommitRejected, Fire, FireFails, Abort
<1>2. aborts' \in 0..MaxAborts
  <2>1. aborts' = aborts \/ (aborts < MaxAborts /\ aborts' = aborts + 1)
    BY ZenonT(60)
    DEF FireNext, fireVars, Tick, EditRead, EditWrite, EditStale, Create, Delete, JobStep,
        Start, Fetch, CommitJob, CommitRejected, Fire, FireFails, Abort
  <2> QED
    BY <2>1, SettingsAreNumbers DEF FireTypeOK
<1>3. status' \in [Rules -> {"none", "active", "paused", "deleted"}]
  <2>1. ASSUME NEW e \in edits, EditWrite(e)
        PROVE  status' \in [Rules -> {"none", "active", "paused", "deleted"}]
    <3>1. e.status \subseteq {"active", "paused"} /\ e.rule \in Rules
      BY DEF FireTypeOK, Edit
    <3>2. PICK x : /\ e.status # {} => x \in e.status
                   /\ status' = [status EXCEPT ![e.rule] = IF e.status = {} THEN @ ELSE x]
      BY <2>1 DEF EditWrite, Patch, Written
    <3> QED
      BY <3>1, <3>2 DEF FireTypeOK
  <2>2. ASSUME NEW j \in Jobs, CommitJob(j)
        PROVE  status' \in [Rules -> {"none", "active", "paused", "deleted"}]
    BY <2>2 DEF CommitJob, FireTypeOK, JobState
  <2> QED
    BY <2>1, <2>2, ZenonT(60)
    DEF FireTypeOK, FireNext, fireVars, Tick, EditRead, EditStale, Create,
        Delete, JobStep, Start, Fetch, CommitRejected, Fire, FireFails, Abort
<1>4. booked' \subseteq Rules \X Dates
  <2>1. ASSUME NEW j \in Jobs, CommitJob(j)
        PROVE  booked' \subseteq Rules \X Dates
    BY <2>1 DEF CommitJob, FireTypeOK, JobState
  <2> QED
    BY <2>1, ZenonT(60)
    DEF FireTypeOK, FireNext, fireVars, Tick, EditRead, EditWrite, EditStale, Create,
        Delete, JobStep, Start, Fetch, CommitRejected, Fire, FireFails, Abort
<1> QED
  BY <1>1, <1>2, <1>3, <1>4

(* Every variable of the recurring rules keeps its type: what a rule, a    *)
(* session or a PATCH under way holds is a date and a schedule, and no job *)
(* takes more batches than it may.                                         *)
THEOREM RulesTypeCorrect == FireSpec => []FireTypeOK
<1>1. FireInit => FireTypeOK /\ BatchLeft
  <2> SUFFICES ASSUME FireInit
               PROVE  FireTypeOK /\ BatchLeft
    OBVIOUS
  <2>1. NoSchedule \in Schedules /\ 0 \in Dates
    BY DEF NoSchedule, Schedules, Dates
  <2>2. FirstOfDays \in Days
    BY IdleTyped DEF NoJob, JobState
  <2> QED
    BY <2>1, <2>2, IdleTyped, SettingsAreNumbers
    DEF FireInit, FireTypeOK, BatchLeft, NoJob
<1>2. PlanInv /\ FireTypeOK /\ BatchLeft /\ [FireNext]_fireVars
        => (FireTypeOK /\ BatchLeft)'
  <2>1. PlanInv /\ [FireNext]_fireVars
          => (plan \in [Rules -> Schedules] /\ next \in [Rules -> Dates]
              /\ edited \in [Rules -> Nat])'
    BY PlanStep DEF PlanInv, RuleDates
  <2> QED
    BY <2>1, RowsTyped, JobsTyped, EditsTyped DEF FireTypeOK
<1>3. PlanInv /\ [FireNext]_fireVars => PlanInv'
  BY PlanStep
<1> QED
  BY <1>1, <1>2, <1>3, PlanInit, PTL DEF FireSpec

-------------------------------------------------------------------------------
(* Both loops together                                                     *)

(* The poller of the worker and the job of the scheduler share no rows:    *)
(* what the two loops do together is, to each of them, its own steps, and  *)
(* the theorems above are theorems about both running.                     *)
THEOREM EachLoopByItself == JobsSpec => Spec /\ FireSpec
<1>1. JobsInit => Init /\ FireInit
  BY DEF JobsInit
<1>2. [JobsNext]_jobVars => [Next]_vars /\ [FireNext]_fireVars
  BY DEF JobsNext, jobVars
<1> QED
  BY <1>1, <1>2, PTL DEF JobsSpec, Spec, FireSpec

===============================================================================
