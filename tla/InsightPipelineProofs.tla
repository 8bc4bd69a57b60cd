------------------------- MODULE InsightPipelineProofs -------------------------
(***************************************************************************)
(* Theorems about InsightPipeline, for any numbers of insights, workers,   *)
(* reaps, failures, publications and faults, and about the pages that      *)
(* watch it, for any number of them.                                       *)
(***************************************************************************)
EXTENDS WatchedPipeline, InsightStreamProofs, TLAPS

(* A worker is idle with nothing in hand, or busy with an event.           *)
WorkerOK ==
  \A w \in Workers : IF At(w, "idle") THEN worker[w] = Idle ELSE Event(w) \in Events

Typed == TypeOK /\ WorkerOK

(* The program starts well typed, every worker idle.                       *)
LEMMA InitTyped == Init => Typed
  BY ConstantsAssumption
  DEF Init, Typed, TypeOK, WorkerOK, Delivery!Init, Delivery!Row, Status, Errors,
      At, Idle, WorkerState, Pcs, NoEvent, Events

WorkerTyped == worker \in [Workers -> WorkerState] /\ WorkerOK

(* The three ways in which a busy worker moves on.                         *)
LEMMA GotoTyped ==
  ASSUME WorkerTyped, NEW w \in Workers, ~At(w, "idle"),
         NEW pc \in Pcs \ {"idle"}, Goto(w, pc)
  PROVE  WorkerTyped'
  BY DEF WorkerTyped, Goto, WorkerOK, At, Event, WorkerState

(* A worker sent to record_failure carries the kind of its error.          *)
LEMMA GotoFailingTyped ==
  ASSUME WorkerTyped, NEW w \in Workers, ~At(w, "idle"),
         NEW err \in {"no_data", "unexpected"}, GotoFailing(w, err)
  PROVE  WorkerTyped'
<1>1. /\ worker' \in [Workers -> WorkerState]
      /\ worker'[w].pc = "failRead" /\ worker'[w].event = worker[w].event
      /\ \A v \in Workers \ {w} : worker'[v] = worker[v]
  BY DEF WorkerTyped, GotoFailing, WorkerState, Pcs, Working
<1> QED
  BY <1>1 DEF WorkerTyped, WorkerOK, At, Event

(* A worker that is done with its message holds none.                      *)
LEMMA IdleTyped ==
  ASSUME WorkerTyped, NEW w \in Workers, worker' = [worker EXCEPT ![w] = Idle]
  PROVE  WorkerTyped'
  BY DEF WorkerTyped, WorkerOK, At, Event, WorkerState, Pcs, Idle

(* A message given back to the topic is one more copy of its event.        *)
LEMMA NackTyped ==
  ASSUME TypeOK, WorkerOK, NEW w \in Workers, ~At(w, "idle"), Nack(w)
  PROVE  WorkerTyped' /\ available' \in [Events -> Nat]
<1>1. Event(w) \in Events
  BY DEF WorkerOK
<1>2. WorkerTyped'
  BY IdleTyped DEF Nack, TypeOK, WorkerTyped
<1>3. available' \in [Events -> Nat]
  BY <1>1 DEF Nack, TypeOK
<1> QED
  BY <1>2, <1>3

(* No handler, fault or scheduler job leaves the declared ranges.          *)
LEMMA NextTyped == Typed /\ [Next]_vars => Typed'
<1> USE ConstantsAssumption
<1> SUFFICES ASSUME TypeOK, WorkerOK, [Next]_vars PROVE TypeOK' /\ WorkerOK'
  BY DEF Typed
<1>1. ASSUME NEW i \in Insights, Request(i) PROVE TypeOK' /\ WorkerOK'
  BY <1>1 DEF Request, TypeOK, WorkerOK, At, Event, Delivery!Append, Delivery!Row,
     Status, outboxVars
<1>2. ASSUME NEW i \in Insights, LeaseExpires(i) PROVE TypeOK' /\ WorkerOK'
  BY <1>2 DEF LeaseExpires, TypeOK, WorkerOK, At, Event, outboxVars, redisVars
<1>3. ASSUME NEW e \in Events, Relay(e) \/ RelayFault(e) \/ Administer(e)
      PROVE  TypeOK' /\ WorkerOK'
  BY <1>3
  DEF Relay, RelayFault, Administer, TypeOK, WorkerOK, At, Event, insightVars, redisVars,
      Delivery!Publish, Delivery!Confirm, Delivery!Rollback, Delivery!Quarantine,
      Delivery!Replay, Delivery!Purge, Delivery!Row
<1>4. ASSUME NEW e \in Events, KeyExpires(e) PROVE TypeOK' /\ WorkerOK'
  BY <1>4 DEF KeyExpires, TypeOK, WorkerOK, At, Event, insightVars, outboxVars
<1>5. CASE Reap
  BY <1>5 DEF Reap, TypeOK, WorkerOK, At, Event, redisVars, Expired, Requeued,
     Delivery!Append, Delivery!Row, Status, Errors
<1>6. ASSUME NEW w \in Workers, WorkerStep(w) \/ WorkerFault(w)
      PROVE  TypeOK' /\ WorkerOK'
  <2> WorkerTyped
    BY DEF TypeOK, WorkerTyped
  <2> SUFFICES /\ WorkerTyped'
               /\ (status \in [Insights -> Status])'
               /\ (lease \in [Insights -> {"none", "live", "passed"}])'
               /\ (error \in [Insights -> Errors])'
               /\ (available \in [Events -> Nat])'
               /\ (processed \in SUBSET Events)'
               /\ (failures \in [Events -> Nat])'
               /\ (dlq \in [Events -> Nat])'
               /\ (faults \in Nat)'
               /\ UNCHANGED <<retry, row, published>>
    BY DEF TypeOK, WorkerTyped
  <2> USE DEF TypeOK, insightVars, outboxVars, redisVars
  <2>1. CASE \E e \in Events : Receive(w, e)
    <3> PICK e \in Events : Receive(w, e)
      BY <2>1
    <3>1. Busy(e) \in WorkerState /\ Busy(e).pc = "claim" /\ Busy(e).event = e
      BY DEF Busy, WorkerState, Pcs
    <3>2. WorkerTyped'
      BY <3>1 DEF Receive, WorkerTyped, WorkerOK, At, Event
    <3>3. available[e] - 1 \in Nat
      BY DEF Receive
    <3> QED
      BY <3>2, <3>3 DEF Receive
  <2>2. CASE Claim(w)
    BY <2>2, GotoTyped DEF Claim, TerminalSkip, At, Pcs, Working, Status
  <2>3. CASE ClaimFails(w) \/ MarkFails(w)
    BY <2>3, GotoTyped DEF ClaimFails, MarkFails, Fault, At, Pcs
  <2>4. CASE Generate(w)
    BY <2>4, GotoTyped, GotoFailingTyped DEF Generate, At, Pcs, Working
  <2>5. CASE CompleteRead(w)
    BY <2>5, GotoTyped, GotoFailingTyped DEF CompleteRead, At, Pcs, Working
  <2>6. CASE CompleteWrite(w)
    BY <2>6, GotoTyped, GotoFailingTyped DEF CompleteWrite, Fault, At, Pcs, Status
  <2>7. CASE FailRead(w)
    BY <2>7, GotoTyped DEF FailRead, AfterFailure, At, Pcs, Working
  <2>8. CASE FailWrite(w)
    <3>1. worker[w].error \in Errors
      BY DEF WorkerState, Errors
    <3> QED
      BY <2>8, <3>1, GotoTyped DEF FailWrite, Fault, AfterFailure, At, Pcs, Status
  <2>9. CASE MarkProcessed(w) \/ MarkParked(w)
    BY <2>9, IdleTyped DEF MarkProcessed, MarkParked, Ack, WorkerOK, At
  <2>10. CASE CountFailure(w)
    <3>1. Event(w) \in Events
      BY <2>10 DEF CountFailure, WorkerOK, At
    <3>2. failures' \in [Events -> Nat]
      BY <2>10, <3>1 DEF CountFailure
    <3> QED
      BY <2>10, <3>2, GotoTyped, NackTyped DEF CountFailure, At, Pcs
  <2>11. CASE Park(w)
    BY <2>11, GotoTyped DEF Park, WorkerOK, At, Pcs
  <2>12. CASE Crash(w)
    BY <2>12, NackTyped DEF Crash, Fault
  <2>13. CASE Rebalance(w)
    <3>1. Event(w) \in Events /\ ~At(w, "idle")
      BY <2>13 DEF Rebalance, WorkerOK, Idle
    <3>2. available' \in [Events -> Nat]
      BY <2>13, <3>1 DEF Rebalance
    <3>3. WorkerTyped'
      BY <2>13, <3>1 DEF Rebalance, WorkerTyped, WorkerOK, WorkerState, At, Event
    <3> QED
      BY <2>13, <3>2, <3>3 DEF Rebalance, Fault
  <2> QED
    BY <1>6, <2>1, <2>2, <2>3, <2>4, <2>5, <2>6, <2>7, <2>8, <2>9, <2>10,
       <2>11, <2>12, <2>13
    DEF WorkerStep, WorkerFault
<1>7. CASE UNCHANGED vars
  BY <1>7 DEF vars, TypeOK, WorkerOK, At, Event
<1> QED
  BY <1>1, <1>2, <1>3, <1>4, <1>5, <1>6, <1>7 DEF Next

(* The type invariant, and that a busy worker always has an event.         *)
THEOREM Typing == Spec => []Typed
  BY InitTyped, NextTyped, PTL DEF Spec

(* Statuses, counters and worker states stay in their ranges: in           *)
(* particular the reaper never counts a row past reaper_max_retries.       *)
THEOREM TypeCorrect == Spec => []TypeOK
  BY Typing, PTL DEF Typed

-------------------------------------------------------------------------------
(* An event exists once its requeue (or the request) has happened.         *)
Born(e) == status[e[1]] # "none" /\ e[2] <= retry[e[1]]

BornOK ==
  /\ \A i \in Insights : status[i] = "none" => retry[i] = 0
  /\ \A e \in Events :
       row[e] # "none" \/ available[e] > 0 \/ e \in processed => Born(e)
  /\ \A w \in Workers : ~At(w, "idle") => Born(Event(w))

(* The insight of the event is still waiting for it.                       *)
Awaited(e) == status[e[1]] = "queued" /\ retry[e[1]] = e[2]

Strand ==
  /\ \A w \in Workers :
       worker[w].pc \in Working \cup {"mark"} => ~Awaited(Event(w))
  /\ \A w \in Workers : At(w, "unpark") => dlq[Event(w)] > 0
  /\ \A e \in processed : Awaited(e) => dlq[e] > 0
  /\ \A e \in Events : Awaited(e) => Carried(e)

IInv == Typed /\ BornOK /\ Strand

(* An event is an insight and the number of the requeue it stands for.     *)
LEMMA EventParts ==
  ASSUME NEW e \in Events
  PROVE  e[1] \in Insights /\ e[2] \in 0..MaxReaps /\ e = <<e[1], e[2]>>
  BY DEF Events

(* The request and the reaper are the only steps that make an insight wait, *)
(* and what it then waits for is an event that did not exist before.        *)
LEMMA StepsOfInsights ==
  ASSUME Typed, BornOK, [Next]_vars, NEW e \in Events
  PROVE  /\ Born(e) => Born(e)'
         /\ \/ Awaited(e)' => Awaited(e)
            \/ ~Born(e) /\ (row[e] = "pending")'
<1> USE ConstantsAssumption DEF Typed, TypeOK
<1> e[1] \in Insights /\ e[2] \in 0..MaxReaps /\ e = <<e[1], e[2]>>
  BY EventParts
<1>1. ASSUME NEW i \in Insights, Request(i)
      PROVE  /\ Born(e) => Born(e)'
             /\ \/ Awaited(e)' => Awaited(e)
                \/ ~Born(e) /\ (row[e] = "pending")'
  BY <1>1 DEF Request, Born, BornOK, Awaited, Delivery!Append
<1>2. CASE Reap
  BY <1>2 DEF Reap, Expired, Requeued, Born, Awaited, Delivery!Append, Status
<1>3. ASSUME NEW w \in Workers, WorkerStep(w) \/ WorkerFault(w)
      PROVE  (Born(e) => Born(e)') /\ (Awaited(e)' => Awaited(e))
  <2>1. CASE Claim(w)
    BY <2>1 DEF Claim, TerminalSkip, Born, Awaited
  <2>2. CASE CompleteWrite(w)
    BY <2>2 DEF CompleteWrite, Born, Awaited
  <2>3. CASE FailWrite(w)
    BY <2>3 DEF FailWrite, Born, Awaited
  <2>4. CASE UNCHANGED <<status, retry>>
    BY <2>4 DEF Born, Awaited
  <2> QED
    BY <1>3, <2>1, <2>2, <2>3, <2>4
    DEF WorkerStep, WorkerFault, Receive, ClaimFails, Generate, CompleteRead, FailRead,
        MarkProcessed, MarkFails, CountFailure, Park, MarkParked, Crash, Rebalance,
        insightVars
<1>4. CASE UNCHANGED <<status, retry>>
  BY <1>4 DEF Born, Awaited
<1> QED
  BY <1>1, <1>2, <1>3, <1>4
  DEF Next, LeaseExpires, Relay, RelayFault, Administer, KeyExpires, insightVars, vars

(* Rows, copies, keys and workers are only ever about events that were     *)
(* appended.                                                               *)
LEMMA NextBorn == Typed /\ BornOK /\ [Next]_vars => BornOK'
<1> USE ConstantsAssumption DEF Typed, TypeOK
<1> SUFFICES ASSUME Typed, BornOK, [Next]_vars PROVE BornOK'
  OBVIOUS
<1>1. \A e \in Events : Born(e) => Born(e)'
  BY StepsOfInsights
<1>2. (\A i \in Insights : status[i] = "none" => retry[i] = 0)'
  <2>1. CASE Reap
    BY <2>1 DEF Reap, Expired, Requeued, BornOK
  <2>2. ASSUME NEW i \in Insights, Request(i)
        PROVE  (\A j \in Insights : status[j] = "none" => retry[j] = 0)'
    BY <2>2 DEF Request, BornOK
  <2>3. CASE retry' = retry /\ \A i \in Insights : status'[i] = "none" => status[i] = "none"
    BY <2>3 DEF BornOK
  <2>4. ASSUME NEW w \in Workers, WorkerStep(w) \/ WorkerFault(w)
        PROVE  retry' = retry /\ \A i \in Insights : status'[i] = "none" => status[i] = "none"
    BY <2>4 DEF WorkerStep, WorkerFault, Receive, Claim, TerminalSkip, ClaimFails, Generate, CompleteRead,
       CompleteWrite, FailRead, FailWrite, MarkProcessed, MarkFails, CountFailure, Park,
       MarkParked, Crash, Rebalance, insightVars
  <2> QED
    BY <2>1, <2>2, <2>3, <2>4
    DEF Next, LeaseExpires, Relay, RelayFault, Administer, KeyExpires, insightVars, vars
<1>3. (\A e \in Events :
         row[e] # "none" \/ available[e] > 0 \/ e \in processed => Born(e))'
  <2>1. ASSUME NEW i \in Insights, Request(i)
        PROVE  (\A e \in Events :
                  row[e] # "none" \/ available[e] > 0 \/ e \in processed => Born(e))'
    <3>1. Born(<<i, 0>>)'
      BY <2>1 DEF Request, Born
    <3> QED
      BY <1>1, <2>1, <3>1 DEF Request, BornOK, Delivery!Append
  <2>2. CASE Reap
    <3> DEFINE new == {<<i, retry[i] + 1>> : i \in Requeued}
    <3>1. ASSUME NEW e \in new PROVE Born(e)'
      <4> PICK i \in Requeued : e = <<i, retry[i] + 1>>
        OBVIOUS
      <4>1. i \in Insights /\ i \in Requeued
        BY DEF Requeued, Expired
      <4>2. status'[i] = "queued" /\ retry'[i] = retry[i] + 1
        BY <2>2, <4>1 DEF Reap
      <4>3. e[1] = i /\ e[2] = retry[i] + 1
        OBVIOUS
      <4> QED
        BY <4>1, <4>2, <4>3 DEF Born
    <3>2. row' = [e \in Events |-> IF e \in new THEN "pending" ELSE row[e]]
      BY <2>2 DEF Reap, Delivery!Append
    <3> HIDE DEF new
    <3> QED
      BY <1>1, <2>2, <3>1, <3>2 DEF Reap, BornOK, Delivery!Append, redisVars
  <2>3. ASSUME NEW e \in Events,
               Relay(e) \/ RelayFault(e) \/ Administer(e) \/ KeyExpires(e)
        PROVE  (\A f \in Events :
                  row[f] # "none" \/ available[f] > 0 \/ f \in processed => Born(f))'
    BY <1>1, <2>3
    DEF BornOK, Relay, RelayFault, Administer, KeyExpires, Delivery!Publish,
        Delivery!Confirm, Delivery!Rollback, Delivery!Quarantine, Delivery!Replay,
        Delivery!Purge, insightVars, redisVars, outboxVars
  <2>4. ASSUME NEW w \in Workers, WorkerStep(w) \/ WorkerFault(w)
        PROVE  (\A e \in Events :
                  row[e] # "none" \/ available[e] > 0 \/ e \in processed => Born(e))'
    <3>1. row' = row
      BY <2>4 DEF WorkerStep, WorkerFault, Receive, Claim, TerminalSkip, ClaimFails, Generate,
         CompleteRead, CompleteWrite, FailRead, FailWrite, MarkProcessed, MarkFails,
         CountFailure, Park, MarkParked, Crash, Rebalance, outboxVars
    <3>2. \A e \in processed' : e \in processed \/ (~At(w, "idle") /\ e = Event(w))
      BY <2>4 DEF WorkerStep, WorkerFault, Receive, Claim, TerminalSkip, ClaimFails, Generate,
         CompleteRead, CompleteWrite, FailRead, FailWrite, MarkProcessed, MarkFails,
         CountFailure, Park, MarkParked, Crash, Rebalance, redisVars, At
    <3>3. \A e \in Events : available'[e] > 0 =>
            available[e] > 0 \/ (~At(w, "idle") /\ e = Event(w))
      <4>1. CASE available' = available
        BY <4>1
      <4>2. ASSUME NEW e \in Events, Receive(w, e)
            PROVE  \A f \in Events : available'[f] > 0 => available[f] > 0
        BY <4>2 DEF Receive
      <4>3. CASE Crash(w) \/ CountFailure(w)
        BY <4>3 DEF Crash, CountFailure, Nack, At
      <4>4. CASE Rebalance(w)
        BY <4>4 DEF Rebalance, WorkerOK, Idle, At
      <4> QED
        BY <2>4, <4>1, <4>2, <4>3, <4>4
        DEF WorkerStep, WorkerFault, Claim, TerminalSkip, ClaimFails, Generate, CompleteRead,
            CompleteWrite, FailRead, FailWrite, MarkProcessed, MarkFails, Park,
            MarkParked, Ack
    <3> QED
      BY <1>1, <3>1, <3>2, <3>3 DEF BornOK, WorkerOK
  <2>5. CASE UNCHANGED <<row, available, processed>>
    BY <1>1, <2>5 DEF BornOK
  <2> QED
    BY <2>1, <2>2, <2>3, <2>4, <2>5 DEF Next, LeaseExpires, outboxVars, redisVars, vars
<1>4. (\A w \in Workers : ~At(w, "idle") => Born(Event(w)))'
  <2>1. CASE worker' = worker
    BY <1>1, <2>1 DEF BornOK, WorkerOK, At, Event
  <2>2. ASSUME NEW w \in Workers, NEW e \in Events, Receive(w, e)
        PROVE  (\A v \in Workers : ~At(v, "idle") => Born(Event(v)))'
    <3>1. Born(e)'
      BY <1>1, <2>2 DEF Receive, BornOK
    <3> QED
      BY <1>1, <2>2, <3>1 DEF Receive, BornOK, WorkerOK, At, Event, Busy
  <2>3. ASSUME NEW w \in Workers, WorkerStep(w) \/ WorkerFault(w),
               \A e \in Events : ~Receive(w, e)
        PROVE  (\A v \in Workers : ~At(v, "idle") => Born(Event(v)))'
    <3>1. \A v \in Workers : ~At(v, "idle")' =>
             ~At(v, "idle") /\ Event(v)' = Event(v)
      <4> ~At(w, "idle")
        BY <2>3 DEF At, WorkerOK, Idle, WorkerStep, WorkerFault, Claim, TerminalSkip, ClaimFails,
           Generate, CompleteRead, CompleteWrite, FailRead, FailWrite, MarkProcessed,
           MarkFails, CountFailure, Park, MarkParked, Crash, Rebalance
      <4>1. CASE \E pc \in Pcs : Goto(w, pc)
        BY <4>1 DEF Goto, At, Event, WorkerState
      <4>5. CASE \E err \in Errors : GotoFailing(w, err)
        BY <4>5 DEF GotoFailing, At, Event, WorkerState
      <4>2. CASE worker' = [worker EXCEPT ![w] = Idle]
        BY <4>2 DEF At, Event, Idle
      <4>3. CASE Rebalance(w)
        BY <4>3 DEF Rebalance, At, Event
      <4>4. \/ \E pc \in Pcs : Goto(w, pc)
            \/ \E err \in Errors : GotoFailing(w, err)
            \/ worker' = [worker EXCEPT ![w] = Idle]
            \/ Rebalance(w)
        BY <2>3
        DEF WorkerStep, WorkerFault, Claim, TerminalSkip, ClaimFails, Generate, CompleteRead,
            CompleteWrite, FailRead, FailWrite, AfterFailure, MarkProcessed, MarkFails,
            CountFailure, Park, MarkParked, Crash, Ack, Nack, Pcs, Working, Errors
      <4> QED
        BY <4>1, <4>2, <4>3, <4>4, <4>5
    <3> QED
      BY <1>1, <3>1 DEF BornOK, WorkerOK
  <2> QED
    BY <2>1, <2>2, <2>3
    DEF Next, Request, LeaseExpires, Relay, RelayFault, Administer, KeyExpires, Reap, vars
<1> QED
  BY <1>2, <1>3, <1>4 DEF BornOK

-------------------------------------------------------------------------------
(* w goes on to pc with the event it has.                                  *)
Moves(w, pc) ==
  /\ worker'[w].pc = pc
  /\ worker'[w].event = worker[w].event
  /\ worker'[w].owns = worker[w].owns
  /\ \A v \in Workers \ {w} : worker'[v] = worker[v]

(* What Goto leaves alone.                                                 *)
LEMMA GotoMoves ==
  ASSUME Typed, NEW w \in Workers, NEW pc, Goto(w, pc)
  PROVE  Moves(w, pc)
  BY DEF Typed, TypeOK, WorkerState, Goto, Moves

(* What GotoFailing leaves alone.                                          *)
LEMMA GotoFailingMoves ==
  ASSUME Typed, NEW w \in Workers, NEW err, GotoFailing(w, err)
  PROVE  Moves(w, "failRead")
  BY DEF Typed, TypeOK, WorkerState, GotoFailing, Moves

(* A worker that moves on still carries what it carried.                   *)
LEMMA MovesCarry ==
  ASSUME Typed, NEW w \in Workers, ~At(w, "idle"), NEW pc, pc # "idle", Moves(w, pc),
         UNCHANGED <<row, available>>,
         \A e \in Events : dlq[e] > 0 => dlq'[e] > 0,
         \A e \in Events : Awaited(e)' => Awaited(e), Strand
  PROVE  (\A e \in Events : Awaited(e) => Carried(e))'
<1> SUFFICES ASSUME NEW e \in Events, Awaited(e), Carried(e) PROVE Carried(e)'
  BY DEF Strand
<1>1. ASSUME NEW v \in Workers, Holds(v, e) PROVE Holds(v, e)'
  BY <1>1 DEF Holds, Moves, At, Event
<1> QED
  BY <1>1 DEF Carried

(* ... and it keeps the invariant if it was done with an insight no longer *)
(* waiting when it goes to mark, and had parked a copy when it goes to     *)
(* unpark.                                                                 *)
LEMMA MovesStrand ==
  ASSUME Typed, BornOK, Strand, NEW w \in Workers, ~At(w, "idle"),
         NEW pc, pc # "idle", Moves(w, pc),
         pc \in Working \cup {"mark"} => ~Awaited(Event(w))',
         pc = "unpark" => dlq'[Event(w)] > 0,
         UNCHANGED <<row, available, processed>>,
         \A e \in Events : dlq[e] > 0 => dlq'[e] > 0,
         \A e \in Events : Awaited(e)' => Awaited(e)
  PROVE  Strand'
<1> USE DEF Typed, TypeOK
<1>1. (\A v \in Workers :
         worker[v].pc \in Working \cup {"mark"} => ~Awaited(Event(v)))'
  BY DEF Strand, Moves, At, Event, WorkerOK, Working
<1>2. (\A v \in Workers : At(v, "unpark") => dlq[Event(v)] > 0)'
  BY DEF Strand, Moves, At, Event, WorkerOK
<1>3. (\A e \in processed : Awaited(e) => dlq[e] > 0)'
  BY DEF Strand
<1>4. (\A e \in Events : Awaited(e) => Carried(e))'
  BY MovesCarry
<1> QED
  BY <1>1, <1>2, <1>3, <1>4 DEF Strand

(* A worker lets go of its event: nobody waits for it, a copy is parked, or *)
(* the broker has it again.                                                *)
LEMMA ReleaseStrand ==
  ASSUME Typed, BornOK, Strand, NEW w \in Workers, ~At(w, "idle"),
         worker' = [worker EXCEPT ![w] = Idle],
         UNCHANGED <<row, dlq>>,
         \A e \in Events : available[e] > 0 => available'[e] > 0,
         \/ ~Awaited(Event(w))
         \/ dlq[Event(w)] > 0
         \/ processed' = processed /\ (worker[w].owns => available'[Event(w)] > 0),
         processed' \in {processed, processed \cup {Event(w)}},
         \A e \in Events : Awaited(e)' => Awaited(e)
  PROVE  Strand'
<1> USE DEF Typed, TypeOK
<1>0. \A v \in Workers : v # w => worker'[v] = worker[v]
  OBVIOUS
<1>a. worker'[w] = Idle
  OBVIOUS
<1>1. (\A v \in Workers :
         worker[v].pc \in Working \cup {"mark"} => ~Awaited(Event(v)))'
  BY <1>0, <1>a DEF Strand, At, Event, WorkerOK, Idle, Working
<1>2. (\A v \in Workers : At(v, "unpark") => dlq[Event(v)] > 0)'
  BY <1>0, <1>a DEF Strand, At, Event, Idle
<1>3. (\A e \in processed : Awaited(e) => dlq[e] > 0)'
  BY DEF Strand, WorkerOK, At
<1>4. (\A e \in Events : Awaited(e) => Carried(e))'
  <2> SUFFICES ASSUME NEW e \in Events, Awaited(e), Awaited(e)', Carried(e)
               PROVE  Carried(e)'
    BY DEF Strand
  <2>1. ASSUME NEW v \in Workers, v # w, Holds(v, e) PROVE Holds(v, e)'
    BY <1>0, <2>1 DEF Holds, At, Event
  <2> QED
    BY <2>1 DEF Carried, Holds
<1> QED
  BY <1>1, <1>2, <1>3, <1>4 DEF Strand

(* A worker that owns its partition and gives up leaves a copy behind.     *)
LEMMA NackReleases ==
  ASSUME Typed, NEW w \in Workers, ~At(w, "idle"), Nack(w)
  PROVE  /\ \A e \in Events : available[e] > 0 => available'[e] > 0
         /\ worker[w].owns => available'[Event(w)] > 0
<1>1. Event(w) \in Events
  BY DEF Typed, WorkerOK
<1> QED
  BY <1>1 DEF Typed, TypeOK, Nack

(* Every step keeps the event of a waiting insight somewhere: in the       *)
(* outbox, the topic, a worker or the dead-letter topic.                   *)
LEMMA NextStrand == Typed /\ BornOK /\ Strand /\ [Next]_vars => Strand'
<1> USE ConstantsAssumption
<1> SUFFICES ASSUME Typed, BornOK, Strand, [Next]_vars PROVE Strand'
  OBVIOUS
<1>1. CASE Reap \/ \E i \in Insights : Request(i)
  <2> USE DEF Typed, TypeOK
  <2>1. /\ UNCHANGED <<worker, dlq, processed, available>>
        /\ \A e \in Events : row'[e] \in {row[e], "pending"}
    BY <1>1 DEF Reap, Request, Delivery!Append, redisVars
  <2>2. \A e \in Events :
          \/ Awaited(e)' => Awaited(e)
          \/ ~Born(e) /\ (row[e] = "pending")'
    BY StepsOfInsights
  <2>3. \A e \in Events : Born(e) /\ Awaited(e)' => Awaited(e)
    BY <2>2
  <2>4. (\A w \in Workers :
           worker[w].pc \in Working \cup {"mark"} => ~Awaited(Event(w)))'
    BY <2>1, <2>3 DEF Strand, BornOK, WorkerOK, At, Event, Working
  <2>5. (\A e \in processed : Awaited(e) => dlq[e] > 0)'
    BY <2>1, <2>3 DEF Strand, BornOK
  <2>6. (\A e \in Events : Awaited(e) => Carried(e))'
    BY <2>1, <2>2 DEF Strand, Carried, Holds, At, Event
  <2> QED
    BY <2>1, <2>4, <2>5, <2>6 DEF Strand, At, Event
<1>2. CASE \/ \E e \in Events : Relay(e) \/ RelayFault(e) \/ Administer(e) \/ KeyExpires(e)
           \/ \E i \in Insights : LeaseExpires(i)
           \/ UNCHANGED vars
  <2> USE DEF Typed, TypeOK
  <2>1. UNCHANGED <<worker, dlq, status, retry>> /\ processed' \subseteq processed
    BY <1>2 DEF Relay, RelayFault, Administer, KeyExpires, LeaseExpires, vars,
       insightVars, redisVars
  <2>2. \A e \in Events :
          /\ available[e] > 0 => available'[e] > 0
          /\ row[e] \in {"pending", "failed"} =>
               row'[e] \in {"pending", "failed"} \/ available'[e] > 0
    BY <1>2 DEF Relay, RelayFault, Administer, KeyExpires, LeaseExpires, vars, outboxVars,
       Delivery!Publish, Delivery!Confirm, Delivery!Rollback, Delivery!Quarantine,
       Delivery!Replay, Delivery!Purge
  <2>3. \A e \in Events : Carried(e) => Carried(e)'
    BY <2>1, <2>2 DEF Carried, Holds, At, Event
  <2> QED
    BY <2>1, <2>3 DEF Strand, Awaited, At, Event
<1>3. ASSUME NEW w \in Workers, WorkerStep(w) \/ WorkerFault(w) PROVE Strand'
  <2>1. row' = row
    BY <1>3 DEF WorkerStep, WorkerFault, Receive, Claim, TerminalSkip, ClaimFails, Generate,
       CompleteRead, CompleteWrite, FailRead, FailWrite, MarkProcessed, MarkFails,
       CountFailure, Park, MarkParked, Crash, Rebalance, outboxVars
  <2>2. \A e \in Events : Awaited(e)' => Awaited(e)
    BY <2>1, StepsOfInsights DEF BornOK
  <2>3. ~At(w, "idle") => Event(w) \in Events
    BY DEF Typed, WorkerOK
  <2>4. CASE \E e \in Events : Receive(w, e)
    <3> USE DEF Typed, TypeOK
    <3> PICK e \in Events : Receive(w, e)
      BY <2>4
    <3>1. CASE e \in processed
      <4>1. UNCHANGED <<worker, processed, dlq>>
        BY <3>1 DEF Receive, redisVars
      <4>2. \A f \in Events : f # e /\ Carried(f) => Carried(f)'
        BY <2>1, <4>1 DEF Receive, Carried, Holds, At, Event
      <4>3. Awaited(e) => Carried(e)'
        BY <3>1, <4>1 DEF Strand, Carried
      <4> QED
        BY <2>2, <4>1, <4>2, <4>3 DEF Strand, WorkerOK, At, Event, Working
    <3>2. CASE e \notin processed
      <4>1. worker'[w] = Busy(e) /\ \A v \in Workers \ {w} : worker'[v] = worker[v]
        BY <3>2 DEF Receive
      <4>2. \A f \in Events : Carried(f) => Carried(f)'
        BY <2>1, <4>1 DEF Receive, Carried, Holds, At, Event, Busy
      <4>3. worker'[w].pc = "claim" /\ UNCHANGED <<processed, dlq>>
        BY <4>1 DEF Receive, Busy, redisVars
      <4>4. (\A v \in Workers :
               worker[v].pc \in Working \cup {"mark"} => ~Awaited(Event(v)))'
        BY <2>2, <4>1, <4>3 DEF Strand, WorkerOK, At, Event, Working
      <4>5. (\A v \in Workers : At(v, "unpark") => dlq[Event(v)] > 0)'
        BY <4>1, <4>3 DEF Strand, At, Event
      <4> QED
        BY <2>2, <4>2, <4>3, <4>4, <4>5 DEF Strand
    <3> QED
      BY <3>1, <3>2
  <2>5. CASE Claim(w)
    <3>1. CASE status[Insight(w)] = "queued"
      BY <2>1, <2>2, <2>3, <2>5, <3>1, GotoMoves, MovesStrand, EventParts
      DEF Claim, TerminalSkip, Awaited, At, Event, Insight, Moves, Typed, TypeOK, redisVars, Working
    <3>2. CASE status[Insight(w)] # "queued"
      BY <2>1, <2>2, <2>3, <2>5, <3>2, GotoMoves, MovesStrand, EventParts
      DEF Claim, TerminalSkip, Awaited, At, Event, Insight, Moves, Typed, TypeOK, redisVars, Working
    <3> QED
      BY <3>1, <3>2
  <2>6. CASE ClaimFails(w) \/ MarkFails(w)
    BY <2>1, <2>2, <2>6, GotoMoves, MovesStrand
    DEF ClaimFails, MarkFails, At, redisVars, Working
  <2>7. CASE Generate(w) \/ CompleteRead(w) \/ CompleteWrite(w)
    <3>1. /\ ~Awaited(Event(w))
          /\ \E pc \in Working \cup {"mark"} : Moves(w, pc)
      BY <2>7, GotoMoves, GotoFailingMoves
      DEF Generate, CompleteRead, CompleteWrite, At, Strand, Working
    <3>2. ~Awaited(Event(w))'
      BY <2>2, <2>3, <2>7, <3>1 DEF Generate, CompleteRead, CompleteWrite, At, Moves, Event
    <3> QED
      BY <2>1, <2>2, <2>7, <3>1, <3>2, MovesStrand
      DEF Generate, CompleteRead, CompleteWrite, At, redisVars, Working
  <2>8. CASE FailRead(w) \/ FailWrite(w)
    <3>1. /\ ~Awaited(Event(w))
          /\ \E pc \in Working \cup {"mark", "count"} : Moves(w, pc)
      BY <2>8, GotoMoves
      DEF FailRead, FailWrite, AfterFailure, At, Strand, Working
    <3>2. ~Awaited(Event(w))'
      BY <2>2, <2>3, <2>8, <3>1 DEF FailRead, FailWrite, At, Moves, Event
    <3> QED
      BY <2>1, <2>2, <2>8, <3>1, <3>2, MovesStrand
      DEF FailRead, FailWrite, At, redisVars, Working
  <2>9. CASE MarkProcessed(w)
    BY <2>1, <2>2, <2>9, ReleaseStrand DEF MarkProcessed, Ack, At, Strand
  <2>10. CASE MarkParked(w)
    BY <2>1, <2>2, <2>10, ReleaseStrand DEF MarkParked, Ack, At, Strand
  <2>11. CASE CountFailure(w)
    <3>1. CASE Goto(w, "park") /\ UNCHANGED available
      BY <2>1, <2>2, <2>11, <3>1, GotoMoves, MovesStrand DEF CountFailure, At, Working
    <3>2. CASE Nack(w)
      BY <2>1, <2>2, <2>11, <3>2, NackReleases, ReleaseStrand
      DEF CountFailure, Nack, At
    <3> QED
      BY <2>11, <3>1, <3>2 DEF CountFailure
  <2>12. CASE Park(w)
    BY <2>1, <2>2, <2>3, <2>12, GotoMoves, MovesStrand
    DEF Park, At, Working, Typed, TypeOK, redisVars
  <2>13. CASE Crash(w)
    BY <2>1, <2>2, <2>13, NackReleases, ReleaseStrand DEF Crash, Nack, redisVars
  <2>14. CASE Rebalance(w)
    <3> USE DEF Typed, TypeOK
    <3>1. Event(w) \in Events
      BY <2>14 DEF Rebalance, WorkerOK, Idle
    <3>2. /\ Moves(w, worker[w].pc) \/ worker'[w].owns = FALSE
          /\ worker'[w].pc = worker[w].pc /\ worker'[w].event = worker[w].event
          /\ \A v \in Workers \ {w} : worker'[v] = worker[v]
      BY <2>14 DEF Rebalance, WorkerState
    <3>3. \A e \in Events : Carried(e) => Carried(e)'
      BY <2>1, <2>14, <3>1, <3>2 DEF Rebalance, Carried, Holds, At, Event
    <3> QED
      BY <2>2, <2>14, <3>2, <3>3 DEF Rebalance, Strand, WorkerOK, At, Event, Working, redisVars
  <2> QED
    BY <1>3, <2>4, <2>5, <2>6, <2>7, <2>8, <2>9, <2>10, <2>11, <2>12, <2>13, <2>14
    DEF WorkerStep, WorkerFault
<1> QED
  BY <1>1, <1>2, <1>3 DEF Next

(* The invariant holds of the empty tables.                                *)
LEMMA InitIInv == Init => IInv
<1> SUFFICES ASSUME Init PROVE BornOK /\ Strand
  BY InitTyped DEF IInv
<1>1. \A e \in Events : e[1] \in Insights
  BY EventParts
<1> QED
  BY <1>1 DEF Init, BornOK, Strand, Awaited, At, Idle, Working, Delivery!Init

(* IInv is invariant: the strengthening from which NothingStranded and     *)
(* KeysHideNothing follow.                                                 *)
THEOREM Invariance == Spec => []IInv
<1>1. IInv /\ [Next]_vars => IInv'
  BY NextTyped, NextBorn, NextStrand DEF IInv
<1> QED
  BY InitIInv, <1>1, PTL DEF Spec

(* A queued insight is never forgotten.                                    *)
THEOREM NothingStranded == Spec => []NoStrandedInsight
<1>1. IInv => NoStrandedInsight
  <2> SUFFICES ASSUME IInv, NEW i \in Insights, status[i] = "queued"
               PROVE  Carried(Current(i))
    BY DEF NoStrandedInsight
  <2>1. Current(i) \in Events
    BY DEF IInv, Typed, TypeOK, Current, Events
  <2> QED
    BY <2>1 DEF IInv, Strand, Awaited, Current
<1> QED
  BY Invariance, <1>1, PTL

(* A key in Redis never hides an event that an insight waits for.          *)
THEOREM KeysHideNothing == Spec => []KeyHidesNoWork
<1>1. IInv => KeyHidesNoWork
  BY DEF IInv, Strand, Awaited, KeyHidesNoWork, Current
<1> QED
  BY Invariance, <1>1, PTL

-------------------------------------------------------------------------------
(* What follows needs a lease that outlives the work it covers, or no lease *)
(* at all, as with the ORM mapping of this commit.                          *)
NoEarlyExpiry == LeasePersisted => LeaseOutlivesWork

(* A worker that works on an insight holds it under a lease still valid.   *)
ClaimsHeld ==
  \A w \in Workers :
    worker[w].pc \in Working =>
      status[Insight(w)] = "processing" /\ lease[Insight(w)] # "passed"

LeasesPersisted == ~LeasePersisted => \A i \in Insights : lease[i] = "none"

ErrorsOfFailed == \A i \in Insights : error[i] # "none" => status[i] = "failed"

Exclusive ==
  ClaimsHeld /\ OneWorkerPerInsight /\ LeasesPersisted /\ ErrorsOfFailed

(* A worker either claims, or works only on what it worked on before.      *)
LEMMA WorkersKeepTheirClaims ==
  ASSUME Typed, NEW w \in Workers, WorkerStep(w) \/ WorkerFault(w), ~Claim(w)
  PROVE  /\ \A v \in Workers : \A i \in Insights : WorksOn(v, i)' => WorksOn(v, i)
         /\ \A v \in Workers \ {w} : worker'[v] = worker[v]
<1> USE DEF Typed, TypeOK
<1>1. CASE \E e \in Events : Receive(w, e)
  BY <1>1 DEF Receive, Busy, WorksOn, Insight, Working
<1>2. CASE \E pc \in Pcs : Goto(w, pc) /\ (pc \in Working => worker[w].pc \in Working)
  BY <1>2, GotoMoves DEF Moves, WorksOn, Insight
<1>3. CASE \E err \in Errors : GotoFailing(w, err) /\ worker[w].pc \in Working
  BY <1>3, GotoFailingMoves DEF Moves, WorksOn, Insight
<1>4. CASE worker' = [worker EXCEPT ![w] = Idle]
  BY <1>4 DEF WorksOn, Insight, Idle, Working
<1>5. CASE Rebalance(w)
  BY <1>5 DEF Rebalance, WorksOn, Insight, WorkerState
<1>6. CASE ClaimFails(w) \/ Generate(w) \/ CompleteRead(w) \/ CompleteWrite(w)
  BY <1>2, <1>3, <1>6 DEF ClaimFails, Generate, CompleteRead, CompleteWrite, At, Pcs,
     Working, Errors
<1>7. CASE FailRead(w) \/ FailWrite(w) \/ MarkFails(w) \/ Park(w) \/ CountFailure(w)
  BY <1>2, <1>4, <1>7 DEF FailRead, FailWrite, AfterFailure, MarkFails, Park,
     CountFailure, Nack, At, Pcs, Working
<1> QED
  BY <1>1, <1>4, <1>5, <1>6, <1>7
  DEF WorkerStep, WorkerFault, MarkProcessed, MarkParked, Crash, Ack, Nack

(* A busy worker is on an insight of the model.                            *)
LEMMA InsightOf ==
  ASSUME Typed, NEW w \in Workers, ~At(w, "idle")
  PROVE  Insight(w) \in Insights
  BY EventParts DEF Typed, WorkerOK, Insight, Event

(* Claims, completions, failures, expiries and requeues keep the claim     *)
(* exclusive, as long as no lease passes under a worker.                   *)
LEMMA NextExclusive ==
  ASSUME NoEarlyExpiry, Typed, Exclusive, [Next]_vars
  PROVE  Exclusive'
<1> USE ConstantsAssumption DEF Typed, TypeOK
<1>0. ClaimsHeld <=> \A i \in Insights : \A w \in Workers :
                       WorksOn(w, i) => status[i] = "processing" /\ lease[i] # "passed"
  BY InsightOf DEF ClaimsHeld, WorksOn, Working, At
<1>1. CASE Reap
  <2>1. \A i \in Expired : \A w \in Workers : ~WorksOn(w, i)
    BY <1>0 DEF Expired, Exclusive
  <2>2. worker' = worker
    BY <1>1 DEF Reap
  <2>3. ClaimsHeld'
    BY <1>1, <2>1, <2>2, InsightOf
    DEF Reap, Expired, Requeued, Exclusive, ClaimsHeld, WorksOn, Insight, Working, At
  <2> QED
    BY <1>1, <2>2, <2>3 DEF Reap, Expired, Requeued, Exclusive, OneWorkerPerInsight,
       WorksOn, Insight, LeasesPersisted, ErrorsOfFailed
<1>2. ASSUME NEW i \in Insights, Request(i) PROVE Exclusive'
  BY <1>2, InsightOf DEF Request, Exclusive, ClaimsHeld, OneWorkerPerInsight, WorksOn,
     Insight, LeasesPersisted, ErrorsOfFailed, Working, At
<1>3. ASSUME NEW i \in Insights, LeaseExpires(i) PROVE Exclusive'
  BY <1>3, InsightOf DEF NoEarlyExpiry, LeaseExpires, Exclusive, ClaimsHeld,
     OneWorkerPerInsight, WorksOn, Insight, LeasesPersisted, ErrorsOfFailed, Working, At
<1>4. CASE UNCHANGED <<insightVars, worker>>
  BY <1>4 DEF Exclusive, ClaimsHeld, OneWorkerPerInsight, WorksOn, Insight,
     LeasesPersisted, ErrorsOfFailed, insightVars
<1>5. ASSUME NEW w \in Workers, Claim(w) PROVE Exclusive'
  <2>1. Insight(w) \in Insights
    BY <1>5, InsightOf DEF Claim, TerminalSkip, At
  <2>2. CASE status[Insight(w)] # "queued"
    <3>1. UNCHANGED <<status, lease, error>> /\ Moves(w, "mark")
      BY <1>5, <2>2, GotoMoves DEF Claim, TerminalSkip
    <3> QED
      BY <3>1 DEF Exclusive, ClaimsHeld, OneWorkerPerInsight, WorksOn, Insight, Moves,
         LeasesPersisted, ErrorsOfFailed, Working
  <2>3. CASE status[Insight(w)] = "queued"
    <3> DEFINE i == Insight(w)
    <3>1. \A v \in Workers : ~WorksOn(v, i)
      BY <1>0, <2>1, <2>3 DEF Exclusive
    <3>2. /\ status' = [status EXCEPT ![i] = "processing"]
          /\ lease' \in {lease, [lease EXCEPT ![i] = "live"]}
          /\ ~LeasePersisted => lease' = lease
          /\ LeasePersisted => lease'[i] = "live"
          /\ error' = error
          /\ Moves(w, "generate")
      BY <1>5, <2>1, <2>3, GotoMoves DEF Claim, TerminalSkip
    <3> HIDE DEF i
    <3>3. \A v \in Workers \ {w} : \A j \in Insights :
            WorksOn(v, j)' <=> WorksOn(v, j)
      BY <3>2 DEF Moves, WorksOn, Insight
    <3>4. \A j \in Insights : WorksOn(w, j)' => j = i
      BY <3>2 DEF Moves, WorksOn, Insight, i
    <3>5. lease'[i] # "passed"
      BY <2>1, <3>2 DEF Exclusive, LeasesPersisted, i
    <3>6. OneWorkerPerInsight'
      BY <3>1, <3>3, <3>4 DEF Exclusive, OneWorkerPerInsight
    <3>7. \A j \in Insights : \A v \in Workers :
            WorksOn(v, j)' => status'[j] = "processing" /\ lease'[j] # "passed"
      BY <1>0, <2>1, <3>1, <3>2, <3>3, <3>4, <3>5 DEF Exclusive, i
    <3>8. ClaimsHeld'
      <4> SUFFICES ASSUME NEW v \in Workers, worker'[v].pc \in Working
                   PROVE  /\ status'[worker'[v].event[1]] = "processing"
                          /\ lease'[worker'[v].event[1]] # "passed"
        BY DEF ClaimsHeld, Insight
      <4>1. worker'[v].event[1] \in Insights
        BY <2>1, <3>2, InsightOf DEF Moves, Insight, Working, At, i
      <4>2. PICK j \in Insights : j = worker'[v].event[1]
        BY <4>1
      <4>3. WorksOn(v, j)'
        BY <4>2 DEF WorksOn, Insight
      <4> QED
        BY <3>7, <4>2, <4>3
    <3>9. LeasesPersisted' /\ ErrorsOfFailed'
      BY <2>1, <2>3, <3>2 DEF Exclusive, LeasesPersisted, ErrorsOfFailed, i
    <3> QED
      BY <3>6, <3>8, <3>9 DEF Exclusive
  <2> QED
    BY <2>2, <2>3
<1>6. ASSUME NEW w \in Workers, WorkerStep(w) \/ WorkerFault(w), ~Claim(w)
      PROVE  Exclusive'
  <2>1. /\ \A v \in Workers : \A i \in Insights : WorksOn(v, i)' => WorksOn(v, i)
        /\ \A v \in Workers \ {w} : worker'[v] = worker[v]
    BY <1>6, WorkersKeepTheirClaims
  <2>2. OneWorkerPerInsight'
    BY <2>1 DEF Exclusive, OneWorkerPerInsight
  <2>3. lease' = lease
    BY <1>6 DEF WorkerStep, WorkerFault, Receive, ClaimFails, Generate, CompleteRead,
       CompleteWrite, FailRead, FailWrite, MarkProcessed, MarkFails, CountFailure, Park,
       MarkParked, Crash, Rebalance, insightVars
  <2>4. \/ UNCHANGED <<status, error>>
        \/ /\ worker[w].pc \in Working /\ worker'[w].pc \notin Working
           /\ \E s \in Terminal : status' = [status EXCEPT ![Insight(w)] = s]
           /\ \/ error' = error
              \/ /\ \E err \in Errors : error' = [error EXCEPT ![Insight(w)] = err]
                 /\ status'[Insight(w)] = "failed"
    <3>1. CASE CompleteWrite(w)
      BY <3>1, GotoMoves DEF CompleteWrite, Moves, Terminal, At, Working
    <3>2. CASE FailWrite(w)
      <4>1. Insight(w) \in Insights /\ worker[w].error \in Errors
        BY <3>2, InsightOf DEF FailWrite, At, WorkerState, Errors
      <4>2. Moves(w, AfterFailure(w)) /\ AfterFailure(w) \notin Working
        BY <3>2, GotoMoves DEF FailWrite, AfterFailure, Working
      <4> QED
        BY <3>2, <4>1, <4>2 DEF FailWrite, Moves, Terminal, At, Working
    <3>3. CASE UNCHANGED <<status, error>>
      BY <3>3
    <3> QED
      BY <1>6, <3>1, <3>2, <3>3
      DEF WorkerStep, WorkerFault, Receive, ClaimFails, Generate, CompleteRead, FailRead,
          MarkProcessed, MarkFails, CountFailure, Park, MarkParked, Crash, Rebalance,
          insightVars
  <2>5. worker[w].pc \in Working =>
          Insight(w) \in Insights /\ status[Insight(w)] = "processing" /\ WorksOn(w, Insight(w))
    BY InsightOf DEF Exclusive, ClaimsHeld, WorksOn, Working, At
  <2>6. ErrorsOfFailed'
    BY <2>4, <2>5 DEF Exclusive, ErrorsOfFailed, Terminal
  <2>7. \A i \in Insights : \A v \in Workers :
          WorksOn(v, i)' => status'[i] = "processing" /\ lease'[i] # "passed"
    <3> SUFFICES ASSUME NEW i \in Insights, NEW v \in Workers, WorksOn(v, i)'
                 PROVE  status'[i] = "processing"
      BY <1>0, <2>1, <2>3 DEF Exclusive
    <3>1. WorksOn(v, i) /\ status[i] = "processing"
      BY <1>0, <2>1 DEF Exclusive
    <3>2. CASE status' = status
      BY <3>1, <3>2
    <3>3. CASE worker[w].pc \in Working /\ worker'[w].pc \notin Working
      <4>1. v # w
        BY <3>3 DEF WorksOn
      <4>2. i # Insight(w)
        BY <2>5, <3>1, <3>3, <4>1 DEF Exclusive, OneWorkerPerInsight
      <4> QED
        BY <2>4, <3>1, <4>2
    <3> QED
      BY <2>4, <3>2, <3>3
  <2>8. ClaimsHeld'
    <3> SUFFICES ASSUME NEW v \in Workers, worker'[v].pc \in Working
                 PROVE  /\ status'[worker'[v].event[1]] = "processing"
                        /\ lease'[worker'[v].event[1]] # "passed"
      BY DEF ClaimsHeld, Insight
    <3>1. Typed'
      BY NextTyped
    <3>2. worker'[v].event[1] \in Insights
      BY <3>1 DEF WorkerOK, At, Event, Working, Events
    <3>3. PICK j \in Insights : j = worker'[v].event[1]
      BY <3>2
    <3>4. WorksOn(v, j)'
      BY <3>3 DEF WorksOn, Insight
    <3> QED
      BY <2>7, <3>3, <3>4
  <2> QED
    BY <2>2, <2>3, <2>6, <2>8 DEF Exclusive, LeasesPersisted
<1> QED
  BY <1>1, <1>2, <1>3, <1>4, <1>5, <1>6
  DEF Next, Relay, RelayFault, Administer, KeyExpires, vars, insightVars

(* Exclusive is invariant under NoEarlyExpiry: FOR UPDATE and the status   *)
(* check of claim_for_processing, with a lease that outlives the work.     *)
THEOREM Exclusion == ASSUME NoEarlyExpiry PROVE Spec => [](Typed /\ Exclusive)
<1>1. Init => Exclusive
  BY DEF Init, Exclusive, ClaimsHeld, OneWorkerPerInsight, WorksOn, LeasesPersisted,
     ErrorsOfFailed, Idle, Working
<1>2. Typed /\ Exclusive /\ [Next]_vars => Exclusive'
  BY NextExclusive
<1> QED
  BY InitTyped, NextTyped, <1>1, <1>2, PTL DEF Spec

(* Two workers never work on the same insight.                             *)
THEOREM ExclusiveWorkers ==
  ASSUME NoEarlyExpiry PROVE Spec => []OneWorkerPerInsight
  BY Exclusion, PTL DEF Exclusive

(* No failure path wrote to a row that another path completed.             *)
THEOREM CompletedCleanly ==
  ASSUME NoEarlyExpiry PROVE Spec => []CompletedWithoutError
<1>1. Typed /\ Exclusive => CompletedWithoutError
  BY DEF Exclusive, ErrorsOfFailed, CompletedWithoutError
<1> QED
  BY Exclusion, <1>1, PTL

-------------------------------------------------------------------------------
(* Each step of the pipeline is a step of the status graph, or leaves      *)
(* status and retry alone.                                                 *)
LEMMA StepImplements ==
  ASSUME Typed, Exclusive, [Next]_vars
  PROVE  [Lifecycle!Next]_(Lifecycle!vars)
<1> USE ConstantsAssumption DEF Typed, TypeOK
<1>1. ASSUME NEW i \in Insights, Request(i) PROVE Lifecycle!Queue(i)
  BY <1>1 DEF Request, Lifecycle!Queue
<1>2. CASE Reap
  <2>1. Expired \in SUBSET Insights
    BY DEF Expired
  <2>2. Lifecycle!Reap(Expired)
    BY <1>2 DEF Reap, Expired, Requeued, Lifecycle!Reap
  <2> QED
    BY <2>1, <2>2 DEF Lifecycle!Next
<1>3. ASSUME NEW w \in Workers, WorkerStep(w) \/ WorkerFault(w)
      PROVE  \/ UNCHANGED <<status, retry>>
             \/ \E i \in Insights : Lifecycle!Claim(i) \/ Lifecycle!Finish(i)
  <2>1. worker[w].pc \in Working =>
          Insight(w) \in Insights /\ status[Insight(w)] = "processing"
    BY InsightOf DEF Exclusive, ClaimsHeld, Working, At
  <2>2. CASE Claim(w)
    BY <2>2, InsightOf DEF Claim, TerminalSkip, At, Lifecycle!Claim
  <2>3. CASE CompleteWrite(w)
    BY <2>1, <2>3 DEF CompleteWrite, At, Working, Lifecycle!Finish, Lifecycle!Terminal
  <2>4. CASE FailWrite(w)
    BY <2>1, <2>4 DEF FailWrite, At, Working, Lifecycle!Finish, Lifecycle!Terminal
  <2> QED
    BY <1>3, <2>2, <2>3, <2>4
    DEF WorkerStep, WorkerFault, Receive, ClaimFails, Generate, CompleteRead, FailRead,
        MarkProcessed, MarkFails, CountFailure, Park, MarkParked, Crash, Rebalance,
        insightVars
<1> QED
  BY <1>1, <1>2, <1>3
  DEF Next, LeaseExpires, Relay, RelayFault, Administer, KeyExpires, vars, insightVars,
      Lifecycle!Next, Lifecycle!vars

(* The pipeline implements the status graph of InsightLifecycle.           *)
THEOREM Implementation == ASSUME NoEarlyExpiry PROVE Spec => ImplementsLifecycle
<1>1. Init => Lifecycle!Init
  BY DEF Init, Lifecycle!Init
<1>2. Typed /\ Exclusive /\ [Next]_vars => [Lifecycle!Next]_(Lifecycle!vars)
  BY StepImplements
<1> QED
  BY Exclusion, <1>1, <1>2, PTL DEF Spec, ImplementsLifecycle, Lifecycle!Spec

-------------------------------------------------------------------------------
(* The pages that watch.                                                   *)

(* A step of the pipeline is one of the row or none, a watcher's is its    *)
(* own, so that what was proved of the stream over the status graph holds  *)
(* over the workers, the outbox, Kafka and the reaper.                     *)
LEMMA WatchedStep ==
  ASSUME Typed, Exclusive, [WatchedNext]_watchedVars
  PROVE  [StreamNext]_streamVars
<1>1. CASE Next /\ UNCHANGED watch
  <2>1. [Lifecycle!Next]_(Lifecycle!vars)
    BY <1>1, StepImplements
  <2>2. Lifecycle!Next => Row!Next
    BY DEF Lifecycle!Next, Lifecycle!Queue, Lifecycle!Claim, Lifecycle!Finish,
       Lifecycle!Reap, Lifecycle!Terminal, Row!Next, Row!Queue, Row!Claim, Row!Finish,
       Row!Reap, Row!Terminal
  <2> QED
    BY <1>1, <2>1, <2>2 DEF StreamNext, streamVars, Lifecycle!vars
<1>2. CASE \E w \in Watchers : Watching(w) /\ UNCHANGED vars
  BY <1>2 DEF StreamNext
<1>3. CASE UNCHANGED watchedVars
  BY <1>3 DEF watchedVars, vars, streamVars
<1> QED
  BY <1>1, <1>2, <1>3 DEF WatchedNext

(* What the pages see of the pipeline is what InsightStream supposes.      *)
THEOREM PagesSeeTheRow == ASSUME NoEarlyExpiry PROVE WatchedSpec => ImplementsStream
<1>1. WatchedInit => Init /\ StreamInit
  BY DEF WatchedInit
<1>2. [WatchedNext]_watchedVars => [Next]_vars
  BY DEF WatchedNext, watchedVars
<1>3. Typed /\ Exclusive /\ [WatchedNext]_watchedVars => [StreamNext]_streamVars
  BY WatchedStep
<1> QED
  BY <1>1, <1>2, <1>3, Exclusion, PTL DEF WatchedSpec, Spec, ImplementsStream, StreamSpec

(* What a page was told of an insight is what the pipeline made of it, and *)
(* an end it was told stays, whatever is redelivered, retried or requeued. *)
THEOREM PagesAreToldTheTruth ==
  ASSUME NoEarlyExpiry PROVE WatchedSpec => []StreamTellsTheTruth
  BY PagesSeeTheRow, StreamIsTrue, PTL DEF ImplementsStream

===============================================================================
