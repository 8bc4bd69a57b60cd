---------------------------- MODULE ChatTurnsProofs ----------------------------
(***************************************************************************)
(* The accounts of the chat, for any number of messages, any limits and    *)
(* any number of failures: the gateway counts its waiters right, a stream  *)
(* is charged for the rounds it made, the daily budget is overrun by no    *)
(* more than the messages that were under way together can cost, and the   *)
(* history reads as questions with their answers.                          *)
(***************************************************************************)
EXTENDS ChatTurns, FiniteSetTheorems, TLAPS

(* The callers _waiting[endpoint] stands for.                              *)
Queue == {c \in Callers : gate[c] = "queue"}

GateInv ==
  /\ gate \in [Callers -> {"out", "queue", "in"}]
  /\ waiting = Cardinality(Queue)

-------------------------------------------------------------------------------
(* Facts about cardinalities, for the counters of the two modules.         *)
LEMMA QueueIsFinite == IsFiniteSet(Queue) /\ Cardinality(Queue) \in Nat
BY GatewayAssumption, FS_Subset, FS_CardinalityType DEF Queue

LEMMA CountsIn ==
  ASSUME GateInv, NEW c \in Callers, JoinQueue(c)
  PROVE  GateInv'
<1>1. gate' \in [Callers -> {"out", "queue", "in"}]
  BY DEF GateInv, JoinQueue
<1>2. c \notin Queue /\ Queue' = Queue \cup {c}
  BY DEF GateInv, JoinQueue, Queue
<1>3. Cardinality(Queue \cup {c}) = Cardinality(Queue) + 1
  BY <1>2, QueueIsFinite, FS_AddElement
<1> QED
  BY <1>1, <1>2, <1>3 DEF GateInv, JoinQueue

LEMMA CountsOut ==
  ASSUME GateInv, NEW c \in Callers, gate[c] = "queue",
         NEW to \in {"out", "in"}, gate' = [gate EXCEPT ![c] = to],
         waiting' = waiting - 1
  PROVE  GateInv'
<1>1. gate' \in [Callers -> {"out", "queue", "in"}]
  BY DEF GateInv
<1>2. c \in Queue /\ Queue' = Queue \ {c}
  BY DEF GateInv, Queue
<1>3. Cardinality(Queue \ {c}) = Cardinality(Queue) - 1
  BY <1>2, QueueIsFinite, FS_RemoveElement
<1> QED
  BY <1>1, <1>2, <1>3 DEF GateInv

LEMMA LeavingKeepsCount ==
  ASSUME GateInv, NEW c \in Callers, NEW ending, Leave(c, ending)
  PROVE  GateInv'
<1>1. gate' \in [Callers -> {"out", "queue", "in"}]
  BY DEF GateInv, Leave
<1>2. Queue' = Queue
  BY DEF GateInv, Leave, Queue
<1> QED
  BY <1>1, <1>2 DEF GateInv, Leave

LEMMA SameGate ==
  ASSUME GateInv, gate' = gate, waiting' = waiting
  PROVE  GateInv'
BY DEF GateInv, Queue

LEMMA GateStep ==
  ASSUME GateInv, [Next]_vars
  PROVE  GateInv'
<1>1. ASSUME NEW m \in Messages, Start(m) \/ Step(m) \/ CutOff(m) \/ RecordFails(m)
      PROVE  GateInv'
  <2> m \in Callers
    BY DEF Messages
  <2>1. CASE Start(m) \/ Speak(m) \/ Tools(m) \/ Record(m) \/ Save(m) \/ RecordFails(m)
    BY <2>1, SameGate DEF Start, Speak, Tools, Record, Save, RecordFails, gateway
  <2>2. CASE Call(m)
    BY <2>2, CountsIn, SameGate DEF Call, gateway
  <2>3. CASE Connect(m)
    <3>1. PICK to \in {"out", "in"} : gate[m] = "queue" /\ waiting' = waiting - 1
                                      /\ gate' = [gate EXCEPT ![m] = to]
      BY <2>3 DEF Connect, Enter, TurnedAway
    <3> QED
      BY <3>1, CountsOut
  <2>4. CASE WantTools(m) \/ Answer(m) \/ Fails(m)
    BY <2>4, LeavingKeepsCount, SameGate DEF WantTools, Answer, Fails, gateway
  <2>5. CASE CutOff(m)
    <3>1. gate[m] \in {"out", "queue", "in"}
      BY DEF GateInv
    <3>2. CASE gate[m] = "out"
      BY <2>5, <3>2, SameGate DEF CutOff, gateway
    <3>3. CASE gate[m] = "queue"
      <4>1. Abandon(m)
        BY <2>5, <3>3 DEF CutOff
      <4> QED
        BY <4>1, CountsOut DEF Abandon
    <3>4. CASE gate[m] = "in"
      <4>1. Leave(m, "cancelled")
        BY <2>5, <3>4 DEF CutOff
      <4> QED
        BY <4>1, LeavingKeepsCount
    <3> QED
      BY <3>1, <3>2, <3>3, <3>4
  <2> QED
    BY <1>1, <2>1, <2>2, <2>3, <2>4, <2>5 DEF Step
<1>2. CASE ClearHistory \/ Midnight \/ Clock \/ UNCHANGED vars
  BY <1>2, SameGate
  DEF ClearHistory, Midnight, Clock, Refill, CoolDown, vars, gateway
<1> QED
  BY <1>1, <1>2 DEF Next

LEMMA GateInit == Init => GateInv
<1> SUFFICES ASSUME Init PROVE GateInv
  OBVIOUS
<1>1. Queue = {}
  BY DEF Init, GatewayInit, Queue
<1> QED
  BY <1>1, FS_EmptySet DEF Init, GatewayInit, GateInv

(* The gateway's count of waiting callers is their number, on every path   *)
(* out of the queue: a count that leaked would in the end have _acquire    *)
(* reject every caller.                                                    *)
THEOREM CountHolds == Spec => []WaitersCounted
<1>1. GateInv => WaitersCounted
  BY DEF GateInv, WaitersCounted, Queue
<1> QED
  BY <1>1, GateInit, GateStep, PTL DEF Spec

-------------------------------------------------------------------------------
(* How a message's requests, its rounds and its usage go together: in the  *)
(* n-th round n - 1 requests have been answered, and a stream has reported *)
(* all of them; a query reports once, at its end.                          *)
Sound(m) ==
  /\ turn[m].pc = "away" => spent[m] = 0
  /\ turn[m].pc \in {"call", "ask"} => turn[m].tokens = turn[m].round - 1
  /\ turn[m].pc = "tools" => turn[m].tokens = turn[m].round /\ turn[m].round <= MaxRounds
  /\ turn[m].pc = "call" => spent[m] = turn[m].round - 1
  /\ turn[m].kind = "stream" =>
       /\ turn[m].pc \in {"call", "ask", "tools"} => turn[m].usage = turn[m].round - 1
       /\ turn[m].pc \in {"ask", "tools"} => spent[m] = turn[m].round
       /\ turn[m].pc = "record" => spent[m] <= turn[m].usage + 1
       /\ turn[m].pc \in {"save", "done"} /\ faults = 0 => spent[m] <= turn[m].billed + 1

TurnInv ==
  /\ turn \in [Messages -> TurnState]
  /\ spent \in [Messages -> Nat]
  /\ faults \in Nat
  /\ \A m \in Messages : Sound(m)

LEMMA TurnInit == Init => TurnInv
BY ChatAssumption DEF Init, TurnInv, Sound, TurnState, Away, Rounds

(* One message moves, the others stay as they are.                         *)
LEMMA OneMoves ==
  ASSUME TurnInv, NEW m \in Messages,
         NEW t \in TurnState, turn' = [turn EXCEPT ![m] = t],
         NEW n \in Nat, spent' = [spent EXCEPT ![m] = n],
         faults' \in Nat, faults' = 0 => faults = 0,
         Sound(m)'
  PROVE  TurnInv'
<1>1. turn' \in [Messages -> TurnState] /\ spent' \in [Messages -> Nat]
  BY DEF TurnInv
<1>2. \A q \in Messages \ {m} : turn'[q] = turn[q] /\ spent'[q] = spent[q]
  BY DEF TurnInv
<1>3. \A q \in Messages \ {m} : Sound(q)'
  BY <1>2 DEF TurnInv, Sound
<1> QED
  BY <1>1, <1>3 DEF TurnInv

LEMMA NobodyMoves ==
  ASSUME TurnInv, turn' = turn, spent' = spent, faults' = faults
  PROVE  TurnInv'
BY DEF TurnInv, Sound

(* A message that is in the middle of something.                           *)
LEMMA MessageStep ==
  ASSUME TurnInv, NEW m \in Messages,
         Start(m) \/ Step(m) \/ CutOff(m) \/ RecordFails(m)
  PROVE  TurnInv'
<1> DEFINE t == turn[m]
<1>1. t \in TurnState /\ spent[m] \in Nat /\ faults \in Nat /\ Sound(m)
  BY DEF TurnInv
<1>2. MaxRounds \in Nat \ {0}
  BY ChatAssumption
<1>3. turn = [turn EXCEPT ![m] = t] /\ spent = [spent EXCEPT ![m] = spent[m]]
  BY DEF TurnInv
<1>4. CASE Start(m)
  <2>1. PICK k \in {"query", "stream"} :
          turn' = [turn EXCEPT ![m] = [Away EXCEPT !.pc = "call", !.kind = k]]
    BY <1>4 DEF Start
  <2> DEFINE n == [pc |-> "call", kind |-> k, round |-> 1, tokens |-> 0,
                   usage |-> 0, spoke |-> FALSE, billed |-> 0]
  <2>0. turn' = [turn EXCEPT ![m] = n]
    <3>1. PICK a : a = [Away EXCEPT !.pc = "call", !.kind = k]
      OBVIOUS
    <3>2. a = n
      BY <3>1 DEF Away
    <3> QED
      BY <2>1, <3>1, <3>2
  <2>2. n \in TurnState /\ turn'[m] = n
    BY <1>2, <2>0 DEF TurnState, Rounds, TurnInv
  <2>3. t.pc = "away" /\ spent' = spent /\ faults' = faults
    BY <1>4 DEF Start
  <2>4. Sound(m)'
    BY <1>1, <2>2, <2>3 DEF Sound, Away
  <2> QED
    BY <1>1, <1>3, <2>0, <2>2, <2>3, <2>4, OneMoves
<1>5. CASE Call(m)
  <2>1. CASE turn' = turn
    BY <1>5, <2>1, NobodyMoves DEF Call
  <2>2. CASE Goto(m, AfterFailureOf(m))
    <3> DEFINE n == [t EXCEPT !.pc = AfterFailureOf(m)]
    <3>1. t.pc = "call" /\ spent' = spent /\ faults' = faults
      BY <1>5 DEF Call
    <3>2. turn' = [turn EXCEPT ![m] = n] /\ n \in TurnState /\ turn'[m] = n
      BY <1>1, <2>2 DEF Goto, AfterFailureOf, TurnState, TurnInv
    <3>3. Sound(m)'
      BY <1>1, <3>1, <3>2 DEF Sound, AfterFailureOf, TurnState, Rounds
    <3> QED
      BY <1>1, <1>3, <3>1, <3>2, <3>3, OneMoves
  <2> QED
    BY <1>5, <2>1, <2>2 DEF Call
<1>6. CASE Connect(m)
  <2>1. CASE Goto(m, "ask") /\ spent' = [spent EXCEPT ![m] = @ + 1]
    <3> DEFINE n == [t EXCEPT !.pc = "ask"]
    <3>1. t.pc = "call" /\ faults' = faults
      BY <1>6 DEF Connect
    <3>2. turn' = [turn EXCEPT ![m] = n] /\ n \in TurnState /\ turn'[m] = n
      BY <1>1, <2>1 DEF Goto, TurnState, TurnInv
    <3>3. /\ spent' = [spent EXCEPT ![m] = spent[m] + 1]
          /\ spent'[m] = spent[m] + 1 /\ spent[m] + 1 \in Nat
      BY <1>1, <2>1 DEF TurnInv
    <3>4. Sound(m)'
      BY <1>1, <3>1, <3>2, <3>3 DEF Sound, TurnState, Rounds
    <3> QED
      BY <1>1, <3>1, <3>2, <3>3, <3>4, OneMoves
  <2>2. CASE Goto(m, AfterFailureOf(m)) /\ spent' = spent
    <3> DEFINE n == [t EXCEPT !.pc = AfterFailureOf(m)]
    <3>1. t.pc = "call" /\ faults' = faults
      BY <1>6 DEF Connect
    <3>2. turn' = [turn EXCEPT ![m] = n] /\ n \in TurnState /\ turn'[m] = n
      BY <1>1, <2>2 DEF Goto, AfterFailureOf, TurnState, TurnInv
    <3>3. Sound(m)'
      BY <1>1, <2>2, <3>1, <3>2 DEF Sound, AfterFailureOf, TurnState, Rounds
    <3> QED
      BY <1>1, <1>3, <2>2, <3>1, <3>2, <3>3, OneMoves
  <2> QED
    BY <1>6, <2>1, <2>2 DEF Connect
<1>7. CASE Speak(m)
  <2> DEFINE n == [t EXCEPT !.spoke = TRUE]
  <2>1. turn' = [turn EXCEPT ![m] = n] /\ n \in TurnState /\ turn'[m] = n
    BY <1>1, <1>7 DEF Speak, TurnState, TurnInv
  <2>2. spent' = spent /\ faults' = faults
    BY <1>7 DEF Speak
  <2>3. Sound(m)'
    BY <1>1, <2>1, <2>2 DEF Sound, TurnState
  <2> QED
    BY <1>1, <1>3, <2>1, <2>2, <2>3, OneMoves
<1>8. CASE WantTools(m)
  <2> DEFINE n == [t EXCEPT !.pc = "tools", !.tokens = @ + 1]
  <2>1. /\ t.pc = "ask" /\ t.round <= MaxRounds
        /\ turn' = [turn EXCEPT ![m] = n] /\ turn'[m] = n
        /\ spent' = spent /\ faults' = faults
    BY <1>8 DEF WantTools, TurnInv
  <2>2. t.tokens + 1 \in 0..(MaxRounds + 1)
    BY <1>1, <1>2, <2>1 DEF Sound, TurnState, Rounds
  <2>3. n \in TurnState
    BY <1>1, <2>2 DEF TurnState
  <2>4. Sound(m)'
    BY <1>1, <2>1 DEF Sound, TurnState, Rounds
  <2> QED
    BY <1>1, <1>3, <2>1, <2>3, <2>4, OneMoves
<1>9. CASE Answer(m)
  <2> DEFINE n == [t EXCEPT !.pc = "record", !.tokens = @ + 1, !.usage = t.tokens + 1]
  <2>1. /\ t.pc = "ask"
        /\ turn' = [turn EXCEPT ![m] = n] /\ turn'[m] = n
        /\ spent' = spent /\ faults' = faults
    BY <1>9 DEF Answer, TurnInv
  <2>2. t.tokens + 1 \in 0..(MaxRounds + 1)
    BY <1>1, <1>2, <2>1 DEF Sound, TurnState, Rounds
  <2>3. n \in TurnState
    BY <1>1, <2>2 DEF TurnState
  <2>4. Sound(m)'
    BY <1>1, <2>1 DEF Sound, TurnState, Rounds
  <2> QED
    BY <1>1, <1>3, <2>1, <2>3, <2>4, OneMoves
<1>10. CASE Tools(m)
  <2>1. CASE /\ t.kind = "stream" /\ spent' = spent
             /\ turn' = [turn EXCEPT ![m].pc = "call", ![m].round = @ + 1,
                                     ![m].usage = turn[m].tokens]
    <3> DEFINE n == [t EXCEPT !.pc = "call", !.round = @ + 1, !.usage = t.tokens]
    <3>1. /\ t.pc = "tools" /\ faults' = faults
          /\ turn' = [turn EXCEPT ![m] = n] /\ turn'[m] = n
      BY <1>10, <2>1 DEF Tools, TurnInv
    <3>2. t.round + 1 \in Rounds /\ t.tokens = t.round
      BY <1>1, <1>2, <3>1 DEF Sound, TurnState, Rounds
    <3>3. n \in TurnState
      BY <1>1, <3>2 DEF TurnState
    <3>4. Sound(m)'
      <4>1. /\ n.pc = "call" /\ n.kind = "stream" /\ n.round = t.round + 1
            /\ n.tokens = t.tokens /\ n.usage = t.tokens
        BY <1>1, <2>1 DEF TurnState
      <4> HIDE DEF n
      <4>2. spent'[m] = t.round /\ t.round \in Nat
        BY <1>1, <2>1, <3>1 DEF Sound, TurnState, Rounds
      <4> QED
        BY <3>1, <3>2, <4>1, <4>2 DEF Sound
    <3> QED
      BY <1>1, <1>3, <2>1, <3>1, <3>3, <3>4, OneMoves
  <2>2. CASE /\ t.kind = "query"
             /\ turn' = [turn EXCEPT ![m].pc = "ask", ![m].round = @ + 1]
             /\ spent' = [spent EXCEPT ![m] = @ + 1]
    <3> DEFINE n == [t EXCEPT !.pc = "ask", !.round = @ + 1]
    <3>1. /\ t.pc = "tools" /\ faults' = faults
          /\ turn' = [turn EXCEPT ![m] = n] /\ turn'[m] = n
      BY <1>10, <2>2 DEF Tools, TurnInv
    <3>2. t.round + 1 \in Rounds /\ t.tokens = t.round /\ t.round \in Nat
      BY <1>1, <1>2, <3>1 DEF Sound, TurnState, Rounds
    <3>3. n \in TurnState
      BY <1>1, <3>2 DEF TurnState
    <3>4. Sound(m)'
      <4>1. /\ n.pc = "ask" /\ n.kind = "query" /\ n.round = t.round + 1
            /\ n.tokens = t.tokens
        BY <1>1, <2>2 DEF TurnState
      <4> HIDE DEF n
      <4> QED
        BY <3>1, <3>2, <4>1 DEF Sound
    <3>5. spent' = [spent EXCEPT ![m] = spent[m] + 1] /\ spent[m] + 1 \in Nat
      BY <1>1, <2>2
    <3> QED
      BY <1>1, <3>1, <3>3, <3>4, <3>5, OneMoves
  <2> QED
    BY <1>10, <2>1, <2>2 DEF Tools
<1>11. CASE Fails(m) \/ CutOff(m)
  <2> DEFINE n == [t EXCEPT !.pc = AfterFailureOf(m)]
  <2>1. /\ t.pc \in {"call", "ask", "tools"}
        /\ turn' = [turn EXCEPT ![m] = n] /\ turn'[m] = n
        /\ spent' = spent /\ faults' = faults
    BY <1>11 DEF Fails, CutOff, Goto, TurnInv
  <2>2. n \in TurnState
    BY <1>1 DEF AfterFailureOf, TurnState
  <2>3. Sound(m)'
    BY <1>1, <2>1 DEF Sound, AfterFailureOf, TurnState, Rounds
  <2> QED
    BY <1>1, <1>3, <2>1, <2>2, <2>3, OneMoves
<1>12. CASE Record(m)
  <2> DEFINE to == IF t.spoke \/ t.kind = "query" THEN "save" ELSE "done"
  <2> DEFINE n == [t EXCEPT !.billed = Charge(m), !.pc = to]
  <2>1. /\ t.pc = "record"
        /\ turn' = [turn EXCEPT ![m] = n] /\ turn'[m] = n
        /\ spent' = spent /\ faults' = faults
    BY <1>12 DEF Record, TurnInv
  <2>2. Charge(m) \in 0..(MaxRounds + 1) /\ t.usage <= Charge(m)
    BY <1>1, <1>2 DEF Charge, TurnState
  <2>3. n \in TurnState
    BY <1>1, <2>2 DEF TurnState
  <2>4. Sound(m)'
    BY <1>1, <2>1, <2>2 DEF Sound, TurnState
  <2> QED
    BY <1>1, <1>3, <2>1, <2>3, <2>4, OneMoves
<1>13. CASE RecordFails(m)
  <2> DEFINE to == IF t.kind = "stream" /\ t.spoke THEN "save" ELSE "done"
  <2> DEFINE n == [t EXCEPT !.pc = to]
  <2>1. /\ t.pc = "record"
        /\ turn' = [turn EXCEPT ![m] = n] /\ turn'[m] = n
        /\ spent' = spent /\ faults' = faults + 1
    BY <1>13 DEF RecordFails, Goto, TurnInv
  <2>2. n \in TurnState
    BY <1>1 DEF TurnState
  <2>3. Sound(m)'
    BY <1>1, <2>1 DEF Sound, TurnState
  <2>4. faults' \in Nat /\ faults' # 0
    BY <1>1, <2>1
  <2> QED
    BY <1>1, <1>3, <2>1, <2>2, <2>3, <2>4, OneMoves
<1>14. CASE Save(m)
  <2> DEFINE n == [t EXCEPT !.pc = "done"]
  <2>1. /\ t.pc = "save"
        /\ turn' = [turn EXCEPT ![m] = n] /\ turn'[m] = n
        /\ spent' = spent /\ faults' \in {faults, faults + 1}
    BY <1>14 DEF Save, Goto, TurnInv
  <2>2. n \in TurnState
    BY <1>1 DEF TurnState
  <2>3. faults' \in Nat /\ (faults' = 0 => faults = 0)
    BY <1>1, <2>1
  <2>4. Sound(m)'
    BY <1>1, <2>1, <2>3 DEF Sound, TurnState
  <2> QED
    BY <1>1, <1>3, <2>1, <2>2, <2>3, <2>4, OneMoves
<1> QED
  BY <1>4, <1>5, <1>6, <1>7, <1>8, <1>9, <1>10, <1>11, <1>12, <1>13, <1>14 DEF Step

LEMMA TurnStep ==
  ASSUME TurnInv, [Next]_vars
  PROVE  TurnInv'
<1>1. CASE ClearHistory \/ Midnight \/ Clock \/ UNCHANGED vars
  BY <1>1, NobodyMoves DEF ClearHistory, Midnight, Clock, book, vars
<1> QED
  BY <1>1, MessageStep DEF Next

(* "A mid-stream disconnect still bills the tool work already paid for":   *)
(* every AI request of a stream but the last is in what was recorded,      *)
(* wherever the stream broke, unless Redis refused the record.             *)
THEOREM StreamsPay == Spec => []StreamsPayTheirRounds
<1>1. TurnInv => StreamsPayTheirRounds
  BY DEF TurnInv, Sound, StreamsPayTheirRounds, At
<1> QED
  BY <1>1, TurnInit, TurnStep, PTL DEF Spec

-------------------------------------------------------------------------------
(* Messages whose requests are not charged yet.                            *)
Unbilled == {m \in Messages : turn[m].pc \in {"call", "ask", "tools", "record"}}

(* Messages that are under way together know of each other, and what has   *)
(* been spent beyond the limit, with what is still to be charged, is no    *)
(* more than one of the messages and those it met can cost.                *)
DebtInv ==
  /\ met \in [Messages -> SUBSET Messages]
  /\ used \in Nat
  /\ \A p, q \in UnderWay : p # q => q \in met[p]
  /\ \/ used < Limit
     \/ \E m \in Messages :
          used + (MaxRounds + 1) * Cardinality(Unbilled)
            < Limit + (MaxRounds + 1) * (1 + Cardinality(met[m]))

LEMMA SubsetsAreFinite ==
  ASSUME NEW S \in SUBSET Messages
  PROVE  IsFiniteSet(S) /\ Cardinality(S) \in Nat
BY GatewayAssumption, FS_Subset, FS_CardinalityType DEF Messages

LEMMA Monotone ==
  ASSUME NEW k \in Nat, NEW x \in Nat, NEW y \in Nat, x <= y
  PROVE  k * x <= k * y
BY SMT

(* Nothing is charged, and nobody new comes in.                            *)
LEMMA NoCharge ==
  ASSUME DebtInv, met' = met, used' = used, UnderWay' \subseteq UnderWay,
         Unbilled' \subseteq Unbilled
  PROVE  DebtInv'
<1> DEFINE k == MaxRounds + 1
           x == Cardinality(Unbilled')
           y == Cardinality(Unbilled)
<1>1. x \in Nat /\ y \in Nat /\ x <= y
  <2>1. Unbilled \in SUBSET Messages /\ Unbilled' \in SUBSET Messages
    BY DEF Unbilled
  <2> QED
    BY <2>1, SubsetsAreFinite, FS_Subset
<1>2. k \in Nat /\ Limit \in Nat
  BY ChatAssumption
<1>3. k * x <= k * y
  BY <1>1, <1>2, Monotone
<1>4. \/ used < Limit
      \/ \E m \in Messages : used + k * x < Limit + k * (1 + Cardinality(met[m]))
  <2> SUFFICES ASSUME ~(used < Limit)
               PROVE  \E m \in Messages : used + k * x < Limit + k * (1 + Cardinality(met[m]))
    OBVIOUS
  <2>1. PICK m \in Messages : used + k * y < Limit + k * (1 + Cardinality(met[m]))
    BY DEF DebtInv
  <2> DEFINE a == k * x
             b == k * y
             c == k * (1 + Cardinality(met[m]))
  <2>2. Cardinality(met[m]) \in Nat
    BY SubsetsAreFinite DEF DebtInv
  <2>3. a \in Nat /\ b \in Nat /\ c \in Nat /\ used \in Nat /\ a <= b
    BY <1>1, <1>2, <1>3, <2>2 DEF DebtInv
  <2>4. used + b < Limit + c
    BY <2>1
  <2> HIDE DEF a, b, c
  <2>5. used + a < Limit + c
    BY <1>2, <2>3, <2>4
  <2> QED
    BY <2>5 DEF a, c
<1> QED
  BY <1>4 DEF DebtInv

(* One message is charged.                                                 *)
LEMMA OneCharged ==
  ASSUME TurnInv, DebtInv, NEW m \in Messages, Record(m)
  PROVE  DebtInv'
<1> DEFINE k == MaxRounds + 1
           y == Cardinality(Unbilled)
           z == Cardinality(met[m])
<1>1. k \in Nat /\ Limit \in Nat
  BY ChatAssumption
<1>2. Charge(m) \in 0..k
  BY ChatAssumption DEF TurnInv, TurnState, Charge
<1>3. used' = used + Charge(m) /\ met' = met /\ used \in Nat
  BY DEF Record, DebtInv
<1>4. m \in Unbilled /\ Unbilled' = Unbilled \ {m} /\ UnderWay' \subseteq UnderWay
  <2>1. /\ turn[m].pc = "record"
        /\ turn'[m].pc \in {"save", "done"}
        /\ \A q \in Messages \ {m} : turn'[q] = turn[q]
    BY DEF Record, TurnInv, TurnState
  <2> QED
    BY <2>1 DEF Unbilled, UnderWay
<1>5. Unbilled \in SUBSET Messages /\ met[m] \in SUBSET Messages
  BY DEF Unbilled, DebtInv
<1>6. y \in Nat /\ z \in Nat /\ Cardinality(Unbilled') = y - 1
  BY <1>4, <1>5, SubsetsAreFinite, FS_RemoveElement
<1>7. y - 1 \in Nat /\ y - 1 <= z
  <2>1. Unbilled \ {m} \subseteq met[m]
    BY <1>4 DEF DebtInv, Unbilled, UnderWay
  <2> QED
    BY <1>4, <1>5, <1>6, <2>1, SubsetsAreFinite, FS_Subset
<1>8. k * (y - 1) = k * y - k /\ k * (1 + z) = k + k * z
  BY <1>1, <1>6
<1>9. k * (y - 1) <= k * z
  BY <1>1, <1>6, <1>7, Monotone
<1>10. CASE used < Limit
  <2>1. used' + k * (y - 1) < Limit + k * (1 + z)
    BY <1>1, <1>2, <1>3, <1>6, <1>7, <1>8, <1>9, <1>10
  <2> QED
    BY <1>1, <1>2, <1>3, <1>4, <1>6, <2>1 DEF DebtInv
<1>11. ASSUME NEW p \in Messages, used + k * y < Limit + k * (1 + Cardinality(met[p]))
       PROVE  DebtInv'
  <2>1. Cardinality(met[p]) \in Nat
    BY SubsetsAreFinite DEF DebtInv
  <2>2. used' + k * (y - 1) < Limit + k * (1 + Cardinality(met[p]))
    BY <1>1, <1>2, <1>3, <1>6, <1>8, <1>11, <2>1
  <2> QED
    BY <1>1, <1>2, <1>3, <1>4, <1>6, <2>2 DEF DebtInv
<1> QED
  BY <1>10, <1>11 DEF DebtInv

(* One message comes in, while there is budget left.                       *)
LEMMA OneComes ==
  ASSUME TurnInv, DebtInv, NEW m \in Messages, Start(m)
  PROVE  DebtInv'
<1>1. used' = used /\ used < Limit
  BY DEF Start
<1>2. met' = [q \in Messages |->
                IF q = m THEN UnderWay
                ELSE IF q \in UnderWay THEN met[q] \cup {m} ELSE met[q]]
  BY DEF Start
<1>3. m \notin UnderWay /\ UnderWay' = UnderWay \cup {m} /\ UnderWay \subseteq Messages
  <2>1. /\ turn[m].pc = "away"
        /\ turn'[m].pc = "call"
        /\ \A q \in Messages \ {m} : turn'[q] = turn[q]
    BY DEF Start, Away, TurnInv
  <2> QED
    BY <2>1 DEF UnderWay
<1> QED
  BY <1>1, <1>2, <1>3 DEF DebtInv

LEMMA DebtStep ==
  ASSUME TurnInv, DebtInv, [Next]_vars
  PROVE  DebtInv'
<1>1. ASSUME NEW m \in Messages,
             \/ Call(m) \/ Connect(m) \/ Speak(m) \/ WantTools(m) \/ Answer(m)
             \/ Tools(m) \/ Fails(m) \/ Save(m) \/ CutOff(m) \/ RecordFails(m)
      PROVE  DebtInv'
  <2>1. used' = used /\ met' = met
    BY <1>1 DEF Call, Connect, Speak, WantTools, Answer, Tools, Fails, Save, CutOff,
       RecordFails, book
  <2>2. \A q \in Messages \ {m} : turn'[q] = turn[q]
    BY <1>1 DEF Call, Connect, Speak, WantTools, Answer, Tools, Fails, Save, CutOff,
       RecordFails, Goto, TurnInv
  <2>3. /\ turn[m].pc \notin {"away", "done"}
        /\ turn'[m].pc \in {"call", "ask", "tools", "record"} =>
             turn[m].pc \in {"call", "ask", "tools", "record"}
    BY <1>1 DEF Call, Connect, Speak, WantTools, Answer, Tools, Fails, Save, CutOff,
       RecordFails, Goto, At, TurnInv, TurnState
  <2>4. UnderWay' \subseteq UnderWay /\ Unbilled' \subseteq Unbilled
    BY <2>2, <2>3 DEF UnderWay, Unbilled
  <2> QED
    BY <2>1, <2>4, NoCharge
<1>2. CASE ClearHistory \/ Clock \/ UNCHANGED vars
  <2>1. turn' = turn /\ used' = used /\ met' = met
    BY <1>2 DEF ClearHistory, Clock, book, vars
  <2>2. UnderWay' = UnderWay /\ Unbilled' = Unbilled
    BY <2>1 DEF UnderWay, Unbilled
  <2> QED
    BY <2>1, <2>2, NoCharge
<1>3. CASE Midnight
  <2>1. turn' = turn /\ met' = met /\ used' = 0 /\ used' < Limit
    BY <1>3, ChatAssumption DEF Midnight
  <2> QED
    BY <2>1 DEF DebtInv, UnderWay
<1> QED
  BY <1>1, <1>2, <1>3, OneCharged, OneComes DEF Next, Step

LEMMA DebtInit == Init => DebtInv
BY ChatAssumption DEF Init, DebtInv, UnderWay, Away

(* The budget is checked before the AI is asked and charged after it has   *)
(* answered, without a lock: it can be overrun, but only by what the       *)
(* messages of one user that were under way together cost.                 *)
THEOREM OvershootBounded == Spec => []OvershootIsBounded
<1>1. DebtInv => OvershootIsBounded
  <2> SUFFICES ASSUME DebtInv, NEW m \in Messages,
                      used + (MaxRounds + 1) * Cardinality(Unbilled)
                        < Limit + (MaxRounds + 1) * (1 + Cardinality(met[m]))
               PROVE  used < Limit + (MaxRounds + 1) * (1 + Cardinality(met[m]))
    BY DEF DebtInv, OvershootIsBounded
  <2>1. Cardinality(Unbilled) \in Nat /\ Cardinality(met[m]) \in Nat
    BY SubsetsAreFinite DEF Unbilled, DebtInv
  <2>2. (MaxRounds + 1) * Cardinality(Unbilled) \in Nat
    BY <2>1, ChatAssumption
  <2>3. (MaxRounds + 1) * (1 + Cardinality(met[m])) \in Nat
    BY <2>1, ChatAssumption
  <2> QED
    BY <2>2, <2>3, ChatAssumption DEF DebtInv
<1> QED
  BY <1>1, DebtInit, TurnInit, TurnStep, DebtStep, PTL DEF Spec

-------------------------------------------------------------------------------
(* The history reads as a conversation.                                    *)

Asked(m) == <<m, "user">>
Answered(m) == <<m, "assistant">>
Stamped == {stamps[i] : i \in DOMAIN stamps}

(* Each turn gets its time once, the question's first, and rows are saved  *)
(* in pairs.                                                               *)
StampsOK ==
  /\ stamps \in Seq(Messages \X Roles)
  /\ \A i, j \in DOMAIN stamps : stamps[i] = stamps[j] => i = j
  /\ \A m \in Messages :
       /\ Asked(m) \in Stamped <=> turn[m].pc # "away"
       /\ Answered(m) \in Stamped => turn[m].pc \in {"save", "done"}
       /\ turn[m].pc = "save" => Answered(m) \in Stamped
       /\ \A i, j \in DOMAIN stamps :
            stamps[i] = Asked(m) /\ stamps[j] = Answered(m) => i < j
  /\ \A m \in Messages : \A r, o \in Roles :
       <<m, r>> \in saved => <<m, o>> \in saved /\ <<m, o>> \in Stamped
  /\ \A m \in Messages : Asked(m) \in saved => turn[m].pc = "done"
  /\ saved \subseteq Messages \X Roles

(* Between a question and its answer, or now, only messages that were      *)
(* under way with it get a time.                                           *)
BetweenOK ==
  \A m \in Messages : \A i, k \in DOMAIN stamps :
    /\ stamps[i] = Asked(m)
    /\ i < k
    /\ stamps[k][1] # m
    /\ m \in UnderWay \/ \E j \in DOMAIN stamps : k < j /\ stamps[j] = Answered(m)
    => stamps[k][1] \in met[m]

(* Messages that are under way together know of each other.                *)
MetOK ==
  /\ met \in [Messages -> SUBSET Messages]
  /\ \A p, q \in UnderWay : p # q => q \in met[p]

TalkInv == StampsOK /\ BetweenOK /\ MetOK

(* One more time is given out.                                             *)
LEMMA OneMoreStamp ==
  ASSUME StampsOK, NEW x \in Messages \X Roles, x \notin Stamped,
         stamps' = Append(stamps, x)
  PROVE  /\ stamps' \in Seq(Messages \X Roles)
         /\ Len(stamps) \in Nat
         /\ DOMAIN stamps = 1..Len(stamps)
         /\ DOMAIN stamps' = 1..(Len(stamps) + 1)
         /\ stamps'[Len(stamps) + 1] = x
         /\ \A i \in DOMAIN stamps : stamps'[i] = stamps[i]
         /\ Stamped' = Stamped \cup {x}
         /\ \A i, j \in DOMAIN stamps' : stamps'[i] = stamps'[j] => i = j
<1> DEFINE n == Len(stamps)
<1>1. stamps \in Seq(Messages \X Roles) /\ n \in Nat
  BY DEF StampsOK
<1>2. /\ stamps' \in Seq(Messages \X Roles)
      /\ DOMAIN stamps = 1..n
      /\ DOMAIN stamps' = 1..(n + 1)
      /\ stamps'[n + 1] = x
      /\ \A i \in 1..n : stamps'[i] = stamps[i]
  BY <1>1
<1>3. 1..(n + 1) = 1..n \cup {n + 1} /\ n + 1 \notin 1..n
  BY <1>1
<1> HIDE DEF n
<1>4. Stamped' = Stamped \cup {x}
  BY <1>2, <1>3 DEF Stamped
<1>5. ASSUME NEW i \in DOMAIN stamps', NEW j \in DOMAIN stamps', stamps'[i] = stamps'[j]
      PROVE  i = j
  <2>1. \A k \in 1..n : stamps'[k] # x
    BY <1>2 DEF Stamped
  <2>2. i \in 1..n /\ j \in 1..n => i = j
    BY <1>2, <1>5 DEF StampsOK
  <2> QED
    BY <1>2, <1>3, <1>5, <2>1, <2>2
<1> QED
  BY <1>1, <1>2, <1>4, <1>5 DEF n

(* Whose question and whose answer it is.                                  *)
LEMMA Apart ==
  \A p, q \in Messages :
    /\ Asked(p) # Answered(q)
    /\ Asked(p) = Asked(q) => p = q
    /\ Answered(p) = Answered(q) => p = q
    /\ Asked(p) \in Messages \X Roles /\ Answered(p) \in Messages \X Roles
    /\ Asked(p)[1] = p /\ Answered(p)[1] = p
BY DEF Asked, Answered, Roles

(* One message moves and no time is given out.                             *)
LEMMA NoStamp ==
  ASSUME TalkInv, stamps' = stamps, met' = met, UnderWay' \subseteq UnderWay,
         \A q \in Messages :
           /\ turn'[q].pc = "away" <=> turn[q].pc = "away"
           /\ Answered(q) \in Stamped => turn'[q].pc \in {"save", "done"}
           /\ turn'[q].pc = "save" => Answered(q) \in Stamped
           /\ Asked(q) \in saved' => turn'[q].pc = "done",
         saved' \subseteq Messages \X Roles,
         \A q \in Messages : \A r, o \in Roles :
           <<q, r>> \in saved' => <<q, o>> \in saved' /\ <<q, o>> \in Stamped
  PROVE  TalkInv'
<1>1. Stamped' = Stamped
  BY DEF Stamped
<1>2. StampsOK'
  BY <1>1 DEF TalkInv, StampsOK, Asked, Answered
<1>3. BetweenOK'
  BY DEF TalkInv, BetweenOK, Asked, Answered
<1>4. MetOK'
  BY DEF TalkInv, MetOK
<1> QED
  BY <1>2, <1>3, <1>4 DEF TalkInv

LEMMA TalkStart ==
  ASSUME TurnInv, TalkInv, NEW m \in Messages, Start(m)
  PROVE  TalkInv'
<1> DEFINE n == Len(stamps)
<1>1. /\ turn[m].pc = "away" /\ turn'[m].pc = "call"
      /\ \A q \in Messages \ {m} : turn'[q] = turn[q]
      /\ saved' = saved
  BY DEF Start, Away, TurnInv
<1>2. met' = [q \in Messages |->
                IF q = m THEN UnderWay
                ELSE IF q \in UnderWay THEN met[q] \cup {m} ELSE met[q]]
  BY DEF Start
<1>3. m \notin UnderWay /\ UnderWay' = UnderWay \cup {m} /\ UnderWay \subseteq Messages
  BY <1>1 DEF UnderWay
<1>4. Asked(m) \notin Stamped /\ stamps' = Append(stamps, Asked(m))
      /\ Asked(m) \in Messages \X Roles
  BY <1>1, Apart DEF Start, Asked, TalkInv, StampsOK
<1>5. /\ stamps' \in Seq(Messages \X Roles)
      /\ n \in Nat
      /\ DOMAIN stamps = 1..n
      /\ DOMAIN stamps' = 1..(n + 1)
      /\ stamps'[n + 1] = Asked(m)
      /\ \A i \in DOMAIN stamps : stamps'[i] = stamps[i]
      /\ Stamped' = Stamped \cup {Asked(m)}
      /\ \A i, j \in DOMAIN stamps' : stamps'[i] = stamps'[j] => i = j
  BY <1>4, OneMoreStamp DEF TalkInv
<1>6. StampsOK'
  <2>1. ASSUME NEW q \in Messages
        PROVE  /\ Asked(q) \in Stamped' <=> turn'[q].pc # "away"
               /\ Answered(q) \in Stamped' => turn'[q].pc \in {"save", "done"}
               /\ turn'[q].pc = "save" => Answered(q) \in Stamped'
    <3>1. Answered(q) \in Stamped' <=> Answered(q) \in Stamped
      BY <1>5, Apart
    <3>2. q # m => (Asked(q) \in Stamped' <=> Asked(q) \in Stamped)
      BY <1>5, Apart
    <3> QED
      BY <1>1, <1>5, <3>1, <3>2 DEF TalkInv, StampsOK
  <2>2. ASSUME NEW q \in Messages, NEW i \in DOMAIN stamps', NEW j \in DOMAIN stamps',
               stamps'[i] = Asked(q), stamps'[j] = Answered(q)
        PROVE  i < j
    <3>1. j \in 1..n /\ stamps[j] = Answered(q)
      <4>1. j # n + 1
        BY <1>5, <2>2, Apart
      <4> HIDE DEF n
      <4> QED
        BY <1>5, <2>2, <4>1
    <3>2. q # m
      <4>1. Answered(q) \in Stamped
        BY <1>5, <3>1 DEF Stamped
      <4> QED
        BY <1>1, <4>1 DEF TalkInv, StampsOK
    <3>3. i \in 1..n /\ stamps[i] = Asked(q)
      <4>1. i # n + 1
        BY <1>5, <2>2, <3>2, Apart
      <4> HIDE DEF n
      <4> QED
        BY <1>5, <2>2, <4>1
    <3> QED
      BY <1>5, <3>1, <3>3 DEF TalkInv, StampsOK
  <2>3. \A q \in Messages : \A r, o \in Roles :
          <<q, r>> \in saved' => <<q, o>> \in saved' /\ <<q, o>> \in Stamped'
    BY <1>1, <1>5 DEF TalkInv, StampsOK
  <2>4. \A q \in Messages : Asked(q) \in saved' => turn'[q].pc = "done"
    BY <1>1 DEF TalkInv, StampsOK
  <2> QED
    BY <1>1, <1>5, <2>1, <2>2, <2>3, <2>4 DEF TalkInv, StampsOK, Asked, Answered
<1>7. BetweenOK'
  <2> SUFFICES ASSUME NEW q \in Messages, NEW i \in DOMAIN stamps', NEW k \in DOMAIN stamps',
                      stamps'[i] = Asked(q), i < k, stamps'[k][1] # q,
                      q \in UnderWay' \/ \E j \in DOMAIN stamps' : k < j /\ stamps'[j] = Answered(q)
               PROVE  stamps'[k][1] \in met'[q]
    BY DEF BetweenOK, Asked, Answered
  <2>1. i \in 1..n /\ stamps[i] = Asked(q)
    <3> HIDE DEF n
    <3> QED
      BY <1>5
  <2>2. q # m
    BY <1>4, <1>5, <2>1 DEF Stamped
  <2>3. q \in UnderWay' => q \in UnderWay
    BY <1>3, <2>2
  <2>4. ASSUME NEW j \in DOMAIN stamps', stamps'[j] = Answered(q)
        PROVE  j \in 1..n /\ stamps[j] = Answered(q)
    <3>1. j # n + 1
      BY <1>5, <2>4, Apart
    <3> HIDE DEF n
    <3> QED
      BY <1>5, <2>4, <3>1
  <2>5. CASE k = n + 1
    <3>1. q \in UnderWay
      <4>1. ASSUME NEW j \in DOMAIN stamps', k < j PROVE FALSE
        <5> HIDE DEF n
        <5> QED
          BY <1>5, <2>5, <4>1
      <4> QED
        BY <2>3, <4>1
    <3>2. stamps'[k][1] = m
      BY <1>5, <2>5, Apart
    <3> QED
      BY <1>2, <2>2, <3>1, <3>2
  <2>6. CASE k # n + 1
    <3>1. k \in 1..n /\ stamps'[k] = stamps[k]
      <4> HIDE DEF n
      <4> QED
        BY <1>5, <2>6
    <3>2. q \in UnderWay \/ \E j \in DOMAIN stamps : k < j /\ stamps[j] = Answered(q)
      BY <1>5, <2>3, <2>4
    <3>3. stamps[k][1] \in met[q]
      BY <1>5, <2>1, <3>1, <3>2 DEF TalkInv, BetweenOK
    <3> QED
      BY <1>2, <2>2, <3>1, <3>3
  <2> QED
    BY <2>5, <2>6
<1>8. MetOK'
  BY <1>2, <1>3 DEF TalkInv, MetOK
<1> QED
  BY <1>6, <1>7, <1>8 DEF TalkInv

LEMMA TalkRecord ==
  ASSUME TurnInv, TalkInv, NEW m \in Messages, Record(m) \/ RecordFails(m)
  PROVE  TalkInv'
<1> DEFINE n == Len(stamps)
<1>1. /\ turn[m].pc = "record" /\ turn'[m].pc \in {"save", "done"}
      /\ \A q \in Messages \ {m} : turn'[q] = turn[q]
      /\ saved' = saved /\ met' = met
  <2>1. /\ turn[m].pc = "record" /\ turn'[m].pc \in {"save", "done"}
        /\ \A q \in Messages \ {m} : turn'[q] = turn[q]
    BY DEF Record, RecordFails, Goto, TurnInv, TurnState
  <2>2. saved' = saved /\ met' = met
    BY DEF Record, RecordFails
  <2> QED
    BY <2>1, <2>2
<1>2. m \in UnderWay /\ UnderWay' \subseteq UnderWay
  BY <1>1 DEF UnderWay
<1>3. Answered(m) \notin Stamped /\ stamps' = Append(stamps, Answered(m))
      /\ Answered(m) \in Messages \X Roles
  BY <1>1, Apart DEF Record, RecordFails, Answered, TalkInv, StampsOK
<1>4. /\ stamps' \in Seq(Messages \X Roles)
      /\ n \in Nat
      /\ DOMAIN stamps = 1..n
      /\ DOMAIN stamps' = 1..(n + 1)
      /\ stamps'[n + 1] = Answered(m)
      /\ \A i \in DOMAIN stamps : stamps'[i] = stamps[i]
      /\ Stamped' = Stamped \cup {Answered(m)}
      /\ \A i, j \in DOMAIN stamps' : stamps'[i] = stamps'[j] => i = j
  BY <1>3, OneMoreStamp DEF TalkInv
<1>5. ASSUME NEW q \in Messages, NEW i \in DOMAIN stamps', stamps'[i] = Asked(q)
      PROVE  i \in 1..n /\ stamps[i] = Asked(q)
  <2>1. i # n + 1
    BY <1>4, <1>5, Apart
  <2> HIDE DEF n
  <2> QED
    BY <1>4, <1>5, <2>1
<1>6. StampsOK'
  <2>1. ASSUME NEW q \in Messages
        PROVE  /\ Asked(q) \in Stamped' <=> turn'[q].pc # "away"
               /\ Answered(q) \in Stamped' => turn'[q].pc \in {"save", "done"}
               /\ turn'[q].pc = "save" => Answered(q) \in Stamped'
    <3>1. Asked(q) \in Stamped' <=> Asked(q) \in Stamped
      BY <1>4, Apart
    <3>2. q # m => (Answered(q) \in Stamped' <=> Answered(q) \in Stamped)
      BY <1>4, Apart
    <3> QED
      BY <1>1, <1>4, <3>1, <3>2 DEF TalkInv, StampsOK
  <2>2. ASSUME NEW q \in Messages, NEW i \in DOMAIN stamps', NEW j \in DOMAIN stamps',
               stamps'[i] = Asked(q), stamps'[j] = Answered(q)
        PROVE  i < j
    <3>1. i \in 1..n /\ stamps[i] = Asked(q)
      BY <1>5, <2>2
    <3>2. CASE j = n + 1
      <4> HIDE DEF n
      <4> QED
        BY <1>4, <3>1, <3>2
    <3>3. CASE j # n + 1
      <4>1. j \in 1..n /\ stamps[j] = Answered(q)
        <5> HIDE DEF n
        <5> QED
          BY <1>4, <2>2, <3>3
      <4> QED
        BY <1>4, <3>1, <4>1 DEF TalkInv, StampsOK
    <3> QED
      BY <3>2, <3>3
  <2>3. \A q \in Messages : \A r, o \in Roles :
          <<q, r>> \in saved' => <<q, o>> \in saved' /\ <<q, o>> \in Stamped'
    BY <1>1, <1>4 DEF TalkInv, StampsOK
  <2>4. \A q \in Messages : Asked(q) \in saved' => turn'[q].pc = "done"
    BY <1>1 DEF TalkInv, StampsOK
  <2> QED
    BY <1>1, <1>4, <2>1, <2>2, <2>3, <2>4 DEF TalkInv, StampsOK, Asked, Answered
<1>7. BetweenOK'
  <2> SUFFICES ASSUME NEW q \in Messages, NEW i \in DOMAIN stamps', NEW k \in DOMAIN stamps',
                      stamps'[i] = Asked(q), i < k, stamps'[k][1] # q,
                      q \in UnderWay' \/ \E j \in DOMAIN stamps' : k < j /\ stamps'[j] = Answered(q)
               PROVE  stamps'[k][1] \in met'[q]
    BY DEF BetweenOK, Asked, Answered
  <2>1. i \in 1..n /\ stamps[i] = Asked(q)
    BY <1>5
  <2>2. CASE k = n + 1
    <3>1. q \in UnderWay
      <4>1. ASSUME NEW j \in DOMAIN stamps', k < j PROVE FALSE
        <5> HIDE DEF n
        <5> QED
          BY <1>4, <2>2, <4>1
      <4> QED
        BY <1>2, <4>1
    <3>2. stamps'[k][1] = m
      BY <1>4, <2>2, Apart
    <3> QED
      BY <1>1, <1>2, <3>1, <3>2 DEF TalkInv, MetOK
  <2>3. CASE k # n + 1
    <3>1. k \in 1..n /\ stamps'[k] = stamps[k]
      <4> HIDE DEF n
      <4> QED
        BY <1>4, <2>3
    <3>2. q \in UnderWay \/ \E j \in DOMAIN stamps : k < j /\ stamps[j] = Answered(q)
      <4>1. ASSUME NEW j \in DOMAIN stamps', k < j, stamps'[j] = Answered(q)
            PROVE  q \in UnderWay \/ (j \in DOMAIN stamps /\ stamps[j] = Answered(q))
        <5>1. CASE j = n + 1
          BY <1>2, <1>4, <4>1, <5>1, Apart
        <5>2. CASE j # n + 1
          <6> HIDE DEF n
          <6> QED
            BY <1>4, <4>1, <5>2
        <5> QED
          BY <5>1, <5>2
      <4> QED
        BY <1>2, <4>1
    <3>3. stamps[k][1] \in met[q]
      BY <1>4, <2>1, <3>1, <3>2 DEF TalkInv, BetweenOK
    <3> QED
      BY <1>1, <3>1, <3>3
  <2> QED
    BY <2>2, <2>3
<1>8. MetOK'
  BY <1>1, <1>2 DEF TalkInv, MetOK
<1> QED
  BY <1>6, <1>7, <1>8 DEF TalkInv

LEMMA TalkStep ==
  ASSUME TurnInv, TalkInv, [Next]_vars
  PROVE  TalkInv'
<1>1. ASSUME NEW m \in Messages,
             \/ Call(m) \/ Connect(m) \/ Speak(m) \/ WantTools(m) \/ Answer(m)
             \/ Tools(m) \/ Fails(m) \/ CutOff(m)
      PROVE  TalkInv'
  <2>1. stamps' = stamps /\ met' = met /\ saved' = saved
    BY <1>1 DEF Call, Connect, Speak, WantTools, Answer, Tools, Fails, CutOff, book
  <2>2. \A q \in Messages \ {m} : turn'[q] = turn[q]
    BY <1>1 DEF Call, Connect, Speak, WantTools, Answer, Tools, Fails, CutOff, Goto, TurnInv
  <2>3. /\ turn[m].pc \in {"call", "ask", "tools"}
        /\ turn'[m].pc \in {"call", "ask", "tools", "record", "done"}
    <3> DEFINE Onward == {"call", "ask", "tools", "record", "done"}
    <3>1. turn \in [Messages -> TurnState] /\ AfterFailureOf(m) \in Onward
      BY DEF TurnInv, AfterFailureOf
    <3>2. \A p : Goto(m, p) => turn'[m].pc = p
      BY <3>1 DEF Goto, TurnState
    <3>3. Call(m) => turn[m].pc = "call" /\ turn'[m].pc \in Onward
      BY <3>1, <3>2 DEF Call
    <3>4. Connect(m) => turn[m].pc = "call" /\ turn'[m].pc \in Onward
      BY <3>1, <3>2 DEF Connect
    <3>5. Speak(m) => turn[m].pc = "ask" /\ turn'[m].pc \in Onward
      BY <3>1 DEF Speak, At, TurnState
    <3>6. WantTools(m) \/ Answer(m) => turn[m].pc = "ask" /\ turn'[m].pc \in Onward
      BY <3>1 DEF WantTools, Answer, TurnState
    <3>7. Tools(m) => turn[m].pc = "tools" /\ turn'[m].pc \in Onward
      BY <3>1 DEF Tools, TurnState
    <3>8. Fails(m) => turn[m].pc \in {"ask", "tools"} /\ turn'[m].pc \in Onward
      BY <3>1, <3>2 DEF Fails
    <3>9. CutOff(m) => turn[m].pc \in {"call", "ask", "tools"} /\ turn'[m].pc \in Onward
      BY <3>1, <3>2 DEF CutOff
    <3> QED
      BY <1>1, <3>3, <3>4, <3>5, <3>6, <3>7, <3>8, <3>9
  <2>4. Answered(m) \notin Stamped /\ Asked(m) \notin saved
    BY <2>3 DEF TalkInv, StampsOK
  <2>5. UnderWay' \subseteq UnderWay
    BY <2>2, <2>3 DEF UnderWay
  <2>6. ASSUME NEW q \in Messages
        PROVE  /\ turn'[q].pc = "away" <=> turn[q].pc = "away"
               /\ Answered(q) \in Stamped => turn'[q].pc \in {"save", "done"}
               /\ turn'[q].pc = "save" => Answered(q) \in Stamped
               /\ Asked(q) \in saved' => turn'[q].pc = "done"
    BY <2>1, <2>2, <2>3, <2>4 DEF TalkInv, StampsOK
  <2>7. /\ saved' \subseteq Messages \X Roles
        /\ \A q \in Messages : \A r, o \in Roles :
             <<q, r>> \in saved' => <<q, o>> \in saved' /\ <<q, o>> \in Stamped
    BY <2>1 DEF TalkInv, StampsOK
  <2> QED
    BY <2>1, <2>5, <2>6, <2>7, NoStamp
<1>2. ASSUME NEW m \in Messages, Save(m)
      PROVE  TalkInv'
  <2>1. /\ stamps' = stamps /\ met' = met
        /\ turn[m].pc = "save" /\ turn'[m].pc = "done"
        /\ \A q \in Messages \ {m} : turn'[q] = turn[q]
        /\ saved' = saved \/ saved' = saved \cup ({m} \X Roles)
    BY <1>2 DEF Save, Goto, TurnInv
  <2>2. UnderWay' \subseteq UnderWay
    BY <2>1 DEF UnderWay
  <2>3. Answered(m) \in Stamped /\ Asked(m) \in Stamped
    BY <2>1 DEF TalkInv, StampsOK
  <2>4. \A r \in Roles : <<m, r>> \in Stamped
    BY <2>3 DEF Roles, Asked, Answered
  <2>5. ASSUME NEW q \in Messages
        PROVE  /\ turn'[q].pc = "away" <=> turn[q].pc = "away"
               /\ Answered(q) \in Stamped => turn'[q].pc \in {"save", "done"}
               /\ turn'[q].pc = "save" => Answered(q) \in Stamped
               /\ Asked(q) \in saved' => turn'[q].pc = "done"
    <3>1. CASE q = m
      BY <2>1, <2>3, <3>1
    <3>2. CASE q # m
      <4>1. Asked(q) \in saved' => Asked(q) \in saved
        BY <2>1, <3>2 DEF Asked
      <4> QED
        BY <2>1, <3>2, <4>1 DEF TalkInv, StampsOK
    <3> QED
      BY <3>1, <3>2
  <2>6. saved' \subseteq Messages \X Roles
    BY <2>1 DEF TalkInv, StampsOK
  <2>7. ASSUME NEW q \in Messages, NEW r \in Roles, NEW o \in Roles, <<q, r>> \in saved'
        PROVE  <<q, o>> \in saved' /\ <<q, o>> \in Stamped
    <3>1. CASE <<q, r>> \in saved
      BY <2>1, <3>1 DEF TalkInv, StampsOK
    <3>2. CASE <<q, r>> \notin saved
      <4>1. q = m /\ saved' = saved \cup ({m} \X Roles)
        BY <2>1, <2>7, <3>2
      <4> QED
        BY <2>4, <4>1
    <3> QED
      BY <3>1, <3>2
  <2> QED
    BY <2>1, <2>2, <2>5, <2>6, <2>7, NoStamp
<1>3. CASE ClearHistory \/ Midnight \/ Clock \/ UNCHANGED vars
  <2>1. turn' = turn /\ stamps' = stamps /\ met' = met /\ (saved' = saved \/ saved' = {})
    BY <1>3 DEF ClearHistory, Midnight, Clock, book, vars
  <2>2. UnderWay' = UnderWay
    BY <2>1 DEF UnderWay
  <2> QED
    BY <2>1, <2>2, NoStamp DEF TalkInv, StampsOK
<1> QED
  BY <1>1, <1>2, <1>3, TalkStart, TalkRecord DEF Next, Step

LEMMA TalkInit == Init => TalkInv
<1> SUFFICES ASSUME Init PROVE TalkInv
  OBVIOUS
<1>1. /\ stamps = <<>> /\ saved = {} /\ turn = [m \in Messages |-> Away]
      /\ met = [m \in Messages |-> {}]
  BY DEF Init
<1>2. Stamped = {} /\ DOMAIN stamps = {} /\ UnderWay = {}
  BY <1>1 DEF Stamped, UnderWay, Away
<1>3. \A m \in Messages : turn[m].pc = "away"
  BY <1>1 DEF Away
<1> QED
  BY <1>1, <1>2, <1>3 DEF TalkInv, StampsOK, BetweenOK, MetOK

(* chat_history_store.list_for_user: a question is followed by its answer  *)
(* and an answer preceded by its question, for a message that was under    *)
(* way alone, whatever fails, is cut off or is cleared (TX2 saves both     *)
(* turns or neither).                                                      *)
THEOREM HistoryReadsOn == Spec => []HistoryIsConversation
<1>1. TalkInv => HistoryIsConversation
  <2> SUFFICES ASSUME TalkInv, NEW i \in History, met[stamps[i][1]] = {}
               PROVE  LET m == stamps[i][1]
                          Follows(j, k) == j < k /\ \A n \in History : ~(j < n /\ n < k)
                      IN  \E j \in History :
                            \/ /\ stamps[i] = <<m, "user">> /\ stamps[j] = <<m, "assistant">>
                               /\ Follows(i, j)
                            \/ /\ stamps[i] = <<m, "assistant">> /\ stamps[j] = <<m, "user">>
                               /\ Follows(j, i)
    BY DEF HistoryIsConversation
  <2> DEFINE m == stamps[i][1]
  <2>1. /\ History \subseteq DOMAIN stamps /\ i \in DOMAIN stamps
        /\ DOMAIN stamps \subseteq Int
        /\ stamps[i] \in saved /\ stamps[i] \in Messages \X Roles
    BY DEF History, TalkInv, StampsOK
  <2>2. m \in Messages /\ (stamps[i] = Asked(m) \/ stamps[i] = Answered(m))
    BY <2>1 DEF Asked, Answered, Roles
  <2>3. \A o \in Roles : <<m, o>> \in saved /\ <<m, o>> \in Stamped
    BY <2>1, <2>2 DEF TalkInv, StampsOK, Asked, Answered, Roles
  <2>4. PICK a \in History : stamps[a] = Asked(m)
    BY <2>3 DEF History, Stamped, Asked, Roles
  <2>5. PICK b \in History : stamps[b] = Answered(m)
    BY <2>3 DEF History, Stamped, Answered, Roles
  <2>6. a < b
    BY <2>1, <2>2, <2>4, <2>5 DEF TalkInv, StampsOK
  <2>7. ASSUME NEW n \in History, a < n, n < b
        PROVE  FALSE
    <3>1. n # a /\ n # b
      BY <2>1, <2>7
    <3>2. stamps[n] # Asked(m) /\ stamps[n] # Answered(m)
      BY <2>1, <2>4, <2>5, <3>1 DEF TalkInv, StampsOK
    <3>3. stamps[n] \in Messages \X Roles
      BY <2>1 DEF TalkInv, StampsOK
    <3>4. stamps[n][1] # m
      BY <3>2, <3>3 DEF Asked, Answered, Roles
    <3>5. stamps[n][1] \in met[m]
      BY <2>1, <2>2, <2>4, <2>5, <2>7, <3>4 DEF TalkInv, BetweenOK
    <3> QED
      BY <3>5
  <2>8. i = a \/ i = b
    BY <2>1, <2>2, <2>4, <2>5 DEF TalkInv, StampsOK
  <2> QED
    BY <2>2, <2>4, <2>5, <2>6, <2>7, <2>8 DEF Asked, Answered
<1> QED
  BY <1>1, TalkInit, TurnInit, TurnStep, TalkStep, PTL DEF Spec

-------------------------------------------------------------------------------
(* The types.  What the invariants above leave open is what is bounded by  *)
(* the gateway and by the number of rounds.                                *)
GatewayBounded ==
  /\ waiting <= MaxQueue
  /\ bucket \in 0..MaxRate
  /\ circuit \in [state : {"closed", "open", "cooled", "half"}, failures : 0..FailMax]

(* Both a query and a stream have made as many requests as rounds.         *)
RoundsSpent(m) ==
  /\ spent[m] <= MaxRounds + 1
  /\ turn[m].pc \in {"ask", "tools"} => spent[m] = turn[m].round

ChatBounded ==
  /\ \A m \in Messages : RoundsSpent(m)
  /\ days \in 0..MaxDays
  /\ faults \in 0..MaxFaults

(* What a call tells the breaker leaves it one.                            *)
LEMMA BreakerStays ==
  ASSUME GatewayBounded, NEW c, NEW ending \in {"success", "failure", "cancelled"},
         Leave(c, ending)
  PROVE  GatewayBounded'
<1> DEFINE Circuits == [state : {"closed", "open", "cooled", "half"}, failures : 0..FailMax]
<1>1. FailMax \in Nat \ {0} /\ circuit \in Circuits
  BY GatewayAssumption DEF GatewayBounded
<1>2. Open \in Circuits /\ Closed \in Circuits
  BY <1>1 DEF Open, Closed
<1>3. AfterSuccess \in Circuits
  BY <1>1, <1>2 DEF AfterSuccess
<1>4. AfterFailure \in Circuits
  <2>1. CASE circuit.state = "closed" /\ circuit.failures + 1 < FailMax
    BY <1>1, <2>1 DEF AfterFailure
  <2>2. CASE circuit.state = "closed" /\ ~(circuit.failures + 1 < FailMax)
    <3>1. circuit.failures + 1 >= FailMax
      BY <1>1, <2>2
    <3> QED
      BY <1>2, <2>2, <3>1 DEF AfterFailure
  <2>3. CASE circuit.state = "half"
    BY <1>2, <2>3 DEF AfterFailure
  <2>4. CASE circuit.state \notin {"closed", "half"}
    BY <1>1, <2>4 DEF AfterFailure
  <2> QED
    BY <2>1, <2>2, <2>3, <2>4
<1>5. circuit' \in Circuits
  BY <1>1, <1>3, <1>4 DEF Leave
<1> QED
  BY <1>5 DEF GatewayBounded, Leave

LEMMA GatewayStays ==
  ASSUME GatewayBounded, UNCHANGED gateway
  PROVE  GatewayBounded'
BY DEF GatewayBounded, gateway

LEMMA GatewayStep ==
  ASSUME GatewayBounded, GateInv, [Next]_vars
  PROVE  GatewayBounded'
<1> DEFINE Circuits == [state : {"closed", "open", "cooled", "half"}, failures : 0..FailMax]
<1>1. /\ {MaxQueue, MaxRate, FailMax} \subseteq Nat \ {0}
      /\ waiting \in Nat /\ waiting <= MaxQueue
      /\ bucket \in 0..MaxRate /\ circuit \in Circuits
  BY GatewayAssumption, QueueIsFinite DEF GatewayBounded, GateInv
<1>2. ASSUME NEW m \in Messages, Start(m) \/ Step(m) \/ CutOff(m) \/ RecordFails(m)
      PROVE  GatewayBounded'
  <2>1. CASE Start(m) \/ Speak(m) \/ Tools(m) \/ Record(m) \/ Save(m) \/ RecordFails(m)
    BY <2>1, GatewayStays DEF Start, Speak, Tools, Record, Save, RecordFails
  <2>2. CASE Call(m)
    <3>1. CASE JoinQueue(m)
      BY <1>1, <3>1 DEF JoinQueue, QueueFull, GatewayBounded
    <3> QED
      BY <2>2, <3>1, GatewayStays DEF Call
  <2>3. CASE Connect(m)
    <3>1. waiting' = waiting - 1 /\ bucket' = bucket - 1 /\ bucket > 0
      BY <2>3 DEF Connect, Enter, TurnedAway
    <3>2. circuit' = circuit \/ circuit' = [circuit EXCEPT !.state = "half"]
      BY <2>3 DEF Connect, Enter, TurnedAway
    <3>3. circuit' \in Circuits
      BY <1>1, <3>2
    <3> QED
      BY <1>1, <3>1, <3>3 DEF GatewayBounded
  <2>4. CASE WantTools(m) \/ Answer(m) \/ Fails(m)
    BY <2>4, BreakerStays, GatewayStays DEF WantTools, Answer, Fails
  <2>5. CASE CutOff(m)
    <3>1. gate[m] \in {"out", "queue", "in"}
      BY DEF GateInv, Messages
    <3>2. CASE gate[m] = "out"
      BY <2>5, <3>2, GatewayStays DEF CutOff
    <3>3. CASE gate[m] = "queue"
      <4>1. Abandon(m)
        BY <2>5, <3>3 DEF CutOff
      <4> QED
        BY <1>1, <4>1 DEF Abandon, GatewayBounded
    <3>4. CASE gate[m] = "in"
      <4>1. Leave(m, "cancelled")
        BY <2>5, <3>4 DEF CutOff
      <4> QED
        BY <4>1, BreakerStays
    <3> QED
      BY <3>1, <3>2, <3>3, <3>4
  <2> QED
    BY <1>2, <2>1, <2>2, <2>3, <2>4, <2>5 DEF Step
<1>3. CASE ClearHistory \/ Midnight \/ UNCHANGED vars
  BY <1>3, GatewayStays DEF ClearHistory, Midnight, vars
<1>4. CASE Clock
  <2>1. CASE Refill
    BY <1>1, <2>1 DEF Refill, GatewayBounded
  <2>2. CASE CoolDown
    BY <1>1, <2>2 DEF CoolDown, GatewayBounded
  <2> QED
    BY <1>4, <2>1, <2>2 DEF Clock
<1> QED
  BY <1>2, <1>3, <1>4 DEF Next

LEMMA RoundsStep ==
  ASSUME TurnInv, ChatBounded, NEW m \in Messages,
         Start(m) \/ Step(m) \/ CutOff(m) \/ RecordFails(m)
  PROVE  \A q \in Messages : RoundsSpent(q)'
<1>1. /\ turn \in [Messages -> TurnState] /\ spent \in [Messages -> Nat]
      /\ MaxRounds \in Nat /\ Sound(m) /\ RoundsSpent(m)
  BY ChatAssumption DEF TurnInv, ChatBounded
<1>2. \A q \in Messages \ {m} : turn'[q] = turn[q] /\ spent'[q] = spent[q]
  BY <1>1 DEF Start, Step, Call, Connect, Speak, WantTools, Answer, Tools, Fails, Record,
     Save, CutOff, RecordFails, Goto
<1>3. turn[m] \in TurnState /\ turn[m].round \in Rounds /\ spent[m] \in Nat
  BY <1>1 DEF TurnState
<1>4. CASE Start(m)
  <2>1. turn'[m].pc = "call" /\ spent' = spent
    BY <1>1, <1>4 DEF Start, Away
  <2> QED
    BY <1>2, <2>1, <1>1 DEF RoundsSpent, ChatBounded
<1>5. CASE Connect(m)
  <2>1. \/ /\ turn'[m].pc = "ask" /\ turn'[m].round = turn[m].round
           /\ spent'[m] = spent[m] + 1
        \/ turn'[m].pc \in {"record", "done"} /\ spent' = spent
    <3>1. CASE Enter(m) /\ Goto(m, "ask") /\ spent' = [spent EXCEPT ![m] = @ + 1]
      BY <1>1, <1>3, <3>1 DEF Goto, TurnState
    <3>2. CASE TurnedAway(m) /\ Goto(m, AfterFailureOf(m)) /\ UNCHANGED spent
      BY <1>1, <1>3, <3>2 DEF Goto, AfterFailureOf, TurnState
    <3> QED
      BY <1>5, <3>1, <3>2 DEF Connect
  <2>2. turn[m].pc = "call" /\ spent[m] = turn[m].round - 1
    BY <1>1, <1>5 DEF Connect, Sound
  <2>3. RoundsSpent(m)'
    BY <1>1, <1>3, <2>1, <2>2 DEF RoundsSpent, Rounds
  <2> QED
    BY <1>2, <2>3 DEF RoundsSpent, ChatBounded
<1>6. CASE Tools(m)
  <2>1. turn[m].pc = "tools" /\ turn[m].round <= MaxRounds /\ spent[m] = turn[m].round
    BY <1>1, <1>6 DEF Tools, Sound, RoundsSpent
  <2>2. \/ turn'[m].pc = "call" /\ spent' = spent
        \/ /\ turn'[m].pc = "ask" /\ turn'[m].round = turn[m].round + 1
           /\ spent'[m] = spent[m] + 1
    BY <1>1, <1>3, <1>6 DEF Tools, TurnState
  <2>3. RoundsSpent(m)'
    BY <1>1, <1>3, <2>1, <2>2 DEF RoundsSpent, Rounds
  <2> QED
    BY <1>2, <2>3 DEF RoundsSpent, ChatBounded
<1>7. CASE \/ Call(m) \/ Speak(m) \/ WantTools(m) \/ Answer(m) \/ Fails(m)
           \/ Record(m) \/ Save(m) \/ CutOff(m) \/ RecordFails(m)
  <2>1. spent' = spent
    BY <1>7 DEF Call, Speak, WantTools, Answer, Fails, Record, Save, CutOff, RecordFails
  <2>2. turn'[m].pc \in {"ask", "tools"} =>
          turn[m].pc \in {"ask", "tools"} /\ turn'[m].round = turn[m].round
    <3>1. CASE Call(m) \/ Fails(m) \/ Save(m) \/ CutOff(m) \/ RecordFails(m)
      <4>1. turn' = turn \/ turn'[m].pc \in {"record", "save", "done"}
        <5>1. turn' = turn \/ \E p \in {"record", "save", "done"} : Goto(m, p)
          BY <3>1 DEF Call, Fails, Save, CutOff, RecordFails, AfterFailureOf
        <5> QED
          BY <1>1, <1>3, <5>1 DEF Goto, TurnState
      <4> QED
        BY <4>1
    <3>2. CASE Speak(m)
      BY <1>1, <1>3, <3>2 DEF Speak, TurnState
    <3>3. CASE WantTools(m)
      BY <1>1, <1>3, <3>3 DEF WantTools, TurnState
    <3>4. CASE Answer(m)
      BY <1>1, <1>3, <3>4 DEF Answer, TurnState
    <3>5. CASE Record(m)
      <4>1. turn'[m].pc \in {"save", "done"}
        BY <1>1, <1>3, <3>5 DEF Record, TurnState
      <4> QED
        BY <4>1
    <3> QED
      BY <1>7, <3>1, <3>2, <3>3, <3>4, <3>5
  <2>3. RoundsSpent(m)'
    BY <1>1, <2>1, <2>2 DEF RoundsSpent
  <2> QED
    BY <1>2, <2>3 DEF RoundsSpent, ChatBounded
<1> QED
  BY <1>4, <1>5, <1>6, <1>7 DEF Step

LEMMA BoundsStep ==
  ASSUME TurnInv, ChatBounded, [Next]_vars
  PROVE  ChatBounded'
<1>1. {MaxDays, MaxFaults} \subseteq Nat /\ days \in 0..MaxDays /\ faults \in 0..MaxFaults
  BY ChatAssumption DEF ChatBounded
<1>2. ASSUME NEW m \in Messages, Start(m) \/ Step(m) \/ CutOff(m) \/ RecordFails(m)
      PROVE  ChatBounded'
  <2>1. days' = days
    BY <1>2 DEF Start, Step, Call, Connect, Speak, WantTools, Answer, Tools, Fails, Record,
       Save, CutOff, RecordFails, book
  <2>2. faults' = faults \/ (faults < MaxFaults /\ faults' = faults + 1)
    BY <1>2 DEF Start, Step, Call, Connect, Speak, WantTools, Answer, Tools, Fails, Record,
       Save, CutOff, RecordFails
  <2>3. faults' \in 0..MaxFaults
    BY <1>1, <2>2
  <2> QED
    BY <1>1, <1>2, <2>1, <2>3, RoundsStep DEF ChatBounded
<1>3. CASE ClearHistory \/ Midnight \/ Clock \/ UNCHANGED vars
  <2>1. /\ turn' = turn /\ spent' = spent /\ faults' = faults
        /\ days' = days \/ (days < MaxDays /\ days' = days + 1)
    BY <1>3 DEF ClearHistory, Midnight, Clock, book, vars
  <2>2. days' \in 0..MaxDays
    BY <1>1, <2>1
  <2> QED
    BY <1>1, <2>1, <2>2 DEF ChatBounded, RoundsSpent
<1> QED
  BY <1>2, <1>3 DEF Next

(* Every variable of the chat and of the gateway keeps its type: _waiting  *)
(* stays between nothing and max_queue, and no message makes more than     *)
(* max_tool_iterations + 1 requests.                                       *)
THEOREM ChatTypeCorrect == Spec => []TypeOK
<1>1. Init => GateInv /\ GatewayBounded /\ ChatBounded /\ DebtInv /\ TalkInv
  <2> SUFFICES ASSUME Init
               PROVE  GateInv /\ GatewayBounded /\ ChatBounded /\ DebtInv /\ TalkInv
    OBVIOUS
  <2>1. GateInv
    BY GateInit
  <2>2. GatewayBounded
    BY GatewayAssumption DEF Init, GatewayInit, GatewayBounded, Closed
  <2>3. ChatBounded
    BY ChatAssumption DEF Init, ChatBounded, RoundsSpent, Away
  <2> QED
    BY <2>1, <2>2, <2>3, DebtInit, TalkInit
<1>2. TurnInv /\ GateInv /\ GatewayBounded /\ ChatBounded /\ DebtInv /\ TalkInv => TypeOK
  <2> SUFFICES ASSUME TurnInv, GateInv, GatewayBounded, ChatBounded, DebtInv, TalkInv
               PROVE  TypeOK
    OBVIOUS
  <2>1. waiting \in Nat /\ MaxQueue \in Nat
    BY QueueIsFinite, GatewayAssumption DEF GateInv
  <2>2. GatewayTypeOK
    BY <2>1 DEF GateInv, GatewayBounded, GatewayTypeOK
  <2>3. \A i \in 1..Len(stamps) : stamps[i] \in Messages \X Roles
    BY DEF TalkInv, StampsOK
  <2>4. spent \in [Messages -> 0..(MaxRounds + 1)]
    <3>1. \A m \in Messages : spent[m] \in 0..(MaxRounds + 1)
      BY ChatAssumption DEF TurnInv, ChatBounded, RoundsSpent
    <3> QED
      BY <3>1 DEF TurnInv
  <2> QED
    BY <2>2, <2>3, <2>4 DEF TypeOK, TurnInv, ChatBounded, DebtInv, TalkInv, StampsOK
<1> QED
  BY <1>1, <1>2, TurnInit, TurnStep, GateStep, GatewayStep, BoundsStep, DebtStep, TalkStep,
     PTL DEF Spec

===============================================================================
