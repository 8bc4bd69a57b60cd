------------------------------- MODULE AiGateway -------------------------------
(***************************************************************************)
(* OpenAIGateway, for one endpoint class: callers wait in a bounded queue  *)
(* for a token of the rate limiter, then ask the circuit breaker, then     *)
(* talk to OpenAI.  Limiter and breaker are libraries (aiolimiter,         *)
(* purgatory) and appear as the gateway uses them; all of it is the state  *)
(* of one process.                                                         *)
(***************************************************************************)
EXTENDS Naturals, FiniteSets

CONSTANTS
  Callers,   \* requests that may want the endpoint
  MaxQueue,  \* max_queue
  MaxRate,   \* tokens the limiter holds, rpm_per_endpoint
  FailMax    \* circuit_fail_max

ASSUME GatewayAssumption ==
  /\ IsFiniteSet(Callers)
  /\ {MaxQueue, MaxRate, FailMax} \subseteq Nat \ {0}

VARIABLES
  gate,      \* where a caller is: out, waiting for a token, in the breaker
  waiting,   \* _waiting[endpoint]
  bucket,    \* tokens left in the limiter
  circuit    \* the breaker's state and its count of failures

gateway == <<gate, waiting, bucket, circuit>>

Closed == [state |-> "closed", failures |-> 0]
Open == [state |-> "open", failures |-> 0]

GatewayTypeOK ==
  /\ gate \in [Callers -> {"out", "queue", "in"}]
  /\ waiting \in 0..MaxQueue
  /\ bucket \in 0..MaxRate
  /\ circuit \in [state : {"closed", "open", "cooled", "half"}, failures : 0..FailMax]

GatewayInit ==
  /\ gate = [c \in Callers |-> "out"]
  /\ waiting = 0
  /\ bucket = MaxRate
  /\ circuit = Closed

(* What a call that ended tells the breaker.  A failure counts, opens the  *)
(* circuit at the threshold, or opens it again at once when half-open; a   *)
(* success forgets the failures and closes a half-open circuit.            *)
AfterSuccess ==
  IF circuit.state \in {"open", "cooled"} THEN circuit ELSE Closed

AfterFailure ==
  CASE circuit.state = "closed" /\ circuit.failures + 1 < FailMax ->
         [circuit EXCEPT !.failures = @ + 1]
    [] circuit.state = "closed" /\ circuit.failures + 1 >= FailMax -> Open
    [] circuit.state = "half" -> Open
    [] OTHER -> circuit

QueueFull == waiting >= MaxQueue

(* _acquire counts the caller in ...                                       *)
JoinQueue(c) ==
  /\ gate[c] = "out"
  /\ ~QueueFull
  /\ gate' = [gate EXCEPT ![c] = "queue"]
  /\ waiting' = waiting + 1
  /\ UNCHANGED <<bucket, circuit>>

(* ... and out again, with a token.  Only then is the breaker asked: after *)
(* its cool-down it lets the next caller probe ...                         *)
Enter(c) ==
  /\ gate[c] = "queue"
  /\ bucket > 0
  /\ circuit.state # "open"
  /\ gate' = [gate EXCEPT ![c] = "in"]
  /\ waiting' = waiting - 1
  /\ bucket' = bucket - 1
  /\ circuit' = IF circuit.state = "cooled" THEN [circuit EXCEPT !.state = "half"]
                                            ELSE circuit

(* ... and as long as it is open it turns callers away, token spent.       *)
TurnedAway(c) ==
  /\ gate[c] = "queue"
  /\ bucket > 0
  /\ circuit.state = "open"
  /\ gate' = [gate EXCEPT ![c] = "out"]
  /\ waiting' = waiting - 1
  /\ bucket' = bucket - 1
  /\ UNCHANGED circuit

(* Mutant: the count is given back by those who got a token only.          *)
AbandonCounted(c) ==
  /\ gate[c] = "queue"
  /\ gate' = [gate EXCEPT ![c] = "out"]
  /\ UNCHANGED <<waiting, bucket, circuit>>

(* The caller is cancelled while it waits.                                 *)
Abandon(c) ==
  /\ gate[c] = "queue"
  /\ gate' = [gate EXCEPT ![c] = "out"]
  /\ waiting' = waiting - 1
  /\ UNCHANGED <<bucket, circuit>>

(* The call ends.  Whether the breaker takes a cancellation for a failure  *)
(* is the library's affair.                                                *)
Leave(c, ending) ==
  /\ gate[c] = "in"
  /\ gate' = [gate EXCEPT ![c] = "out"]
  /\ circuit' \in CASE ending = "success" -> {AfterSuccess}
                    [] ending = "failure" -> {AfterFailure}
                    [] ending = "cancelled" -> {circuit, AfterFailure}
  /\ UNCHANGED <<waiting, bucket>>

Refill ==
  /\ bucket < MaxRate
  /\ bucket' = bucket + 1
  /\ UNCHANGED <<gate, waiting, circuit>>

CoolDown ==
  /\ circuit.state = "open"
  /\ circuit' = [circuit EXCEPT !.state = "cooled"]
  /\ UNCHANGED <<gate, waiting, bucket>>

(* The waiter count is the number of callers that wait, on every path out  *)
(* of the queue, cancellation included: a count that leaks would end in an *)
(* endpoint that rejects every caller for ever.                            *)
WaitersCounted == waiting = Cardinality({c \in Callers : gate[c] = "queue"})

===============================================================================
