------------------------------- MODULE ChatTurns -------------------------------
(***************************************************************************)
(* A user's chat messages, answered in one response (ChatQueryUseCase) or  *)
(* as a stream (ChatStreamUseCase), on top of AiGateway.                   *)
(*                                                                         *)
(* The daily token budget is checked before the first AI request and       *)
(* charged after the last; in between the model may ask for tools, round   *)
(* after round, each round one AI request.  A query runs all its rounds in *)
(* one gateway call, a stream makes a call per round.  Either may fail or  *)
(* be cut off at any point.  One AI request costs one unit of the budget.  *)
(***************************************************************************)
EXTENDS AiGateway, Sequences

CONSTANTS
  Limit,      \* daily_token_limit
  MaxRounds,  \* max_tool_iterations
  MaxDays,    \* bound of the model: midnights
  MaxFaults   \* bound of the model: failed writes

ASSUME ChatAssumption ==
  /\ {Limit, MaxRounds} \subseteq Nat \ {0}
  /\ {MaxDays, MaxFaults} \subseteq Nat

VARIABLES
  turn,      \* what each message's use case has done so far
  used,      \* the counter tokens:chat:{user}:{today}
  stamps,    \* turns in the order of their created_at, saved or not
  saved,     \* committed rows of chat_turns
  spent,     \* AI requests made for each message (observed, not stored)
  met,       \* messages that were under way at the same time (observed)
  days,      \* midnights so far
  faults     \* failed writes so far

vars == <<gateway, turn, used, stamps, saved, spent, met, days, faults>>

Messages == Callers
Rounds == 1..(MaxRounds + 1)
Roles == {"user", "assistant"}

(* tokens: usage the client has added up; usage: the latest StreamUsage;   *)
(* spoke: the answer is not empty; billed: what was recorded.              *)
TurnState ==
  [pc : {"away", "call", "ask", "tools", "record", "save", "done"},
   kind : {"query", "stream"}, round : Rounds,
   tokens : 0..(MaxRounds + 1), usage : 0..(MaxRounds + 1),
   spoke : BOOLEAN, billed : 0..(MaxRounds + 1)]

Away == [pc |-> "away", kind |-> "query", round |-> 1, tokens |-> 0,
         usage |-> 0, spoke |-> FALSE, billed |-> 0]

At(m, kinds, p) == turn[m].kind \in kinds /\ turn[m].pc = p
Goto(m, p) == turn' = [turn EXCEPT ![m].pc = p]
UnderWay == {m \in Messages : turn[m].pc \notin {"away", "done"}}
book == <<used, stamps, saved, met, days>>

(* chat_turns ORDER BY created_at, id: the rows, by their places in stamps. *)
History == {i \in DOMAIN stamps : stamps[i] \in saved}

Init ==
  /\ GatewayInit
  /\ turn = [m \in Messages |-> Away]
  /\ used = 0
  /\ stamps = <<>>
  /\ saved = {}
  /\ spent = [m \in Messages |-> 0]
  /\ met = [m \in Messages |-> {}]
  /\ days = 0
  /\ faults = 0

(* Where an exception, or the end of the answer, leads: a stream comes to  *)
(* its `finally`, a failed query records and saves nothing.                *)
AfterFailureOf(m) == IF turn[m].kind = "stream" THEN "record" ELSE "done"

-------------------------------------------------------------------------------
(* Mutant: the budget is exceeded when it is exceeded.                     *)
StartAtLimit(m) ==
  /\ turn[m].pc = "away"
  /\ used <= Limit
  /\ \E k \in {"query", "stream"} :
       turn' = [turn EXCEPT ![m] = [Away EXCEPT !.pc = "call", !.kind = k]]
  /\ stamps' = Append(stamps, <<m, "user">>)
  /\ met' = [q \in Messages |->
               IF q = m THEN UnderWay
               ELSE IF q \in UnderWay THEN met[q] \cup {m} ELSE met[q]]
  /\ UNCHANGED <<gateway, used, saved, spent, days, faults>>

(* budget.check; the history is read, the user's turn gets its time.       *)
Start(m) ==
  /\ turn[m].pc = "away"
  /\ used < Limit
  /\ \E k \in {"query", "stream"} :
       turn' = [turn EXCEPT ![m] = [Away EXCEPT !.pc = "call", !.kind = k]]
  /\ stamps' = Append(stamps, <<m, "user">>)
  /\ met' = [q \in Messages |->
               IF q = m THEN UnderWay
               ELSE IF q \in UnderWay THEN met[q] \cup {m} ELSE met[q]]
  /\ UNCHANGED <<gateway, used, saved, spent, days, faults>>

(* Up to the gateway, which rejects the caller if the queue is full.       *)
Call(m) ==
  /\ turn[m].pc = "call"
  /\ gate[m] = "out"
  /\ \/ JoinQueue(m) /\ UNCHANGED turn
     \/ QueueFull /\ Goto(m, AfterFailureOf(m)) /\ UNCHANGED gateway
  /\ UNCHANGED <<book, spent, faults>>

Connect(m) ==
  /\ turn[m].pc = "call"
  /\ \/ /\ Enter(m)
        /\ Goto(m, "ask")
        /\ spent' = [spent EXCEPT ![m] = @ + 1]
     \/ /\ TurnedAway(m)
        /\ Goto(m, AfterFailureOf(m))
        /\ UNCHANGED spent
  /\ UNCHANGED <<book, faults>>

(* The first piece of an answer reaches the user.                          *)
Speak(m) ==
  /\ At(m, {"stream"}, "ask")
  /\ ~turn[m].spoke
  /\ turn' = [turn EXCEPT ![m].spoke = TRUE]
  /\ UNCHANGED <<gateway, book, spent, faults>>

(* The model wants tools; the round beyond the cap does not offer any.     *)
WantTools(m) ==
  /\ turn[m].pc = "ask"
  /\ turn[m].round <= MaxRounds
  /\ turn' = [turn EXCEPT ![m].pc = "tools", ![m].tokens = @ + 1]
  /\ IF turn[m].kind = "stream" THEN Leave(m, "success") ELSE UNCHANGED gateway
  /\ UNCHANGED <<book, spent, faults>>

Answer(m) ==
  /\ turn[m].pc = "ask"
  /\ turn' = [turn EXCEPT ![m].pc = "record", ![m].tokens = @ + 1,
                          ![m].usage = turn[m].tokens + 1]
  /\ Leave(m, "success")
  /\ UNCHANGED <<book, spent, faults>>

(* Mutant: usage is reported once, with the answer.                        *)
ToolsWithoutFloor(m) ==
  /\ turn[m].pc = "tools"
  /\ turn' = [turn EXCEPT ![m].round = @ + 1,
                          ![m].pc = IF turn[m].kind = "stream" THEN "call" ELSE "ask"]
  /\ spent' = [spent EXCEPT ![m] = IF turn[m].kind = "stream" THEN @ ELSE @ + 1]
  /\ UNCHANGED <<gateway, book, faults>>

(* Mutant: a query's tools start the loop anew.                            *)
ToolsRestarting(m) ==
  /\ turn[m].pc = "tools"
  /\ turn' = IF turn[m].kind = "stream"
             THEN [turn EXCEPT ![m].pc = "call", ![m].round = @ + 1,
                               ![m].usage = turn[m].tokens]
             ELSE [turn EXCEPT ![m].pc = "ask", ![m].round = 1, ![m].tokens = 0]
  /\ UNCHANGED <<gateway, book, spent, faults>>

(* The tools have run.  A stream reports a floor for its usage before the  *)
(* next call; a query goes on inside the same one.                         *)
Tools(m) ==
  /\ turn[m].pc = "tools"
  /\ \/ /\ turn[m].kind = "stream"
        /\ turn' = [turn EXCEPT ![m].pc = "call", ![m].round = @ + 1,
                                ![m].usage = turn[m].tokens]
        /\ UNCHANGED spent
     \/ /\ turn[m].kind = "query"
        /\ turn' = [turn EXCEPT ![m].pc = "ask", ![m].round = @ + 1]
        /\ spent' = [spent EXCEPT ![m] = @ + 1]
  /\ UNCHANGED <<gateway, book, faults>>

(* OpenAI fails or times out, or a tool's query raises: within a gateway   *)
(* call the breaker hears of either.                                       *)
Fails(m) ==
  /\ turn[m].pc \in {"ask", "tools"}
  /\ Goto(m, AfterFailureOf(m))
  /\ IF gate[m] = "in" THEN Leave(m, "failure") ELSE UNCHANGED gateway
  /\ UNCHANGED <<book, spent, faults>>

(* The client disconnects, or the request is cancelled.                    *)
CutOff(m) ==
  /\ turn[m].pc \in {"call", "ask", "tools"}
  /\ Goto(m, AfterFailureOf(m))
  /\ CASE gate[m] = "out" -> UNCHANGED gateway
       [] gate[m] = "queue" -> Abandon(m)
       [] gate[m] = "in" -> Leave(m, "cancelled")
  /\ UNCHANGED <<book, spent, faults>>

-------------------------------------------------------------------------------
(* What is charged: the latest usage, or an estimate if an answer was      *)
(* under way and no usage was reported.                                    *)
Charge(m) == IF turn[m].usage = 0 /\ turn[m].spoke THEN 1 ELSE turn[m].usage

(* budget.record; the assistant's turn gets its time.  A stream saves what *)
(* it has said and nothing if it said nothing.                             *)
Record(m) ==
  /\ turn[m].pc = "record"
  /\ used' = used + Charge(m)
  /\ turn' = [turn EXCEPT ![m].billed = Charge(m),
       ![m].pc = IF turn[m].spoke \/ turn[m].kind = "query" THEN "save" ELSE "done"]
  /\ stamps' = Append(stamps, <<m, "assistant">>)
  /\ UNCHANGED <<gateway, saved, spent, met, days, faults>>

(* Redis fails.  A stream logs it and goes on, a query gives up.           *)
RecordFails(m) ==
  /\ turn[m].pc = "record"
  /\ faults < MaxFaults
  /\ faults' = faults + 1
  /\ Goto(m, IF turn[m].kind = "stream" /\ turn[m].spoke THEN "save" ELSE "done")
  /\ stamps' = Append(stamps, <<m, "assistant">>)
  /\ UNCHANGED <<gateway, used, saved, spent, met, days>>

(* Mutant: the two turns are saved in transactions of their own.           *)
SaveApart(m) ==
  /\ turn[m].pc = "save"
  /\ \E S \in SUBSET Roles : saved' = saved \cup ({m} \X S)
  /\ Goto(m, "done")
  /\ UNCHANGED <<gateway, used, stamps, spent, met, days, faults>>

(* TX2: both turns, or neither.                                            *)
Save(m) ==
  /\ turn[m].pc = "save"
  /\ \/ saved' = saved \cup ({m} \X Roles) /\ UNCHANGED faults
     \/ faults < MaxFaults /\ faults' = faults + 1 /\ UNCHANGED saved
  /\ Goto(m, "done")
  /\ UNCHANGED <<gateway, used, stamps, spent, met, days>>

ClearHistory ==
  /\ saved # {}
  /\ saved' = {}
  /\ UNCHANGED <<gateway, turn, used, stamps, spent, met, days, faults>>

(* A new day, a new key.                                                   *)
Midnight ==
  /\ days < MaxDays
  /\ days' = days + 1
  /\ used' = 0
  /\ UNCHANGED <<gateway, turn, stamps, saved, spent, met, faults>>

Clock == (Refill \/ CoolDown) /\ UNCHANGED <<turn, book, spent, faults>>

Step(m) ==
  \/ Call(m) \/ Connect(m) \/ Speak(m) \/ WantTools(m) \/ Answer(m)
  \/ Tools(m) \/ Fails(m) \/ Record(m) \/ Save(m)

Next ==
  \/ \E m \in Messages : Start(m) \/ Step(m) \/ CutOff(m) \/ RecordFails(m)
  \/ ClearHistory \/ Midnight \/ Clock

Spec == Init /\ [][Next]_vars

(* The event loop goes on with every message, the limiter refills.         *)
FairSpec ==
  Spec /\ WF_vars(Clock) /\ \A m \in Messages : WF_vars(Step(m))

-------------------------------------------------------------------------------
TypeOK ==
  /\ GatewayTypeOK
  /\ turn \in [Messages -> TurnState]
  /\ used \in Nat
  /\ \A i \in 1..Len(stamps) : stamps[i] \in Messages \X Roles
  /\ saved \subseteq Messages \X Roles
  /\ spent \in [Messages -> 0..(MaxRounds + 1)]
  /\ met \in [Messages -> SUBSET Messages]
  /\ days \in 0..MaxDays
  /\ faults \in 0..MaxFaults

(* Check and charge are far apart, so the daily budget can be overrun: by  *)
(* one message's worth, and one more for each message that was under way   *)
(* at the same time, but not by more.                                      *)
OvershootIsBounded ==
  \/ used < Limit
  \/ \E m \in Messages :
       used < Limit + (MaxRounds + 1) * (1 + Cardinality(met[m]))

(* "A mid-stream disconnect still bills the tool work already paid for":   *)
(* wherever a stream failed or was cut off, all AI requests but the last   *)
(* have been charged, unless Redis refused.                                *)
StreamsPayTheirRounds ==
  \A m \in Messages :
    At(m, {"stream"}, "done") /\ faults = 0 => spent[m] <= turn[m].billed + 1

(* The history reads as a conversation: a question, then its answer; turns *)
(* are out of place only for messages that were under way together.        *)
HistoryIsConversation ==
  \A i \in History :
    LET m == stamps[i][1]
        Follows(j, k) == j < k /\ \A n \in History : ~(j < n /\ n < k)
    IN  met[m] = {} =>
          \E j \in History :
            \/ stamps[i] = <<m, "user">> /\ stamps[j] = <<m, "assistant">> /\ Follows(i, j)
            \/ stamps[i] = <<m, "assistant">> /\ stamps[j] = <<m, "user">> /\ Follows(j, i)

(* However often the model asks for tools, and whatever breaks, a message  *)
(* comes to its end.                                                       *)
EveryMessageEnds == \A m \in Messages : m \in UnderWay ~> turn[m].pc = "done"

===============================================================================
