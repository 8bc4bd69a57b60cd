-------------------------------- MODULE ApiEdge --------------------------------
(***************************************************************************)
(* What clients of the API meet: the two middlewares that keep state in    *)
(* Redis, and the stream that follows an insight.  The limiter wraps the   *)
(* rest: what it turns away has no key looked up and no stream opened, and *)
(* every retry is counted.  Beyond that they share no state, so that       *)
(* interleaving them shows nothing: a behaviour takes the steps of one of  *)
(* them, chosen at the start.                                              *)
(***************************************************************************)
EXTENDS IdempotentRequests, RateLimiter, InsightStream

VARIABLE part  \* bound of the model: whose steps are taken

edgeVars == <<part, vars, limiterVars, streamVars>>

EdgeInit ==
  /\ part \in {"limiter", "idempotency", "stream"}
  /\ Init
  /\ LimiterInit
  /\ StreamInit
  /\ part # "limiter" => \A c \in Clients : client[c].call = CHOOSE x \in Calls : TRUE
  /\ part # "stream" => \A w \in Watchers : watch[w].insight = CHOOSE i \in Insights : TRUE

EdgeNext ==
  /\ UNCHANGED part
  /\ \/ part = "limiter" /\ LimiterNext /\ UNCHANGED <<vars, streamVars>>
     \/ part = "idempotency" /\ Next /\ UNCHANGED <<limiterVars, streamVars>>
     \/ part = "stream" /\ StreamNext /\ UNCHANGED <<vars, limiterVars>>

Handled(r) == part = "idempotency" /\ Step(r) /\ UNCHANGED <<part, limiterVars, streamVars>>

(* The event loop goes on with every request it has accepted.              *)
EdgeSpec ==
  EdgeInit /\ [][EdgeNext]_edgeVars /\ \A r \in Requests : WF_edgeVars(Handled(r))

===============================================================================
