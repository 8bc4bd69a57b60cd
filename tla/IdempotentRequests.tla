--------------------------- MODULE IdempotentRequests ---------------------------
(***************************************************************************)
(* The Idempotency-Key middleware of the API: HTTP requests that carry the *)
(* same key in the same session, a response cache and a lock in Redis.     *)
(*                                                                         *)
(* GET of the cache, SET NX of the lock, the handler, SETEX of the         *)
(* response and DEL of the lock are separate steps; requests interleave    *)
(* between any two, Redis may fail at each of them, and the process may    *)
(* die.  The lock's value is the same for everybody, and whoever reaches   *)
(* the `finally` deletes it.                                               *)
(***************************************************************************)
EXTENDS Naturals

CONSTANTS
  Requests,          \* requests with the same session and key
  MaxPolls,          \* _LOCK_MAX_POLLS
  MaxFaults,         \* bound of the model: Redis errors and crashes
  MaxExpiries,       \* bound of the model: times the cached response expires
  HandlerWithinTtl   \* see LockExpires

ASSUME ConstantsAssumption ==
  /\ MaxPolls \in Nat \ {0}
  /\ {MaxFaults, MaxExpiries} \subseteq Nat
  /\ HandlerWithinTtl \in BOOLEAN

VARIABLES
  pc,          \* the call each request is about to make
  polls,       \* polls of the cache so far
  effect,      \* what its execution of the handler did: nothing yet, ok, error
  answer,      \* {q} once answered: the request whose execution it reports
  cache,       \* {q}: the response of q is cached; {}: nothing is
  lock,        \* does the lock key exist?
  overlapped,  \* has a request ever arrived while another was under way?
  faults,      \* faults so far (bound of the model)
  expiries     \* expired responses so far (bound of the model)

vars == <<pc, polls, effect, answer, cache, lock, overlapped, faults, expiries>>

(* "handle" executes under the lock, "bypass" without it.                  *)
Holding == {"handle", "store", "unlock"}
UnderWay == {"check", "lock", "poll", "bypass"} \cup Holding
Pcs == {"away", "done", "dead"} \cup UnderWay

At(r, p) == pc[r] = p
Goto(r, p) == pc' = [pc EXCEPT ![r] = p]
AnswerWith(r, S) ==
  /\ Goto(r, "done")
  /\ answer' = [answer EXCEPT ![r] = S]

Fault ==
  /\ faults < MaxFaults
  /\ faults' = faults + 1

-------------------------------------------------------------------------------
Init ==
  /\ pc = [r \in Requests |-> "away"]
  /\ polls = [r \in Requests |-> 0]
  /\ effect = [r \in Requests |-> "none"]
  /\ answer = [r \in Requests |-> {}]
  /\ cache = {}
  /\ lock = FALSE
  /\ overlapped = FALSE
  /\ faults = 0
  /\ expiries = 0

Arrive(r) ==
  /\ At(r, "away")
  /\ Goto(r, "check")
  /\ overlapped' = (overlapped \/ \E q \in Requests : pc[q] \in UnderWay)
  /\ UNCHANGED <<polls, effect, answer, cache, lock, faults, expiries>>

(* Mutant: the cache is not looked at before the lock is tried.            *)
CheckCacheNever(r) ==
  /\ At(r, "check")
  /\ Goto(r, "lock")
  /\ UNCHANGED <<polls, effect, answer, cache, lock, overlapped, faults, expiries>>

CheckCache(r) ==
  /\ At(r, "check")
  /\ IF cache # {}
     THEN AnswerWith(r, cache)
     ELSE Goto(r, "lock") /\ UNCHANGED answer
  /\ UNCHANGED <<polls, effect, cache, lock, overlapped, faults, expiries>>

(* SET NX EX 30.  Whoever gets the lock does not look at the cache again.  *)
Acquire(r) ==
  /\ At(r, "lock")
  /\ Goto(r, IF lock THEN "poll" ELSE "handle")
  /\ lock' = TRUE
  /\ UNCHANGED <<polls, effect, answer, cache, overlapped, faults, expiries>>

(* Mutant: the poll goes on for as long as the lock is held.               *)
PollForever(r) ==
  /\ At(r, "poll")
  /\ cache # {}
  /\ AnswerWith(r, cache)
  /\ UNCHANGED <<polls, effect, cache, lock, overlapped, faults, expiries>>

(* The poll looks at the cache only: it does not notice that the lock was  *)
(* released by a holder whose handler failed.                              *)
Poll(r) ==
  /\ At(r, "poll")
  /\ polls' = [polls EXCEPT ![r] = @ + 1]
  /\ IF cache # {}
     THEN AnswerWith(r, cache)
     ELSE /\ Goto(r, IF polls[r] + 1 < MaxPolls THEN "poll" ELSE "bypass")
          /\ UNCHANGED answer
  /\ UNCHANGED <<effect, cache, lock, overlapped, faults, expiries>>

(* Mutant: the `finally` that deletes the lock covers this path too.       *)
BypassReleasing(r) ==
  /\ At(r, "bypass")
  /\ \E e \in {"ok", "error"} : effect' = [effect EXCEPT ![r] = e]
  /\ AnswerWith(r, {r})
  /\ lock' = FALSE
  /\ UNCHANGED <<polls, cache, overlapped, faults, expiries>>

(* Polled in vain or without Redis: the handler runs unprotected, and its  *)
(* response is not cached.                                                 *)
Bypass(r) ==
  /\ At(r, "bypass")
  /\ \E e \in {"ok", "error"} : effect' = [effect EXCEPT ![r] = e]
  /\ AnswerWith(r, {r})
  /\ UNCHANGED <<polls, cache, lock, overlapped, faults, expiries>>

(* Mutant: every response is cached.                                       *)
HandleCachingAll(r) ==
  /\ At(r, "handle")
  /\ \E e \in {"ok", "error"} : effect' = [effect EXCEPT ![r] = e]
  /\ Goto(r, "store")
  /\ UNCHANGED <<polls, answer, cache, lock, overlapped, faults, expiries>>

(* A 2xx response is to be cached; a 4xx, a 5xx and an exception are not.  *)
Handle(r) ==
  /\ At(r, "handle")
  /\ \/ effect' = [effect EXCEPT ![r] = "ok"] /\ Goto(r, "store")
     \/ effect' = [effect EXCEPT ![r] = "error"] /\ Goto(r, "unlock")
  /\ UNCHANGED <<polls, answer, cache, lock, overlapped, faults, expiries>>

Store(r) ==
  /\ At(r, "store")
  /\ cache' = {r}
  /\ Goto(r, "unlock")
  /\ UNCHANGED <<polls, effect, answer, lock, overlapped, faults, expiries>>

Unlock(r) ==
  /\ At(r, "unlock")
  /\ lock' = FALSE
  /\ AnswerWith(r, {r})
  /\ UNCHANGED <<polls, effect, cache, overlapped, faults, expiries>>

-------------------------------------------------------------------------------
(* A Redis call raises, before or after the server carried it out.         *)
LookupFails(r) ==
  /\ pc[r] \in {"check", "lock", "poll"}
  /\ Fault
  /\ Goto(r, "bypass")
  /\ lock' \in IF At(r, "lock") THEN {lock, TRUE} ELSE {lock}
  /\ UNCHANGED <<polls, effect, answer, cache, overlapped, expiries>>

StoreFails(r) ==
  /\ At(r, "store")
  /\ Fault
  /\ cache' \in {cache, {r}}
  /\ Goto(r, "unlock")
  /\ UNCHANGED <<polls, effect, answer, lock, overlapped, expiries>>

UnlockFails(r) ==
  /\ At(r, "unlock")
  /\ Fault
  /\ lock' \in {lock, FALSE}
  /\ AnswerWith(r, {r})
  /\ UNCHANGED <<polls, effect, cache, overlapped, expiries>>

(* The API process dies; a handler in progress has committed or has not.   *)
Crash(r) ==
  /\ pc[r] \in UnderWay
  /\ Fault
  /\ Goto(r, "dead")
  /\ \E e \in {"none", "ok"} :
       effect' = IF pc[r] \in {"handle", "bypass"}
                 THEN [effect EXCEPT ![r] = e] ELSE effect
  /\ UNCHANGED <<polls, answer, cache, lock, overlapped, expiries>>

(* The lock key reaches its 30 s.  Under HandlerWithinTtl only the lock of *)
(* a request that died, or failed to delete it, lives that long.           *)
LockExpires ==
  /\ lock
  /\ HandlerWithinTtl => \A r \in Requests : pc[r] \notin Holding
  /\ lock' = FALSE
  /\ UNCHANGED <<pc, polls, effect, answer, cache, overlapped, faults, expiries>>

(* The cached response reaches its 24 h.                                   *)
CacheExpires ==
  /\ cache # {}
  /\ expiries < MaxExpiries
  /\ expiries' = expiries + 1
  /\ cache' = {}
  /\ UNCHANGED <<pc, polls, effect, answer, lock, overlapped, faults>>

Step(r) ==
  \/ CheckCache(r) \/ Acquire(r) \/ Poll(r) \/ Bypass(r)
  \/ Handle(r) \/ Store(r) \/ Unlock(r)

StepFault(r) ==
  LookupFails(r) \/ StoreFails(r) \/ UnlockFails(r) \/ Crash(r)

Next ==
  \/ \E r \in Requests : Arrive(r) \/ Step(r) \/ StepFault(r)
  \/ LockExpires
  \/ CacheExpires

Spec == Init /\ [][Next]_vars

(* The event loop goes on with every request it has accepted.              *)
FairSpec == Spec /\ \A r \in Requests : WF_vars(Step(r))

-------------------------------------------------------------------------------
TypeOK ==
  /\ pc \in [Requests -> Pcs]
  /\ polls \in [Requests -> 0..MaxPolls]
  /\ effect \in [Requests -> {"none", "ok", "error"}]
  /\ answer \in [Requests -> SUBSET Requests]
  /\ cache \in SUBSET Requests
  /\ lock \in BOOLEAN
  /\ overlapped \in BOOLEAN
  /\ faults \in 0..MaxFaults
  /\ expiries \in 0..MaxExpiries

(* The SET NX lock: as long as handlers finish within its TTL, one request *)
(* at a time runs the protected part, although the DEL asks nobody whose   *)
(* lock it is, and whatever calls to Redis were lost.                      *)
OneHolder ==
  \A q, r \in Requests : pc[q] \in Holding /\ pc[r] \in Holding => q = r

(* "Cache only successful responses; 4xx/5xx must not be pinned": whoever  *)
(* is answered with the outcome of another request's execution is told of  *)
(* one that succeeded.                                                     *)
OnlySuccessIsReplayed ==
  \A r \in Requests : \A q \in answer[r] : q # r => effect[q] = "ok"

Calm == ~overlapped /\ faults = 0 /\ expiries = 0

(* A client that sends its retries one after the other has its operation   *)
(* carried out once, unless Redis failed, the process died or the cached   *)
(* response expired in between.                                            *)
RetriesExecuteOnce ==
  Calm => \A q, r \in Requests : effect[q] = "ok" /\ effect[r] = "ok" => q = r

(* Nobody waits for ever for a lock whose holder failed or died.           *)
EveryoneAnswered ==
  \A r \in Requests : pc[r] \in UnderWay ~> pc[r] \in {"done", "dead"}

(* docs: the SET NX lock leaves no race on concurrent duplicate requests.  *)
AtMostOneExecution ==
  faults = 0 /\ expiries = 0 =>
    \A q, r \in Requests : effect[q] = "ok" /\ effect[r] = "ok" => q = r

===============================================================================
