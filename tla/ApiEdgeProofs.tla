------------------------------- MODULE ApiEdgeProofs --------------------------
(***************************************************************************)
(* Theorems about what clients of the API meet: the idempotency            *)
(* middleware, for any numbers of requests, polls, faults and expiries;    *)
(* the rate limiter, for any clients, calls, policies and clocks; and that *)
(* their composition in ApiEdge, with the stream, gives each of them only  *)
(* its own steps.                                                          *)
(***************************************************************************)
EXTENDS ApiEdge, InsightStreamProofs, SequenceTheorems, WellFoundedInduction, TLAPS

-------------------------------------------------------------------------------
(* The idempotency middleware.                                             *)

(* A request has a poll left whenever it is about to make one.             *)
PollsOK ==
  \A r \in Requests :
    /\ pc[r] \in {"away", "check", "lock"} => polls[r] = 0
    /\ pc[r] = "poll" => polls[r] < MaxPolls

(* What is cached, is about to be, or was handed to somebody else has      *)
(* succeeded; a request whose execution is still to come has no effect.    *)
SuccessOK ==
  /\ \A q \in cache : effect[q] = "ok"
  /\ OnlySuccessIsReplayed
  /\ \A r \in Requests :
       /\ pc[r] = "store" => effect[r] = "ok"
       /\ pc[r] \in {"away", "check", "lock", "poll", "handle", "bypass"}
            => effect[r] = "none"

Inv == TypeOK /\ PollsOK /\ SuccessOK

(* The lock key exists for as long as somebody is inside.                  *)
HoldersLock == \A r \in Requests : pc[r] \in Holding => lock

(* Without overlap, faults and expiries one request is under way, the lock *)
(* is nobody's but its own, and what succeeded is cached or about to be,   *)
(* before anybody else can get to the lock.                                *)
CalmOK ==
  Calm =>
    /\ \A q, r \in Requests : pc[q] \in UnderWay /\ pc[r] \in UnderWay => q = r
    /\ lock => \E r \in Requests : pc[r] \in Holding
    /\ \A r \in Requests : pc[r] \notin {"poll", "bypass", "dead"}
    /\ \A q \in Requests : effect[q] = "ok" => q \in cache \/ pc[q] = "store"
    /\ \A r \in Requests : pc[r] \in {"lock", "handle", "store"} => cache = {}
    /\ \A q, r \in cache : q = r

-------------------------------------------------------------------------------
(* Typing and the bookkeeping of polls survive every step.                 *)
LEMMA NextTyped ==
  ASSUME TypeOK, PollsOK, [Next]_vars
  PROVE  TypeOK' /\ PollsOK'
<1> USE ConstantsAssumption DEF TypeOK, PollsOK, Pcs, UnderWay, Holding, At, Goto
<1>1. ASSUME NEW r \in Requests, Arrive(r) PROVE TypeOK' /\ PollsOK'
  BY <1>1 DEF Arrive
<1>2. ASSUME NEW r \in Requests, CheckCache(r) PROVE TypeOK' /\ PollsOK'
  BY <1>2 DEF CheckCache, AnswerWith
<1>3. ASSUME NEW r \in Requests, Acquire(r) PROVE TypeOK' /\ PollsOK'
  BY <1>3 DEF Acquire
<1>4. ASSUME NEW r \in Requests, Poll(r) PROVE TypeOK' /\ PollsOK'
  BY <1>4 DEF Poll, AnswerWith
<1>5. ASSUME NEW r \in Requests, Bypass(r) PROVE TypeOK' /\ PollsOK'
  BY <1>5 DEF Bypass, AnswerWith
<1>6. ASSUME NEW r \in Requests, Handle(r) PROVE TypeOK' /\ PollsOK'
  BY <1>6 DEF Handle
<1>7. ASSUME NEW r \in Requests, Store(r) PROVE TypeOK' /\ PollsOK'
  BY <1>7 DEF Store
<1>8. ASSUME NEW r \in Requests, Unlock(r) PROVE TypeOK' /\ PollsOK'
  BY <1>8 DEF Unlock, AnswerWith
<1>9. ASSUME NEW r \in Requests, LookupFails(r) PROVE TypeOK' /\ PollsOK'
  <2>1. lock' \in BOOLEAN
    <3>1. lock' = lock \/ lock' = TRUE
      BY <1>9, Zenon DEF LookupFails
    <3> QED
      BY <3>1, Zenon
  <2>2. faults' \in 0..MaxFaults
    BY <1>9 DEF LookupFails, Fault
  <2> QED
    BY <1>9, <2>1, <2>2 DEF LookupFails
<1>10. ASSUME NEW r \in Requests, StoreFails(r) PROVE TypeOK' /\ PollsOK'
  BY <1>10 DEF StoreFails, Fault
<1>11. ASSUME NEW r \in Requests, UnlockFails(r) PROVE TypeOK' /\ PollsOK'
  <2>1. lock' \in BOOLEAN
    <3>1. lock' = lock \/ lock' = FALSE
      BY <1>11, Zenon DEF UnlockFails
    <3> QED
      BY <3>1, Zenon
  <2>2. faults' \in 0..MaxFaults
    BY <1>11 DEF UnlockFails, Fault
  <2> QED
    BY <1>11, <2>1, <2>2 DEF UnlockFails, AnswerWith
<1>12. ASSUME NEW r \in Requests, Crash(r) PROVE TypeOK' /\ PollsOK'
  BY <1>12 DEF Crash, Fault
<1>13. CASE LockExpires
  BY <1>13 DEF LockExpires
<1>14. CASE CacheExpires
  BY <1>14 DEF CacheExpires
<1>15. CASE UNCHANGED vars
  BY <1>15 DEF vars
<1> QED
  BY <1>1, <1>2, <1>3, <1>4, <1>5, <1>6, <1>7, <1>8, <1>9, <1>10, <1>11, <1>12,
     <1>13, <1>14, <1>15 DEF Next, Step, StepFault

(* No step caches, or replays, what did not succeed.                       *)
LEMMA NextSuccess ==
  ASSUME TypeOK, SuccessOK, [Next]_vars
  PROVE  SuccessOK'
<1> USE DEF TypeOK, SuccessOK, OnlySuccessIsReplayed, At, Goto
<1>1. ASSUME NEW r \in Requests, Arrive(r) PROVE SuccessOK'
  BY <1>1 DEF Arrive
<1>2. ASSUME NEW r \in Requests, CheckCache(r) PROVE SuccessOK'
  BY <1>2 DEF CheckCache, AnswerWith
<1>3. ASSUME NEW r \in Requests, Acquire(r) PROVE SuccessOK'
  BY <1>3 DEF Acquire
<1>4. ASSUME NEW r \in Requests, Poll(r) PROVE SuccessOK'
  BY <1>4 DEF Poll, AnswerWith
<1>5. ASSUME NEW r \in Requests, Bypass(r) PROVE SuccessOK'
  BY <1>5 DEF Bypass, AnswerWith
<1>6. ASSUME NEW r \in Requests, Handle(r) PROVE SuccessOK'
  BY <1>6 DEF Handle
<1>7. ASSUME NEW r \in Requests, Store(r) PROVE SuccessOK'
  BY <1>7 DEF Store
<1>8. ASSUME NEW r \in Requests, Unlock(r) PROVE SuccessOK'
  BY <1>8 DEF Unlock, AnswerWith
<1>9. ASSUME NEW r \in Requests, LookupFails(r) PROVE SuccessOK'
  BY <1>9 DEF LookupFails
<1>10. ASSUME NEW r \in Requests, StoreFails(r) PROVE SuccessOK'
  BY <1>10 DEF StoreFails
<1>11. ASSUME NEW r \in Requests, UnlockFails(r) PROVE SuccessOK'
  BY <1>11 DEF UnlockFails, AnswerWith
<1>12. ASSUME NEW r \in Requests, Crash(r) PROVE SuccessOK'
  BY <1>12 DEF Crash
<1>13. CASE LockExpires
  BY <1>13 DEF LockExpires
<1>14. CASE CacheExpires
  BY <1>14 DEF CacheExpires
<1>15. CASE UNCHANGED vars
  BY <1>15 DEF vars
<1> QED
  BY <1>1, <1>2, <1>3, <1>4, <1>5, <1>6, <1>7, <1>8, <1>9, <1>10, <1>11, <1>12,
     <1>13, <1>14, <1>15 DEF Next, Step, StepFault

-------------------------------------------------------------------------------
(* Only the holder of the lock gets in, and only by finding it free.       *)
LEMMA NextHolder ==
  ASSUME HandlerWithinTtl, TypeOK, HoldersLock, OneHolder, [Next]_vars
  PROVE  HoldersLock' /\ OneHolder'
<1> USE DEF TypeOK, HoldersLock, OneHolder, Holding, UnderWay, At, Goto
<1>1. ASSUME NEW r \in Requests, Arrive(r) PROVE HoldersLock' /\ OneHolder'
  BY <1>1 DEF Arrive
<1>2. ASSUME NEW r \in Requests, CheckCache(r) PROVE HoldersLock' /\ OneHolder'
  BY <1>2 DEF CheckCache, AnswerWith
<1>3. ASSUME NEW r \in Requests, Acquire(r) PROVE HoldersLock' /\ OneHolder'
  BY <1>3 DEF Acquire
<1>4. ASSUME NEW r \in Requests, Poll(r) PROVE HoldersLock' /\ OneHolder'
  BY <1>4 DEF Poll, AnswerWith
<1>5. ASSUME NEW r \in Requests, Bypass(r) PROVE HoldersLock' /\ OneHolder'
  BY <1>5 DEF Bypass, AnswerWith
<1>6. ASSUME NEW r \in Requests, Handle(r) PROVE HoldersLock' /\ OneHolder'
  BY <1>6 DEF Handle
<1>7. ASSUME NEW r \in Requests, Store(r) PROVE HoldersLock' /\ OneHolder'
  BY <1>7 DEF Store
<1>8. ASSUME NEW r \in Requests, Unlock(r) PROVE HoldersLock' /\ OneHolder'
  BY <1>8 DEF Unlock, AnswerWith
<1>9. ASSUME NEW r \in Requests, LookupFails(r) PROVE HoldersLock' /\ OneHolder'
  <2>1. lock => lock'
    BY <1>9, Zenon DEF LookupFails
  <2> QED
    BY <1>9, <2>1 DEF LookupFails
<1>10. ASSUME NEW r \in Requests, StoreFails(r) PROVE HoldersLock' /\ OneHolder'
  BY <1>10 DEF StoreFails
<1>11. ASSUME NEW r \in Requests, UnlockFails(r) PROVE HoldersLock' /\ OneHolder'
  BY <1>11 DEF UnlockFails, AnswerWith
<1>12. ASSUME NEW r \in Requests, Crash(r) PROVE HoldersLock' /\ OneHolder'
  BY <1>12 DEF Crash
<1>13. CASE LockExpires
  BY <1>13 DEF LockExpires
<1>14. CASE CacheExpires
  BY <1>14 DEF CacheExpires
<1>15. CASE UNCHANGED vars
  BY <1>15 DEF vars
<1> QED
  BY <1>1, <1>2, <1>3, <1>4, <1>5, <1>6, <1>7, <1>8, <1>9, <1>10, <1>11, <1>12,
     <1>13, <1>14, <1>15 DEF Next, Step, StepFault

(* A calm state has a calm past, and the request under way has it to       *)
(* itself.                                                                 *)
LEMMA NextCalm ==
  ASSUME TypeOK, CalmOK, [Next]_vars
  PROVE  CalmOK'
<1> SUFFICES ASSUME Calm' PROVE CalmOK'
  BY DEF CalmOK
<1> USE DEF TypeOK, CalmOK, Calm, Holding, UnderWay, At, Goto
<1>1. ASSUME NEW r \in Requests, Arrive(r) PROVE CalmOK'
  BY <1>1 DEF Arrive
<1>2. ASSUME NEW r \in Requests, CheckCache(r) PROVE CalmOK'
  BY <1>2 DEF CheckCache, AnswerWith
<1>3. ASSUME NEW r \in Requests, Acquire(r) PROVE CalmOK'
  BY <1>3 DEF Acquire
<1>4. ASSUME NEW r \in Requests, Poll(r) PROVE CalmOK'
  BY <1>4 DEF Poll, AnswerWith
<1>5. ASSUME NEW r \in Requests, Bypass(r) PROVE CalmOK'
  BY <1>5 DEF Bypass, AnswerWith
<1>6. ASSUME NEW r \in Requests, Handle(r) PROVE CalmOK'
  BY <1>6 DEF Handle
<1>7. ASSUME NEW r \in Requests, Store(r) PROVE CalmOK'
  BY <1>7 DEF Store
<1>8. ASSUME NEW r \in Requests, Unlock(r) PROVE CalmOK'
  BY <1>8 DEF Unlock, AnswerWith
<1>9. ASSUME NEW r \in Requests, StepFault(r) PROVE FALSE
  <2>1. faults' = faults + 1
    BY <1>9 DEF StepFault, LookupFails, StoreFails, UnlockFails, Crash, Fault
  <2>2. faults \in Nat /\ faults' = 0
    BY ConstantsAssumption
  <2> QED
    BY <2>1, <2>2
<1>10. CASE LockExpires
  BY <1>10 DEF LockExpires
<1>11. CASE CacheExpires
  BY <1>11, ConstantsAssumption DEF CacheExpires
<1>12. CASE UNCHANGED vars
  BY <1>12 DEF vars
<1> QED
  BY <1>1, <1>2, <1>3, <1>4, <1>5, <1>6, <1>7, <1>8, <1>9, <1>10, <1>11, <1>12
     DEF Next, Step

-------------------------------------------------------------------------------
(* The bookkeeping, and that only successes are cached, is invariant.      *)
THEOREM RequestInvariance == Spec => []Inv
<1>1. Init => Inv
  <2>1. Init => TypeOK
    <3>1. Init => lock \in BOOLEAN /\ overlapped \in BOOLEAN
      BY Zenon DEF Init
    <3> QED
      BY <3>1, ConstantsAssumption DEF Init, TypeOK, Pcs, UnderWay
  <2>2. Init => PollsOK
    BY DEF Init, PollsOK
  <2>3. Init => SuccessOK
    BY DEF Init, SuccessOK, OnlySuccessIsReplayed
  <2> QED
    BY <2>1, <2>2, <2>3 DEF Inv
<1>2. Inv /\ [Next]_vars => Inv'
  BY NextTyped, NextSuccess DEF Inv
<1> QED
  BY <1>1, <1>2, PTL DEF Spec

(* Every request, answer and counter of the middleware keeps its type.     *)
THEOREM RequestTypeCorrect == Spec => []TypeOK
BY RequestInvariance, PTL DEF Inv

(* An error is never replayed: whoever is answered with another request's  *)
(* response is told of a success.                                          *)
THEOREM ErrorsNotPinned == Spec => []OnlySuccessIsReplayed
<1>1. Inv => OnlySuccessIsReplayed
  BY DEF Inv, SuccessOK
<1> QED
  BY RequestInvariance, <1>1, PTL

(* With handlers that finish within the lock's TTL, one request at a time  *)
(* runs the protected part.                                                *)
THEOREM LockExcludes == ASSUME HandlerWithinTtl PROVE Spec => []OneHolder
<1>1. Init => HoldersLock /\ OneHolder
  BY DEF Init, HoldersLock, OneHolder, Holding
<1>2. TypeOK /\ HoldersLock /\ OneHolder /\ [Next]_vars => HoldersLock' /\ OneHolder'
  BY NextHolder
<1> QED
  BY <1>1, <1>2, RequestTypeCorrect, PTL DEF Spec

(* A client that retries one request after the other has its operation     *)
(* carried out once, however many retries it sends.                        *)
THEOREM SequentialRetries == Spec => []RetriesExecuteOnce
<1>1. Init => CalmOK
  BY DEF Init, CalmOK, Holding, UnderWay
<1>2. TypeOK /\ CalmOK /\ [Next]_vars => CalmOK'
  BY NextCalm
<1>3. CalmOK => RetriesExecuteOnce
  BY DEF CalmOK, RetriesExecuteOnce, UnderWay, Holding
<1> QED
  BY <1>1, <1>2, <1>3, RequestTypeCorrect, PTL DEF Spec

-------------------------------------------------------------------------------
(* The rate limiter.  GCRA keeps in one number, the tat, the time by which *)
(* everything a bucket let through is paid for.  The invariant says so for *)
(* each stamp, in whatever order they came, and that a bucket that expired *)
(* covered only what is over for any request still on its way.             *)

LimiterTypeOK ==
  /\ clock \in Nat
  /\ DOMAIN bucket \subseteq Keys
  /\ \A k \in DOMAIN bucket : bucket[k] \in [tat : Nat, until : Nat]
  /\ client \in [Clients -> [call : Calls, pc : {"idle", "stamped"}, stamp : Nat]]
  /\ admitted \in [Keys -> Seq(Nat)]
  /\ promise \in [Clients -> [from : Nat, after : Nat \cup {-1}]]

(* The time that m requests take of a bucket's rate.                       *)
Span(k, m) == m * Interval(k.limit)

(* A request's stamp is at most MaxDelay old when it comes to the script.  *)
StampsAreRecent ==
  \A c \in Clients : client[c].pc = "stamped" =>
    client[c].stamp <= clock /\ clock <= client[c].stamp + MaxDelay

(* A bucket's tat covers all it let through; once it is gone, what it      *)
(* covered is over for every request still to come.                        *)
TatCovers ==
  \A k \in Keys :
    /\ k \in DOMAIN bucket =>
         bucket[k].tat + Interval(k.limit) <= bucket[k].until
    /\ \A i \in 1..Len(admitted[k]) :
         admitted[k][i] + Span(k, Len(admitted[k]) - i + 1)
           <= IF k \in DOMAIN bucket THEN bucket[k].tat ELSE clock - MaxDelay

(* Nobody else was let through since: the bucket is as it was.             *)
PromisesStand ==
  \A c \in Clients :
    /\ promise[c].after <= Len(admitted[Key(c)])
    /\ /\ promise[c].after = Len(admitted[Key(c)])
       /\ Key(c) \in DOMAIN bucket
       => bucket[Key(c)].tat + Interval(Key(c).limit) - Capacity(Key(c).limit)
            <= promise[c].from

LimiterInv ==
  LimiterTypeOK /\ StampsAreRecent /\ TatCovers /\ PromisesStand /\ RateIsKept

(* A set of numbers that is not empty has a least one.                     *)
LEMMA LeastOf ==
  ASSUME NEW S \in SUBSET Nat, S # {}
  PROVE  \E n \in S : \A m \in S : n <= m
<1> DEFINE R == {p \in Nat \X Nat : p[1] < p[2]}
<1>1. R = OpToRel(<, Nat)
  BY DEF OpToRel
<1>2. IsWellFoundedOn(R, Nat)
  BY <1>1, NatLessThanWellFounded
<1>3. \A x, y \in Nat : y < x => <<y, x>> \in R
  OBVIOUS
<1> HIDE DEF R
<1>4. PICK x \in S : \A y \in S : ~ (<<y, x>> \in R)
  <2>1. \E x \in S : \A y \in S : ~ (<<y, x>> \in R)
    BY <1>2, WFMin
  <2> QED
    BY <2>1
<1>5. \A y \in S : ~(y < x)
  BY <1>3, <1>4
<1>6. \A y \in S : x <= y
  BY <1>5
<1> QED
  BY <1>6

(* resolve_policy always returns a limit of the table or the default.      *)
LEMMA PolicyIsALimit ==
  ASSUME NEW call
  PROVE  ResolvePolicy(call) \in Limits
<1> DEFINE matching == {i \in DOMAIN Policies : Matches(Policies[i], call)}
<1>1. CASE matching = {}
  BY <1>1 DEF ResolvePolicy, Limits
<1>2. CASE matching # {}
  <2>1. matching \subseteq Nat
    BY LimiterAssumption
  <2>2. \E i \in matching : \A k \in matching : i <= k
    <3> HIDE DEF matching
    <3> QED
      BY <1>2, <2>1, LeastOf
  <2>3. (CHOOSE i \in matching : \A k \in matching : i <= k) \in matching
    <3> HIDE DEF matching
    <3> QED
      BY <2>2
  <2> DEFINE first == CHOOSE i \in matching : \A k \in matching : i <= k
  <2>4. first \in DOMAIN Policies
    BY <2>3
  <2>5. ResolvePolicy(call) = Policies[first].limit
    BY <1>2 DEF ResolvePolicy
  <2> HIDE DEF first
  <2> QED
    BY <2>4, <2>5 DEF Limits
<1> QED
  BY <1>1, <1>2

(* Rounding up.                                                            *)
LEMMA Division ==
  ASSUME NEW x \in Nat, NEW s \in Nat \ {0}
  PROVE  /\ x \div s \in Nat
         /\ s * ((x + s - 1) \div s) >= x
OBVIOUS

(* A product with a positive number is no smaller.                         *)
LEMMA AtLeastOnce ==
  ASSUME NEW x \in Nat, NEW n \in Nat \ {0}
  PROVE  n * x \in Nat /\ x <= n * x
OBVIOUS

(* Numbers of a limit: an interval is positive and fits its burst.         *)
LEMMA LimitFacts ==
  ASSUME NEW l \in Limits
  PROVE  /\ Interval(l) \in Nat \ {0}
         /\ MaxDelay <= Interval(l)
         /\ Capacity(l) \in Nat
         /\ Interval(l) <= Capacity(l)
<1>1. /\ l.rate \in Nat /\ l.burst \in Nat \ {0}
      /\ Interval(l) > 0 /\ MaxDelay <= Interval(l)
      /\ Minute \in Nat
  BY LimiterAssumption
<1>2. Interval(l) \in Nat
  <2> DEFINE d == IF l.rate > 1 THEN l.rate ELSE 1
  <2>1. d \in Nat \ {0}
    BY <1>1
  <2> HIDE DEF d
  <2>2. Minute \div d \in Nat
    BY <1>1, <2>1, Division
  <2> QED
    BY <2>2 DEF Interval, d
<1>3. Capacity(l) \in Nat /\ Interval(l) <= Capacity(l)
  BY <1>1, <1>2, AtLeastOnce DEF Capacity
<1> QED
  BY <1>1, <1>2, <1>3

(* The same of the limit a key is counted against, by its marker.          *)
LEMMA KeyFacts ==
  /\ \A call \in Calls : KeyFor(call) \in Keys
  /\ \A k \in Keys : /\ Interval(k.limit) \in Nat \ {0}
                     /\ MaxDelay <= Interval(k.limit)
                     /\ Capacity(k.limit) \in Nat
                     /\ Interval(k.limit) <= Capacity(k.limit)
<1>1. \A call \in Calls : KeyFor(call) \in Keys
  BY DEF Keys
<1>2. ASSUME NEW k \in Keys
      PROVE  /\ Interval(k.limit) \in Nat \ {0}
             /\ MaxDelay <= Interval(k.limit)
             /\ Capacity(k.limit) \in Nat
             /\ Interval(k.limit) <= Capacity(k.limit)
  <2>1. PICK call \in Calls : k = KeyFor(call)
    BY DEF Keys
  <2> DEFINE l == ResolvePolicy(call)
  <2>2. l \in Limits
    BY PolicyIsALimit
  <2>3. k.limit = Marker(l)
    BY <2>1 DEF KeyFor
  <2> HIDE DEF l
  <2>4. Interval(k.limit) = Interval(l) /\ Capacity(k.limit) = Capacity(l)
    BY <2>3 DEF Interval, Capacity, Marker
  <2> QED
    BY <2>2, <2>4, LimitFacts
<1> QED
  BY <1>1, <1>2

(* Time taken by one request more.                                         *)
LEMMA SpanFacts ==
  ASSUME NEW k \in Keys, NEW m \in Nat
  PROVE  /\ Span(k, m) \in Nat
         /\ Span(k, m + 1) = Span(k, m) + Interval(k.limit)
         /\ Span(k, 1) = Interval(k.limit)
<1>1. Interval(k.limit) \in Nat
  BY KeyFacts
<1> QED
  BY <1>1 DEF Span

(* A request is let through: its share is taken and its stamp recorded.    *)
LetThrough(c) ==
  /\ Admits(Key(c), client[c].stamp)
  /\ Take(Key(c), client[c].stamp)
  /\ admitted' = [admitted EXCEPT ![Key(c)] = Append(@, client[c].stamp)]

(* A request that is let through finds its share free of everything before *)
(* it and moves the tat past itself.                                       *)
LEMMA TakeKeeps ==
  ASSUME LimiterInv, NEW c \in Clients, client[c].pc = "stamped",
         LetThrough(c), Answered(c), clock' = clock,
         promise' = [promise EXCEPT ![c] = NoPromise]
  PROVE  LimiterInv'
<1> DEFINE k == Key(c)
           now == client[c].stamp
           T == Interval(k.limit)
           C == Capacity(k.limit)
           n == Len(admitted[k])
           t == Tat(k, now)
<1>1. /\ k \in Keys /\ now \in Nat /\ now <= clock /\ clock <= now + MaxDelay
      /\ clock \in Nat /\ MaxDelay \in Nat
      /\ T \in Nat \ {0} /\ MaxDelay <= T /\ C \in Nat /\ T <= C
      /\ admitted[k] \in Seq(Nat) /\ n \in Nat
  <2>1. k \in Keys
    BY KeyFacts DEF LimiterInv, LimiterTypeOK, Key
  <2> HIDE DEF k
  <2> QED
    BY <2>1, KeyFacts, LimiterAssumption DEF LimiterInv, LimiterTypeOK, StampsAreRecent
<1>2. /\ t \in Nat /\ now <= t
      /\ k \in DOMAIN bucket => bucket[k].tat <= t
      /\ t + T - C <= now
  <2> HIDE DEF k, now
  <2>1. t \in Nat /\ now <= t /\ (k \in DOMAIN bucket => bucket[k].tat <= t)
    BY <1>1 DEF Tat, LimiterInv, LimiterTypeOK
  <2>2. t + T - C <= now
    BY <1>1, <2>1 DEF LetThrough, Admits, AllowAt, k, now
  <2> QED
    BY <2>1, <2>2
<1>3. /\ DOMAIN bucket' = DOMAIN bucket \cup {k}
      /\ bucket'[k] = [tat |-> t + T, until |-> clock + (C + T)]
      /\ \A x \in DOMAIN bucket \ {k} : bucket'[x] = bucket[x]
  BY DEF LetThrough, Take, Expiry
<1>4. /\ admitted' \in [Keys -> Seq(Nat)]
      /\ admitted'[k] = Append(admitted[k], now)
      /\ Len(admitted'[k]) = n + 1
      /\ admitted'[k][n + 1] = now
      /\ \A i \in 1..n : admitted'[k][i] = admitted[k][i]
      /\ \A x \in Keys \ {k} : admitted'[x] = admitted[x]
  <2>1. /\ admitted' \in [Keys -> Seq(Nat)]
        /\ admitted'[k] = Append(admitted[k], now)
        /\ \A x \in Keys \ {k} : admitted'[x] = admitted[x]
    <3> HIDE DEF k, now
    <3> QED
      BY <1>1 DEF LetThrough, LimiterInv, LimiterTypeOK, k, now
  <2> HIDE DEF k, now
  <2> QED
    BY <1>1, <2>1
<1>5. client' \in [Clients -> [call : Calls, pc : {"idle", "stamped"}, stamp : Nat]]
      /\ client'[c].pc = "idle"
      /\ (\A d \in Clients : client'[d].call = client[d].call)
      /\ (\A d \in Clients \ {c} : client'[d] = client[d])
  BY DEF Answered, LimiterInv, LimiterTypeOK
<1>6. \A d \in Clients : Key(d)' = Key(d)
  BY <1>5 DEF Key
<1>7. LimiterTypeOK'
  <2>1. bucket'[k] \in [tat : Nat, until : Nat]
    <3> HIDE DEF k, now, T, C, t
    <3> QED
      BY <1>1, <1>2, <1>3
  <2>2. promise' \in [Clients -> [from : Nat, after : Nat \cup {-1}]]
    BY DEF LimiterInv, LimiterTypeOK, NoPromise
  <2> HIDE DEF k, now, T, C, t, n
  <2> QED
    BY <1>1, <1>3, <1>4, <1>5, <2>1, <2>2 DEF LimiterInv, LimiterTypeOK
<1>8. StampsAreRecent'
  BY <1>5 DEF StampsAreRecent, LimiterInv
<1>9. ASSUME NEW i \in 1..n
      PROVE  /\ admitted[k][i] \in Nat /\ n - i \in Nat
             /\ Span(k, n - i + 1) \in Nat
             /\ Span(k, (n + 1) - i + 1) = Span(k, n - i + 1) + T
             /\ admitted[k][i] + Span(k, n - i + 1) <= t
             /\ ~(k \in DOMAIN bucket) => admitted[k][i] + Span(k, n - i + 1) <= now
  <2>1. admitted[k][i] \in Nat /\ n - i \in Nat
    <3>1. PICK s : s = admitted[k]
      OBVIOUS
    <3>2. s \in Seq(Nat) /\ i \in 1..Len(s)
      BY <1>1, <3>1
    <3>3. s[i] \in Nat
      BY <3>2
    <3> HIDE DEF k, n
    <3>4. n - i \in Nat
      BY <1>1
    <3> QED
      BY <3>1, <3>3, <3>4
  <2> DEFINE m == n - i + 1
  <2>2. m \in Nat /\ (n + 1) - i + 1 = m + 1 /\ n - i + 1 = m
    <3> HIDE DEF k
    <3> QED
      BY <1>1, <2>1
  <2>3. Span(k, m) \in Nat /\ Span(k, m + 1) = Span(k, m) + T
    <3> HIDE DEF k, m
    <3> QED
      BY <1>1, <2>2, SpanFacts
  <2>4. /\ k \in DOMAIN bucket => admitted[k][i] + Span(k, m) <= bucket[k].tat
        /\ k \notin DOMAIN bucket => admitted[k][i] + Span(k, m) <= clock - MaxDelay
    BY <1>1 DEF LimiterInv, TatCovers
  <2>5. k \in DOMAIN bucket => bucket[k].tat \in Nat
    BY DEF LimiterInv, LimiterTypeOK
  <2> DEFINE a == admitted[k][i]
             s == Span(k, m)
  <2>6. a \in Nat /\ s \in Nat /\ a + s <= t
    <3>1. a \in Nat /\ s \in Nat
      BY <2>1, <2>3
    <3>2. CASE k \in DOMAIN bucket
      <4>1. a + s <= bucket[k].tat /\ bucket[k].tat <= t /\ bucket[k].tat \in Nat
        BY <1>2, <2>4, <2>5, <3>2
      <4> HIDE DEF a, s, k, t
      <4> QED
        BY <1>2, <3>1, <4>1
    <3>3. CASE k \notin DOMAIN bucket
      <4>1. a + s <= clock - MaxDelay
        BY <2>4, <3>3
      <4> HIDE DEF a, s, k, t, now
      <4> QED
        BY <1>1, <1>2, <3>1, <4>1
    <3> QED
      BY <3>1, <3>2, <3>3
  <2>7. k \notin DOMAIN bucket => a + s <= now
    <3> SUFFICES ASSUME k \notin DOMAIN bucket PROVE a + s <= now
      OBVIOUS
    <3>1. a + s <= clock - MaxDelay
      BY <2>4
    <3> HIDE DEF a, s, k, now
    <3> QED
      BY <1>1, <2>6, <3>1
  <2> QED
    BY <2>1, <2>2, <2>3, <2>6, <2>7
<1>10. TatCovers'
  <2> SUFFICES ASSUME NEW x \in Keys
               PROVE  /\ x \in DOMAIN bucket' =>
                           bucket'[x].tat + Interval(x.limit) <= bucket'[x].until
                      /\ \A i \in 1..Len(admitted'[x]) :
                           admitted'[x][i] + Span(x, Len(admitted'[x]) - i + 1)
                             <= IF x \in DOMAIN bucket' THEN bucket'[x].tat
                                ELSE clock - MaxDelay
    BY DEF TatCovers, Span
  <2>1. CASE x # k
    <3> HIDE DEF k
    <3> QED
      BY <1>3, <1>4, <2>1 DEF LimiterInv, TatCovers
  <2>2. CASE x = k
    <3>1. bucket'[k].tat + T <= bucket'[k].until
      <4> HIDE DEF k, now, T, C, t
      <4> QED
        BY <1>1, <1>2, <1>3
    <3>2. ASSUME NEW i \in 1..(n + 1)
          PROVE  admitted'[k][i] + Span(k, (n + 1) - i + 1) <= t + T
      <4>1. CASE i = n + 1
        <5>1. Span(k, 1) = T /\ (n + 1) - i + 1 = 1
          BY <1>1, <4>1, SpanFacts
        <5>2. /\ admitted'[k][i] = now
              /\ Span(k, (n + 1) - i + 1) = T
          BY <1>4, <4>1, <5>1
        <5> HIDE DEF k, now, T, C, t, n
        <5> QED
          BY <1>1, <1>2, <5>2
      <4>2. CASE i # n + 1
        <5>1. i \in 1..n
          <6> HIDE DEF n
          <6> QED
            BY <1>1, <4>2
        <5> DEFINE a == admitted[k][i]
                   s == Span(k, n - i + 1)
        <5>2. /\ admitted'[k][i] = a /\ a \in Nat /\ s \in Nat /\ a + s <= t
              /\ Span(k, (n + 1) - i + 1) = s + T
          BY <1>4, <1>9, <5>1
        <5> HIDE DEF k, now, T, C, t, n, s, a
        <5> QED
          BY <1>1, <1>2, <5>2
      <4> QED
        BY <4>1, <4>2
    <3> HIDE DEF k, now, C, t, n
    <3> QED
      BY <1>3, <1>4, <2>2, <3>1, <3>2
  <2> QED
    BY <2>1, <2>2
<1>11. PromisesStand'
  <2> SUFFICES ASSUME NEW d \in Clients
               PROVE  /\ promise'[d].after <= Len(admitted'[Key(d)])
                      /\ /\ promise'[d].after = Len(admitted'[Key(d)])
                         /\ Key(d) \in DOMAIN bucket'
                         => bucket'[Key(d)].tat + Interval(Key(d).limit)
                              - Capacity(Key(d).limit) <= promise'[d].from
    BY <1>6 DEF PromisesStand
  <2> DEFINE q == Key(d)
  <2>1. q \in Keys /\ Len(admitted[q]) \in Nat /\ Len(admitted'[q]) \in Nat
        /\ Len(admitted[q]) <= Len(admitted'[q])
    <3>1. q \in Keys
      BY KeyFacts DEF LimiterInv, LimiterTypeOK, Key
    <3>2. admitted[q] \in Seq(Nat) /\ admitted'[q] \in Seq(Nat)
      <4> HIDE DEF q, k
      <4> QED
        BY <1>4, <3>1 DEF LimiterInv, LimiterTypeOK
    <3>3. q = k \/ admitted'[q] = admitted[q]
      <4> HIDE DEF q, k
      <4> QED
        BY <1>4, <3>1
    <3>4. q = k => Len(admitted[q]) = n /\ Len(admitted'[q]) = n + 1
      BY <1>4
    <3> HIDE DEF q, k, n
    <3> QED
      BY <1>1, <3>1, <3>2, <3>3, <3>4
  <2>2. CASE d = c
    <3>1. promise'[d].after = -1
      BY <2>2 DEF LimiterInv, LimiterTypeOK, NoPromise
    <3> HIDE DEF q
    <3> QED
      BY <2>1, <3>1
  <2>3. CASE d # c
    <3>1. promise'[d] = promise[d]
          /\ promise[d].after \in Int /\ promise[d].after <= Len(admitted[q])
      BY <2>3 DEF LimiterInv, LimiterTypeOK, PromisesStand
    <3>2. CASE q = k
      <4>1. Len(admitted[q]) = n /\ Len(admitted'[q]) = n + 1
        BY <1>4, <3>2
      <4>2. promise'[d].after < Len(admitted'[q])
        <5>1. promise'[d].after <= n
          BY <3>1, <4>1
        <5>2. promise'[d].after \in Int
          BY <3>1
        <5> HIDE DEF q, k, now, n
        <5> QED
          BY <1>1, <4>1, <5>1, <5>2
      <4>3. promise'[d].after \in Int /\ Len(admitted'[q]) \in Nat
        BY <2>1, <3>1
      <4>4. promise'[d].after <= Len(admitted'[q]) /\ promise'[d].after # Len(admitted'[q])
        <5> HIDE DEF q
        <5> QED
          BY <4>2, <4>3
      <4> QED
        BY <4>4
    <3>3. CASE q # k
      <4>1. admitted'[q] = admitted[q]
            /\ (q \in DOMAIN bucket' => q \in DOMAIN bucket /\ bucket'[q] = bucket[q])
        <5> HIDE DEF q, k
        <5> QED
          BY <1>3, <1>4, <2>1, <3>3
      <4>2. promise[d].after = Len(admitted[q]) /\ q \in DOMAIN bucket
            => bucket[q].tat + Interval(q.limit) - Capacity(q.limit) <= promise[d].from
        BY DEF LimiterInv, PromisesStand
      <4>3. Len(admitted'[q]) = Len(admitted[q])
        BY <4>1
      <4>4. promise'[d].after <= Len(admitted'[q])
        BY <3>1, <4>3
      <4>5. promise'[d].after = Len(admitted'[q]) /\ q \in DOMAIN bucket'
            => bucket'[q].tat + Interval(q.limit) - Capacity(q.limit) <= promise'[d].from
        BY <3>1, <4>1, <4>2, <4>3
      <4> QED
        BY <4>4, <4>5
    <3> QED
      BY <3>2, <3>3
  <2> QED
    BY <2>2, <2>3
<1>12. RateIsKept'
  <2> SUFFICES ASSUME NEW x \in Keys, NEW j \in DOMAIN admitted'[x], NEW i \in 1..j
               PROVE  Span(x, j - i + 1)
                        <= admitted'[x][j] - admitted'[x][i] + Capacity(x.limit)
    BY DEF RateIsKept, Span
  <2>1. CASE x # k
    <3>1. admitted'[x] = admitted[x]
      <4> HIDE DEF k
      <4> QED
        BY <1>4, <2>1
    <3> QED
      BY <3>1 DEF LimiterInv, RateIsKept, Span
  <2>2. CASE x = k
    <3>1. j \in 1..(n + 1)
      <4> HIDE DEF k, now, n
      <4> QED
        BY <1>1, <1>4, <2>2
    <3>2. CASE j # n + 1
      <4>1. j \in 1..n /\ i \in 1..n /\ j \in DOMAIN admitted[k]
        <5>1. DOMAIN admitted[k] = 1..n
          <6>1. PICK s : s = admitted[k]
            OBVIOUS
          <6>2. DOMAIN s = 1..Len(s)
            BY <1>1, <6>1
          <6> QED
            BY <6>1, <6>2
        <5> HIDE DEF k, n, now
        <5>2. j \in 1..n /\ i \in 1..n
          BY <1>1, <3>1, <3>2
        <5> QED
          BY <5>1, <5>2
      <4>2. admitted'[k][j] = admitted[k][j] /\ admitted'[k][i] = admitted[k][i]
        BY <1>4, <4>1
      <4>3. Span(k, j - i + 1) <= admitted[k][j] - admitted[k][i] + Capacity(k.limit)
        <5>1. k \in Keys
          BY <1>1
        <5> HIDE DEF k
        <5>2. (j - i + 1) * Interval(k.limit)
                <= admitted[k][j] - admitted[k][i] + Capacity(k.limit)
          <6>1. i \in 1..j
            OBVIOUS
          <6> QED
            BY <4>1, <5>1, <6>1 DEF LimiterInv, RateIsKept
        <5> QED
          BY <5>2 DEF Span
      <4> QED
        BY <2>2, <4>2, <4>3
    <3>3. CASE j = n + 1 /\ i = n + 1
      <4>1. Span(k, 1) = T /\ j - i + 1 = 1
        <5> HIDE DEF k
        <5>1. j - i + 1 = 1
          BY <1>1, <3>3
        <5> QED
          BY <1>1, <5>1, SpanFacts
      <4>2. admitted'[x][j] = now /\ admitted'[x][i] = now
            /\ Span(x, j - i + 1) = T /\ Capacity(x.limit) = C
        BY <1>4, <2>2, <3>3, <4>1
      <4> HIDE DEF k, now, T, C, n
      <4> QED
        BY <1>1, <4>2
    <3>4. CASE j = n + 1 /\ i # n + 1
      <4>1. i \in 1..n
        <5> HIDE DEF k
        <5> QED
          BY <1>1, <3>4
      <4> DEFINE a == admitted[k][i]
      <4>2. Span(k, j - i + 1) <= now - a + C
        <5> DEFINE s == Span(k, n - i + 1)
        <5>1. Span(k, j - i + 1) = s + T /\ s \in Nat /\ a \in Nat /\ a + s <= t
          BY <1>9, <3>4, <4>1
        <5> HIDE DEF k, now, T, C, t, n, s, a
        <5> QED
          BY <1>1, <1>2, <5>1
      <4>3. admitted'[k][j] = now /\ admitted'[k][i] = admitted[k][i]
        BY <1>4, <3>4, <4>1
      <4> QED
        BY <2>2, <4>2, <4>3
    <3> QED
      BY <3>2, <3>3, <3>4
  <2> QED
    BY <2>1, <2>2
<1> QED
  BY <1>7, <1>8, <1>10, <1>11, <1>12 DEF LimiterInv

(* At the start no bucket has let anything through.                        *)
LEMMA InitLimits ==
  ASSUME LimiterInit
  PROVE  LimiterInv
<1>1. LimiterTypeOK
  BY DEF LimiterInit, LimiterTypeOK, NoPromise
<1>2. StampsAreRecent
  BY DEF LimiterInit, StampsAreRecent
<1>3. \A k \in Keys : Len(admitted[k]) = 0 /\ DOMAIN admitted[k] = {}
  BY DEF LimiterInit
<1>4. TatCovers
  <2>1. DOMAIN bucket = {}
    BY DEF LimiterInit
  <2> QED
    BY <1>3, <2>1 DEF TatCovers
<1>5. PromisesStand
  <2>1. ASSUME NEW c \in Clients
        PROVE  promise[c].after = -1 /\ Key(c) \in Keys
    BY <1>1, KeyFacts DEF LimiterInit, LimiterTypeOK, NoPromise, Key
  <2> QED
    BY <1>3, <2>1 DEF PromisesStand
<1>6. RateIsKept
  BY <1>3 DEF RateIsKept
<1> QED
  BY <1>1, <1>2, <1>4, <1>5, <1>6 DEF LimiterInv

(* A bucket that expires with the clock covered nothing that a request     *)
(* still on its way could count against: its tat is an interval old, and   *)
(* no stamp is older than MaxDelay.                                        *)
LEMMA TickKeeps ==
  ASSUME LimiterInv, ClockTicks
  PROVE  LimiterInv'
<1>1. /\ clock \in Nat /\ clock' = clock + 1 /\ MaxDelay \in Nat
      /\ client' = client /\ admitted' = admitted /\ promise' = promise
  BY LimiterAssumption DEF ClockTicks, LimiterInv, LimiterTypeOK
<1>2. /\ DOMAIN bucket' \subseteq DOMAIN bucket
      /\ \A k \in DOMAIN bucket' : bucket'[k] = bucket[k]
      /\ \A k \in DOMAIN bucket \ DOMAIN bucket' : ~(bucket[k].until > clock')
  BY DEF ClockTicks
<1>3. LimiterTypeOK'
  BY <1>1, <1>2 DEF LimiterInv, LimiterTypeOK
<1>4. StampsAreRecent'
  <2> SUFFICES ASSUME NEW c \in Clients, client[c].pc = "stamped"
               PROVE  client[c].stamp <= clock + 1 /\ clock + 1 <= client[c].stamp + MaxDelay
    BY <1>1 DEF StampsAreRecent
  <2>1. client[c].stamp \in Nat /\ client[c].stamp <= clock
        /\ clock < client[c].stamp + MaxDelay
    BY DEF ClockTicks, LimiterInv, LimiterTypeOK, StampsAreRecent
  <2> QED
    BY <1>1, <2>1
<1>5. TatCovers'
  <2> SUFFICES ASSUME NEW k \in Keys
               PROVE  /\ k \in DOMAIN bucket' =>
                           bucket'[k].tat + Interval(k.limit) <= bucket'[k].until
                      /\ \A i \in 1..Len(admitted[k]) :
                           admitted[k][i] + Span(k, Len(admitted[k]) - i + 1)
                             <= IF k \in DOMAIN bucket' THEN bucket'[k].tat
                                ELSE clock + 1 - MaxDelay
    BY <1>1 DEF TatCovers, Span
  <2>1. k \in DOMAIN bucket => bucket[k].tat + Interval(k.limit) <= bucket[k].until
    BY DEF LimiterInv, TatCovers
  <2>2. ASSUME NEW i \in 1..Len(admitted[k]), k \notin DOMAIN bucket'
        PROVE  admitted[k][i] + Span(k, Len(admitted[k]) - i + 1) <= clock + 1 - MaxDelay
    <3> DEFINE a == admitted[k][i]
               s == Span(k, Len(admitted[k]) - i + 1)
               T == Interval(k.limit)
    <3>1. a \in Nat /\ s \in Nat /\ T \in Nat \ {0} /\ MaxDelay <= T
      <4>1. admitted[k] \in Seq(Nat) /\ Len(admitted[k]) \in Nat
        BY DEF LimiterInv, LimiterTypeOK
      <4>2. Len(admitted[k]) - i + 1 \in Nat
        BY <4>1
      <4>3. a \in Nat
        BY <4>1
      <4>4. s \in Nat
        BY <4>2, SpanFacts
      <4> QED
        BY <4>3, <4>4, KeyFacts
    <3>2. CASE k \notin DOMAIN bucket
      <4>1. a + s <= clock - MaxDelay
        BY <3>2 DEF LimiterInv, TatCovers
      <4> HIDE DEF a, s
      <4>2. a + s <= clock + 1 - MaxDelay
        BY <1>1, <3>1, <4>1
      <4> QED
        BY <4>2 DEF a, s
    <3>3. CASE k \in DOMAIN bucket
      <4> DEFINE tat == bucket[k].tat
                 until == bucket[k].until
      <4>1. a + s <= tat /\ tat + T <= until
        BY <2>1, <3>3 DEF LimiterInv, TatCovers
      <4>2. tat \in Nat /\ until \in Nat
        BY <3>3 DEF LimiterInv, LimiterTypeOK
      <4>3. ~(until > clock')
        BY <1>2, <2>2, <3>3
      <4> HIDE DEF a, s, T, tat, until
      <4>4. a + s <= clock + 1 - MaxDelay
        BY <1>1, <3>1, <4>1, <4>2, <4>3
      <4> QED
        BY <4>4 DEF a, s
    <3> QED
      BY <3>2, <3>3
  <2>3. ASSUME NEW i \in 1..Len(admitted[k]), k \in DOMAIN bucket'
        PROVE  admitted[k][i] + Span(k, Len(admitted[k]) - i + 1) <= bucket'[k].tat
    BY <1>2, <2>3 DEF LimiterInv, TatCovers
  <2> QED
    BY <1>2, <2>1, <2>2, <2>3
<1>6. PromisesStand'
  <2> SUFFICES ASSUME NEW c \in Clients
               PROVE  /\ promise[c].after <= Len(admitted[Key(c)])
                      /\ /\ promise[c].after = Len(admitted[Key(c)])
                         /\ Key(c) \in DOMAIN bucket'
                         => bucket'[Key(c)].tat + Interval(Key(c).limit)
                              - Capacity(Key(c).limit) <= promise[c].from
    BY <1>1 DEF PromisesStand, Key
  <2> QED
    BY <1>2 DEF LimiterInv, PromisesStand
<1>7. RateIsKept'
  BY <1>1 DEF LimiterInv, RateIsKept
<1> QED
  BY <1>3, <1>4, <1>5, <1>6, <1>7 DEF LimiterInv

(* Reading the clock disturbs no bucket.                                   *)
LEMMA StampKeeps ==
  ASSUME LimiterInv, NEW c \in Clients, Stamp(c)
  PROVE  LimiterInv'
<1>1. /\ clock \in Nat /\ MaxDelay \in Nat
      /\ clock' = clock /\ bucket' = bucket /\ admitted' = admitted /\ promise' = promise
      /\ client' \in [Clients -> [call : Calls, pc : {"idle", "stamped"}, stamp : Nat]]
      /\ \A d \in Clients : client'[d].call = client[d].call
      /\ client'[c].stamp = clock
      /\ \A d \in Clients \ {c} : client'[d] = client[d]
  BY LimiterAssumption DEF Stamp, LimiterInv, LimiterTypeOK
<1>2. LimiterTypeOK'
  BY <1>1 DEF LimiterInv, LimiterTypeOK
<1>3. StampsAreRecent'
  <2>1. clock <= clock + MaxDelay
    BY <1>1
  <2> QED
    BY <1>1, <2>1 DEF LimiterInv, StampsAreRecent
<1>4. TatCovers'
  BY <1>1 DEF LimiterInv, TatCovers, Span
<1>5. PromisesStand'
  <2>1. \A d \in Clients : Key(d)' = Key(d)
    BY <1>1 DEF Key
  <2> QED
    BY <1>1, <2>1 DEF LimiterInv, PromisesStand
<1>6. RateIsKept'
  BY <1>1 DEF LimiterInv, RateIsKept
<1> QED
  BY <1>2, <1>3, <1>4, <1>5, <1>6 DEF LimiterInv

(* An answer without a share taken leaves the buckets alone; its promise   *)
(* must fit the bucket it was read from.                                   *)
LEMMA AnswerKeeps ==
  ASSUME LimiterInv, NEW c \in Clients, Answered(c),
         UNCHANGED <<clock, bucket, admitted>>,
         promise' \in [Clients -> [from : Nat, after : Nat \cup {-1}]],
         \A d \in Clients \ {c} : promise'[d] = promise[d],
         promise'[c].after <= Len(admitted[Key(c)]),
         promise'[c].after = Len(admitted[Key(c)]) /\ Key(c) \in DOMAIN bucket
           => bucket[Key(c)].tat + Interval(Key(c).limit) - Capacity(Key(c).limit)
                <= promise'[c].from
  PROVE  LimiterInv'
<1>1. /\ clock' = clock /\ bucket' = bucket /\ admitted' = admitted
      /\ client' \in [Clients -> [call : Calls, pc : {"idle", "stamped"}, stamp : Nat]]
      /\ \A d \in Clients : client'[d].call = client[d].call
      /\ client'[c].pc = "idle"
      /\ \A d \in Clients \ {c} : client'[d] = client[d]
  <2>1. client \in [Clients -> [call : Calls, pc : {"idle", "stamped"}, stamp : Nat]]
    BY DEF LimiterInv, LimiterTypeOK
  <2>2. /\ client' \in [Clients -> [call : Calls, pc : {"idle", "stamped"}, stamp : Nat]]
        /\ client'[c].pc = "idle"
        /\ \A d \in Clients : client'[d].call = client[d].call
        /\ \A d \in Clients \ {c} : client'[d] = client[d]
    BY <2>1 DEF Answered
  <2> QED
    BY <2>2
<1>2. LimiterTypeOK'
  BY <1>1 DEF LimiterInv, LimiterTypeOK
<1>3. StampsAreRecent'
  BY <1>1 DEF LimiterInv, StampsAreRecent
<1>4. TatCovers'
  BY <1>1 DEF LimiterInv, TatCovers, Span
<1>5. PromisesStand'
  <2>1. \A d \in Clients : Key(d)' = Key(d)
    BY <1>1 DEF Key
  <2> QED
    BY <1>1, <2>1 DEF LimiterInv, PromisesStand
<1>6. RateIsKept'
  BY <1>1 DEF LimiterInv, RateIsKept
<1> QED
  BY <1>2, <1>3, <1>4, <1>5, <1>6 DEF LimiterInv

(* Retry-After, rounded up, reaches the time the script named.             *)
LEMMA WaitSuffices ==
  ASSUME LimiterInv, NEW c \in Clients, client[c].pc = "stamped",
         ~Admits(Key(c), client[c].stamp)
  PROVE  /\ clock + Second * RetryAfter(Key(c), client[c].stamp) \in Nat
         /\ AllowAt(Key(c), client[c].stamp)
              <= clock + Second * RetryAfter(Key(c), client[c].stamp)
<1> DEFINE k == Key(c)
           now == client[c].stamp
           a == AllowAt(k, now)
           s == (a - now + Second - 1) \div Second
           w == RetryAfter(k, now)
<1>1. /\ k \in Keys /\ now \in Nat /\ now <= clock /\ clock \in Nat
      /\ Second \in Nat \ {0}
  BY KeyFacts, LimiterAssumption
     DEF LimiterInv, LimiterTypeOK, StampsAreRecent, Key
<1>2. a \in Int /\ a > now
  <2>1. Tat(k, now) \in Nat
    BY <1>1 DEF Tat, LimiterInv, LimiterTypeOK
  <2>2. Interval(k.limit) \in Nat /\ Capacity(k.limit) \in Nat
    BY <1>1, KeyFacts
  <2>3. ~(now >= a)
    BY DEF Admits
  <2>4. a = Tat(k, now) + Interval(k.limit) - Capacity(k.limit)
    BY DEF AllowAt
  <2> HIDE DEF k, now, a
  <2> QED
    BY <1>1, <2>1, <2>2, <2>3, <2>4
<1>3. s \in Nat /\ Second * s >= a - now
  <2> DEFINE x == a - now
  <2>1. x \in Nat
    <3> HIDE DEF k, now, a
    <3> QED
      BY <1>1, <1>2
  <2> HIDE DEF x
  <2>2. Second * ((x + Second - 1) \div Second) >= x
    BY <1>1, <2>1, Division
  <2>3. x + Second - 1 \in Nat
    BY <1>1, <2>1
  <2>4. (x + Second - 1) \div Second \in Nat
    BY <1>1, <2>3, Division
  <2> QED
    BY <2>2, <2>4 DEF x
<1>4. w \in Nat /\ w >= s
  <2>1. w = IF s > 1 THEN s ELSE 1
    BY DEF RetryAfter
  <2> HIDE DEF s, w
  <2> QED
    BY <1>3, <2>1
<1>5. Second * w \in Nat /\ Second * w >= Second * s
  <2> HIDE DEF s, w
  <2>1. \A x, y, z \in Nat : y >= z => x * y \in Nat /\ x * y >= x * z
    OBVIOUS
  <2> QED
    BY <1>1, <1>3, <1>4, <2>1
<1>6. clock + Second * w \in Nat /\ a <= clock + Second * w
  <2> DEFINE u == Second * w
             v == Second * s
  <2>1. u \in Nat /\ u >= v /\ v >= a - now /\ v \in Nat
    <3>1. v \in Nat
      <4> HIDE DEF s
      <4> QED
        BY <1>1, <1>3
    <3> QED
      BY <1>3, <1>5, <3>1
  <2> HIDE DEF u, v, a, now, k
  <2>2. clock + u \in Nat /\ a <= clock + u
    BY <1>1, <1>2, <2>1
  <2> QED
    BY <2>2 DEF u
<1> QED
  BY <1>6

(* Every step of the limiter keeps the invariant.                          *)
LEMMA NextLimits ==
  ASSUME LimiterInv, [LimiterNext]_limiterVars
  PROVE  LimiterInv'
<1>1. CASE ClockTicks
  BY <1>1, TickKeeps
<1>2. ASSUME NEW c \in Clients, Stamp(c) PROVE LimiterInv'
  BY <1>2, StampKeeps
<1>3. ASSUME NEW c \in Clients, Pass(c) PROVE LimiterInv'
  <2>1. LetThrough(c) /\ Answered(c) /\ clock' = clock /\ client[c].pc = "stamped"
        /\ promise' = [promise EXCEPT ![c] = NoPromise]
    BY <1>3 DEF Pass, LetThrough
  <2> QED
    BY <2>1, TakeKeeps
<1>4. ASSUME NEW c \in Clients, TurnAway(c) PROVE LimiterInv'
  <2> DEFINE k == Key(c)
             now == client[c].stamp
             new == [from |-> clock + Second * RetryAfter(k, now),
                     after |-> Len(admitted[k])]
  <2>1. /\ client[c].pc = "stamped" /\ ~Admits(k, now)
        /\ promise' = [promise EXCEPT ![c] = new]
        /\ Answered(c) /\ UNCHANGED <<clock, bucket, admitted>>
    BY <1>4 DEF TurnAway
  <2>2. new.from \in Nat /\ AllowAt(k, now) <= new.from
    BY <2>1, WaitSuffices
  <2>3. k \in Keys /\ Len(admitted[k]) \in Nat
    BY KeyFacts DEF LimiterInv, LimiterTypeOK, Key
  <2>4. new \in [from : Nat, after : Nat \cup {-1}]
    BY <2>2, <2>3
  <2>5. k \in DOMAIN bucket
        => bucket[k].tat + Interval(k.limit) - Capacity(k.limit) <= new.from
    <3> SUFFICES ASSUME k \in DOMAIN bucket
                 PROVE  bucket[k].tat + Interval(k.limit) - Capacity(k.limit) <= new.from
      OBVIOUS
    <3> DEFINE b == bucket[k].tat
               t == Tat(k, now)
               f == new.from
    <3>1. b \in Nat /\ t \in Nat /\ b <= t /\ f \in Nat
      <4>1. b \in Nat /\ now \in Nat /\ f \in Nat
        BY <2>2 DEF LimiterInv, LimiterTypeOK
      <4>2. t = IF b > now THEN b ELSE now
        BY DEF Tat
      <4> HIDE DEF b, t, k, now, f
      <4> QED
        BY <4>1, <4>2
    <3>2. Interval(k.limit) \in Nat /\ Capacity(k.limit) \in Nat
      BY <2>3, KeyFacts
    <3>3. t + Interval(k.limit) - Capacity(k.limit) <= f
      BY <2>2 DEF AllowAt
    <3> HIDE DEF b, t, k, now, f, new
    <3>4. b + Interval(k.limit) - Capacity(k.limit) <= f
      BY <3>1, <3>2, <3>3
    <3> QED
      BY <3>4 DEF b, f
  <2>6. promise'[c] = new /\ promise' \in [Clients -> [from : Nat, after : Nat \cup {-1}]]
        /\ \A d \in Clients \ {c} : promise'[d] = promise[d]
    <3> HIDE DEF new
    <3> QED
      BY <2>1, <2>4 DEF LimiterInv, LimiterTypeOK
  <2>7. promise'[c].after <= Len(admitted[k])
    BY <2>3, <2>6
  <2>8. k \in DOMAIN bucket
        => bucket[k].tat + Interval(k.limit) - Capacity(k.limit) <= promise'[c].from
    <3> HIDE DEF new
    <3> QED
      BY <2>5, <2>6
  <2> HIDE DEF new, now
  <2> QED
    BY <2>1, <2>6, <2>7, <2>8, AnswerKeeps
<1>5. ASSUME NEW c \in Clients, FailOpen(c) PROVE LimiterInv'
  <2>1. Answered(c) /\ clock' = clock /\ client[c].pc = "stamped"
        /\ promise' = [promise EXCEPT ![c] = NoPromise]
    BY <1>5 DEF FailOpen
  <2>2. CASE UNCHANGED <<bucket, admitted>>
    <3>1. promise'[c] = NoPromise
          /\ promise' \in [Clients -> [from : Nat, after : Nat \cup {-1}]]
          /\ \A d \in Clients \ {c} : promise'[d] = promise[d]
      BY <2>1 DEF LimiterInv, LimiterTypeOK, NoPromise
    <3>2. Len(admitted[Key(c)]) \in Nat
      BY KeyFacts DEF LimiterInv, LimiterTypeOK, Key
    <3>3. promise'[c].after <= Len(admitted[Key(c)])
          /\ promise'[c].after # Len(admitted[Key(c)])
      <4>1. promise'[c].after = -1
        BY <3>1 DEF NoPromise
      <4> QED
        BY <3>2, <4>1
    <3> QED
      BY <2>1, <2>2, <3>1, <3>3, AnswerKeeps
  <2>3. CASE LetThrough(c)
    BY <2>1, <2>3, TakeKeeps
  <2> QED
    BY <1>5, <2>2, <2>3 DEF FailOpen, LetThrough
<1>6. CASE UNCHANGED limiterVars
  BY <1>6 DEF limiterVars, LimiterInv, LimiterTypeOK, StampsAreRecent, TatCovers,
              PromisesStand, RateIsKept, Key, Span
<1> QED
  BY <1>1, <1>2, <1>3, <1>4, <1>5, <1>6 DEF LimiterNext

(* What stands of a promise is enough to keep it.                          *)
LEMMA PromisesFollow ==
  ASSUME LimiterInv
  PROVE  PromisesAreKept
<1> SUFFICES ASSUME NEW c \in Clients, client[c].pc = "stamped",
                    promise[c].after = Len(admitted[Key(c)]),
                    client[c].stamp >= promise[c].from
             PROVE  Admits(Key(c), client[c].stamp)
  BY DEF PromisesAreKept
<1> DEFINE k == Key(c)
           now == client[c].stamp
           T == Interval(k.limit)
           C == Capacity(k.limit)
           f == promise[c].from
<1>1. /\ k \in Keys /\ now \in Nat /\ f \in Nat /\ now >= f
      /\ T \in Nat /\ C \in Nat /\ T <= C
  BY KeyFacts DEF LimiterInv, LimiterTypeOK, Key
<1>2. CASE k \in DOMAIN bucket /\ bucket[k].tat > now
  <2> DEFINE b == bucket[k].tat
  <2>1. b + T - C <= f /\ b \in Nat
    BY <1>2 DEF LimiterInv, LimiterTypeOK, PromisesStand
  <2>2. AllowAt(k, now) = b + T - C
    BY <1>2 DEF AllowAt, Tat
  <2> HIDE DEF b, k, now, T, C, f
  <2>3. now >= AllowAt(k, now)
    BY <1>1, <2>1, <2>2
  <2> QED
    BY <2>3 DEF Admits, k, now
<1>3. CASE ~(k \in DOMAIN bucket /\ bucket[k].tat > now)
  <2>1. AllowAt(k, now) = now + T - C
    BY <1>3 DEF AllowAt, Tat
  <2> HIDE DEF k, now, T, C, f
  <2>2. now >= AllowAt(k, now)
    BY <1>1, <2>1
  <2> QED
    BY <2>2 DEF Admits, k, now
<1> QED
  BY <1>2, <1>3

(* The invariant of the limiter.                                           *)
LEMMA LimiterHolds == LimiterSpec => []LimiterInv
BY InitLimits, NextLimits, PTL DEF LimiterSpec

(* The limiter's variables keep their types: the keys in Redis are keys of *)
(* calls, with whole tats and expiries (_TOKEN_BUCKET_LUA).                *)
THEOREM LimiterTypeCorrect == LimiterSpec => []LimiterTypeOK
BY LimiterHolds, PTL DEF LimiterInv

(* GCRA keeps the rate, for any policies with a positive burst, any number *)
(* of clients and any order in which stamps reach the script: of what a    *)
(* bucket lets through any run fits rate and burst (rate_limit.py).        *)
THEOREM RateKept == LimiterSpec => []RateIsKept
BY LimiterHolds, PTL DEF LimiterInv

(* Retry-After is enough: who waits for it is let through if nobody else   *)
(* took the share (_send_429).                                             *)
THEOREM PromisesKept == LimiterSpec => []PromisesAreKept
BY LimiterHolds, PromisesFollow, PTL

-------------------------------------------------------------------------------
(* The three together.                                                     *)

(* A behaviour of the edge is one of each of its parts, most of them       *)
(* standing still: nothing one middleware does is a step of another's, so  *)
(* the theorems above hold of EdgeSpec.                                    *)
THEOREM EdgeIsItsParts == EdgeSpec => Spec /\ LimiterSpec /\ StreamSpec
<1>1. EdgeInit => Init /\ LimiterInit /\ StreamInit
  BY DEF EdgeInit
<1>2. [EdgeNext]_edgeVars => [Next]_vars /\ [LimiterNext]_limiterVars
                             /\ [StreamNext]_streamVars
  BY DEF EdgeNext, edgeVars
<1> QED
  BY <1>1, <1>2, PTL DEF EdgeSpec, Spec, LimiterSpec, StreamSpec

===============================================================================
