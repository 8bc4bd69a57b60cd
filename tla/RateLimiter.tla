------------------------------ MODULE RateLimiter ------------------------------
(***************************************************************************)
(* The rate limiter of the API: a GCRA bucket per caller and limit in      *)
(* Redis, updated by one atomic script.  The API process reads its clock   *)
(* first and calls the script later, so that requests reach the bucket in  *)
(* another order than their time stamps; a bucket expires by itself; a     *)
(* failed call lets the request through.                                   *)
(*                                                                         *)
(* Time is counted in units of which Minute make a minute and Second a     *)
(* second (60000 and 1000 in the code).                                    *)
(***************************************************************************)
EXTENDS Integers, Sequences, SequencesExt

CONSTANTS
  Clients,   \* callers that send one request after the other
  Calls,     \* what they send: [cookie, peer, forwarded, method, path]
  Policies,  \* POLICIES: a sequence of [method, prefix, limit]
  Default,   \* DEFAULT: a limit, [rate, burst, scope]
  Skip,      \* SKIP: paths that are not limited
  Trusted,   \* addresses of trusted proxies
  None,      \* no cookie, no address, any method
  Minute, Second,
  MaxDelay,  \* longest time between the clock and the script
  LastTick   \* bound of the model

Limits == {Default} \cup {Policies[i].limit : i \in DOMAIN Policies}

(* emission_interval_ms and burst_capacity_ms                              *)
Interval(l) == Minute \div (IF l.rate > 1 THEN l.rate ELSE 1)
Capacity(l) == l.burst * Interval(l)

ASSUME LimiterAssumption ==
  /\ {Minute, Second} \subseteq Nat \ {0}
  /\ {MaxDelay, LastTick} \subseteq Nat
  /\ DOMAIN Policies \subseteq Nat
  /\ \A l \in Limits : l.rate \in Nat /\ l.burst \in Nat \ {0}
  /\ \A l \in Limits : Interval(l) > 0 /\ MaxDelay <= Interval(l)

VARIABLES
  clock,
  bucket,    \* the keys in Redis: [tat, until]
  client,    \* what each client sends, and the stamp of what is under way
  admitted,  \* history: the stamps each bucket let through, in this order
  promise    \* history: the Retry-After each client was last given

limiterVars == <<clock, bucket, client, admitted, promise>>

-------------------------------------------------------------------------------
(* Which bucket a request is counted in                                    *)

(* resolve_policy: the first entry that matches.                           *)
Matches(entry, call) ==
  /\ IsPrefix(entry.prefix, call.path)
  /\ entry.method \in {None, call.method}
ResolvePolicy(call) ==
  LET matching == {i \in DOMAIN Policies : Matches(Policies[i], call)}
  IN  IF matching = {} THEN Default
      ELSE Policies[CHOOSE i \in matching : \A k \in matching : i <= k].limit

(* _client_ip: behind a trusted proxy, the rightmost untrusted hop.        *)
ClientIp(call) ==
  LET hops == call.forwarded
      untrusted == {i \in DOMAIN hops : hops[i] \notin Trusted}
  IN  IF call.peer \notin Trusted \/ hops = <<>> THEN call.peer
      ELSE IF untrusted = {} THEN hops[1]
      ELSE hops[CHOOSE i \in untrusted : \A k \in untrusted : i >= k]

(* policy_marker: two policies with the same numbers have one marker.      *)
Marker(l) == [rate |-> l.rate, burst |-> l.burst]

(* _key_for: the cookie for limits of users, the address for the rest.     *)
KeyFor(call) ==
  LET l == ResolvePolicy(call)
  IN  IF l.scope = "user" /\ call.cookie # None
      THEN [by |-> call.cookie, limit |-> Marker(l)]
      ELSE [by |-> ClientIp(call), limit |-> Marker(l)]

Keys == {KeyFor(call) : call \in Calls}

-------------------------------------------------------------------------------
(* The script                                                              *)

(* GET, or now; and not before now.                                        *)
Tat(k, now) ==
  IF k \in DOMAIN bucket /\ bucket[k].tat > now THEN bucket[k].tat ELSE now

AllowAt(k, now) == Tat(k, now) + Interval(k.limit) - Capacity(k.limit)

Admits(k, now) == now >= AllowAt(k, now)

(* Mutant: the key is kept for one interval.                               *)
ExpiryTooSoon(l) == Interval(l)

(* The TTL: burst + interval.                                              *)
Expiry(l) == Capacity(l) + Interval(l)

(* SET KEYS[1], new_tat, PX ttl                                            *)
Take(k, now) ==
  bucket' = [x \in DOMAIN bucket \cup {k} |->
               IF x = k THEN [tat |-> Tat(k, now) + Interval(k.limit),
                              until |-> clock + Expiry(k.limit)]
               ELSE bucket[x]]

(* Mutant: rounded down.                                                   *)
RetryAfterRoundedDown(k, now) ==
  LET s == (AllowAt(k, now) - now) \div Second IN IF s > 1 THEN s ELSE 1

(* Retry-After, in whole seconds: max(1, ceil(retry_after_ms / 1000)).     *)
RetryAfter(k, now) ==
  LET s == (AllowAt(k, now) - now + Second - 1) \div Second IN IF s > 1 THEN s ELSE 1

-------------------------------------------------------------------------------
Key(c) == KeyFor(client[c].call)
Answered(c) == client' = [client EXCEPT ![c].pc = "idle", ![c].stamp = 0]
NoPromise == [from |-> 0, after |-> -1]

LimiterInit ==
  /\ clock = 0
  /\ bucket = [k \in {} |-> 0]
  /\ client \in [Clients -> [call : Calls, pc : {"idle"}, stamp : {0}]]
  /\ admitted = [k \in Keys |-> <<>>]
  /\ promise = [c \in Clients |-> NoPromise]

(* The clock goes on, but no request waits longer than MaxDelay for its    *)
(* script; the expired keys are gone.                                      *)
ClockTicks ==
  /\ clock < LastTick
  /\ \A c \in Clients : client[c].pc = "stamped" => clock < client[c].stamp + MaxDelay
  /\ clock' = clock + 1
  /\ bucket' = [k \in {x \in DOMAIN bucket : bucket[x].until > clock'} |-> bucket[k]]
  /\ UNCHANGED <<client, admitted, promise>>

(* A request that is limited, from a caller that has a key, reads the      *)
(* clock.  The others are passed on or refused without a bucket.           *)
Stamp(c) ==
  /\ client[c].pc = "idle"
  /\ client[c].call.path \notin Skip
  /\ Key(c).by # None
  /\ client' = [client EXCEPT ![c].pc = "stamped", ![c].stamp = clock]
  /\ UNCHANGED <<clock, bucket, admitted, promise>>

Pass(c) ==
  LET k == Key(c) now == client[c].stamp
  IN  /\ client[c].pc = "stamped"
      /\ Admits(k, now)
      /\ Take(k, now)
      /\ admitted' = [admitted EXCEPT ![k] = Append(@, now)]
      /\ Answered(c)
      /\ promise' = [promise EXCEPT ![c] = NoPromise]
      /\ UNCHANGED clock

(* _send_429: the client waits from the moment it has the answer.          *)
TurnAway(c) ==
  LET k == Key(c) now == client[c].stamp
  IN  /\ client[c].pc = "stamped"
      /\ ~Admits(k, now)
      /\ promise' = [promise EXCEPT ![c] =
                       [from  |-> clock + Second * RetryAfter(k, now),
                        after |-> Len(admitted[k])]]
      /\ Answered(c)
      /\ UNCHANGED <<clock, bucket, admitted>>

(* Fail-open on RedisError: the request is let through, whether the script *)
(* ran and took its share or not.                                          *)
FailOpen(c) ==
  LET k == Key(c) now == client[c].stamp
  IN  /\ client[c].pc = "stamped"
      /\ \/ UNCHANGED <<bucket, admitted>>
         \/ /\ Admits(k, now)
            /\ Take(k, now)
            /\ admitted' = [admitted EXCEPT ![k] = Append(@, now)]
      /\ Answered(c)
      /\ promise' = [promise EXCEPT ![c] = NoPromise]
      /\ UNCHANGED clock

LimiterNext ==
  \/ ClockTicks
  \/ \E c \in Clients : Stamp(c) \/ Pass(c) \/ TurnAway(c) \/ FailOpen(c)

LimiterSpec == LimiterInit /\ [][LimiterNext]_limiterVars

-------------------------------------------------------------------------------
(* GCRA: in whatever order the stamps reach a bucket, and though it        *)
(* expires, any run of requests it lets through fits its rate and burst.   *)
RateIsKept ==
  \A k \in Keys : \A j \in DOMAIN admitted[k] : \A i \in 1..j :
    (j - i + 1) * Interval(k.limit)
      <= admitted[k][j] - admitted[k][i] + Capacity(k.limit)

(* Whoever was turned away and waits as long as Retry-After says is let    *)
(* through, unless somebody else was with the same key in between.         *)
PromisesAreKept ==
  \A c \in Clients :
    /\ client[c].pc = "stamped"
    /\ promise[c].after = Len(admitted[Key(c)])
    /\ client[c].stamp >= promise[c].from
    => Admits(Key(c), client[c].stamp)

===============================================================================
