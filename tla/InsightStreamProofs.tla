-------------------------- MODULE InsightStreamProofs -------------------------
(***************************************************************************)
(* What a browser is told is true, for any insights, watchers and reads:   *)
(* the argument rests on the one promise of InsightLifecycle that a        *)
(* status, once terminal, never changes, and on the stream stopping at     *)
(* what it saw.                                                            *)
(***************************************************************************)
EXTENDS InsightStream, SequenceTheorems, TLAPS

(* What a row may say.                                                     *)
Stored == Status

(* A watcher's fields; how many reads it has left does not matter.         *)
Follower ==
  [pc : {"idle", "open", "poll", "closed"}, insight : Insights, left : Int,
   last : Stored, told : Seq(Told)]

(* What was told is right about a row of status s.                         *)
Right(told, s) ==
  /\ \A k \in DOMAIN told : Ends(told[k]) =>
       /\ s = told[k]
       /\ \A l \in k..Len(told) : told[l] = told[k]
  /\ \A k \in DOMAIN told : told[k] = "not found" =>
       \A l \in 1..k : told[l] = "not found"
  /\ s = "none" => \A k \in DOMAIN told : told[k] = "not found"

Silent(told) == \A k \in DOMAIN told : told[k] # "timeout"

(* A stream is opened on a row that is there, gives up once, and only      *)
(* after a read that did not find the end.                                 *)
Honest(w) ==
  LET v == watch[w]
  IN  /\ Right(v.told, status[v.insight])
      /\ v.pc \in {"open", "poll"} => status[v.insight] # "none"
      /\ v.pc \in {"idle", "open", "poll"} => Silent(v.told)
      /\ ~Silent(v.told) => ~Ends(v.last)

StreamInv ==
  /\ status \in [Insights -> Stored]
  /\ watch \in [Watchers -> Follower]
  /\ \A w \in Watchers : Honest(w)

-------------------------------------------------------------------------------
(* Once more is said: the status as it is, that there is no such insight,  *)
(* or that the time is up.                                                 *)
Truthful(x, s) ==
  \/ x = s /\ s # "none"
  \/ x = "not found" /\ s = "none"
  \/ x = "timeout" /\ s # "none" /\ ~Ends(s)

LEMMA TruthfulMeans ==
  ASSUME NEW s \in Stored, NEW x, Truthful(x, s)
  PROVE  /\ Ends(x) \/ Ends(s) => x = s
         /\ x = "not found" <=> s = "none"
BY DEF Truthful, Ends, Terminal, Stored, Status

LEMMA Tell ==
  ASSUME NEW told \in Seq(Told), NEW s \in Stored, Right(told, s), NEW x \in Told,
         Truthful(x, s)
  PROVE  /\ Append(told, x) \in Seq(Told)
         /\ Right(Append(told, x), s)
         /\ x # "timeout" /\ Silent(told) => Silent(Append(told, x))
<1> DEFINE more == Append(told, x)
<1>1. PICK n \in Nat : n = Len(told) /\ DOMAIN told = 1..n
  OBVIOUS
<1>2. /\ more \in Seq(Told) /\ Len(more) = n + 1 /\ DOMAIN more = 1..(n + 1)
      /\ more[n + 1] = x
      /\ \A k \in 1..n : more[k] = told[k]
  BY <1>1
<1> HIDE DEF more
<1>3. \A k \in 1..(n + 1) : Ends(more[k]) =>
        s = more[k] /\ \A l \in k..(n + 1) : more[l] = more[k]
  <2> SUFFICES ASSUME NEW k \in 1..(n + 1), Ends(more[k])
               PROVE  s = more[k] /\ \A l \in k..(n + 1) : more[l] = more[k]
    OBVIOUS
  <2>1. CASE k = n + 1
    <3>1. more[k] = x /\ x = s
      BY <1>2, <2>1, TruthfulMeans
    <3>2. \A l \in k..(n + 1) : l = k
      BY <1>1, <2>1
    <3> QED
      BY <3>1, <3>2
  <2>2. CASE k # n + 1
    <3>1. k \in 1..n /\ Ends(told[k])
      BY <1>2, <2>2
    <3>2. s = told[k] /\ \A l \in k..n : told[l] = told[k]
      BY <1>1, <3>1 DEF Right
    <3>3. x = s
      BY <3>1, <3>2, TruthfulMeans
    <3> QED
      BY <1>2, <3>1, <3>2, <3>3
  <2> QED
    BY <2>1, <2>2
<1>4. \A k \in 1..(n + 1) : more[k] = "not found" =>
        \A l \in 1..k : more[l] = "not found"
  <2>1. x = "not found" => \A k \in 1..n : told[k] = "not found"
    BY <1>1, TruthfulMeans DEF Right
  <2>2. \A k \in 1..n : told[k] = "not found" => \A l \in 1..k : told[l] = "not found"
    BY <1>1 DEF Right
  <2>3. \A k \in 1..(n + 1) : /\ k # n + 1 => k \in 1..n
                               /\ \A l \in 1..k : l = n + 1 \/ l \in 1..n
    OBVIOUS
  <2>4. \A k \in 1..n : \A l \in 1..k : l \in 1..n
    OBVIOUS
  <2> SUFFICES ASSUME NEW k \in 1..(n + 1), more[k] = "not found", NEW l \in 1..k
               PROVE  more[l] = "not found"
    OBVIOUS
  <2>5. CASE k = n + 1
    <3>1. x = "not found"
      BY <1>2, <2>5
    <3> QED
      BY <1>2, <2>1, <2>3, <3>1
  <2>6. CASE k # n + 1
    <3>1. k \in 1..n /\ l \in 1..n
      BY <2>3, <2>4, <2>6
    <3> QED
      BY <1>2, <2>2, <3>1
  <2> QED
    BY <2>5, <2>6
<1>5. s = "none" => \A k \in 1..(n + 1) : more[k] = "not found"
  <2> SUFFICES ASSUME s = "none", NEW k \in 1..(n + 1)
               PROVE  more[k] = "not found"
    OBVIOUS
  <2>1. x = "not found"
    BY TruthfulMeans
  <2>2. \A l \in 1..n : told[l] = "not found"
    BY <1>1 DEF Right
  <2>3. k = n + 1 \/ k \in 1..n
    OBVIOUS
  <2> QED
    BY <1>2, <2>1, <2>2, <2>3
<1>6. Right(more, s)
  BY <1>2, <1>3, <1>4, <1>5 DEF Right
<1>7. x # "timeout" /\ Silent(told) => Silent(more)
  BY <1>1, <1>2 DEF Silent
<1> QED
  BY <1>2, <1>6, <1>7 DEF more

(* What is told may be said in pieces.                                     *)
LEMMA InPieces ==
  ASSUME NEW told \in Seq(Told), NEW x \in Told, NEW y \in Told
  PROVE  /\ told \o (<<>> \o <<>>) = told
         /\ told \o (<<x>> \o <<>>) = Append(told, x)
         /\ told \o (<<>> \o <<y>>) = Append(told, y)
         /\ told \o (<<x>> \o <<y>>) = Append(Append(told, x), y)
OBVIOUS

-------------------------------------------------------------------------------
LEMMA HonestInit == StreamInit => StreamInv
<1> SUFFICES ASSUME StreamInit
             PROVE  StreamInv
  OBVIOUS
<1>1. status \in [Insights -> Stored]
  BY DEF StreamInit, Row!Init, Stored, Status
<1>2. \A w \in Watchers : /\ watch[w] \in [pc : {"idle"}, insight : Insights,
                                           left : {StreamPolls}, last : {"none"},
                                           told : {<<>>}]
  BY DEF StreamInit
<1>3. watch \in [Watchers -> Follower]
  <2>1. <<>> \in Seq(Told) /\ StreamPolls \in Int /\ "none" \in Stored
    BY StreamAssumption DEF Stored, Status
  <2>2. \A w \in Watchers : watch[w] \in Follower
    BY <1>2, <2>1 DEF Follower
  <2> QED
    BY <2>2 DEF StreamInit
<1>4. \A w \in Watchers : watch[w].told = <<>> /\ watch[w].pc = "idle"
  BY <1>2
<1>5. \A s : Right(<<>>, s) /\ Silent(<<>>)
  <2>1. DOMAIN <<>> = {}
    OBVIOUS
  <2> QED
    BY <2>1 DEF Right, Silent
<1>6. \A w \in Watchers : Honest(w)
  BY <1>4, <1>5 DEF Honest
<1> QED
  BY <1>1, <1>3, <1>6 DEF StreamInv

(* The row takes its steps: it never loses an end, or goes away.           *)
LEMMA RowKeeps ==
  ASSUME StreamInv, Row!Next, watch' = watch
  PROVE  StreamInv'
<1>1. \A i \in Insights :
        /\ status'[i] \in Stored
        /\ Ends(status[i]) => status'[i] = status[i]
        /\ status'[i] = "none" => status[i] = "none"
  BY DEF StreamInv, Row!Next, Row!Queue, Row!Claim, Row!Finish, Row!Reap, Stored,
     Status, Terminal, Row!Terminal, Ends
<1>2. status' \in [Insights -> Stored]
  BY <1>1 DEF StreamInv, Row!Next, Row!Queue, Row!Claim, Row!Finish, Row!Reap
<1>3. ASSUME NEW w \in Watchers
      PROVE  Honest(w)'
  <2>1. watch[w].insight \in Insights /\ Honest(w)
    BY DEF StreamInv, Follower
  <2>2. Right(watch[w].told, status'[watch[w].insight])
    BY <1>1, <2>1 DEF Honest, Right
  <2> QED
    BY <1>1, <2>1, <2>2 DEF Honest
<1> QED
  BY <1>2, <1>3 DEF StreamInv

(* One watcher takes a step.                                               *)
LEMMA OneWatches ==
  ASSUME StreamInv, status' = status, NEW w \in Watchers,
         NEW v \in Follower, watch' = [watch EXCEPT ![w] = v],
         Right(v.told, status[v.insight]),
         v.pc \in {"open", "poll"} => status[v.insight] # "none",
         v.pc \in {"idle", "open", "poll"} => Silent(v.told),
         ~Silent(v.told) => ~Ends(v.last)
  PROVE  StreamInv'
<1>1. /\ watch' \in [Watchers -> Follower] /\ watch'[w] = v
      /\ \A u \in Watchers \ {w} : watch'[u] = watch[u]
  BY DEF StreamInv
<1>2. Honest(w)'
  BY <1>1 DEF Honest
<1>3. \A u \in Watchers \ {w} : Honest(u)'
  BY <1>1 DEF StreamInv, Honest
<1> QED
  BY <1>1, <1>2, <1>3 DEF StreamInv

LEMMA WatchingKeeps ==
  ASSUME StreamInv, NEW w \in Watchers, Watching(w)
  PROVE  StreamInv'
<1>1. PICK v : v = watch[w]
  OBVIOUS
<1>2. PICK s : s = status[v.insight]
  OBVIOUS
<1>3. /\ v \in Follower /\ s \in Stored /\ v.told \in Seq(Told)
      /\ Right(v.told, s)
      /\ v.pc \in {"open", "poll"} => s # "none"
      /\ v.pc \in {"idle", "open", "poll"} => Silent(v.told)
      /\ ~Silent(v.told) => ~Ends(v.last)
  BY <1>1, <1>2 DEF StreamInv, Follower, Honest
<1>4. s \in Told /\ "not found" \in Told /\ "timeout" \in Told /\ s # "timeout"
  BY <1>3 DEF Told, Stored, Status
<1>5. status' = status
  BY DEF Watching, Fetch, OpenStream, FirstRead, StreamRead, LeavePage
<1>6. CASE Fetch(w)
  <2>1. PICK x : x = Answer(v.insight)
    OBVIOUS
  <2>2. x \in Told /\ x # "timeout" /\ Truthful(x, s)
    BY <1>2, <1>4, <2>1 DEF Answer, Truthful
  <2>3. PICK t : t = Append(v.told, x)
    OBVIOUS
  <2>4. t \in Seq(Told) /\ Right(t, s) /\ (Silent(v.told) => Silent(t))
    BY <1>3, <2>2, <2>3, Tell
  <2>5. watch' = [watch EXCEPT ![w] = [v EXCEPT !.told = t]]
    BY <1>1, <1>6, <2>1, <2>3 DEF Fetch, StreamInv
  <2>6. PICK n : n = [v EXCEPT !.told = t]
    OBVIOUS
  <2>7. /\ n \in Follower /\ n.told = t /\ n.pc = v.pc /\ n.last = v.last
        /\ n.insight = v.insight
    BY <1>3, <2>4, <2>6 DEF Follower
  <2>8. Silent(t) => Silent(v.told)
    <3>1. DOMAIN v.told \subseteq DOMAIN t /\ \A k \in DOMAIN v.told : t[k] = v.told[k]
      BY <1>3, <2>2, <2>3
    <3> QED
      BY <3>1 DEF Silent
  <2> QED
    BY <1>2, <1>3, <1>5, <2>4, <2>5, <2>6, <2>7, <2>8, OneWatches
<1>7. CASE OpenStream(w)
  <2>1. v.pc = "idle"
    BY <1>1, <1>7 DEF OpenStream
  <2>2. CASE s = "none"
    <3>1. PICK t : t = Append(v.told, "not found")
      OBVIOUS
    <3>2. t \in Seq(Told) /\ Right(t, s) /\ Silent(t)
      <4>1. Truthful("not found", s) /\ "not found" # "timeout"
        BY <2>2 DEF Truthful
      <4> QED
        BY <1>3, <1>4, <2>1, <3>1, <4>1, Tell
    <3>3. PICK n : n = [v EXCEPT !.pc = "closed", !.told = t]
      OBVIOUS
    <3>4. watch' = [watch EXCEPT ![w] = n]
      BY <1>1, <1>2, <1>7, <2>2, <3>1, <3>3 DEF OpenStream, StreamInv
    <3>5. n \in Follower /\ n.told = t /\ n.pc = "closed" /\ n.insight = v.insight
      BY <1>3, <3>2, <3>3 DEF Follower
    <3> QED
      BY <1>2, <1>5, <3>2, <3>4, <3>5, OneWatches
  <2>3. CASE s # "none"
    <3>1. PICK n : n = [v EXCEPT !.pc = "open"]
      OBVIOUS
    <3>2. watch' = [watch EXCEPT ![w] = n]
      BY <1>1, <1>2, <1>7, <2>3, <3>1 DEF OpenStream, StreamInv
    <3>3. n \in Follower /\ n.told = v.told /\ n.pc = "open" /\ n.insight = v.insight
      BY <1>3, <3>1 DEF Follower
    <3> QED
      BY <1>2, <1>3, <1>5, <2>1, <2>3, <3>2, <3>3, OneWatches
  <2> QED
    BY <2>2, <2>3
<1>8. CASE FirstRead(w)
  <2>1. v.pc = "open" /\ s # "none"
    BY <1>1, <1>3, <1>8 DEF FirstRead
  <2>2. PICK t : t = Append(v.told, s)
    OBVIOUS
  <2>3. t \in Seq(Told) /\ Right(t, s) /\ Silent(t)
    <3>1. Truthful(s, s)
      BY <2>1 DEF Truthful
    <3> QED
      BY <1>3, <1>4, <2>1, <2>2, <3>1, Tell
  <2>4. PICK to \in {"closed", "poll"} :
          watch' = [watch EXCEPT ![w] = [v EXCEPT !.pc = to, !.last = s, !.told = t]]
    BY <1>1, <1>2, <1>8, <2>2 DEF FirstRead, StreamInv
  <2>5. PICK n : n = [v EXCEPT !.pc = to, !.last = s, !.told = t]
    OBVIOUS
  <2>6. n \in Follower /\ n.told = t /\ n.pc = to /\ n.insight = v.insight
    BY <1>3, <2>3, <2>5 DEF Follower
  <2> QED
    BY <1>2, <1>5, <2>1, <2>3, <2>4, <2>5, <2>6, OneWatches
<1>9. CASE StreamRead(w)
  <2>1. v.pc = "poll" /\ s # "none" /\ Silent(v.told)
    BY <1>1, <1>3, <1>9 DEF StreamRead
  <2> DEFINE timeout == v.left = 1 /\ ~Ends(s)
             closes == Ends(s) \/ timeout
             news == (IF s = v.last THEN <<>> ELSE <<s>>)
                     \o (IF timeout THEN <<"timeout">> ELSE <<>>)
  <2>2. PICK t : t = v.told \o news
    OBVIOUS
  <2>3. /\ t \in Seq(Told) /\ Right(t, s)
        /\ Silent(t) \/ (closes /\ ~Ends(s))
    <3>1. PICK u : u = (IF s = v.last THEN v.told ELSE Append(v.told, s))
      OBVIOUS
    <3>2. u \in Seq(Told) /\ Right(u, s) /\ Silent(u)
      <4>1. Truthful(s, s)
        BY <2>1 DEF Truthful
      <4> QED
        BY <1>3, <1>4, <2>1, <3>1, <4>1, Tell
    <3>3. t = IF timeout THEN Append(u, "timeout") ELSE u
      BY <1>3, <1>4, <2>2, <3>1, InPieces
    <3>4. CASE timeout
      <4>1. Truthful("timeout", s)
        BY <2>1, <3>4 DEF Truthful
      <4> QED
        BY <1>3, <1>4, <3>2, <3>3, <3>4, <4>1, Tell
    <3>5. CASE ~timeout
      <4>1. t = u
        BY <3>3, <3>5
      <4> HIDE DEF closes, timeout, news
      <4> QED
        BY <3>2, <4>1
    <3> QED
      BY <3>4, <3>5
  <2>4. PICK to : to = IF closes THEN "closed" ELSE "poll"
    OBVIOUS
  <2>5. watch' = [watch EXCEPT ![w] =
                    [v EXCEPT !.pc = to, !.left = @ - 1, !.last = s, !.told = t]]
    BY <1>1, <1>2, <1>9, <2>2, <2>4 DEF StreamRead, Read, News, StreamInv
  <2>6. PICK n : n = [v EXCEPT !.pc = to, !.left = @ - 1, !.last = s, !.told = t]
    OBVIOUS
  <2>7. /\ n \in Follower /\ n.told = t /\ n.pc = to /\ n.insight = v.insight
        /\ n.last = s
    <3>1. to \in {"closed", "poll"} /\ v.left - 1 \in Int
      BY <1>3, <2>4 DEF Follower
    <3>2. t \in Seq(Told)
      BY <2>3
    <3> QED
      BY <1>3, <2>6, <3>1, <3>2 DEF Follower
  <2>8. /\ n.pc \in {"idle", "open", "poll"} => Silent(t)
        /\ ~Silent(t) => ~Ends(s)
    BY <2>3, <2>4, <2>7
  <2> QED
    BY <1>2, <1>5, <2>1, <2>3, <2>5, <2>6, <2>7, <2>8, OneWatches
<1>10. CASE LeavePage(w)
  <2>1. PICK n : n = [v EXCEPT !.pc = "closed"]
    OBVIOUS
  <2>2. watch' = [watch EXCEPT ![w] = n]
    BY <1>1, <1>10, <2>1 DEF LeavePage, StreamInv
  <2>3. /\ n \in Follower /\ n.told = v.told /\ n.pc = "closed" /\ n.last = v.last
        /\ n.insight = v.insight
    BY <1>3, <2>1 DEF Follower
  <2> QED
    BY <1>2, <1>3, <1>5, <2>2, <2>3, OneWatches
<1> QED
  BY <1>6, <1>7, <1>8, <1>9, <1>10 DEF Watching

(* The stream keeps StreamInv.                                             *)
LEMMA StreamHolds == StreamSpec => []StreamInv
<1>1. StreamInv /\ [StreamNext]_streamVars => StreamInv'
  <2> SUFFICES ASSUME StreamInv, [StreamNext]_streamVars
               PROVE  StreamInv'
    OBVIOUS
  <2>1. CASE UNCHANGED streamVars
    BY <2>1 DEF streamVars, StreamInv, Honest
  <2> QED
    BY <2>1, RowKeeps, WatchingKeeps DEF StreamNext
<1> QED
  BY <1>1, HonestInit, PTL DEF StreamSpec

(* A browser that listens, times out and asks again is never told of an    *)
(* end that is not the row's, of anything else after it, or that what it   *)
(* has seen is not there; a stream that gave up had not seen the end.      *)
THEOREM StreamIsTrue == StreamSpec => []StreamTellsTheTruth
<1>1. StreamInv => StreamTellsTheTruth
  BY DEF StreamInv, Honest, Right, Silent, StreamTellsTheTruth
<1> QED
  BY <1>1, StreamHolds, PTL

-------------------------------------------------------------------------------
(* A stream has a read left until it closes, and a row is requeued no more *)
(* often than it may be.                                                   *)
ReadsLeft ==
  /\ retry \in [Insights -> 0..MaxReaps]
  /\ \A w \in Watchers :
       watch[w].left \in 0..StreamPolls /\ (watch[w].pc # "closed" => watch[w].left # 0)

LEMMA NextReadsLeft ==
  ASSUME StreamInv, ReadsLeft, [StreamNext]_streamVars
  PROVE  ReadsLeft'
<1> USE StreamAssumption
<1>1. CASE Row!Next /\ UNCHANGED watch
  <2>1. retry' \in [Insights -> 0..MaxReaps]
    BY <1>1 DEF ReadsLeft, Row!Next, Row!Queue, Row!Claim, Row!Finish, Row!Reap
  <2> QED
    BY <1>1, <2>1 DEF ReadsLeft
<1>2. ASSUME NEW w \in Watchers, Watching(w)
      PROVE  ReadsLeft'
  <2>1. PICK v : v = watch[w] /\ v \in Follower
    BY DEF StreamInv
  <2>2. v.left \in 0..StreamPolls /\ (v.pc # "closed" => v.left # 0)
    BY <2>1 DEF ReadsLeft
  <2>3. retry' = retry
    BY <1>2 DEF Watching, Fetch, OpenStream, FirstRead, StreamRead, LeavePage
  <2>4. PICK u : /\ watch' = [watch EXCEPT ![w] = u]
                 /\ u.left \in 0..StreamPolls /\ (u.pc # "closed" => u.left # 0)
    <3>1. CASE Fetch(w)
      <4>1. PICK u : u = [v EXCEPT !.told = Append(v.told, Answer(v.insight))]
        OBVIOUS
      <4>2. watch' = [watch EXCEPT ![w] = u]
        BY <2>1, <3>1, <4>1 DEF Fetch, StreamInv
      <4>3. u.left = v.left /\ u.pc = v.pc
        BY <2>1, <4>1 DEF Follower
      <4> QED
        BY <2>2, <4>2, <4>3
    <3>2. CASE OpenStream(w)
      <4>1. v.pc = "idle"
        BY <2>1, <3>2 DEF OpenStream
      <4>2. PICK u : u = IF status[v.insight] = "none"
                         THEN [v EXCEPT !.pc = "closed", !.told = Append(@, "not found")]
                         ELSE [v EXCEPT !.pc = "open"]
        OBVIOUS
      <4>3. watch' = [watch EXCEPT ![w] = u]
        BY <2>1, <3>2, <4>2 DEF OpenStream, StreamInv
      <4>4. u.left = v.left
        BY <2>1, <4>2 DEF Follower
      <4> QED
        BY <2>2, <4>1, <4>3, <4>4
    <3>3. CASE FirstRead(w)
      <4>1. v.pc = "open"
        BY <2>1, <3>3 DEF FirstRead
      <4>2. PICK u : u = [v EXCEPT !.pc = IF Ends(status[v.insight]) THEN "closed" ELSE "poll",
                                   !.last = status[v.insight],
                                   !.told = Append(@, status[v.insight])]
        OBVIOUS
      <4>3. watch' = [watch EXCEPT ![w] = u]
        BY <2>1, <3>3, <4>2 DEF FirstRead, StreamInv
      <4>4. u.left = v.left
        BY <2>1, <4>2 DEF Follower
      <4> QED
        BY <2>2, <4>1, <4>3, <4>4
    <3>4. CASE StreamRead(w)
      <4>1. v.pc = "poll"
        BY <2>1, <3>4 DEF StreamRead
      <4> DEFINE s == status[v.insight]
                 timeout == v.left = 1 /\ ~Ends(s)
      <4>2. PICK closes : closes = (Ends(s) \/ timeout)
        OBVIOUS
      <4>3. PICK told : told = v.told \o ((IF s = v.last THEN <<>> ELSE <<s>>)
                                         \o (IF timeout THEN <<"timeout">> ELSE <<>>))
        OBVIOUS
      <4>4. PICK u : u = [v EXCEPT !.pc = IF closes THEN "closed" ELSE "poll", !.left = @ - 1,
                                   !.last = s, !.told = told]
        OBVIOUS
      <4>5. watch' = [watch EXCEPT ![w] = u]
        BY <2>1, <3>4, <4>2, <4>3, <4>4 DEF StreamRead, Read, News, StreamInv
      <4>6. u.left = v.left - 1 /\ (u.pc # "closed" => ~closes)
        BY <2>1, <4>4 DEF Follower
      <4>7. v.left - 1 \in 0..StreamPolls /\ (~closes => v.left - 1 # 0)
        <5>1. ~closes => v.left # 1
          BY <4>2 DEF Ends
        <5>2. v.left # 0 /\ v.left \in 0..StreamPolls /\ StreamPolls \in Nat
          BY <2>2, <4>1, StreamAssumption
        <5> HIDE DEF s, timeout
        <5> QED
          BY <5>1, <5>2
      <4> QED
        BY <4>5, <4>6, <4>7
    <3>5. CASE LeavePage(w)
      <4>1. PICK u : u = [v EXCEPT !.pc = "closed"]
        OBVIOUS
      <4>2. watch' = [watch EXCEPT ![w] = u]
        BY <2>1, <3>5, <4>1 DEF LeavePage, StreamInv
      <4>3. u.left = v.left /\ u.pc = "closed"
        BY <2>1, <4>1 DEF Follower
      <4> QED
        BY <2>2, <4>2, <4>3
    <3> QED
      BY <1>2, <3>1, <3>2, <3>3, <3>4, <3>5 DEF Watching
  <2> QED
    BY <2>3, <2>4 DEF ReadsLeft, StreamInv
<1>3. CASE UNCHANGED streamVars
  BY <1>3 DEF streamVars, ReadsLeft
<1> QED
  BY <1>1, <1>2, <1>3 DEF StreamNext

(* Every variable of the stream keeps its type: it reads the row StreamPolls*)
(* times after the first and no more.                                      *)
THEOREM StreamTypeCorrect == StreamSpec => []StreamTypeOK
<1>1. StreamInit => ReadsLeft
  BY StreamAssumption DEF StreamInit, Row!Init, ReadsLeft
<1>2. StreamInv /\ ReadsLeft => StreamTypeOK
  <2> SUFFICES ASSUME StreamInv, ReadsLeft, NEW w \in Watchers
               PROVE  watch[w] \in Watch
    BY DEF StreamInv, ReadsLeft, StreamTypeOK, Stored
  <2> QED
    BY DEF StreamInv, ReadsLeft, Follower, Watch, Stored
<1>3. StreamInv /\ ReadsLeft /\ [StreamNext]_streamVars => ReadsLeft'
  BY NextReadsLeft
<1> QED
  BY <1>1, <1>2, <1>3, StreamHolds, PTL DEF StreamSpec

===============================================================================
