----------------------------- MODULE InsightStream -----------------------------
(***************************************************************************)
(* What a browser is told of an insight while a worker elsewhere produces  *)
(* it: the event stream of one insight, which reads the row once a second  *)
(* in a transaction of its own, and the plain request the page falls back  *)
(* on.  The stream shares nothing with the pipeline but the row, so the    *)
(* row here takes the steps of InsightLifecycle, which the pipeline is     *)
(* shown to implement.                                                     *)
(***************************************************************************)
EXTENDS InsightRow, Sequences

CONSTANTS
  Watchers,    \* the requests that follow an insight
  StreamPolls  \* max_polls: reads after the first one

ASSUME StreamAssumption == MaxReaps \in Nat /\ StreamPolls \in Nat \ {0}

VARIABLE
  watch  \* each watcher: the insight it follows, the reads the stream has left,
         \* the status last sent, and all it has been told

streamVars == <<status, retry, watch>>

Row == INSTANCE InsightLifecycle

Told == Status \cup {"not found", "timeout"}
Watch ==
  [pc : {"idle", "open", "poll", "closed"}, insight : Insights, left : 0..StreamPolls,
   last : Status, told : Seq(Told)]

Ends(s) == s \in Terminal

-------------------------------------------------------------------------------
StreamInit ==
  /\ Row!Init
  /\ watch \in [Watchers -> [pc : {"idle"}, insight : Insights, left : {StreamPolls},
                             last : {"none"}, told : {<<>>}]]

(* The plain request: the row as it is, or 404.                            *)
Answer(i) == IF status[i] = "none" THEN "not found" ELSE status[i]

Fetch(w) ==
  /\ watch[w].pc \in {"idle", "closed"}
  /\ Len(watch[w].told) <= StreamPolls + 2  \* bound of the model
  /\ watch' = [watch EXCEPT ![w].told = Append(@, Answer(watch[w].insight))]
  /\ UNCHANGED <<status, retry>>

(* The row is looked up before the response begins, so that a missing one  *)
(* is a 404 and not a broken stream.                                       *)
OpenStream(w) ==
  /\ watch[w].pc = "idle"
  /\ watch' =
       IF status[watch[w].insight] = "none"
       THEN [watch EXCEPT ![w].pc = "closed", ![w].told = Append(@, "not found")]
       ELSE [watch EXCEPT ![w].pc = "open"]
  /\ UNCHANGED <<status, retry>>

(* The first read is sent whatever it says.                                *)
FirstRead(w) ==
  LET s == status[watch[w].insight]
  IN  /\ watch[w].pc = "open"
      /\ watch' = [watch EXCEPT ![w].pc = IF Ends(s) THEN "closed" ELSE "poll",
                                ![w].last = s,
                                ![w].told = Append(@, s)]
      /\ UNCHANGED <<status, retry>>

(* A read that found s: what it adds is sent, and the stream ends or not.  *)
Read(w, s, news, closes) ==
  watch' = [watch EXCEPT ![w].pc = IF closes THEN "closed" ELSE "poll",
                         ![w].left = @ - 1,
                         ![w].last = s,
                         ![w].told = @ \o news]

News(w, s) == IF s = watch[w].last THEN <<>> ELSE <<s>>

(* Mutant: the last read only tells whether the time is up.                *)
StreamReadCountingFirst(w) ==
  LET s == status[watch[w].insight]
      last == watch[w].left = 1
  IN  /\ watch[w].pc = "poll"
      /\ Read(w, s, IF last THEN <<"timeout">> ELSE News(w, s), last \/ Ends(s))
      /\ UNCHANGED <<status, retry>>

(* One read: a status that has changed is sent, and a terminal one ends    *)
(* the stream; if the last read finds none, the timeout follows at once.   *)
StreamRead(w) ==
  LET s == status[watch[w].insight]
      timeout == watch[w].left = 1 /\ ~Ends(s)
  IN  /\ watch[w].pc = "poll"
      /\ Read(w, s, News(w, s) \o (IF timeout THEN <<"timeout">> ELSE <<>>),
              Ends(s) \/ timeout)
      /\ UNCHANGED <<status, retry>>

(* The page is left: the generator is cancelled where it waits.            *)
LeavePage(w) ==
  /\ watch[w].pc \in {"open", "poll"}
  /\ watch' = [watch EXCEPT ![w].pc = "closed"]
  /\ UNCHANGED <<status, retry>>

Watching(w) == Fetch(w) \/ OpenStream(w) \/ FirstRead(w) \/ StreamRead(w) \/ LeavePage(w)

StreamNext ==
  \/ Row!Next /\ UNCHANGED watch
  \/ \E w \in Watchers : Watching(w)

StreamSpec == StreamInit /\ [][StreamNext]_streamVars

-------------------------------------------------------------------------------
StreamTypeOK ==
  /\ status \in [Insights -> Status]
  /\ retry \in [Insights -> 0..MaxReaps]
  /\ watch \in [Watchers -> Watch]

(* A browser that listens, times out and asks again is never told of an    *)
(* end that is not the row's, of anything else once it was told the end,   *)
(* or that an insight it has seen is not there; and a stream that gave up  *)
(* had, at its last read, not seen the end.                                *)
StreamTellsTheTruth ==
  \A w \in Watchers :
    LET told == watch[w].told
    IN  /\ \A k \in DOMAIN told : Ends(told[k]) =>
             /\ status[watch[w].insight] = told[k]
             /\ \A l \in k..Len(told) : told[l] = told[k]
        /\ \A k \in DOMAIN told : told[k] = "not found" =>
             \A l \in 1..k : told[l] = "not found"
        /\ (\E k \in DOMAIN told : told[k] = "timeout") => ~Ends(watch[w].last)

===============================================================================
