---------------------------- MODULE WatchedPipeline ----------------------------
(***************************************************************************)
(* Insights as they are asked for, produced and followed, all at once: the *)
(* pipeline, with its workers, outbox, Kafka and reaper, and the pages     *)
(* that watch its rows.  A watcher reads `insights` in transactions of its *)
(* own between any two steps of a worker and writes nothing.               *)
(***************************************************************************)
EXTENDS InsightPipeline, InsightStream

watchedVars == <<vars, watch>>

WatchedInit == Init /\ StreamInit

WatchedNext ==
  \/ Next /\ UNCHANGED watch
  \/ \E w \in Watchers : Watching(w) /\ UNCHANGED vars

WatchedSpec == WatchedInit /\ [][WatchedNext]_watchedVars

-------------------------------------------------------------------------------
(* The pages cannot tell the pipeline from the status graph of             *)
(* InsightLifecycle: whatever crashes, is redelivered or requeued, they    *)
(* read a row that takes the steps InsightStream supposes, so that what it *)
(* says of an end (StreamTellsTheTruth) is final here, too.                *)
ImplementsStream == StreamSpec

===============================================================================
