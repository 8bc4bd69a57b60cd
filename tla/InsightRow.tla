------------------------------- MODULE InsightRow -------------------------------
(***************************************************************************)
(* The columns of `insights` that everybody who touches a row of it goes   *)
(* by: the API that requests it, the workers, the reaper, and the pages    *)
(* that follow it.                                                         *)
(***************************************************************************)
EXTENDS Naturals

CONSTANTS
  Insights,   \* insight rows that may be requested
  MaxReaps    \* reaper_max_retries: requeues before an insight is failed

VARIABLES
  status,     \* insights.status; "none" while the row does not exist
  retry       \* insights.retry_count

Status == {"none", "queued", "processing", "completed", "failed"}
Terminal == {"completed", "failed"}

===============================================================================
