--------------------------- MODULE MCInsightPipeline ---------------------------
(***************************************************************************)
(* Instances of InsightPipeline for TLC.                                   *)
(***************************************************************************)
EXTENDS InsightPipeline, TLC

Symmetry == Permutations(Workers)

===============================================================================
