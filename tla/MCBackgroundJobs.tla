---------------------------- MODULE MCBackgroundJobs ----------------------------
(* The pollers have no definitions of their own for TLC; the rules are     *)
(* those of MCRecurringFire.                                               *)
EXTENDS BackgroundJobs, MCRecurringFire

===============================================================================
