----------------------------- MODULE CalendarDriven -----------------------------
(***************************************************************************)
(* The parts that go by the calendar: the alerts, with the scheduler's     *)
(* detection and purge; the figures of reports, chat and insights; the     *)
(* partitions of the audit table.  They share the arithmetic of months but *)
(* no state: interleaving them shows nothing, and a behaviour takes the    *)
(* steps of one part, chosen at the start.                                 *)
(***************************************************************************)
EXTENDS ShiftAlerts, SpendingReports, AuditPartitions

VARIABLE part  \* bound of the model: whose steps are taken

vars == <<part, alertVars, reportVars, auditVars>>

(* The histories differ for the alerts only.                               *)
Init ==
  /\ part \in {"alerts", "reports", "audit"}
  /\ AlertsInit
  /\ ReportsInit
  /\ AuditInit
  /\ part # "alerts" => ledger = CHOOSE h \in Histories : TRUE

Next ==
  /\ UNCHANGED part
  /\ \/ part = "alerts" /\ AlertsNext /\ UNCHANGED <<reportVars, auditVars>>
     \/ part = "reports" /\ ReportsNext /\ UNCHANGED <<alertVars, auditVars>>
     \/ part = "audit" /\ AuditNext /\ UNCHANGED <<alertVars, reportVars>>

Spec == Init /\ [][Next]_vars

===============================================================================
