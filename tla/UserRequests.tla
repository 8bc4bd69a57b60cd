------------------------------ MODULE UserRequests ------------------------------
(***************************************************************************)
(* The requests of a user that end in the database: those about the        *)
(* account and its sessions, and those about transactions and categories.  *)
(* They share no rows: a behaviour takes the steps of one of the two,      *)
(* chosen at the start.                                                    *)
(***************************************************************************)
EXTENDS AccountSessions, ExpenseBook

VARIABLE part  \* bound of the model: whose steps are taken

requestVars == <<part, accountVars, vars>>

RequestsInit ==
  /\ part \in {"accounts", "expenses"}
  /\ AccountsInit
  /\ Init
  /\ part = "accounts" => workload = CHOOSE w \in Workloads : TRUE

RequestsNext ==
  /\ UNCHANGED part
  /\ \/ part = "accounts" /\ AccountsNext /\ UNCHANGED vars
     \/ part = "expenses" /\ Next /\ UNCHANGED accountVars

RequestsSpec == RequestsInit /\ [][RequestsNext]_requestVars

===============================================================================
