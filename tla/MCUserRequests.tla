----------------------------- MODULE MCUserRequests -----------------------------
(* Four requests about one account; and for transactions and categories    *)
(* workloads for each of the questions: the quota, amounts and currencies  *)
(* (with a list that meets a row that does not fit), paging, categories.   *)
EXTENDS UserRequests, TLC

CONSTANTS c1, c2, usd, jpy

MCDigits == (usd :> 2) @@ (jpy :> 0)

RowsOf(days, amounts, currencies) ==
  [month : {0}, day : days, places : amounts, currency : currencies, category : {0}]

MCWorkloads ==
  {[sends |-> [c \in Clients |-> {"create", "delete"}],
    rows |-> RowsOf({0, 1}, {2}, {usd}), months |-> 1],
   [sends |-> [c \in Clients |-> IF c = c1 THEN {"draft", "create", "update"}
                                 ELSE {"update", "delete"}],
    rows |-> RowsOf({0}, {0, 2}, {usd, jpy}), months |-> 0],
   [sends |-> [c \in Clients |-> IF c = c1 THEN {"create", "update", "list"} ELSE {"update"}],
    rows |-> RowsOf({0}, {2}, {usd}) \cup RowsOf({0}, {0}, {jpy}), months |-> 0],
   [sends |-> [c \in Clients |-> IF c = c1 THEN {"create", "list"}
                                 ELSE {"create", "delete", "update"}],
    rows |-> RowsOf({0, 1}, {2}, {usd}), months |-> 0],
   [sends |-> [c \in Clients |-> IF c = c1 THEN {"category"} ELSE {"category", "draft", "create"}],
    rows |-> RowsOf({0}, {2}, {usd}), months |-> 0]}

===============================================================================
