---------------------------- MODULE MCRecurringFire ----------------------------
(* A monthly or yearly rule that works and a weekly one that always raises,*)
(* around the end of February 2024.                                        *)
EXTENDS RecurringFire

CONSTANTS r1, r2

MCOffers ==
  [r \in Rules |->
     IF r = r2 THEN {[kind |-> "weekly", day |-> 3]}
     ELSE {[kind |-> "monthly", day |-> 1], [kind |-> "monthly", day |-> 28],
           [kind |-> "yearly", day |-> 28, month |-> 2]}]

MCMaxEdits == [r \in Rules |-> IF r = r2 THEN 0 ELSE 1]

(* 28 February and 1 March 2024                                            *)
MCDays == {58, 60}

===============================================================================
