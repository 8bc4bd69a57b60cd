----------------------------- MODULE MonthlyFigures -----------------------------
(***************************************************************************)
(* What a month of transactions adds up to, and what counts as a shift of  *)
(* behaviour against the months before: the monthly aggregator, the shift  *)
(* detector and the alert threshold, as pure functions.                    *)
(*                                                                         *)
(* A transaction is a record [month, currency, category, amount]; income   *)
(* has the category Income, an expense without a label is in no category.  *)
(* Quotients are compared by multiplying out, where the code rounds to     *)
(* floats.  Only shifts of high severity are worked out: no other becomes  *)
(* an alert.  At most five categories (the top ones) are assumed.          *)
(***************************************************************************)
EXTENDS Integers, FiniteSets, FiniteSetsExt, Sequences

CONSTANTS
  Order,       \* currency codes, in alphabetical order
  Categories,  \* category labels of expenses
  Income,      \* stands in for one on income
  MinChange    \* _MIN_AMOUNTS of each currency

ASSUME FiguresAssumption == Income \notin Categories

Currencies == {Order[i] : i \in DOMAIN Order}

Total(txs) == MapThenSumSet(LAMBDA t : t.amount, txs)

(* aggregate: the totals of one currency ...                               *)
Aggregation(txs) ==
  LET spent == {t \in txs : t.category # Income}
  IN  [income     |-> Total(txs \ spent),
       expenses   |-> Total(spent),
       categories |-> [c \in {t.category : t \in spent} \cap Categories |->
                         Total({t \in spent : t.category = c})]]

(* ... for each currency of the rows, by the place of its code.            *)
Aggregate(txs) ==
  [i \in {j \in DOMAIN Order : \E t \in txs : t.currency = Order[j]} |->
     [currency |-> Order[i],
      figures  |-> Aggregation({t \in txs : t.currency = Order[i]})]]

(* savings_rate, as a fraction: of an income of nothing, nothing is saved. *)
RateOver(agg) == IF agg.income > 0 THEN agg.income ELSE 1
RateOf(agg) == IF agg.income > 0 THEN agg.income - agg.expenses ELSE 0

(* avg_income and avg_expenses, times the number of months.                *)
Usual(field, history) == MapThenSumSet(LAMBDA h : h.figures[field], history)

(* income_delta < -0.20                                                    *)
IncomeDrop(agg, history) ==
  LET n == Cardinality(history)
      usual == Usual("income", history)
  IN  /\ usual > 0
      /\ 5 * n * agg.income < 4 * usual

(* expense_delta > 0.30                                                    *)
ExpenseSpike(agg, history) ==
  LET n == Cardinality(history)
      usual == Usual("expenses", history)
  IN  /\ usual > 0
      /\ 10 * n * agg.expenses > 13 * usual

(* avg_savings_rate - savings_rate, over the product of all denominators.  *)
RateDenominator(agg, history) ==
  RateOver(agg) * FoldSet(LAMBDA h, p : p * RateOver(h.figures), 1, history)
RateDrop(agg, history) ==
  LET n == Cardinality(history)
      d == RateDenominator(agg, history)
  IN  MapThenSumSet(LAMBDA h : (d \div RateOver(h.figures)) * RateOf(h.figures), history)
        - n * (d \div RateOver(agg)) * RateOf(agg)

(* savings_delta > 0.15                                                    *)
SavingsCollapse(agg, history) ==
  100 * RateDrop(agg, history) > 15 * Cardinality(history) * RateDenominator(agg, history)

(* cat_delta > 0.40, against the months the category appears in.           *)
Appearances(c, history) == {h \in history : c \in DOMAIN h.figures.categories}
SpentOn(c, history) == MapThenSumSet(LAMBDA h : h.figures.categories[c], history)
CategorySpike(agg, history, c) ==
  LET n == Cardinality(Appearances(c, history))
      usual == SpentOn(c, Appearances(c, history))
  IN  /\ c \in DOMAIN agg.categories
      /\ usual > 0
      /\ 10 * n * agg.categories[c] > 14 * usual

(* is_alertworthy: the change, times over, reaches times the minimum, or   *)
(* there is no amount to it.                                               *)
Worth(change, times, currency) ==
  change = 0 \/ change >= times * MinChange[currency] \/ -change >= times * MinChange[currency]

(* BehavioralShiftDetector.detect, then the threshold: the subtypes of the *)
(* alerts to be written.                                                   *)
Shifts(agg, currency, history) ==
  LET n == Cardinality(history)
      income == Usual("income", history)
      expenses == Usual("expenses", history)
      Category(c) == Appearances(c, history)
  IN  IF n < 2 THEN {}
      ELSE {s \in {"income_drop"} : IncomeDrop(agg, history)
                                      /\ Worth(n * agg.income - income, n, currency)}
        \cup {s \in {"expense_spike"} : ExpenseSpike(agg, history)
                                      /\ Worth(n * agg.expenses - expenses, n, currency)}
        \cup {s \in {"savings_collapse"} : SavingsCollapse(agg, history)
               /\ Worth(RateDrop(agg, history) * expenses,
                        n * n * RateDenominator(agg, history), currency)}
        \cup {c \in Categories : CategorySpike(agg, history, c)
               /\ Worth(Cardinality(Category(c)) * agg.categories[c] - SpentOn(c, Category(c)),
                        Cardinality(Category(c)), currency)}

(* DetectShiftAlertsUseCase: the first currency of the month, against the  *)
(* same currency in its history; the history must have two aggregations,   *)
(* of whatever currency.  history has a set of rows for each month.        *)
Detected(txs, history) ==
  LET current == Aggregate(txs)
      earlier(m) == LET aggs == Aggregate(history[m])
                    IN  {[month |-> m, currency |-> aggs[i].currency,
                          figures |-> aggs[i].figures] : i \in DOMAIN aggs}
      all == UNION {earlier(m) : m \in DOMAIN history}
      first == current[Min(DOMAIN current)]
  IN  IF txs = {} \/ Cardinality(all) < 2 THEN {}
      ELSE Shifts(first.figures, first.currency, {h \in all : h.currency = first.currency})

===============================================================================
