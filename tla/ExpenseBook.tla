------------------------------ MODULE ExpenseBook ------------------------------
(***************************************************************************)
(* The transactions and categories of one user: the create, update, delete *)
(* and list requests, each a database transaction of its own that commits  *)
(* when the request ends, running side by side (two devices, a double tap, *)
(* an app that syncs while the web page is open).                          *)
(*                                                                         *)
(* A request reads committed rows, decides in memory, and writes at its    *)
(* commit; no row is locked between the two.  Row ids are given out in the *)
(* order of created_at.                                                    *)
(***************************************************************************)
EXTENDS Naturals, FiniteSets, Sequences

CONSTANTS
  Clients,       \* requests that can be under way at the same time
  Workloads,     \* what is asked of the program: one is picked at the start
  Quota,         \* _PLAN_LIMITS: transactions a month
  Days,          \* dates of transactions
  Digits,        \* minor_unit_digits of each currency
  Amounts,       \* decimal places of the amounts
  PageSize,      \* the limit of the list request
  Names,         \* category names
  MaxRows,       \* bound of the model: transactions created
  MaxCategories, \* bound of the model: categories created
  MaxMonth,      \* bound of the model: the last month
  NoRow          \* no transaction

Currencies == DOMAIN Digits
Kinds == {"draft", "create", "update", "delete", "list", "category"}

(* UUIDv7s: numbers in the order of their creation.                        *)
Ids == 1..MaxRows
Row == [month : 0..MaxMonth, day : Days, places : Amounts, currency : Currencies,
        category : 0..MaxCategories]

ASSUME ConstantsAssumption ==
  /\ IsFiniteSet(Clients) /\ NoRow \notin Row
  /\ Workloads \subseteq
       [sends : [Clients -> SUBSET Kinds], rows : SUBSET Row, months : 0..MaxMonth]
  /\ {Quota, PageSize} \subseteq Nat \ {0}
  /\ Days \subseteq Nat /\ Amounts \subseteq Nat
  /\ Digits \in [Currencies -> Nat]
  /\ {MaxRows, MaxCategories, MaxMonth} \subseteq Nat

VARIABLES
  month,       \* the month it is
  rows,        \* committed transactions; NoRow where there is none
  issued,      \* row ids given out
  categories,  \* committed categories, in the order of their creation
  client,      \* the request of each client
  walk,        \* one client reading the list page by page
  mixed,       \* rows that two overlapping updates have read
  workload     \* the requests each client sends, the rows they write and the
               \* months they take: a bound of the model

vars == <<month, rows, issued, categories, client, walk, mixed, workload>>

(* A category; its parent is 0 for a group.                                *)
Category == [name : Names, parent : 0..MaxCategories, type : {"expense", "income"}]
IsGroup(k) == categories[k].parent = 0

(* Money.__post_init__: no more decimal places than the currency has.      *)
Fits(places, currency) == places <= Digits[currency]

(* A row becomes a Money whenever it is loaded: one that does not fit      *)
(* raises in every request that meets it.                                  *)
Readable(row) == Fits(row.places, row.currency)

Live == {i \in Ids : rows[i] # NoRow}

Columns == {"month", "day", "places", "currency", "category"}
Cells == Days \cup Amounts \cup (0..MaxCategories) \cup Currencies

Idle == [pc |-> "idle"]
Request ==
  {Idle} \cup [pc : {"draft"}, places : Amounts, currency : Currencies,
                 category : 0..MaxCategories]
         \cup [pc : {"insert"}, id : Ids, row : Row]
         \cup [pc : {"patch"}, id : Ids, change : UNION {[S -> Cells] : S \in SUBSET Columns}]
         \cup [pc : {"drop"}, id : Ids]
         \cup [pc : {"flush"}, category : Category]

(* The cursor <<date, id>> of the last row listed, and the history of the  *)
(* walk: what it has shown, what it has shown twice, and which rows have   *)
(* been there, under the same date, ever since it began.                   *)
Walk ==
  [pc : {"idle", "next", "done"}, cursor : {<<>>} \cup (Days \X Ids),
   seen : SUBSET Ids, twice : SUBSET Ids, stayed : SUBSET Ids]
NoWalk == [pc |-> "idle", cursor |-> <<>>, seen |-> {}, twice |-> {}, stayed |-> {}]

Init ==
  /\ month = 0
  /\ rows = [i \in Ids |-> NoRow]
  /\ issued = 0
  /\ categories = <<>>
  /\ client = [c \in Clients |-> Idle]
  /\ walk = NoWalk
  /\ mixed = {}
  /\ workload \in Workloads

NextMonth ==
  /\ month < workload.months
  /\ month' = month + 1
  /\ UNCHANGED <<rows, issued, categories, client, walk, mixed, workload>>

Sends(c, kind) == client[c].pc = "idle" /\ kind \in workload.sends[c]

-------------------------------------------------------------------------------
(* Mutant: the month is counted by the date of the transaction, as         *)
(* count_created_in_month does, and a back-dated one counts for nothing.   *)
CountByDate == Cardinality({i \in Live : rows[i].day = month})

(* _count: the committed rows created in the current month.                *)
Count == Cardinality({i \in Live : rows[i].month = month})

(* The categories a transaction may be filed under; 0 is none.             *)
Assignable == {0} \cup {k \in DOMAIN categories : ~IsGroup(k)}

Drafts(c, categorySet) ==
  \E row \in workload.rows, k \in categorySet :
    client' = [client EXCEPT ![c] =
      [pc |-> "draft", places |-> row.places, currency |-> row.currency, category |-> k]]

(* A text is read by the AI provider against the leaves: whatever amount   *)
(* it makes out, the draft suggests the leaf it named, or none.            *)
ParseText(c) ==
  /\ Sends(c, "draft")
  /\ \E name \in Names :
       LET named == {k \in DOMAIN categories : ~IsGroup(k) /\ categories[k].name = name}
       IN  Drafts(c, IF named = {} THEN {0} ELSE named)
  /\ UNCHANGED <<month, rows, issued, categories, walk, mixed, workload>>

(* The image of a receipt: the draft has an amount and a currency, which   *)
(* are not held against each other, and no category of the user's.         *)
ParseReceipt(c) ==
  /\ Sends(c, "draft")
  /\ Drafts(c, {0})
  /\ UNCHANGED <<month, rows, issued, categories, walk, mixed, workload>>

(* A draft is filed as it stands.                                          *)
FiledAs(c, row, category) ==
  client[c].pc = "draft" =>
    /\ <<row.places, row.currency>> = <<client[c].places, client[c].currency>>
    /\ category = client[c].category

CreateCheck(c) ==
  /\ Sends(c, "create") \/ client[c].pc = "draft"
  /\ Count < Quota
  /\ issued < MaxRows
  /\ \E row \in workload.rows, category \in Assignable :
       /\ FiledAs(c, row, category)
       /\ Readable(row)
       /\ client' = [client EXCEPT ![c] =
            [pc |-> "insert", id |-> issued + 1,
             row |-> [row EXCEPT !.month = month, !.category = category]]]
  /\ issued' = issued + 1
  /\ UNCHANGED <<month, rows, categories, walk, mixed, workload>>

(* created_at is taken some time after the quota was checked.              *)
Insert(c) ==
  /\ client[c].pc = "insert"
  /\ \E created \in client[c].row.month..month :
       rows' = [rows EXCEPT ![client[c].id] = [client[c].row EXCEPT !.month = created]]
  /\ client' = [client EXCEPT ![c] = Idle]
  /\ UNCHANGED <<month, issued, categories, walk, mixed, workload>>

-------------------------------------------------------------------------------
(* Mutant: an amount already in the book is not held against its new       *)
(* currency.                                                               *)
AcceptsUnchecked(read, new) == new.places # read.places => Readable(new)

(* A PATCH may leave any field as it is; amount and currency are checked   *)
(* together.                                                               *)
Accepts(read, new) == Readable(new)

Changes(read, new) == [n \in {m \in Columns : new[m] # read[m]} |-> new[n]]

UpdateRead(c, i) ==
  /\ Sends(c, "update")
  /\ i \in Live /\ Readable(rows[i])
  /\ \E row \in workload.rows, category \in Assignable \cup {rows[i].category} :
       LET new == [row EXCEPT !.month = rows[i].month, !.category = category]
       IN  /\ Accepts(rows[i], new)
           /\ client' = [client EXCEPT ![c] =
                [pc |-> "patch", id |-> i, change |-> Changes(rows[i], new)]]
  /\ mixed' = IF \E d \in Clients : client[d].pc = "patch" /\ client[d].id = i
              THEN mixed \cup {i} ELSE mixed
  /\ UNCHANGED <<month, rows, issued, categories, walk, workload>>

(* The UPDATE carries the columns that differ from the row as it was read. *)
Patched(row, change) ==
  [n \in Columns |-> IF n \in DOMAIN change THEN change[n] ELSE row[n]]

Update(c) ==
  LET i == client[c].id
      change == client[c].change
  IN  /\ client[c].pc = "patch"
      /\ i \in Live
      /\ rows' = [rows EXCEPT ![i] = Patched(@, change)]
      /\ walk' = IF "day" \in DOMAIN change
                 THEN [walk EXCEPT !.stayed = @ \ {i}] ELSE walk
      /\ client' = [client EXCEPT ![c] = Idle]
      /\ UNCHANGED <<month, issued, categories, mixed, workload>>

(* get_by_id, and then the DELETE, which may find nothing left to delete.  *)
DeleteRead(c, i) ==
  /\ Sends(c, "delete")
  /\ i \in Live /\ Readable(rows[i])
  /\ client' = [client EXCEPT ![c] = [pc |-> "drop", id |-> i]]
  /\ UNCHANGED <<month, rows, issued, categories, walk, mixed, workload>>

Delete(c) ==
  /\ client[c].pc = "drop"
  /\ rows' = [rows EXCEPT ![client[c].id] = NoRow]
  /\ walk' = [walk EXCEPT !.stayed = @ \ {client[c].id}]
  /\ client' = [client EXCEPT ![c] = Idle]
  /\ UNCHANGED <<month, issued, categories, mixed, workload>>

-------------------------------------------------------------------------------
(* CreateCategoryUseCase: the parent must be a group of the same type.     *)
MayBeUnder(parent, type) ==
  /\ parent \in DOMAIN categories
  /\ IsGroup(parent)
  /\ categories[parent].type = type

NameIsNew(name) == \A k \in DOMAIN categories : categories[k].name # name

(* The name is looked up before the insert ...                             *)
CategoryCheck(c) ==
  /\ Sends(c, "category")
  /\ Len(categories) < MaxCategories
  /\ \E new \in Category :
       /\ new.parent # 0 => MayBeUnder(new.parent, new.type)
       /\ NameIsNew(new.name)
       /\ client' = [client EXCEPT ![c] = [pc |-> "flush", category |-> new]]
  /\ UNCHANGED <<month, rows, issued, categories, walk, mixed, workload>>

(* Mutant: no unique index stands behind the check of the name.            *)
CategoryFlushUnchecked(c) ==
  /\ client[c].pc = "flush"
  /\ Len(categories) < MaxCategories
  /\ categories' = Append(categories, client[c].category)
  /\ client' = [client EXCEPT ![c] = Idle]
  /\ UNCHANGED <<month, rows, issued, walk, mixed, workload>>

(* ... and the unique index on <<user_id, name>> decides at the flush.     *)
CategoryFlush(c) ==
  /\ client[c].pc = "flush"
  /\ Len(categories) < MaxCategories
  /\ NameIsNew(client[c].category.name)
  /\ categories' = Append(categories, client[c].category)
  /\ client' = [client EXCEPT ![c] = Idle]
  /\ UNCHANGED <<month, rows, issued, walk, mixed, workload>>

(* The request fails and is rolled back: a call fails, the process dies,   *)
(* the UPDATE finds its row gone (StaleDataError), the name is taken, a    *)
(* draft is thrown away.                                                   *)
Rollback(c) ==
  /\ client[c].pc # "idle"
  /\ client' = [client EXCEPT ![c] = Idle]
  /\ UNCHANGED <<month, rows, issued, categories, walk, mixed, workload>>

-------------------------------------------------------------------------------
WalkBegins ==
  /\ walk.pc # "next"
  /\ \E c \in Clients : "list" \in workload.sends[c]
  /\ walk' = [NoWalk EXCEPT !.pc = "next", !.stayed = Live]
  /\ UNCHANGED <<month, rows, issued, categories, client, mixed, workload>>

(* Mutant: the cursor is the date alone.                                   *)
BehindTheDate(i, cursor) == cursor = <<>> \/ rows[i].day < cursor[1]

(* ORDER BY date DESC, created_at DESC, id DESC, after the cursor.         *)
Behind(i, cursor) ==
  \/ cursor = <<>>
  \/ rows[i].day < cursor[1]
  \/ rows[i].day = cursor[1] /\ i < cursor[2]

Before(i, k) == rows[i].day > rows[k].day \/ (rows[i].day = rows[k].day /\ i > k)

(* The next page: its rows have fewer than PageSize of the rest before     *)
(* them.  A full page has a next_cursor, a shorter one ends the walk, and  *)
(* a row that can not be loaded fails the request.                         *)
WalkPage ==
  LET rest == {i \in Live : Behind(i, walk.cursor)}
      page == {i \in rest : Cardinality({k \in rest : Before(k, i)}) < PageSize}
      full == Cardinality(page) = PageSize
  IN  /\ walk.pc = "next"
      /\ walk' =
           IF \E i \in page : ~Readable(rows[i]) THEN NoWalk
           ELSE [walk EXCEPT
                   !.pc = IF full THEN "next" ELSE "done",
                   !.cursor = IF full
                              THEN LET last == CHOOSE i \in page :
                                                 \A k \in page \ {i} : Before(k, i)
                                   IN  <<rows[last].day, last>>
                              ELSE @,
                   !.twice = @ \cup (page \cap walk.seen),
                   !.seen = @ \cup page]
      /\ UNCHANGED <<month, rows, issued, categories, client, mixed, workload>>

Step(c) ==
  \/ ParseText(c) \/ ParseReceipt(c)
  \/ CreateCheck(c) \/ Insert(c) \/ Update(c) \/ Delete(c)
  \/ CategoryCheck(c) \/ CategoryFlush(c) \/ Rollback(c)
  \/ \E i \in Ids : UpdateRead(c, i) \/ DeleteRead(c, i)

Next == NextMonth \/ WalkBegins \/ WalkPage \/ \E c \in Clients : Step(c)

Spec == Init /\ [][Next]_vars

-------------------------------------------------------------------------------
TypeOK ==
  /\ month \in 0..MaxMonth
  /\ rows \in [Ids -> Row \cup {NoRow}]
  /\ issued \in 0..MaxRows
  /\ categories \in Seq(Category) /\ Len(categories) <= MaxCategories
  /\ client \in [Clients -> Request]
  /\ walk \in Walk
  /\ mixed \subseteq Ids
  /\ workload \in Workloads

(* The quota is checked against committed rows and nothing is reserved: it *)
(* is overshot, but never by more than the requests that ran side by side, *)
(* whatever is deleted or the month does between a check and its insert.   *)
QuotaOvershootIsBounded ==
  \A m \in 0..MaxMonth :
    Cardinality({i \in Live : rows[i].month = m}) < Quota + Cardinality(Clients)

(* Amount and currency are two columns and one value.  A row that does not *)
(* fit raises in every list, search, update and delete that meets it, so   *)
(* its owner could neither see the page it is on nor get rid of it.  Only  *)
(* two updates of the row that overlapped can write one: each UPDATE       *)
(* carries the column it changed, checked against the other as it was.     *)
AmountsFitTheirCurrency ==
  \A i \in Live \ mixed : Readable(rows[i])

(* Whatever is added, deleted or moved to another date meanwhile, paging   *)
(* through the list shows every row that stayed where it was, once.        *)
PagingSeesEveryRow ==
  /\ walk.pc = "done" => walk.stayed \subseteq walk.seen
  /\ walk.twice \cap walk.stayed = {}

(* Categories stay two levels deep, each leaf of the type of its group and *)
(* no name twice, transactions are filed under leaves only, and a draft    *)
(* suggests what it can be filed under, with requests racing each other    *)
(* from check to insert.                                                   *)
CategoriesStayTwoLevels ==
  /\ \A k \in DOMAIN categories : ~IsGroup(k) =>
       /\ IsGroup(categories[k].parent)
       /\ categories[categories[k].parent].type = categories[k].type
  /\ \A k, l \in DOMAIN categories : categories[k].name = categories[l].name => k = l
  /\ \A i \in Live : rows[i].category # 0 => ~IsGroup(rows[i].category)
  /\ \A c \in Clients : client[c].pc = "draft" => client[c].category \in Assignable

===============================================================================
