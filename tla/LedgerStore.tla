---------------------------- MODULE LedgerStore ----------------------------
(***************************************************************************)
(* The two tables behind fixed expenses, as operators on values:           *)
(* RecurringExpense (templates) and Expense (rows), with the constraints   *)
(* PostgreSQL enforces on them (schema.prisma) and the queries the ledger  *)
(* API answers (expense.service.ts, recurring.service.ts).                 *)
(*                                                                         *)
(* A month is a number; a table maps an id to its row, or to None. A       *)
(* template keeps its last month instead of its length: the client turns   *)
(* one into the other (endMonthOf, termMonthsFromEnd) and a template       *)
(* without a length ends at Forever. Amounts, items, categories and the    *)
(* day within the month are left out.                                      *)
(***************************************************************************)
EXTENDS Integers, FiniteSets, Functions

CONSTANTS
    None,         \* null
    Templates,    \* ids of RecurringExpense rows
    Expenses,     \* ids of Expense rows
    LastMonth     \* the last month of the model

Months == 1..LastMonth
Forever == LastMonth + 1
Ends == 1..Forever

TemplateRow == [start: Months, end: Ends, active: BOOLEAN]

(* month is the month of the column "date".                                *)
ExpenseRow ==
    [month: Months, template: Templates \cup {None},
     period: Months \cup {None}, removed: BOOLEAN]

ASSUME StoreAssumption ==
    /\ None \notin Templates \cup Expenses \cup Months
    /\ None \notin TemplateRow \cup ExpenseRow
    /\ LastMonth \in Nat \ {0}

Absent(table, id) == table[id] = None
Present(table) == {id \in DOMAIN table : table[id] # None}

-----------------------------------------------------------------------------
(* What the ledger shows and what it must not show twice.                  *)

Visible(expenses) == {e \in Present(expenses) : ~expenses[e].removed}

(* GET /expenses?month= *)
ListByMonth(expenses, m) == {e \in Visible(expenses) : expenses[e].month = m}

(* Mutant: a removed row gives its slot back. *)
ListMonthSlotsShown(expenses, m) ==
    {expenses[e].template :
        e \in {x \in Visible(expenses) : /\ expenses[x].period = m
                                         /\ expenses[x].template # None}}

(* GET /expenses/slots?month=: removed rows hold their slot too.           *)
ListMonthSlots(expenses, m) ==
    {expenses[e].template :
        e \in {x \in Present(expenses) : /\ expenses[x].period = m
                                         /\ expenses[x].template # None}}

(* GET /expenses/instances?recurringId=&fromPeriod= *)
ListInstancesAfter(expenses, t, m) ==
    {e \in Visible(expenses) : /\ expenses[e].template = t
                               /\ expenses[e].period # None
                               /\ expenses[e].period > m}

(* GET /recurring, reduced to the templates that charge month m.           *)
InTerm(row, m) == row.start <= m /\ m <= row.end
ListDue(templates, m) ==
    {t \in Present(templates) : templates[t].active /\ InTerm(templates[t], m)}

-----------------------------------------------------------------------------
(* Constraints.                                                            *)

(* Mutant: uniqueness among visible rows only. *)
SlotTakenVisibly(expenses, t, m, except) ==
    /\ t # None
    /\ m # None
    /\ \E e \in Visible(expenses) \ except :
           expenses[e].template = t /\ expenses[e].period = m

(* Mutant: no unique key. *)
SlotNeverTaken(expenses, t, m, except) == FALSE

(* @@unique([recurringId, period]): nulls are distinct.                    *)
SlotTaken(expenses, t, m, except) ==
    /\ t # None
    /\ m # None
    /\ \E e \in Present(expenses) \ except :
           expenses[e].template = t /\ expenses[e].period = m

(* The foreign key Expense.recurringId.                                    *)
Refers(templates, t) == t = None \/ ~Absent(templates, t)

-----------------------------------------------------------------------------
(* PATCH /expenses/:id. A field of the patch that the client did not send  *)
(* is None.                                                                *)

Patch ==
    [month: Months \cup {None}, template: Templates \cup {None},
     period: Months \cup {None}, removed: BOOLEAN]

Sent(value, column) == IF value # None THEN value ELSE column

(* The checks of update() against the row it read.                         *)
Acceptable(row, patch) ==
    LET period == Sent(patch.period, row.period)
    IN  /\ Sent(patch.template, row.template) # None => period # None
        /\ patch.month # None /\ period # None => patch.month = period

(* The row after the write; the client sends "removed" only as true.       *)
Patched(row, patch) ==
    [month |-> Sent(patch.month, row.month),
     template |-> Sent(patch.template, row.template),
     period |-> Sent(patch.period, row.period),
     removed |-> patch.removed \/ row.removed]

(* What the database refuses of that write: a taken slot, a missing        *)
(* template.                                                               *)
Refused(templates, expenses, e, patch) ==
    LET row == Patched(expenses[e], patch)
    IN  \/ SlotTaken(expenses, row.template, row.period, {e})
        \/ ~Refers(templates, row.template)

(* DELETE /recurring/:id takes the instances with it (onDelete: Cascade).  *)
Cascade(expenses, t) ==
    [e \in DOMAIN expenses |->
        IF expenses[e] # None /\ expenses[e].template = t
        THEN None ELSE expenses[e]]
=============================================================================
