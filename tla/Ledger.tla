------------------------------- MODULE Ledger -------------------------------
(***************************************************************************)
(* Fixed expenses, as browser tabs keep them on the server: the server     *)
(* cannot read an amount, so the client creates the rows of a month from   *)
(* the templates (asset-recurring.ts), shows the month (asset/page.tsx)    *)
(* and carries a change of a template to its rows (ExpenseForm.tsx).       *)
(*                                                                         *)
(* A load of a month is a process of its own: it outlives the month the    *)
(* user looks at and the page itself. A save is a script of API calls; a   *)
(* PATCH reads its row and writes it later; calls sent together are        *)
(* answered in any order.                                                  *)
(***************************************************************************)
EXTENDS LedgerStore, Sequences

CONSTANTS
    Tabs,         \* browser tabs
    Loads,        \* loads that may be in flight at once
    Operations,   \* the saves a form may run, and "monthPasses"
    SinglesMax,   \* bound: rows without a template
    Overlapping,  \* may loads and saves begin, or a month turn, in a load?
    Failures      \* may a call fail, before or after it took effect?

ASSUME LedgerAssumption ==
    /\ None \notin Tabs \cup Loads
    /\ SinglesMax \in Nat
    /\ {Overlapping, Failures} \subseteq BOOLEAN

VARIABLES
    now,          \* currentMonth()
    templates,    \* table RecurringExpense
    expenses,     \* table Expense
    month,        \* the month a tab's page is on
    shown,        \* what the page shows
    loads,        \* load() calls in flight
    forms,        \* the form a tab has open
    requests,     \* PATCH and DELETE /expenses/:id in flight
    skipped       \* history: slots the user deleted for that month only

vars == <<now, templates, expenses, month, shown, loads, forms, requests,
          skipped>>

-----------------------------------------------------------------------------
(* Types.                                                                  *)

Row == [expense: Expenses, template: Templates \cup {None}]

Screen ==
    [status: {"away", "loading", "ready", "error"}, month: Months \cup {None},
     rows: SUBSET Row, projected: SUBSET Templates]

Blank(status) ==
    [status |-> status, month |-> None, rows |-> {}, projected |-> {}]

Reads == {"expenses", "templates", "slots"}

Load ==
    [at: {"free", "reading", "writing"}, tab: Tabs \cup {None},
     month: Months \cup {None},
     pending: SUBSET Reads,            \* reads not answered yet
     rows: SUBSET Row, due: SUBSET Templates,
     occupied: SUBSET (Templates \cup {None}),
     targets: SUBSET Templates,        \* instances still to be created
     stale: BOOLEAN,                   \* a later load of the page began
     silent: BOOLEAN]                  \* page gone, or error shown already

FreeLoad ==
    [at |-> "free", tab |-> None, month |-> None, pending |-> {}, rows |-> {},
     due |-> {}, occupied |-> {}, targets |-> {}, stale |-> FALSE,
     silent |-> FALSE]

NewLoad(tab, m) ==
    [FreeLoad EXCEPT !.at = "reading", !.tab = tab, !.month = m,
                     !.pending = Reads]

Kinds == {"single", "fixed", "move", "convert", "edit", "unfix", "refix",
          "deleteMonth", "deleteAll"}

Calls == {"createTemplate", "createExpense", "updateExpense",
          "deleteExpense", "updateTemplate", "listInstances",
          "deleteTemplate"}

(* expense to start: what the form was opened with (ExpenseFormInitial).   *)
Form ==
    [at: {"closed", "open", "saving"},
     expense: Expenses \cup {None}, template: Templates \cup {None},
     period: Months \cup {None}, month: Months \cup {None}, active: BOOLEAN,
     start: Months \cup {None},
     created: Templates \cup {None},   \* createdTemplateId
     made: Nat,                        \* history: templates it heard of
     kind: Kinds \cup {None},          \* what the user saves
     date: Months \cup {None}, end: Ends \cup {None},
     nowAt: Months \cup {None},        \* nowMonth of performSave()
     todo: Seq(Calls)]                 \* calls still to be sent

ClosedForm ==
    [at |-> "closed", expense |-> None, template |-> None, period |-> None,
     month |-> None, active |-> FALSE, start |-> None, created |-> None,
     made |-> 0, kind |-> None, date |-> None, end |-> None, nowAt |-> None,
     todo |-> <<>>]

Request ==
    [tab: Tabs, expense: Expenses, call: {"updateExpense", "deleteExpense"},
     patch: Patch, checked: BOOLEAN, awaited: BOOLEAN]

NoPatch ==
    [month |-> None, template |-> None, period |-> None, removed |-> FALSE]

-----------------------------------------------------------------------------
(* Ids are never reused (cuid): a fresh one is on no screen, in no form    *)
(* and in no load.                                                         *)

RowsInMemory ==
    UNION {loads[l].rows : l \in Loads} \cup UNION {shown[t].rows : t \in Tabs}

FreshExpense ==
    {e \in Expenses :
        /\ Absent(expenses, e)
        /\ \A row \in RowsInMemory : row.expense # e
        /\ \A tab \in Tabs : forms[tab].expense # e
        /\ \A q \in requests : q.expense # e}

FreshTemplate ==
    {t \in Templates :
        /\ Absent(templates, t)
        /\ \A row \in RowsInMemory : row.template # t
        /\ \A l \in Loads : t \notin loads[l].due \cup loads[l].occupied
        /\ \A tab \in Tabs : /\ t \notin shown[tab].projected
                             /\ t \notin {forms[tab].template, forms[tab].created}
        /\ \A q \in requests : q.patch.template # t
        /\ \A slot \in skipped : slot[1] # t}

-----------------------------------------------------------------------------
Init ==
    /\ now = 1
    /\ templates = [t \in Templates |-> None]
    /\ expenses = [e \in Expenses |-> None]
    /\ month = [tab \in Tabs |-> 1]
    /\ shown = [tab \in Tabs |-> Blank("away")]
    /\ loads = [l \in Loads |-> FreeLoad]
    /\ forms = [tab \in Tabs |-> ClosedForm]
    /\ requests = {}
    /\ skipped = {}

MayBegin == Overlapping \/ \A l \in Loads : loads[l].at = "free"

MonthPasses ==
    /\ "monthPasses" \in Operations
    /\ MayBegin
    /\ now < LastMonth
    /\ now' = now + 1
    /\ UNCHANGED <<templates, expenses, month, shown, loads, forms, requests,
                   skipped>>

-----------------------------------------------------------------------------
(* load() of asset/page.tsx.                                               *)

LoadsOf(tab) == {l \in Loads : loads[l].at # "free" /\ loads[l].tab = tab}

(* The page is on month m and starts a load, which the loads in "others"   *)
(* lose their place to (loadSeq).                                          *)
StartLoad(tab, m, others) ==
    \E l \in Loads :
        /\ loads[l].at = "free"
        /\ MayBegin
        /\ loads' = [k \in Loads |->
                        IF k = l THEN NewLoad(tab, m)
                        ELSE IF k \in others
                        THEN [loads[k] EXCEPT !.stale = TRUE]
                        ELSE loads[k]]
        /\ month' = [month EXCEPT ![tab] = m]
        /\ shown' = [shown EXCEPT ![tab] = Blank("loading")]

(* From another screen to the ledger.                                      *)
VisitLedger(tab) ==
    /\ shown[tab].status = "away"
    /\ forms[tab].at = "closed"
    /\ StartLoad(tab, now, {})
    /\ UNCHANGED <<now, templates, expenses, forms, requests, skipped>>

(* Mutant: a new load leaves its predecessors their place. *)
SelectMonthOnly(tab) ==
    /\ shown[tab].status # "away"
    /\ \E m \in Months \cap {month[tab] - 1, month[tab] + 1} :
           StartLoad(tab, m, {})
    /\ UNCHANGED <<now, templates, expenses, forms, requests, skipped>>

(* The arrows around the month.                                            *)
SelectMonth(tab) ==
    /\ shown[tab].status # "away"
    /\ \E m \in Months \cap {month[tab] - 1, month[tab] + 1} :
           StartLoad(tab, m, {l \in LoadsOf(tab) : ~loads[l].silent})
    /\ UNCHANGED <<now, templates, expenses, forms, requests, skipped>>

(* One of the reads of the Promise.all is answered.                        *)
Read(l, what) ==
    LET load == loads[l]
        row(e) == [expense |-> e, template |-> expenses[e].template]
        answer ==
            CASE what = "expenses" ->
                   [load EXCEPT !.rows = {row(e) : e \in
                                     ListByMonth(expenses, load.month)}]
              [] what = "templates" ->
                   [load EXCEPT !.due = ListDue(templates, load.month)]
              [] what = "slots" ->
                   [load EXCEPT !.occupied = ListMonthSlots(expenses, load.month)]
    IN  /\ load.at = "reading"
        /\ what \in load.pending
        /\ loads' = [loads EXCEPT ![l] = [answer EXCEPT !.pending = @ \ {what}]]
        /\ UNCHANGED <<now, templates, expenses, month, shown, forms, requests,
                       skipped>>

(* Mutant: the current month counts as a future one. *)
TargetsOfPast(load) ==
    IF load.month >= now THEN {} ELSE load.due \ load.occupied

(* materializeRecurring(): the instances to create, up to this month.      *)
Targets(load) ==
    IF load.month > now THEN {} ELSE load.due \ load.occupied

(* Mutant: taken slots are planned again. *)
ProjectedTwice(load) == IF load.month <= now THEN {} ELSE load.due

(* projectRecurring(): the instances a future month will have.             *)
Projected(load) ==
    IF load.month <= now THEN {} ELSE load.due \ load.occupied

(* All reads are in: isStale() stops the load, or one create is sent for  *)
(* each target.                                                            *)
Decide(l) ==
    LET load == loads[l]
    IN  /\ load.at = "reading"
        /\ load.pending = {}
        /\ loads' = [loads EXCEPT ![l] =
                        IF load.stale THEN FreeLoad
                        ELSE [load EXCEPT !.at = "writing",
                                          !.targets = Targets(load)]]
        /\ UNCHANGED <<now, templates, expenses, month, shown, forms, requests,
                       skipped>>

(* Mutant: months counted from 0, as Date does. *)
InstanceFromZero(t, m) ==
    [month |-> m, template |-> t, period |-> m - 1, removed |-> FALSE]

Instance(t, m) ==
    [month |-> m, template |-> t, period |-> m, removed |-> FALSE]

Creatable(l, t) ==
    /\ Refers(templates, t)
    /\ ~SlotTaken(expenses, t, loads[l].month, {})

Stored(l, t, e) ==
    expenses' = [expenses EXCEPT ![e] = Instance(t, loads[l].month)]

Created(l, t, e) ==
    /\ Stored(l, t, e)
    /\ loads' = [loads EXCEPT
                    ![l].targets = @ \ {t},
                    ![l].rows = @ \cup {[expense |-> e, template |-> t]}]
    /\ UNCHANGED shown

(* POST /expenses answers 409: someone else created it.                    *)
Exists(l, t) ==
    /\ SlotTaken(expenses, t, loads[l].month, {})
    /\ loads' = [loads EXCEPT ![l].targets = @ \ {t}]
    /\ UNCHANGED <<expenses, shown>>

(* Mutant: the catch of load() reports nothing. *)
ShowNoError(l) == UNCHANGED shown

ShowError(l) ==
    shown' = IF loads[l].stale \/ loads[l].silent THEN shown
             ELSE [shown EXCEPT ![loads[l].tab] = Blank("error")]

(* A create fails, with or without effect: the page shows it, the other    *)
(* creates go on.                                                          *)
CreateFails(l, t) ==
    /\ \/ /\ Failures \/ ~Refers(templates, t)
          /\ UNCHANGED expenses
       \/ /\ Failures
          /\ Creatable(l, t)
          /\ \E e \in FreshExpense : Stored(l, t, e)
    /\ loads' = [loads EXCEPT ![l].targets = @ \ {t}, ![l].silent = TRUE]
    /\ ShowError(l)

Materialize(l, t) ==
    /\ loads[l].at = "writing"
    /\ t \in loads[l].targets
    /\ \/ Exists(l, t)
       \/ CreateFails(l, t)
       \/ /\ Creatable(l, t)
          /\ \E e \in FreshExpense : Created(l, t, e)
    /\ UNCHANGED <<now, templates, month, forms, requests, skipped>>

(* setState({status: "ready"}): the rows, and for a future month the       *)
(* instances that projectRecurring() makes up.                             *)
ShowLoad(l) ==
    LET load == loads[l]
    IN  /\ load.at = "writing"
        /\ load.targets = {}
        /\ loads' = [loads EXCEPT ![l] = FreeLoad]
        /\ shown' = IF load.stale \/ load.silent THEN shown
                    ELSE [shown EXCEPT ![load.tab] =
                            [status |-> "ready", month |-> load.month,
                             rows |-> load.rows, projected |-> Projected(load)]]
        /\ UNCHANGED <<now, templates, expenses, month, forms, requests,
                       skipped>>

(* Mutant: reads are repeated until all succeed. *)
ReadFailsAgain(l) ==
    /\ Failures
    /\ loads[l].at = "reading"
    /\ loads[l].pending # {}
    /\ loads' = [loads EXCEPT ![l].pending = Reads]
    /\ UNCHANGED <<now, templates, expenses, month, shown, forms, requests,
                   skipped>>

ReadFails(l) ==
    /\ Failures
    /\ loads[l].at = "reading"
    /\ loads[l].pending # {}
    /\ loads' = [loads EXCEPT ![l] = FreeLoad]
    /\ ShowError(l)
    /\ UNCHANGED <<now, templates, expenses, month, forms, requests, skipped>>

LoadStep(l) ==
    \/ \E what \in Reads : Read(l, what)
    \/ Decide(l)
    \/ \E t \in Templates : Materialize(l, t)
    \/ ShowLoad(l)
    \/ ReadFails(l)

-----------------------------------------------------------------------------
(* Opening and leaving a form. Leaving the page does not end its loads: an *)
(* unmounted page only ignores what they bring.                            *)

LeavePage(tab) ==
    /\ shown' = [shown EXCEPT ![tab] = Blank("away")]
    /\ loads' = [l \in Loads |-> IF l \in LoadsOf(tab)
                                 THEN [loads[l] EXCEPT !.silent = TRUE]
                                 ELSE loads[l]]

(* /asset/new *)
OpenNew(tab) ==
    /\ shown[tab].status # "away"
    /\ LeavePage(tab)
    /\ forms' = [forms EXCEPT ![tab] = [ClosedForm EXCEPT !.at = "open"]]
    /\ UNCHANGED <<now, templates, expenses, month, requests, skipped>>

(* /asset/[id], from a list that shows the row; row and template are read  *)
(* in one step here.                                                       *)
OpenEdit(tab, e) ==
    LET row == expenses[e]
        template == templates[row.template]
        form == [ClosedForm EXCEPT
                    !.at = "open", !.expense = e, !.template = row.template,
                    !.period = row.period, !.month = row.month]
    IN  /\ shown[tab].status = "ready"
        /\ e \in Visible(expenses)
        /\ LeavePage(tab)
        /\ forms' = [forms EXCEPT ![tab] =
                        IF row.template = None THEN form
                        ELSE [form EXCEPT !.active = template.active,
                                          !.start = template.start]]
        /\ UNCHANGED <<now, templates, expenses, month, requests, skipped>>

-----------------------------------------------------------------------------
(* What a form may save, and the calls that takes, in their order.         *)

KindsOf(form) ==
    IF form.expense = None THEN {"single", "fixed"}
    ELSE IF form.active THEN {"edit", "unfix", "deleteMonth", "deleteAll"}
    ELSE {"move", "deleteMonth",
          IF form.template = None THEN "convert" ELSE "refix"}

(* Mutant: createdTemplateId is not kept. *)
EnsureTemplateAnew(form) == <<"createTemplate">>

(* ensureTemplate(): a form creates at most one template.                  *)
EnsureTemplate(form) ==
    IF form.created = None THEN <<"createTemplate">> ELSE <<>>

Script(form, kind, date) ==
    CASE kind = "single" -> <<"createExpense">>
      [] kind = "fixed" ->
           EnsureTemplate(form)
               \o (IF date <= now THEN <<"createExpense">> ELSE <<>>)
      [] kind = "move" -> <<"updateExpense">>
      [] kind = "convert" -> EnsureTemplate(form) \o <<"updateExpense">>
      [] kind = "refix" ->
           <<"updateTemplate", "updateExpense", "listInstances">>
      [] kind \in {"edit", "unfix"} ->
           <<"updateExpense", "updateTemplate", "listInstances">>
      [] kind = "deleteMonth" ->
           IF form.template # None THEN <<"updateExpense">>
           ELSE <<"deleteExpense">>
      [] kind = "deleteAll" -> <<"deleteTemplate">>

(* The month a template of this form begins in.                            *)
StartMonth(form, date) == IF form.start # None THEN form.start ELSE date

(* The last months to choose from: endMonthOptions() begins at the start   *)
(* month; a save that writes no template has none to choose.               *)
EndChoices(form, kind, date) ==
    IF kind \in {"fixed", "convert", "edit", "refix"}
    THEN StartMonth(form, date)..Forever
    ELSE {Forever}

(* handleSave(): a row with a period stays in its month.                   *)
DateChoices(form, kind) ==
    IF kind \in {"deleteMonth", "deleteAll"} THEN {form.month}
    ELSE IF form.period # None THEN {form.period}
    ELSE Months

Singles == {e \in Present(expenses) : expenses[e].template = None}

Save(tab) ==
    LET form == forms[tab]
    IN  /\ form.at = "open"
        /\ MayBegin
        /\ \E kind \in KindsOf(form) \cap Operations :
           \E date \in DateChoices(form, kind) :
           \E end \in EndChoices(form, kind, date) :
               /\ kind = "single" => Cardinality(Singles) < SinglesMax
               /\ forms' = [forms EXCEPT ![tab] =
                               [form EXCEPT !.at = "saving", !.kind = kind,
                                            !.date = date, !.end = end,
                                            !.nowAt = now,
                                            !.todo = Script(form, kind, date)]]
        /\ UNCHANGED <<now, templates, expenses, month, shown, loads, requests,
                       skipped>>

-----------------------------------------------------------------------------
(* Running the script.                                                     *)

Awaited(tab) == {q \in requests : q.tab = tab /\ q.awaited}

NextCall(tab, call) ==
    /\ forms[tab].at = "saving"
    /\ forms[tab].todo # <<>>
    /\ Head(forms[tab].todo) = call
    /\ Awaited(tab) = {}

Done(form) == [form EXCEPT !.todo = Tail(@)]

(* The catch of performSave(): the form stays, with the template it        *)
(* created; calls that are under way go on.                                *)
Reopened(form) ==
    [form EXCEPT !.at = "open", !.kind = None, !.date = None, !.end = None,
                 !.nowAt = None, !.todo = <<>>]

Abandoned(tab, qs) ==
    {[q EXCEPT !.awaited = @ /\ q.tab # tab] : q \in qs}

SaveFails(tab, qs) ==
    /\ forms' = [forms EXCEPT ![tab] = Reopened(@)]
    /\ requests' = Abandoned(tab, qs)

(* A call took effect: the form hears of it, or takes it for failed.       *)
Answered(tab, form) ==
    \/ forms' = [forms EXCEPT ![tab] = Done(form)]
    \/ Failures /\ forms' = [forms EXCEPT ![tab] = Reopened(@)]

CreateTemplate(tab) ==
    LET form == forms[tab]
    IN  /\ NextCall(tab, "createTemplate")
        /\ \E t \in FreshTemplate :
               /\ templates' = [templates EXCEPT ![t] =
                      [start |-> form.date, end |-> form.end, active |-> TRUE]]
               /\ Answered(tab, [form EXCEPT !.created = t, !.made = @ + 1])
        /\ UNCHANGED <<now, expenses, month, shown, loads, requests, skipped>>

(* Mutant: the period is today's month, not the month of the date. *)
NewRowToday(form) ==
    IF form.kind = "fixed"
    THEN [Instance(form.created, form.date) EXCEPT !.period = form.nowAt]
    ELSE [month |-> form.date, template |-> None, period |-> None,
          removed |-> FALSE]

(* The row of a new expense; only a fixed one belongs to a slot.           *)
NewRow(form) ==
    IF form.kind = "fixed" THEN Instance(form.created, form.date)
    ELSE [month |-> form.date, template |-> None, period |-> None,
          removed |-> FALSE]

CreateExpense(tab) ==
    LET form == forms[tab]
        row == NewRow(form)
    IN  /\ NextCall(tab, "createExpense")
        /\ IF \/ SlotTaken(expenses, row.template, row.period, {})
              \/ ~Refers(templates, row.template)
           THEN /\ SaveFails(tab, requests)
                /\ UNCHANGED expenses
           ELSE /\ \E e \in FreshExpense : expenses' = [expenses EXCEPT ![e] = row]
                /\ Answered(tab, form)
                /\ UNCHANGED requests
        /\ UNCHANGED <<now, templates, month, shown, loads, skipped>>

(* What the form sends for its own row.                                    *)
OwnPatch(form) ==
    CASE form.kind = "deleteMonth" -> [NoPatch EXCEPT !.removed = TRUE]
      [] form.kind = "convert" ->
           [NoPatch EXCEPT !.month = form.date, !.template = form.created,
                           !.period = form.date]
      [] OTHER -> [NoPatch EXCEPT !.month = form.date]

Update(tab, e, patch) ==
    [tab |-> tab, expense |-> e, call |-> "updateExpense", patch |-> patch,
     checked |-> FALSE, awaited |-> TRUE]

Delete(tab, e) ==
    [tab |-> tab, expense |-> e, call |-> "deleteExpense", patch |-> NoPatch,
     checked |-> FALSE, awaited |-> TRUE]

SendUpdate(tab) ==
    LET form == forms[tab]
    IN  /\ NextCall(tab, "updateExpense")
        /\ requests' = requests
               \cup {Update(tab, form.expense, OwnPatch(form))}
        /\ forms' = [forms EXCEPT ![tab] = Done(@)]
        /\ UNCHANGED <<now, templates, expenses, month, shown, loads, skipped>>

SendDelete(tab) ==
    /\ NextCall(tab, "deleteExpense")
    /\ requests' = requests \cup {Delete(tab, forms[tab].expense)}
    /\ forms' = [forms EXCEPT ![tab] = Done(@)]
    /\ UNCHANGED <<now, templates, expenses, month, shown, loads, skipped>>

(* PATCH /recurring/:id: a new end, or off, or on again with a new end.    *)
Retermed(form, row) ==
    CASE form.kind = "unfix" -> [row EXCEPT !.active = FALSE]
      [] form.kind = "edit" -> [row EXCEPT !.end = form.end]
      [] form.kind = "refix" -> [row EXCEPT !.active = TRUE, !.end = form.end]

UpdateTemplate(tab) ==
    LET form == forms[tab]
    IN  /\ NextCall(tab, "updateTemplate")
        /\ IF Absent(templates, form.template)
           THEN SaveFails(tab, requests) /\ UNCHANGED templates
           ELSE /\ templates' = [templates EXCEPT ![form.template] =
                                    Retermed(form, @)]
                /\ Answered(tab, form)
                /\ UNCHANGED requests
        /\ UNCHANGED <<now, expenses, month, shown, loads, skipped>>

(* Mutant: only rows after the edited and the current month are listed. *)
ListedFromPivot(form) ==
    IF form.month > form.nowAt THEN form.month ELSE form.nowAt

(* propagateRecurringUpdate() and removeRecurringFuture(): what is listed, *)
(* and what is sent for each row of the list.                              *)
ListedFrom(form) ==
    LET pivot == IF form.month > form.nowAt THEN form.month ELSE form.nowAt
    IN  IF form.kind = "unfix" THEN form.nowAt
        ELSE IF form.end < pivot THEN form.end
        ELSE pivot

(* Mutant: rows beyond the end are updated like the others. *)
FollowAlive(tab, form, e) ==
    IF form.kind = "unfix" THEN Delete(tab, e)
    ELSE Update(tab, e, [NoPatch EXCEPT !.month = expenses[e].period])

Follow(tab, form, e) ==
    IF form.kind = "unfix" \/ expenses[e].period > form.end
    THEN Delete(tab, e)
    ELSE Update(tab, e, [NoPatch EXCEPT !.month = expenses[e].period])

ListInstances(tab) ==
    LET form == forms[tab]
        listed == ListInstancesAfter(expenses, form.template, ListedFrom(form))
    IN  /\ NextCall(tab, "listInstances")
        /\ requests' = requests \cup {Follow(tab, form, e) : e \in listed}
        /\ forms' = [forms EXCEPT ![tab] = Done(@)]
        /\ UNCHANGED <<now, templates, expenses, month, shown, loads, skipped>>

DeleteTemplate(tab) ==
    LET form == forms[tab]
    IN  /\ NextCall(tab, "deleteTemplate")
        /\ IF Absent(templates, form.template)
           THEN /\ SaveFails(tab, requests)
                /\ UNCHANGED <<templates, expenses>>
           ELSE /\ templates' = [templates EXCEPT ![form.template] = None]
                /\ expenses' = Cascade(expenses, form.template)
                /\ Answered(tab, form)
                /\ UNCHANGED requests
        /\ UNCHANGED <<now, month, shown, loads, skipped>>

(* A call of the script fails without effect.                              *)
CallFails(tab) ==
    /\ Failures
    /\ forms[tab].at = "saving"
    /\ forms[tab].todo # <<>>
    /\ Awaited(tab) = {}
    /\ SaveFails(tab, requests)
    /\ UNCHANGED <<now, templates, expenses, month, shown, loads, skipped>>

(* Back to the ledger, which loads the current month.                      *)
Return(tab) ==
    /\ forms' = [forms EXCEPT ![tab] = ClosedForm]
    /\ StartLoad(tab, now, {})
    /\ UNCHANGED <<now, templates, expenses, requests, skipped>>

Cancel(tab) ==
    /\ forms[tab].at = "open"
    /\ Return(tab)

(* onSaved(), onDeleted()                                                  *)
Saved(tab) ==
    /\ forms[tab].at = "saving"
    /\ forms[tab].todo = <<>>
    /\ Awaited(tab) = {}
    /\ Return(tab)

-----------------------------------------------------------------------------
(* PATCH and DELETE /expenses/:id on the server.                           *)

Answer(q) ==
    /\ requests' = requests \ {q}
    /\ UNCHANGED forms

(* Mutant: a failed call is sent again, without end. *)
RequestRepeats(q) ==
    /\ requests' = (requests \ {q}) \cup {[q EXCEPT !.checked = FALSE]}
    /\ UNCHANGED forms

RequestFails(q) ==
    IF q.awaited THEN SaveFails(q.tab, requests \ {q})
    ELSE requests' = requests \ {q} /\ UNCHANGED forms

(* The read and the checks of update().                                    *)
CheckUpdate(q) ==
    LET row == expenses[q.expense]
    IN  /\ q.call = "updateExpense"
        /\ ~q.checked
        /\ IF row # None /\ Acceptable(row, q.patch)
           THEN /\ requests' = (requests \ {q})
                                   \cup {[q EXCEPT !.checked = TRUE]}
                /\ UNCHANGED forms
           ELSE RequestFails(q)
        /\ UNCHANGED <<now, templates, expenses, month, shown, loads, skipped>>

(* The write, against the row as it is by then.                            *)
WriteUpdate(q) ==
    LET row == expenses[q.expense]
        written == Patched(row, q.patch)
    IN  /\ q.call = "updateExpense"
        /\ q.checked
        /\ IF row = None \/ Refused(templates, expenses, q.expense, q.patch)
           THEN RequestFails(q) /\ UNCHANGED <<expenses, skipped>>
           ELSE /\ expenses' = [expenses EXCEPT ![q.expense] = written]
                /\ skipped' = IF q.patch.removed
                              THEN skipped \cup {<<row.template, row.period>>}
                              ELSE skipped
                /\ Answer(q)
        /\ UNCHANGED <<now, templates, month, shown, loads>>

RemoveExpense(q) ==
    /\ q.call = "deleteExpense"
    /\ IF Absent(expenses, q.expense)
       THEN RequestFails(q) /\ UNCHANGED expenses
       ELSE /\ expenses' = [expenses EXCEPT ![q.expense] = None]
            /\ Answer(q)
    /\ UNCHANGED <<now, templates, month, shown, loads, skipped>>

(* A call fails on its way, or its caller gives up while it goes on.       *)
RequestLost(q) ==
    /\ Failures
    /\ \/ RequestFails(q)
       \/ q.awaited /\ SaveFails(q.tab, requests)
    /\ UNCHANGED <<now, templates, expenses, month, shown, loads, skipped>>

-----------------------------------------------------------------------------
SaveStep(tab) ==
    \/ CreateTemplate(tab)
    \/ CreateExpense(tab)
    \/ SendUpdate(tab)
    \/ SendDelete(tab)
    \/ UpdateTemplate(tab)
    \/ ListInstances(tab)
    \/ DeleteTemplate(tab)
    \/ CallFails(tab)
    \/ Saved(tab)

RequestStep(q) ==
    \/ CheckUpdate(q)
    \/ WriteUpdate(q)
    \/ RemoveExpense(q)
    \/ RequestLost(q)

UserStep(tab) ==
    \/ VisitLedger(tab)
    \/ SelectMonth(tab)
    \/ OpenNew(tab)
    \/ \E e \in Expenses : OpenEdit(tab, e)
    \/ Save(tab)
    \/ Cancel(tab)

Next ==
    \/ MonthPasses
    \/ \E l \in Loads : LoadStep(l)
    \/ \E tab \in Tabs : UserStep(tab) \/ SaveStep(tab)
    \/ \E q \in requests : RequestStep(q)

Spec == Init /\ [][Next]_vars

(* Every call ends: the API answers, or the client gives up after 15 s     *)
(* (lib/vault-client.ts).                                                  *)
Fairness ==
    /\ \A l \in Loads : WF_vars(LoadStep(l))
    /\ \A tab \in Tabs : WF_vars(SaveStep(tab))
    /\ WF_vars(\E q \in requests : RequestStep(q))

FairSpec == Spec /\ Fairness
=============================================================================
