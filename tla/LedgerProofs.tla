---------------------------- MODULE LedgerProofs ----------------------------
(***************************************************************************)
(* Proofs about the ledger, for any number of tabs, loads, templates, rows *)
(* and months, overlapping loads, failing calls and lost replies included. *)
(***************************************************************************)
EXTENDS LedgerProperties, TLAPS

-----------------------------------------------------------------------------
(* The inductive invariant behind the types.                               *)

(* The calls a save of each kind is made of.                               *)
CallsOf(kind) ==
    CASE kind = "single" -> {"createExpense"}
      [] kind = "fixed" -> {"createTemplate", "createExpense"}
      [] kind = "convert" -> {"createTemplate", "updateExpense"}
      [] kind = "move" -> {"updateExpense"}
      [] kind = "deleteMonth" -> {"updateExpense", "deleteExpense"}
      [] kind = "deleteAll" -> {"deleteTemplate"}
      [] OTHER -> {"updateExpense", "updateTemplate", "listInstances"}

(* A form of an expense knows its month; a form that saves knows what.     *)
Fits(form) ==
    /\ form.expense # None => form.month \in Months
    /\ form.at = "saving" =>
        /\ form.kind \in Kinds
        /\ form.kind \notin {"single", "fixed"} => form.expense \in Expenses
        /\ form.date \in Months
        /\ form.end \in Ends
        /\ form.nowAt \in Months
        /\ form.todo \in Seq(CallsOf(form.kind))

FormsFit == \A tab \in Tabs : Fits(forms[tab])

LoadsPlaced ==
    \A l \in Loads : loads[l].at # "free" =>
        loads[l].tab \in Tabs /\ loads[l].month \in Months

(* The foreign key: no row refers to a template that is gone.              *)
ForeignKey ==
    \A e \in Present(expenses) : Refers(templates, expenses[e].template)

TypeInv == TypeOK /\ FormsFit /\ LoadsPlaced /\ ForeignKey

-----------------------------------------------------------------------------
(* Types of the operators.                                                 *)

LEMMA MonthsAreNumbers ==
    /\ Months \subseteq Nat /\ Ends \subseteq Nat /\ Months \subseteq Ends
    /\ 1 \in Months /\ Forever \in Ends
BY StoreAssumption DEF Months, Ends, Forever

LEMMA ScreenTypes ==
    /\ \A status \in {"away", "loading", "ready", "error"} :
           Blank(status) \in Screen
    /\ FreeLoad \in Load
    /\ \A tab \in Tabs, m \in Months : NewLoad(tab, m) \in Load
BY DEF Blank, Screen, FreeLoad, NewLoad, Load, Reads

LEMMA FormTypes ==
    /\ ClosedForm \in Form
    /\ Fits(ClosedForm)
    /\ \A form \in Form : /\ Reopened(form) \in Form
                          /\ Fits(form) => Fits(Reopened(form))
<1>1. <<>> \in Seq(Calls)
  OBVIOUS
<1>2. ClosedForm \in Form /\ Fits(ClosedForm)
  BY <1>1 DEF ClosedForm, Form, Fits
<1>3. ASSUME NEW form \in Form
      PROVE  Reopened(form) \in Form /\ (Fits(form) => Fits(Reopened(form)))
  <2>1. Reopened(form) \in Form
    BY <1>1 DEF Reopened, Form
  <2>2. /\ Reopened(form).at = "open"
        /\ Reopened(form).expense = form.expense
        /\ Reopened(form).month = form.month
    BY DEF Reopened, Form
  <2>3. QED
    BY <2>1, <2>2 DEF Fits
<1>4. QED
  BY <1>2, <1>3

LEMMA TailType ==
    ASSUME NEW S, NEW s \in Seq(S), s # <<>>
    PROVE  Tail(s) \in Seq(S)
OBVIOUS

LEMMA ConcatType ==
    ASSUME NEW S, NEW s \in Seq(S), NEW t \in Seq(S)
    PROVE  s \o t \in Seq(S)
OBVIOUS

LEMMA ShortSequences ==
    ASSUME NEW S, NEW a \in S, NEW b \in S, NEW c \in S
    PROVE  <<>> \in Seq(S) /\ <<a>> \in Seq(S) /\ <<a, b, c>> \in Seq(S)
OBVIOUS

LEMMA DoneType ==
    ASSUME NEW form \in Form, Fits(form), form.todo # <<>>
    PROVE  Done(form) \in Form /\ Fits(Done(form))
<1>1. Tail(form.todo) \in Seq(Calls)
  BY TailType DEF Form
<1>2. form.at = "saving" => Tail(form.todo) \in Seq(CallsOf(form.kind))
  <2>1. form.at = "saving" => form.todo \in Seq(CallsOf(form.kind))
    BY DEF Fits
  <2>2. QED
    BY <2>1, TailType
<1>3. Done(form) = [form EXCEPT !.todo = Tail(form.todo)]
  BY DEF Done
<1>4. Done(form) \in Form
  BY <1>1, <1>3 DEF Form
<1>5. QED
  BY <1>2, <1>3, <1>4 DEF Fits, Form

LEMMA PatchedType ==
    ASSUME NEW row \in ExpenseRow, NEW patch \in Patch
    PROVE  Patched(row, patch) \in ExpenseRow
BY DEF Patched, Sent, ExpenseRow, Patch

LEMMA KindsType ==
    ASSUME NEW form \in Form, NEW kind \in KindsOf(form)
    PROVE  /\ kind \in Kinds
           /\ kind \notin {"single", "fixed"} => form.expense # None
BY DEF KindsOf, Kinds

LEMMA ScriptType ==
    ASSUME NEW form \in Form, NEW kind \in KindsOf(form), NEW date \in Months
    PROVE  /\ Script(form, kind, date) \in Seq(CallsOf(kind))
           /\ Script(form, kind, date) \in Seq(Calls)
<1>1. kind \in Kinds
  BY KindsType
<1>2. Script(form, kind, date) \in Seq(CallsOf(kind))
  <2>1. CASE kind = "single"
    BY <2>1 DEF Script, CallsOf
  <2>2. CASE kind = "fixed"
    <3>1. CallsOf(kind) = {"createTemplate", "createExpense"}
      BY <2>2 DEF CallsOf
    <3>2. /\ EnsureTemplate(form) \in Seq(CallsOf(kind))
          /\ (IF date <= now THEN <<"createExpense">> ELSE <<>>)
                 \in Seq(CallsOf(kind))
      BY <3>1, ShortSequences DEF EnsureTemplate
    <3>3. Script(form, kind, date) =
              EnsureTemplate(form)
                  \o (IF date <= now THEN <<"createExpense">> ELSE <<>>)
      BY <2>2 DEF Script
    <3>4. QED
      BY <3>2, <3>3, ConcatType
  <2>3. CASE kind = "convert"
    <3>1. CallsOf(kind) = {"createTemplate", "updateExpense"}
      BY <2>3 DEF CallsOf
    <3>2. /\ EnsureTemplate(form) \in Seq(CallsOf(kind))
          /\ <<"updateExpense">> \in Seq(CallsOf(kind))
      BY <3>1, ShortSequences DEF EnsureTemplate
    <3>3. Script(form, kind, date) = EnsureTemplate(form) \o <<"updateExpense">>
      BY <2>3 DEF Script
    <3>4. QED
      BY <3>2, <3>3, ConcatType
  <2>4. CASE kind \in {"edit", "unfix", "refix"}
    <3>1. CallsOf(kind) = {"updateExpense", "updateTemplate", "listInstances"}
      BY <2>4 DEF CallsOf
    <3>2. \/ Script(form, kind, date) =
                 <<"updateTemplate", "updateExpense", "listInstances">>
          \/ Script(form, kind, date) =
                 <<"updateExpense", "updateTemplate", "listInstances">>
      BY <2>4 DEF Script
    <3>3. QED
      BY <3>1, <3>2, ShortSequences
  <2>5. CASE kind = "deleteMonth"
    <3>1. CallsOf(kind) = {"updateExpense", "deleteExpense"}
      BY <2>5 DEF CallsOf
    <3>2. \/ Script(form, kind, date) = <<"updateExpense">>
          \/ Script(form, kind, date) = <<"deleteExpense">>
      BY <2>5 DEF Script
    <3>3. QED
      BY <3>1, <3>2, ShortSequences
  <2>6. CASE kind \in {"move", "deleteAll"}
    BY <2>6, ShortSequences DEF Script, CallsOf
  <2>7. QED
    BY <1>1, <2>1, <2>2, <2>3, <2>4, <2>5, <2>6 DEF Kinds
<1>3. CallsOf(kind) \subseteq Calls
  BY <1>1 DEF CallsOf, Calls, Kinds
<1>4. QED
  BY <1>1, <1>2, <1>3

LEMMA QueryTypes ==
    ASSUME TypeOK
    PROVE  /\ \A e \in Present(expenses) : e \in Expenses /\ expenses[e] \in ExpenseRow
           /\ \A t \in Present(templates) :
                  t \in Templates /\ templates[t] \in TemplateRow
           /\ Visible(expenses) \subseteq Present(expenses)
           /\ \A m : ListByMonth(expenses, m) \subseteq Present(expenses)
           /\ \A m : ListDue(templates, m) \subseteq Templates
           /\ \A m : ListMonthSlots(expenses, m) \subseteq Templates
BY DEF TypeOK, Present, Visible, ListByMonth, ListDue, ListMonthSlots, ExpenseRow

-----------------------------------------------------------------------------
(* What a step of a load does to the loads: it changes its own, and a load *)
(* that goes on keeps its tab, its month and its place.                    *)
Goes(l, load) ==
    /\ loads' = [loads EXCEPT ![l] = load]
    /\ load.at # "free" =>
        /\ loads[l].at # "free"
        /\ load.tab = loads[l].tab
        /\ load.month = loads[l].month
        /\ load.stale = loads[l].stale

LEMMA ReadEffect ==
    ASSUME TypeOK, NEW l \in Loads, NEW what \in Reads, Read(l, what)
    PROVE  \E load \in Load :
               /\ Goes(l, load)
               /\ load.at = loads[l].at
               /\ load.silent = loads[l].silent
<1> DEFINE rows == {[expense |-> e, template |-> expenses[e].template] :
                       e \in ListByMonth(expenses, loads[l].month)}
           rest == loads[l].pending \ {what}
<1>1. loads[l] \in Load
  BY DEF TypeOK
<1>2. rest \in SUBSET Reads
  BY <1>1 DEF Load
<1>3. rows \in SUBSET Row
  BY QueryTypes DEF Row, ExpenseRow
<1>4. CASE what = "expenses"
  <2>1. loads' = [loads EXCEPT ![l] =
                     [loads[l] EXCEPT !.rows = rows, !.pending = rest]]
    BY <1>1, <1>4 DEF Read, Load
  <2>2. [loads[l] EXCEPT !.rows = rows, !.pending = rest] \in Load
    BY <1>1, <1>2, <1>3 DEF Load
  <2>3. QED
    BY <1>1, <2>1, <2>2 DEF Goes, Read, Load
<1>5. CASE what = "templates"
  <2> DEFINE due == ListDue(templates, loads[l].month)
  <2>1. loads' = [loads EXCEPT ![l] =
                     [loads[l] EXCEPT !.due = due, !.pending = rest]]
    BY <1>1, <1>5 DEF Read, Load
  <2>2. due \in SUBSET Templates
    BY QueryTypes
  <2>3. [loads[l] EXCEPT !.due = due, !.pending = rest] \in Load
    BY <1>1, <1>2, <2>2 DEF Load
  <2>4. QED
    BY <1>1, <2>1, <2>3 DEF Goes, Read, Load
<1>6. CASE what = "slots"
  <2> DEFINE slots == ListMonthSlots(expenses, loads[l].month)
  <2>1. loads' = [loads EXCEPT ![l] =
                     [loads[l] EXCEPT !.occupied = slots, !.pending = rest]]
    BY <1>1, <1>6 DEF Read, Load
  <2>2. slots \in SUBSET (Templates \cup {None})
    BY QueryTypes
  <2>3. [loads[l] EXCEPT !.occupied = slots, !.pending = rest] \in Load
    BY <1>1, <1>2, <2>2 DEF Load
  <2>4. QED
    BY <1>1, <2>1, <2>3 DEF Goes, Read, Load
<1>7. QED
  BY <1>4, <1>5, <1>6 DEF Reads

LEMMA DecideEffect ==
    ASSUME TypeOK, NEW l \in Loads, Decide(l)
    PROVE  \E load \in Load :
               /\ Goes(l, load)
               /\ load.at = "free" => loads[l].stale
               /\ load.at # "free" => load.silent = loads[l].silent
<1>1. loads[l] \in Load
  BY DEF TypeOK
<1>2. Targets(loads[l]) \in SUBSET Templates
  BY <1>1 DEF Targets, Load
<1>3. [loads[l] EXCEPT !.at = "writing", !.targets = Targets(loads[l])] \in Load
  BY <1>1, <1>2 DEF Load
<1>4. CASE loads[l].stale
  <2>1. loads' = [loads EXCEPT ![l] = FreeLoad]
    BY <1>4 DEF Decide
  <2>2. FreeLoad.at = "free"
    BY DEF FreeLoad
  <2>3. QED
    BY <1>4, <2>1, <2>2, ScreenTypes DEF Goes
<1>5. CASE ~loads[l].stale
  <2>1. loads' = [loads EXCEPT ![l] =
            [loads[l] EXCEPT !.at = "writing", !.targets = Targets(loads[l])]]
    BY <1>5 DEF Decide
  <2>2. QED
    BY <1>1, <1>3, <2>1 DEF Goes, Load, Decide
<1>6. QED
  BY <1>4, <1>5

LEMMA MaterializeEffect ==
    ASSUME TypeOK, NEW l \in Loads, NEW t \in Templates, Materialize(l, t)
    PROVE  /\ \E load \in Load :
                  /\ Goes(l, load)
                  /\ load.at = loads[l].at
                  /\ \/ load.silent = loads[l].silent /\ UNCHANGED shown
                     \/ load.silent /\ ShowError(l)
           /\ \/ UNCHANGED expenses
              \/ Creatable(l, t) /\ \E e \in FreshExpense : Stored(l, t, e)
<1> DEFINE less == loads[l].targets \ {t}
<1>1. loads[l] \in Load /\ loads \in [Loads -> Load]
  BY DEF TypeOK
<1>2. less \in SUBSET Templates
  BY <1>1 DEF Load
<1>3. CASE Exists(l, t)
  <2>1. loads' = [loads EXCEPT ![l] = [loads[l] EXCEPT !.targets = less]]
    BY <1>1, <1>3 DEF Exists
  <2>2. [loads[l] EXCEPT !.targets = less] \in Load
    BY <1>1, <1>2 DEF Load
  <2>3. QED
    BY <1>1, <1>3, <2>1, <2>2 DEF Goes, Exists, Materialize, Load
<1>4. CASE CreateFails(l, t)
  <2> DEFINE load == [loads[l] EXCEPT !.targets = less, !.silent = TRUE]
  <2>1. loads' = [loads EXCEPT ![l] = load]
    BY <1>1, <1>4 DEF CreateFails
  <2>2. load \in Load
    BY <1>1, <1>2 DEF Load
  <2>3. /\ load.at = loads[l].at
        /\ load.tab = loads[l].tab
        /\ load.month = loads[l].month
        /\ load.stale = loads[l].stale
        /\ load.silent
    BY <1>1 DEF Load
  <2>4. Goes(l, load)
    BY <1>4, <2>1, <2>3 DEF Goes, Materialize
  <2>5. ShowError(l)
    BY <1>4 DEF CreateFails
  <2>6. \/ UNCHANGED expenses
        \/ Creatable(l, t) /\ \E e \in FreshExpense : Stored(l, t, e)
    BY <1>4 DEF CreateFails
  <2>7. QED
    BY <2>2, <2>3, <2>4, <2>5, <2>6
<1>5. ASSUME Creatable(l, t), NEW e \in FreshExpense, Created(l, t, e)
      PROVE  /\ \E load \in Load :
                    /\ Goes(l, load)
                    /\ load.at = loads[l].at
                    /\ load.silent = loads[l].silent /\ UNCHANGED shown
             /\ Stored(l, t, e)
  <2> DEFINE more == loads[l].rows \cup {[expense |-> e, template |-> t]}
             load == [loads[l] EXCEPT !.targets = less, !.rows = more]
  <2>1. loads' = [loads EXCEPT ![l] = load]
    BY <1>1, <1>5 DEF Created
  <2>2. more \in SUBSET Row
    BY <1>1 DEF Load, Row, FreshExpense
  <2>3. load \in Load
    BY <1>1, <1>2, <2>2 DEF Load
  <2>4. /\ load.at = loads[l].at
        /\ load.tab = loads[l].tab
        /\ load.month = loads[l].month
        /\ load.stale = loads[l].stale
        /\ load.silent = loads[l].silent
    BY <1>1 DEF Load
  <2>5. loads[l].at # "free"
    BY DEF Materialize
  <2>6. Goes(l, load)
    BY <2>1, <2>4, <2>5 DEF Goes
  <2>7. Stored(l, t, e) /\ UNCHANGED shown
    BY <1>5 DEF Created
  <2>8. QED
    BY <2>3, <2>4, <2>6, <2>7
<1>6. QED
  BY <1>3, <1>4, <1>5 DEF Materialize

LEMMA GoesType ==
    ASSUME TypeInv, NEW l \in Loads, NEW load \in Load, Goes(l, load)
    PROVE  loads' \in [Loads -> Load] /\ LoadsPlaced'
BY DEF TypeInv, TypeOK, Goes, LoadsPlaced

(* A row is written whose template is there.                               *)
LEMMA WriteType ==
    ASSUME TypeInv, NEW e \in Expenses, NEW row \in ExpenseRow,
           Refers(templates, row.template),
           expenses' = [expenses EXCEPT ![e] = row], UNCHANGED templates
    PROVE  expenses' \in [Expenses -> ExpenseRow \cup {None}] /\ ForeignKey'
<1>1. expenses' \in [Expenses -> ExpenseRow \cup {None}]
  BY DEF TypeInv, TypeOK
<1>2. ASSUME NEW f \in Present(expenses')
      PROVE  Refers(templates', expenses'[f].template)
  <2>1. CASE f = e
    BY <2>1 DEF Refers, TypeInv, TypeOK, Absent
  <2>2. CASE f # e
    BY <1>2, <2>2 DEF Refers, TypeInv, TypeOK, ForeignKey, Present, Absent
  <2>3. QED
    BY <2>1, <2>2
<1>3. QED
  BY <1>1, <1>2 DEF ForeignKey

LEMMA ShowErrorType ==
    ASSUME TypeOK, NEW l \in Loads, ShowError(l)
    PROVE  shown' \in [Tabs -> Screen]
BY ScreenTypes DEF ShowError, TypeOK

LEMMA LoadStepTypes ==
    ASSUME TypeInv, NEW l \in Loads, LoadStep(l)
    PROVE  TypeInv'
<1>1. TypeOK
  BY DEF TypeInv
<1>2. ASSUME NEW what \in Reads, Read(l, what) PROVE TypeInv'
  <2>1. loads' \in [Loads -> Load] /\ LoadsPlaced'
    BY <1>1, <1>2, ReadEffect, GoesType
  <2>2. QED
    BY <1>2, <2>1 DEF Read, TypeInv, TypeOK, FormsFit, ForeignKey
<1>3. CASE Decide(l)
  <2>1. loads' \in [Loads -> Load] /\ LoadsPlaced'
    BY <1>1, <1>3, DecideEffect, GoesType
  <2>2. QED
    BY <1>3, <2>1 DEF Decide, TypeInv, TypeOK, FormsFit, ForeignKey
<1>4. ASSUME NEW t \in Templates, Materialize(l, t) PROVE TypeInv'
  <2>1. loads' \in [Loads -> Load] /\ LoadsPlaced'
    BY <1>1, <1>4, MaterializeEffect, GoesType
  <2>2. shown' \in [Tabs -> Screen]
    BY <1>1, <1>4, MaterializeEffect, ShowErrorType DEF TypeOK
  <2>3. expenses' \in [Expenses -> ExpenseRow \cup {None}] /\ ForeignKey'
    <3>1. CASE UNCHANGED expenses
      BY <1>4, <3>1 DEF Materialize, TypeInv, TypeOK, ForeignKey
    <3>2. ASSUME Creatable(l, t), NEW e \in FreshExpense, Stored(l, t, e)
          PROVE  expenses' \in [Expenses -> ExpenseRow \cup {None}] /\ ForeignKey'
      <4> DEFINE row == Instance(t, loads[l].month)
      <4>1. loads[l].month \in Months
        BY <1>4 DEF Materialize, TypeInv, LoadsPlaced
      <4>2. row \in ExpenseRow /\ row.template = t
        BY <4>1 DEF Instance, ExpenseRow
      <4>3. Refers(templates, row.template)
        BY <3>2, <4>2 DEF Creatable
      <4>4. e \in Expenses
        BY DEF FreshExpense
      <4>5. expenses' = [expenses EXCEPT ![e] = row] /\ UNCHANGED templates
        BY <1>4, <3>2 DEF Stored, Materialize
      <4>6. QED
        BY <4>2, <4>3, <4>4, <4>5, WriteType
    <3>3. QED
      BY <1>1, <1>4, <3>1, <3>2, MaterializeEffect
  <2>4. QED
    BY <1>4, <2>1, <2>2, <2>3 DEF Materialize, TypeInv, TypeOK, FormsFit
<1>5. CASE ShowLoad(l)
  <2>1. loads' \in [Loads -> Load] /\ LoadsPlaced'
    <3>1. loads' = [loads EXCEPT ![l] = FreeLoad] /\ FreeLoad.at = "free"
      BY <1>5 DEF ShowLoad, FreeLoad
    <3>2. QED
      BY <3>1, ScreenTypes, GoesType DEF Goes
  <2>2. shown' \in [Tabs -> Screen]
    <3>1. loads[l] \in Load
      BY <1>1 DEF TypeOK
    <3>2. [status |-> "ready", month |-> loads[l].month, rows |-> loads[l].rows,
           projected |-> Projected(loads[l])] \in Screen
      BY <3>1 DEF Load, Screen, Projected
    <3>3. QED
      BY <1>1, <1>5, <3>2 DEF ShowLoad, TypeOK
  <2>3. QED
    BY <1>5, <2>1, <2>2 DEF ShowLoad, TypeInv, TypeOK, FormsFit, ForeignKey
<1>6. CASE ReadFails(l)
  <2>1. loads' \in [Loads -> Load] /\ LoadsPlaced'
    <3>1. loads' = [loads EXCEPT ![l] = FreeLoad] /\ FreeLoad.at = "free"
      BY <1>6 DEF ReadFails, FreeLoad
    <3>2. QED
      BY <3>1, ScreenTypes, GoesType DEF Goes
  <2>2. shown' \in [Tabs -> Screen]
    BY <1>1, <1>6, ShowErrorType DEF ReadFails
  <2>3. QED
    BY <1>6, <2>1, <2>2 DEF ReadFails, TypeInv, TypeOK, FormsFit, ForeignKey
<1>7. QED
  BY <1>2, <1>3, <1>4, <1>5, <1>6 DEF LoadStep

-----------------------------------------------------------------------------
(* Steps of the user.                                                      *)

LEMMA StartLoadType ==
    ASSUME TypeInv, NEW tab \in Tabs, NEW m \in Months, NEW others,
           StartLoad(tab, m, others)
    PROVE  /\ loads' \in [Loads -> Load] /\ LoadsPlaced'
           /\ month' \in [Tabs -> Months]
           /\ shown' \in [Tabs -> Screen]
<1>1. PICK l \in Loads :
          /\ loads' = [k \in Loads |->
                          IF k = l THEN NewLoad(tab, m)
                          ELSE IF k \in others
                          THEN [loads[k] EXCEPT !.stale = TRUE]
                          ELSE loads[k]]
          /\ month' = [month EXCEPT ![tab] = m]
          /\ shown' = [shown EXCEPT ![tab] = Blank("loading")]
  BY DEF StartLoad
<1>2. \A k \in Loads : [loads[k] EXCEPT !.stale = TRUE] \in Load
  BY DEF TypeInv, TypeOK, Load
<1>3. loads' \in [Loads -> Load]
  BY <1>1, <1>2, ScreenTypes DEF TypeInv, TypeOK
<1>4. LoadsPlaced'
  <2>1. NewLoad(tab, m).tab = tab /\ NewLoad(tab, m).month = m
    BY DEF NewLoad, FreeLoad
  <2>2. \A k \in Loads : /\ [loads[k] EXCEPT !.stale = TRUE].at = loads[k].at
                         /\ [loads[k] EXCEPT !.stale = TRUE].tab = loads[k].tab
                         /\ [loads[k] EXCEPT !.stale = TRUE].month = loads[k].month
    BY DEF TypeInv, TypeOK, Load
  <2>3. QED
    BY <1>1, <2>1, <2>2 DEF LoadsPlaced, TypeInv
<1>5. QED
  BY <1>1, <1>3, <1>4, ScreenTypes DEF TypeInv, TypeOK

LEMMA LeavePageType ==
    ASSUME TypeInv, NEW tab \in Tabs, LeavePage(tab)
    PROVE  /\ loads' \in [Loads -> Load] /\ LoadsPlaced'
           /\ shown' \in [Tabs -> Screen]
<1>1. \A k \in Loads : [loads[k] EXCEPT !.silent = TRUE] \in Load
  BY DEF TypeInv, TypeOK, Load
<1>2. \A k \in Loads : /\ [loads[k] EXCEPT !.silent = TRUE].at = loads[k].at
                       /\ [loads[k] EXCEPT !.silent = TRUE].tab = loads[k].tab
                       /\ [loads[k] EXCEPT !.silent = TRUE].month = loads[k].month
  BY DEF TypeInv, TypeOK, Load
<1>3. loads' = [l \in Loads |-> IF l \in LoadsOf(tab)
                                THEN [loads[l] EXCEPT !.silent = TRUE]
                                ELSE loads[l]]
  BY DEF LeavePage
<1>4. loads' \in [Loads -> Load]
  BY <1>1, <1>3 DEF TypeInv, TypeOK
<1>5. LoadsPlaced'
  BY <1>2, <1>3 DEF LoadsPlaced, TypeInv
<1>6. QED
  BY <1>4, <1>5, ScreenTypes DEF LeavePage, TypeInv, TypeOK

LEMMA FormType ==
    ASSUME TypeInv, NEW tab \in Tabs, NEW form \in Form, Fits(form),
           forms' = [forms EXCEPT ![tab] = form]
    PROVE  forms' \in [Tabs -> Form] /\ FormsFit'
<1>1. forms' \in [Tabs -> Form]
  BY DEF TypeInv, TypeOK
<1>2. \A u \in Tabs : forms'[u] = form \/ forms'[u] = forms[u]
  BY DEF TypeInv, TypeOK
<1>3. \A u \in Tabs : Fits(forms'[u])
  BY <1>2 DEF TypeInv, FormsFit
<1>4. QED
  BY <1>1, <1>3 DEF FormsFit

LEMMA OpenNewTypes ==
    ASSUME TypeInv, NEW tab \in Tabs, OpenNew(tab)
    PROVE  TypeInv'
<1> DEFINE form == [ClosedForm EXCEPT !.at = "open"]
<1>1. form \in Form /\ Fits(form)
  BY FormTypes DEF ClosedForm, Form, Fits
<1>2. forms' \in [Tabs -> Form] /\ FormsFit'
  BY <1>1, FormType DEF OpenNew
<1>3. QED
  BY <1>2, LeavePageType DEF OpenNew, TypeInv, TypeOK, ForeignKey

LEMMA OpenEditTypes ==
    ASSUME TypeInv, NEW tab \in Tabs, NEW e \in Expenses, OpenEdit(tab, e)
    PROVE  TypeInv'
<1> DEFINE row == expenses[e]
           template == templates[row.template]
           form == [ClosedForm EXCEPT
                       !.at = "open", !.expense = e, !.template = row.template,
                       !.period = row.period, !.month = row.month]
           fixed == [form EXCEPT !.active = template.active,
                                 !.start = template.start]
<1>1. row \in ExpenseRow /\ Refers(templates, row.template)
  BY QueryTypes DEF OpenEdit, TypeInv, ForeignKey
<1>2. form \in Form /\ Fits(form)
  <2>1. <<>> \in Seq(Calls)
    OBVIOUS
  <2>2. form \in Form
    BY <1>1, <2>1 DEF ClosedForm, Form, ExpenseRow
  <2>3. QED
    BY <1>1, <2>2 DEF ClosedForm, Fits, ExpenseRow
<1>3. CASE row.template = None
  <2>1. forms' = [forms EXCEPT ![tab] = form]
    BY <1>3 DEF OpenEdit
  <2>2. forms' \in [Tabs -> Form] /\ FormsFit'
    BY <1>2, <2>1, FormType
  <2>3. QED
    BY <2>2, LeavePageType DEF OpenEdit, TypeInv, TypeOK, ForeignKey
<1>4. CASE row.template # None
  <2>1. template \in TemplateRow
    BY <1>1, <1>4 DEF ExpenseRow, Refers, Absent, TypeInv, TypeOK
  <2>2. fixed \in Form /\ Fits(fixed)
    <3> HIDE DEF form
    <3>1. fixed \in Form
      BY <1>2, <2>1 DEF Form, TemplateRow
    <3>2. /\ fixed.at = form.at /\ fixed.expense = form.expense
          /\ fixed.month = form.month
      BY <1>2 DEF Form
    <3>3. form.at = "open"
      BY DEF form, ClosedForm
    <3>4. QED
      BY <1>2, <3>1, <3>2, <3>3 DEF Fits
  <2>3. forms' = [forms EXCEPT ![tab] = fixed]
    BY <1>4 DEF OpenEdit
  <2>4. forms' \in [Tabs -> Form] /\ FormsFit'
    BY <2>2, <2>3, FormType
  <2>5. QED
    BY <2>4, LeavePageType DEF OpenEdit, TypeInv, TypeOK, ForeignKey
<1>5. QED
  BY <1>3, <1>4

LEMMA SaveTypes ==
    ASSUME TypeInv, NEW tab \in Tabs, Save(tab)
    PROVE  TypeInv'
<1> DEFINE form == forms[tab]
<1>a. PICK kind \in KindsOf(form) \cap Operations :
          \E date \in DateChoices(form, kind) :
          \E end \in EndChoices(form, kind, date) :
              /\ kind = "single" => Cardinality(Singles) < SinglesMax
              /\ forms' = [forms EXCEPT ![tab] =
                       [form EXCEPT !.at = "saving", !.kind = kind,
                                    !.date = date, !.end = end,
                                    !.nowAt = now,
                                    !.todo = Script(form, kind, date)]]
  BY Zenon DEF Save
<1>b. PICK date \in DateChoices(form, kind) :
          \E end \in EndChoices(form, kind, date) :
              forms' = [forms EXCEPT ![tab] =
                       [form EXCEPT !.at = "saving", !.kind = kind,
                                    !.date = date, !.end = end,
                                    !.nowAt = now,
                                    !.todo = Script(form, kind, date)]]
  BY <1>a, Zenon
<1>1. PICK end \in EndChoices(form, kind, date) :
          forms' = [forms EXCEPT ![tab] =
                       [form EXCEPT !.at = "saving", !.kind = kind,
                                    !.date = date, !.end = end,
                                    !.nowAt = now,
                                    !.todo = Script(form, kind, date)]]
  BY <1>b
<1> DEFINE saved == [form EXCEPT !.at = "saving", !.kind = kind,
                                 !.date = date, !.end = end,
                                 !.nowAt = now,
                                 !.todo = Script(form, kind, date)]
<1>2. form \in Form /\ Fits(form)
  BY DEF TypeInv, TypeOK, FormsFit
<1>3. /\ kind \in Kinds
      /\ kind \notin {"single", "fixed"} => form.expense # None
  BY <1>2, KindsType
<1>4. date \in Months
  BY <1>2, <1>3 DEF DateChoices, Fits, Form
<1>5. end \in Ends
  <2>1. StartMonth(form, date) \in Months
    BY <1>2, <1>4 DEF StartMonth, Form
  <2>2. QED
    BY <2>1, MonthsAreNumbers, StoreAssumption DEF EndChoices, Ends, Forever, Months
<1>6. now \in Months
  BY DEF TypeInv, TypeOK
<1>7. /\ Script(form, kind, date) \in Seq(Calls)
      /\ Script(form, kind, date) \in Seq(CallsOf(kind))
  BY <1>2, <1>4, ScriptType
<1>8. saved \in Form /\ Fits(saved)
  <2> HIDE DEF form
  <2>1. saved \in Form
    BY <1>2, <1>3, <1>4, <1>5, <1>6, <1>7 DEF Form
  <2>2. /\ saved.at = "saving" /\ saved.kind = kind /\ saved.date = date
        /\ saved.end = end /\ saved.nowAt = now
        /\ saved.todo = Script(form, kind, date)
        /\ saved.expense = form.expense /\ saved.month = form.month
    BY <1>2 DEF Form
  <2>3. kind \notin {"single", "fixed"} => form.expense \in Expenses
    BY <1>2, <1>3 DEF Form
  <2>4. QED
    BY <1>2, <1>3, <1>4, <1>5, <1>6, <1>7, <2>1, <2>2, <2>3 DEF Fits
<1>9. forms' \in [Tabs -> Form] /\ FormsFit'
  BY <1>1, <1>8, FormType
<1>10. QED
  BY <1>9 DEF Save, TypeInv, TypeOK, LoadsPlaced, ForeignKey

LEMMA ReturnTypes ==
    ASSUME TypeInv, NEW tab \in Tabs, Return(tab)
    PROVE  TypeInv'
<1>1. forms' \in [Tabs -> Form] /\ FormsFit'
  BY FormTypes, FormType DEF Return
<1>2. StartLoad(tab, now, {}) /\ now \in Months
  BY DEF Return, TypeInv, TypeOK
<1>3. QED
  BY <1>1, <1>2, StartLoadType DEF Return, TypeInv, TypeOK, ForeignKey

LEMMA UserStepTypes ==
    ASSUME TypeInv, NEW tab \in Tabs, UserStep(tab)
    PROVE  TypeInv'
<1>1. CASE VisitLedger(tab)
  <2>1. StartLoad(tab, now, {}) /\ now \in Months
    BY <1>1 DEF VisitLedger, TypeInv, TypeOK
  <2>2. QED
    BY <1>1, <2>1, StartLoadType
       DEF VisitLedger, TypeInv, TypeOK, FormsFit, ForeignKey
<1>2. CASE SelectMonth(tab)
  <2>1. PICK m \in Months :
            StartLoad(tab, m, {l \in LoadsOf(tab) : ~loads[l].silent})
    BY <1>2 DEF SelectMonth
  <2>2. QED
    BY <1>2, <2>1, StartLoadType
       DEF SelectMonth, TypeInv, TypeOK, FormsFit, ForeignKey
<1>3. CASE OpenNew(tab)
  BY <1>3, OpenNewTypes
<1>4. ASSUME NEW e \in Expenses, OpenEdit(tab, e) PROVE TypeInv'
  BY <1>4, OpenEditTypes
<1>5. CASE Save(tab)
  BY <1>5, SaveTypes
<1>6. CASE Cancel(tab)
  BY <1>6, ReturnTypes DEF Cancel
<1>7. QED
  BY <1>1, <1>2, <1>3, <1>4, <1>5, <1>6 DEF UserStep

-----------------------------------------------------------------------------
(* Steps of a save.                                                        *)

LEMMA NextCallFacts ==
    ASSUME TypeInv, NEW tab \in Tabs, NEW call, NextCall(tab, call)
    PROVE  /\ forms[tab] \in Form /\ Fits(forms[tab])
           /\ forms[tab].at = "saving"
           /\ forms[tab].kind \in Kinds
           /\ forms[tab].date \in Months
           /\ forms[tab].end \in Ends
           /\ forms[tab].nowAt \in Months
           /\ call \in CallsOf(forms[tab].kind)
           /\ Done(forms[tab]) \in Form /\ Fits(Done(forms[tab]))
<1>1. forms[tab] \in Form /\ Fits(forms[tab]) /\ forms[tab].at = "saving"
  BY DEF TypeInv, TypeOK, FormsFit, NextCall
<1>2. forms[tab].todo \in Seq(CallsOf(forms[tab].kind))
  BY <1>1 DEF Fits
<1>3. forms[tab].todo # <<>> /\ call = Head(forms[tab].todo)
  BY DEF NextCall
<1>4. call \in CallsOf(forms[tab].kind)
  BY <1>2, <1>3
<1>5. QED
  BY <1>1, <1>3, <1>4, DoneType DEF Fits

LEMMA SaveFailsTypes ==
    ASSUME TypeInv, NEW tab \in Tabs, NEW qs \in SUBSET Request, SaveFails(tab, qs)
    PROVE  /\ forms' \in [Tabs -> Form] /\ FormsFit'
           /\ requests' \subseteq Request
<1>1. forms' = [forms EXCEPT ![tab] = Reopened(forms[tab])]
  BY DEF SaveFails
<1>2. Reopened(forms[tab]) \in Form /\ Fits(Reopened(forms[tab]))
  BY FormTypes DEF TypeInv, TypeOK, FormsFit
<1>3. ASSUME NEW q \in qs
      PROVE  [q EXCEPT !.awaited = @ /\ q.tab # tab] \in Request
  BY DEF Request
<1>4. requests' \subseteq Request
  BY <1>3 DEF SaveFails, Abandoned
<1>5. QED
  BY <1>1, <1>2, <1>4, FormType

LEMMA AnsweredTypes ==
    ASSUME TypeInv, NEW tab \in Tabs, NEW form \in Form,
           Done(form) \in Form, Fits(Done(form)), Answered(tab, form)
    PROVE  forms' \in [Tabs -> Form] /\ FormsFit'
<1>1. Reopened(forms[tab]) \in Form /\ Fits(Reopened(forms[tab]))
  BY FormTypes DEF TypeInv, TypeOK, FormsFit
<1>2. \/ forms' = [forms EXCEPT ![tab] = Done(form)]
      \/ forms' = [forms EXCEPT ![tab] = Reopened(forms[tab])]
  BY DEF Answered
<1>3. QED
  BY <1>1, <1>2, FormType

LEMMA ToldType ==
    ASSUME NEW form \in Form, NEW t \in Templates
    PROVE  [form EXCEPT !.created = t, !.made = form.made + 1] \in Form
<1>1. form.made + 1 \in Nat
  BY DEF Form
<1>2. ASSUME NEW n \in Nat
      PROVE  [form EXCEPT !.created = t, !.made = n] \in Form
  BY DEF Form
<1>3. QED
  BY <1>1, <1>2

LEMMA CreateTemplateTypes ==
    ASSUME TypeInv, NEW tab \in Tabs, CreateTemplate(tab)
    PROVE  TypeInv'
<1> DEFINE form == forms[tab]
<1>1. form \in Form /\ Fits(form) /\ form.at = "saving" /\ form.todo # <<>>
  BY NextCallFacts DEF CreateTemplate, NextCall
<1>2. form.date \in Months /\ form.end \in Ends
  BY NextCallFacts DEF CreateTemplate
<1>3. PICK t \in FreshTemplate :
          /\ templates' = [templates EXCEPT ![t] =
                 [start |-> form.date, end |-> form.end, active |-> TRUE]]
          /\ Answered(tab, [form EXCEPT !.created = t, !.made = @ + 1])
  BY Zenon DEF CreateTemplate
<1> DEFINE told == [form EXCEPT !.created = t, !.made = form.made + 1]
           row == [start |-> form.date, end |-> form.end, active |-> TRUE]
<1>4. t \in Templates /\ templates[t] = None
  BY DEF FreshTemplate, Absent
<1>5. told \in Form /\ Fits(told) /\ told.todo # <<>>
  <2> HIDE DEF form
  <2>1. told \in Form
    BY <1>1, <1>4, ToldType
  <2>2. /\ told.at = form.at /\ told.expense = form.expense
        /\ told.month = form.month /\ told.kind = form.kind
        /\ told.date = form.date /\ told.end = form.end
        /\ told.nowAt = form.nowAt /\ told.todo = form.todo
    BY <1>1 DEF Form
  <2>3. QED
    BY <1>1, <2>1, <2>2 DEF Fits
<1>6. forms' \in [Tabs -> Form] /\ FormsFit'
  <2>1. Answered(tab, told)
    BY <1>3
  <2>2. Done(told) \in Form /\ Fits(Done(told))
    BY <1>5, DoneType
  <2>3. QED
    BY <1>5, <2>1, <2>2, AnsweredTypes
<1>7. row \in TemplateRow
  BY <1>2 DEF TemplateRow
<1>8. templates' \in [Templates -> TemplateRow \cup {None}]
  BY <1>3, <1>4, <1>7 DEF TypeInv, TypeOK
<1>9. ForeignKey'
  <2>1. \A u \in Templates : ~Absent(templates, u) => ~Absent(templates', u)
    BY <1>3, <1>4 DEF Absent, TypeInv, TypeOK
  <2>2. QED
    BY <2>1, QueryTypes
       DEF CreateTemplate, ForeignKey, Refers, ExpenseRow, TypeInv
<1>10. QED
  BY <1>6, <1>8, <1>9 DEF CreateTemplate, TypeInv, TypeOK, LoadsPlaced

LEMMA CreateExpenseTypes ==
    ASSUME TypeInv, NEW tab \in Tabs, CreateExpense(tab)
    PROVE  TypeInv'
<1> DEFINE form == forms[tab]
           row == NewRow(form)
<1>1. /\ form \in Form /\ form.date \in Months
      /\ Done(form) \in Form /\ Fits(Done(form))
  BY NextCallFacts DEF CreateExpense
<1>2. row \in ExpenseRow
  BY <1>1 DEF NewRow, Instance, ExpenseRow, Form
<1>3. CASE SaveFails(tab, requests) /\ UNCHANGED expenses
  <2>1. /\ forms' \in [Tabs -> Form] /\ FormsFit'
        /\ requests' \subseteq Request
    BY <1>3, SaveFailsTypes DEF TypeInv, TypeOK
  <2>2. QED
    BY <1>3, <2>1 DEF CreateExpense, TypeInv, TypeOK, LoadsPlaced, ForeignKey
<1>4. ASSUME Refers(templates, row.template), Answered(tab, form),
             NEW e \in FreshExpense, expenses' = [expenses EXCEPT ![e] = row],
             UNCHANGED requests
      PROVE  TypeInv'
  <2>1. forms' \in [Tabs -> Form] /\ FormsFit'
    BY <1>1, <1>4, AnsweredTypes
  <2>2. e \in Expenses
    BY DEF FreshExpense
  <2>3. UNCHANGED templates
    BY DEF CreateExpense
  <2>4. expenses' \in [Expenses -> ExpenseRow \cup {None}] /\ ForeignKey'
    BY <1>2, <1>4, <2>2, <2>3, WriteType
  <2>5. QED
    BY <1>4, <2>1, <2>4 DEF CreateExpense, TypeInv, TypeOK, LoadsPlaced
<1>5. QED
  BY <1>3, <1>4 DEF CreateExpense

LEMMA OwnPatchType ==
    ASSUME NEW form \in Form, form.date \in Months
    PROVE  OwnPatch(form) \in Patch
BY DEF OwnPatch, NoPatch, Patch, Form

LEMMA UpdateType ==
    ASSUME NEW tab \in Tabs, NEW e \in Expenses, NEW patch \in Patch
    PROVE  Update(tab, e, patch) \in Request /\ Delete(tab, e) \in Request
BY DEF Update, Delete, NoPatch, Patch, Request

LEMMA SendTypes ==
    ASSUME TypeInv, NEW tab \in Tabs, SendUpdate(tab) \/ SendDelete(tab)
    PROVE  TypeInv'
<1> DEFINE form == forms[tab]
<1>1. /\ form \in Form /\ Fits(form) /\ form.at = "saving"
      /\ form.kind \in Kinds /\ form.date \in Months
      /\ Done(form) \in Form /\ Fits(Done(form))
  BY NextCallFacts DEF SendUpdate, SendDelete
<1>2. form.kind \notin {"single", "fixed"}
  <2>1. \/ "updateExpense" \in CallsOf(form.kind)
        \/ "deleteExpense" \in CallsOf(form.kind)
    BY NextCallFacts DEF SendUpdate, SendDelete
  <2>2. QED
    BY <2>1 DEF CallsOf
<1>3. form.expense \in Expenses
  BY <1>1, <1>2 DEF Fits
<1>4. requests' \subseteq Request
  BY <1>1, <1>3, OwnPatchType, UpdateType
     DEF SendUpdate, SendDelete, TypeInv, TypeOK, NoPatch, Patch
<1>5. forms' \in [Tabs -> Form] /\ FormsFit'
  <2>1. forms' = [forms EXCEPT ![tab] = Done(form)]
    BY DEF SendUpdate, SendDelete
  <2>2. QED
    BY <1>1, <2>1, FormType
<1>6. QED
  BY <1>4, <1>5
     DEF SendUpdate, SendDelete, TypeInv, TypeOK, LoadsPlaced, ForeignKey

LEMMA UpdateTemplateTypes ==
    ASSUME TypeInv, NEW tab \in Tabs, UpdateTemplate(tab)
    PROVE  TypeInv'
<1> DEFINE form == forms[tab]
           row == Retermed(form, templates[form.template])
<1>1. /\ form \in Form /\ form.kind \in Kinds /\ form.end \in Ends
      /\ "updateTemplate" \in CallsOf(form.kind)
      /\ Done(form) \in Form /\ Fits(Done(form))
  BY NextCallFacts DEF UpdateTemplate
<1>2. form.kind \in {"edit", "unfix", "refix"}
  BY <1>1 DEF CallsOf, Kinds
<1>3. CASE Absent(templates, form.template)
  <2>1. /\ forms' \in [Tabs -> Form] /\ FormsFit'
        /\ requests' \subseteq Request
    BY <1>3, SaveFailsTypes DEF UpdateTemplate, TypeInv, TypeOK
  <2>2. QED
    BY <1>3, <2>1 DEF UpdateTemplate, TypeInv, TypeOK, LoadsPlaced, ForeignKey
<1>4. CASE ~Absent(templates, form.template)
  <2>1. forms' \in [Tabs -> Form] /\ FormsFit'
    BY <1>1, <1>4, AnsweredTypes DEF UpdateTemplate
  <2>2. templates' = [templates EXCEPT ![form.template] = row]
    BY <1>4 DEF UpdateTemplate
  <2>3. form.template \in Templates => row \in TemplateRow
    BY <1>1, <1>2, <1>4 DEF Retermed, TemplateRow, Absent, TypeInv, TypeOK
  <2>4. templates' \in [Templates -> TemplateRow \cup {None}]
    BY <2>2, <2>3 DEF TypeInv, TypeOK
  <2>5. \A t \in Templates : ~Absent(templates, t) => ~Absent(templates', t)
    BY <2>2, <2>3, StoreAssumption DEF Absent, TypeInv, TypeOK
  <2>6. ForeignKey'
    BY <2>5, QueryTypes
       DEF UpdateTemplate, ForeignKey, Refers, ExpenseRow, TypeInv
  <2>7. QED
    BY <1>4, <2>1, <2>4, <2>6 DEF UpdateTemplate, TypeInv, TypeOK, LoadsPlaced
<1>5. QED
  BY <1>3, <1>4

LEMMA ListInstancesTypes ==
    ASSUME TypeInv, NEW tab \in Tabs, ListInstances(tab)
    PROVE  TypeInv'
<1> DEFINE form == forms[tab]
           listed == ListInstancesAfter(expenses, form.template, ListedFrom(form))
<1>1. Done(form) \in Form /\ Fits(Done(form))
  BY NextCallFacts DEF ListInstances
<1>2. ASSUME NEW e \in listed PROVE Follow(tab, form, e) \in Request
  <2>1. e \in Visible(expenses) /\ expenses[e].period # None
    BY DEF ListInstancesAfter
  <2>2. e \in Expenses /\ expenses[e].period \in Months
    BY <2>1, QueryTypes DEF TypeInv, ExpenseRow
  <2>3. [NoPatch EXCEPT !.month = expenses[e].period] \in Patch /\ NoPatch \in Patch
    BY <2>2 DEF NoPatch, Patch
  <2>4. QED
    BY <2>2, <2>3, UpdateType DEF Follow
<1>3. requests' \subseteq Request
  BY <1>2 DEF ListInstances, TypeInv, TypeOK
<1>4. forms' \in [Tabs -> Form] /\ FormsFit'
  <2>1. forms' = [forms EXCEPT ![tab] = Done(form)]
    BY DEF ListInstances
  <2>2. QED
    BY <1>1, <2>1, FormType
<1>5. QED
  BY <1>3, <1>4 DEF ListInstances, TypeInv, TypeOK, LoadsPlaced, ForeignKey

LEMMA DeleteTemplateTypes ==
    ASSUME TypeInv, NEW tab \in Tabs, DeleteTemplate(tab)
    PROVE  TypeInv'
<1> DEFINE form == forms[tab]
<1>1. /\ form \in Form
      /\ Done(form) \in Form /\ Fits(Done(form))
  BY NextCallFacts DEF DeleteTemplate
<1>2. CASE Absent(templates, form.template)
  <2>1. /\ forms' \in [Tabs -> Form] /\ FormsFit'
        /\ requests' \subseteq Request
    BY <1>2, SaveFailsTypes DEF DeleteTemplate, TypeInv, TypeOK
  <2>2. QED
    BY <1>2, <2>1 DEF DeleteTemplate, TypeInv, TypeOK, LoadsPlaced, ForeignKey
<1>3. CASE ~Absent(templates, form.template)
  <2>1. forms' \in [Tabs -> Form] /\ FormsFit'
    BY <1>1, <1>3, AnsweredTypes DEF DeleteTemplate
  <2>2. /\ templates' = [templates EXCEPT ![form.template] = None]
        /\ expenses' = Cascade(expenses, form.template)
        /\ UNCHANGED requests
    BY <1>3 DEF DeleteTemplate
  <2>3. templates' \in [Templates -> TemplateRow \cup {None}]
    BY <2>2 DEF TypeInv, TypeOK
  <2>4. expenses' \in [Expenses -> ExpenseRow \cup {None}]
    BY <2>2 DEF Cascade, TypeInv, TypeOK
  <2>5. \A e \in Present(expenses') :
            /\ e \in Present(expenses) /\ expenses'[e] = expenses[e]
            /\ expenses[e].template # form.template
    BY <2>2, <2>4 DEF Cascade, Present, TypeInv, TypeOK
  <2>6. \A t \in Templates : t # form.template => templates'[t] = templates[t]
    BY <2>2 DEF TypeInv, TypeOK
  <2>7. ForeignKey'
    <3>1. ASSUME NEW e \in Present(expenses')
          PROVE  Refers(templates', expenses'[e].template)
      <4>1. /\ expenses'[e] = expenses[e] /\ expenses[e] \in ExpenseRow
            /\ Refers(templates, expenses[e].template)
            /\ expenses[e].template # form.template
        BY <2>5, QueryTypes DEF TypeInv, ForeignKey
      <4>2. QED
        BY <2>6, <4>1 DEF Refers, Absent, ExpenseRow
    <3>2. QED
      BY <3>1 DEF ForeignKey
  <2>8. QED
    BY <2>1, <2>2, <2>3, <2>4, <2>7 DEF DeleteTemplate, TypeInv, TypeOK, LoadsPlaced
<1>4. QED
  BY <1>2, <1>3

LEMMA SaveStepTypes ==
    ASSUME TypeInv, NEW tab \in Tabs, SaveStep(tab)
    PROVE  TypeInv'
<1>1. CASE CallFails(tab)
  <2>1. /\ forms' \in [Tabs -> Form] /\ FormsFit'
        /\ requests' \subseteq Request
    BY <1>1, SaveFailsTypes DEF CallFails, TypeInv, TypeOK
  <2>2. QED
    BY <1>1, <2>1 DEF CallFails, TypeInv, TypeOK, LoadsPlaced, ForeignKey
<1>2. CASE Saved(tab)
  BY <1>2, ReturnTypes DEF Saved
<1>3. QED
  BY <1>1, <1>2, CreateTemplateTypes, CreateExpenseTypes, SendTypes,
     UpdateTemplateTypes, ListInstancesTypes, DeleteTemplateTypes DEF SaveStep

-----------------------------------------------------------------------------
(* Steps of a request.                                                     *)

LEMMA RequestFailsTypes ==
    ASSUME TypeInv, NEW q \in requests, RequestFails(q)
    PROVE  /\ forms' \in [Tabs -> Form] /\ FormsFit'
           /\ requests' \subseteq Request
<1>1. q \in Request /\ q.tab \in Tabs /\ requests \ {q} \in SUBSET Request
  BY DEF TypeInv, TypeOK, Request
<1>2. CASE q.awaited
  BY <1>1, <1>2, SaveFailsTypes DEF RequestFails
<1>3. CASE ~q.awaited
  BY <1>1, <1>3 DEF RequestFails, TypeInv, TypeOK, FormsFit
<1>4. QED
  BY <1>2, <1>3

LEMMA CheckUpdateTypes ==
    ASSUME TypeInv, NEW q \in requests, CheckUpdate(q)
    PROVE  TypeInv'
<1>1. q \in Request
  BY DEF TypeInv, TypeOK
<1>2. [q EXCEPT !.checked = TRUE] \in Request
  BY <1>1 DEF Request
<1>3. /\ forms' \in [Tabs -> Form] /\ FormsFit'
      /\ requests' \subseteq Request
  BY <1>2, RequestFailsTypes DEF CheckUpdate, TypeInv, TypeOK, FormsFit
<1>4. QED
  BY <1>3 DEF CheckUpdate, TypeInv, TypeOK, LoadsPlaced, ForeignKey

LEMMA WriteUpdateTypes ==
    ASSUME TypeInv, NEW q \in requests, WriteUpdate(q)
    PROVE  TypeInv'
<1> DEFINE row == expenses[q.expense]
           written == Patched(row, q.patch)
<1>1. q \in Request /\ q.expense \in Expenses /\ q.patch \in Patch
  BY DEF TypeInv, TypeOK, Request
<1>2. CASE RequestFails(q) /\ UNCHANGED <<expenses, skipped>>
  BY <1>2, RequestFailsTypes
     DEF WriteUpdate, TypeInv, TypeOK, LoadsPlaced, ForeignKey
<1>3. CASE row # None /\ ~Refused(templates, expenses, q.expense, q.patch)
  <2>1. row \in ExpenseRow
    BY <1>1, <1>3 DEF TypeInv, TypeOK
  <2>2. written \in ExpenseRow
    BY <1>1, <2>1, PatchedType
  <2>3. Refers(templates, written.template)
    BY <1>3 DEF Refused
  <2>4. /\ expenses' = [expenses EXCEPT ![q.expense] = written]
        /\ UNCHANGED templates
        /\ requests' = requests \ {q} /\ UNCHANGED forms
        /\ skipped' = IF q.patch.removed
                      THEN skipped \cup {<<row.template, row.period>>}
                      ELSE skipped
    BY <1>3 DEF WriteUpdate, Answer
  <2>5. expenses' \in [Expenses -> ExpenseRow \cup {None}] /\ ForeignKey'
    BY <1>1, <2>2, <2>3, <2>4, WriteType
  <2>6. skipped' \subseteq (Templates \cup {None}) \X (Months \cup {None})
    BY <2>1, <2>4 DEF ExpenseRow, TypeInv, TypeOK
  <2>7. QED
    BY <2>4, <2>5, <2>6
       DEF WriteUpdate, TypeInv, TypeOK, LoadsPlaced, FormsFit
<1>4. QED
  BY <1>2, <1>3 DEF WriteUpdate

LEMMA RemoveExpenseTypes ==
    ASSUME TypeInv, NEW q \in requests, RemoveExpense(q)
    PROVE  TypeInv'
<1>1. CASE RequestFails(q) /\ UNCHANGED expenses
  BY <1>1, RequestFailsTypes
     DEF RemoveExpense, TypeInv, TypeOK, LoadsPlaced, ForeignKey
<1>2. CASE expenses' = [expenses EXCEPT ![q.expense] = None] /\ Answer(q)
  <2>1. expenses' \in [Expenses -> ExpenseRow \cup {None}]
    BY <1>2 DEF TypeInv, TypeOK
  <2>2. \A e \in Present(expenses') :
            e \in Present(expenses) /\ expenses'[e] = expenses[e]
    BY <1>2, <2>1 DEF Present, TypeInv, TypeOK
  <2>3. ForeignKey'
    BY <2>2 DEF RemoveExpense, ForeignKey, TypeInv
  <2>4. QED
    BY <1>2, <2>1, <2>3
       DEF RemoveExpense, Answer, TypeInv, TypeOK, LoadsPlaced, FormsFit
<1>3. QED
  BY <1>1, <1>2 DEF RemoveExpense

LEMMA RequestStepTypes ==
    ASSUME TypeInv, NEW q \in requests, RequestStep(q)
    PROVE  TypeInv'
<1>1. CASE RequestLost(q)
  <2>1. q.tab \in Tabs /\ requests \in SUBSET Request
    BY DEF TypeInv, TypeOK, Request
  <2>2. /\ forms' \in [Tabs -> Form] /\ FormsFit'
        /\ requests' \subseteq Request
    BY <1>1, <2>1, RequestFailsTypes, SaveFailsTypes DEF RequestLost
  <2>3. QED
    BY <1>1, <2>2 DEF RequestLost, TypeInv, TypeOK, LoadsPlaced, ForeignKey
<1>2. QED
  BY <1>1, CheckUpdateTypes, WriteUpdateTypes, RemoveExpenseTypes DEF RequestStep

-----------------------------------------------------------------------------
LEMMA TypeInit == Init => TypeInv
<1> SUFFICES ASSUME Init PROVE TypeInv
  OBVIOUS
<1>1. FreeLoad.at = "free"
  BY DEF FreeLoad
<1>2. TypeOK
  BY ScreenTypes, FormTypes, MonthsAreNumbers DEF Init, TypeOK
<1>3. FormsFit /\ LoadsPlaced /\ ForeignKey
  BY <1>1, FormTypes DEF Init, FormsFit, LoadsPlaced, ForeignKey, Present
<1>4. QED
  BY <1>2, <1>3 DEF TypeInv

LEMMA TypeStep == TypeInv /\ [Next]_vars => TypeInv'
<1> SUFFICES ASSUME TypeInv, [Next]_vars PROVE TypeInv'
  OBVIOUS
<1>1. CASE MonthPasses
  <2>1. now' \in Months
    BY <1>1, StoreAssumption DEF MonthPasses, Months, TypeInv, TypeOK
  <2>2. QED
    BY <1>1, <2>1
       DEF MonthPasses, TypeInv, TypeOK, FormsFit, LoadsPlaced, ForeignKey
<1>2. CASE UNCHANGED vars
  BY <1>2 DEF vars, TypeInv, TypeOK, FormsFit, LoadsPlaced, ForeignKey
<1>3. QED
  BY <1>1, <1>2, LoadStepTypes, UserStepTypes, SaveStepTypes, RequestStepTypes
     DEF Next

(* TypeOK: tables, screens, loads, forms and calls keep their shape; the   *)
(* invariant behind it includes the foreign key from rows to templates,    *)
(* which the cascade of DELETE /recurring/:id has to keep.                 *)
THEOREM TypeCorrect == Spec => []TypeOK
<1>1. TypeInv => TypeOK
  BY DEF TypeInv
<1>2. QED
  BY <1>1, TypeInit, TypeStep, PTL DEF Spec

-----------------------------------------------------------------------------
(***************************************************************************)
(* What the page shows and what its form sends, for any number of tabs, of *)
(* loads that overtake each other and of saves that fail and are tried     *)
(* again.                                                                  *)
(***************************************************************************)

-----------------------------------------------------------------------------
(* The inductive invariant: the page listens to at most one load, the one  *)
(* of the month it is on, and exactly while it says "loading".             *)

Answering(l) ==
    /\ loads[l].at # "free"
    /\ ~loads[l].stale
    /\ ~loads[l].silent

AnswersFit ==
    \A l \in Loads : Answering(l) =>
        /\ loads[l].month = month[loads[l].tab]
        /\ shown[loads[l].tab].status = "loading"

OneAnswers ==
    \A l, k \in Loads :
        Answering(l) /\ Answering(k) /\ loads[l].tab = loads[k].tab => l = k

LoadingIsAnswered ==
    \A tab \in Tabs : shown[tab].status = "loading" =>
        \E l \in Loads : Answering(l) /\ loads[l].tab = tab

(* A form covers the page.                                                 *)
FormCovers ==
    \A tab \in Tabs : forms[tab].at # "closed" => shown[tab].status = "away"

(* A call is awaited by a save that is under way.                          *)
AwaitedBySave ==
    \A q \in requests : q.awaited => forms[q.tab].at = "saving"

PageInv ==
    /\ ShowsSelectedMonth
    /\ AnswersFit
    /\ OneAnswers
    /\ LoadingIsAnswered
    /\ FormCovers

-----------------------------------------------------------------------------
(* Steps of a load.                                                        *)

LEMMA LoadGoesOn ==
    ASSUME TypeInv, PageInv, NEW l \in Loads, NEW load \in Load,
           Goes(l, load),
           load.at = "free" => loads[l].stale,
           load.at # "free" => load.silent = loads[l].silent,
           loads[l].at = "free" => load.at = "free",
           load.at = "free" => ~Answering(l),
           UNCHANGED <<shown, month, forms>>
    PROVE  PageInv'
<1>1. loads \in [Loads -> Load]
  BY DEF TypeInv, TypeOK
<1>2. \A k \in Loads :
          Answering(k)' =>
              /\ Answering(k)
              /\ loads'[k].tab = loads[k].tab
              /\ loads'[k].month = loads[k].month
  BY <1>1 DEF Answering, Goes
<1>3. \A k \in Loads : Answering(k) =>
          Answering(k)' /\ loads'[k].tab = loads[k].tab
  BY <1>1 DEF Answering, Goes
<1>4. AnswersFit'
  BY <1>2 DEF PageInv, AnswersFit
<1>5. OneAnswers'
  BY <1>2 DEF PageInv, OneAnswers
<1>6. LoadingIsAnswered'
  BY <1>3 DEF PageInv, LoadingIsAnswered
<1>7. QED
  BY <1>4, <1>5, <1>6 DEF PageInv, ShowsSelectedMonth, FormCovers

(* A load that the page listens to brings it to "ready" or "error", and    *)
(* is not listened to any more.                                            *)
LEMMA LoadEnds ==
    ASSUME TypeInv, PageInv, NEW l \in Loads, NEW load \in Load,
           NEW screen \in Screen,
           Goes(l, load),
           load.at = "free" \/ load.silent,
           loads[l].at # "free",
           shown' = IF loads[l].stale \/ loads[l].silent THEN shown
                    ELSE [shown EXCEPT ![loads[l].tab] = screen],
           \/ screen.status = "error"
           \/ screen.status = "ready" /\ screen.month = loads[l].month,
           UNCHANGED <<month, forms>>
    PROVE  PageInv'
<1>1. /\ loads \in [Loads -> Load]
      /\ shown \in [Tabs -> Screen]
      /\ loads[l].tab \in Tabs
  BY DEF TypeInv, TypeOK, LoadsPlaced
<1>2. \A k \in Loads : k # l => loads'[k] = loads[k]
  BY <1>1 DEF Goes
<1>3. ~Answering(l)'
  BY <1>1 DEF Answering, Goes
<1>4. \A k \in Loads : Answering(k)' =>
          /\ k # l
          /\ Answering(k)
          /\ loads'[k] = loads[k]
  BY <1>2, <1>3 DEF Answering
<1>5. CASE ~Answering(l)
  <2>1. shown' = shown
    BY <1>5 DEF Answering
  <2>2. \A k \in Loads : Answering(k) =>
            Answering(k)' /\ loads'[k] = loads[k]
    BY <1>2, <1>5 DEF Answering
  <2>3. AnswersFit' /\ OneAnswers' /\ LoadingIsAnswered'
    BY <1>4, <2>1, <2>2
       DEF PageInv, AnswersFit, OneAnswers, LoadingIsAnswered
  <2>4. QED
    BY <2>1, <2>3 DEF PageInv, ShowsSelectedMonth, FormCovers
<1>6. CASE Answering(l)
  <2> DEFINE tab == loads[l].tab
  <2>1. shown' = [shown EXCEPT ![tab] = screen]
    BY <1>6 DEF Answering
  <2>2. /\ shown'[tab] = screen
        /\ \A u \in Tabs : u # tab => shown'[u] = shown[u]
    BY <1>1, <2>1
  <2>3. month[tab] = loads[l].month /\ shown[tab].status = "loading"
    BY <1>6 DEF PageInv, AnswersFit
  <2>4. \A k \in Loads : Answering(k)' =>
            loads[k].tab \in Tabs /\ loads[k].tab # tab
    BY <1>4, <1>6 DEF PageInv, OneAnswers, Answering, TypeInv, LoadsPlaced
  <2>5. ShowsSelectedMonth'
    BY <2>2, <2>3 DEF PageInv, ShowsSelectedMonth
  <2>6. AnswersFit'
    BY <1>4, <2>2, <2>4 DEF PageInv, AnswersFit
  <2>7. OneAnswers'
    BY <1>4 DEF PageInv, OneAnswers
  <2>8. LoadingIsAnswered'
    <3>1. ASSUME NEW u \in Tabs, shown'[u].status = "loading"
          PROVE  \E k \in Loads : Answering(k)' /\ loads'[k].tab = u
      <4>1. u # tab
        BY <2>2, <3>1
      <4>2. PICK k \in Loads : Answering(k) /\ loads[k].tab = u
        BY <2>2, <3>1, <4>1 DEF PageInv, LoadingIsAnswered
      <4>3. k # l
        BY <4>1, <4>2
      <4>4. QED
        BY <1>2, <4>2, <4>3 DEF Answering
    <3>2. QED
      BY <3>1 DEF LoadingIsAnswered
  <2>9. FormCovers'
    BY <2>2, <2>3 DEF PageInv, FormCovers
  <2>10. QED
    BY <2>5, <2>6, <2>7, <2>8, <2>9 DEF PageInv
<1>7. QED
  BY <1>5, <1>6

LEMMA LoadStepPage ==
    ASSUME TypeInv, PageInv, NEW l \in Loads, LoadStep(l)
    PROVE  PageInv'
<1>1. TypeOK /\ loads[l] \in Load /\ FreeLoad \in Load /\ FreeLoad.at = "free"
  BY ScreenTypes DEF TypeInv, TypeOK, FreeLoad
<1>2. ASSUME NEW what \in Reads, Read(l, what) PROVE PageInv'
  <2>1. PICK load \in Load : /\ Goes(l, load)
                             /\ load.at = loads[l].at
                             /\ load.silent = loads[l].silent
    BY <1>1, <1>2, ReadEffect, Zenon
  <2>2. loads[l].at = "reading" /\ UNCHANGED <<shown, month, forms>>
    BY <1>2 DEF Read
  <2>3. QED
    BY <2>1, <2>2, LoadGoesOn
<1>3. CASE Decide(l)
  <2>1. PICK load \in Load :
            /\ Goes(l, load)
            /\ load.at = "free" => loads[l].stale
            /\ load.at # "free" => load.silent = loads[l].silent
    BY <1>1, <1>3, DecideEffect, Zenon
  <2>2. loads[l].at = "reading" /\ UNCHANGED <<shown, month, forms>>
    BY <1>3 DEF Decide
  <2>3. QED
    BY <2>1, <2>2, LoadGoesOn DEF Answering
<1>4. ASSUME NEW t \in Templates, Materialize(l, t) PROVE PageInv'
  <2>1. PICK load \in Load :
            /\ Goes(l, load)
            /\ load.at = loads[l].at
            /\ \/ load.silent = loads[l].silent /\ UNCHANGED shown
               \/ load.silent /\ ShowError(l)
    BY <1>1, <1>4, MaterializeEffect, Zenon
  <2>2. loads[l].at = "writing" /\ UNCHANGED <<month, forms>>
    BY <1>4 DEF Materialize
  <2>3. CASE load.silent = loads[l].silent /\ UNCHANGED shown
    BY <2>1, <2>2, <2>3, LoadGoesOn
  <2>4. CASE load.silent /\ ShowError(l)
    <3>1. Blank("error") \in Screen /\ Blank("error").status = "error"
      BY ScreenTypes DEF Blank
    <3>2. QED
      BY <2>1, <2>2, <2>4, <3>1, LoadEnds DEF ShowError
  <2>5. QED
    BY <2>1, <2>3, <2>4
<1>5. CASE ShowLoad(l)
  <2> DEFINE screen == [status |-> "ready", month |-> loads[l].month,
                        rows |-> loads[l].rows,
                        projected |-> Projected(loads[l])]
  <2>1. screen \in Screen
    BY <1>1 DEF Load, Screen, Projected
  <2>2. loads[l].at # "free" /\ Goes(l, FreeLoad)
    BY <1>1, <1>5 DEF ShowLoad, Goes
  <2>3. /\ shown' = IF loads[l].stale \/ loads[l].silent THEN shown
                    ELSE [shown EXCEPT ![loads[l].tab] = screen]
        /\ UNCHANGED <<month, forms>>
    BY <1>5 DEF ShowLoad
  <2>4. screen.status = "ready" /\ screen.month = loads[l].month
    OBVIOUS
  <2> HIDE DEF screen
  <2>5. QED
    BY <1>1, <2>1, <2>2, <2>3, <2>4, LoadEnds
<1>6. CASE ReadFails(l)
  <2>1. Blank("error") \in Screen /\ Blank("error").status = "error"
    BY ScreenTypes DEF Blank
  <2>2. loads[l].at # "free" /\ Goes(l, FreeLoad)
    BY <1>1, <1>6 DEF ReadFails, Goes
  <2>3. /\ shown' = IF loads[l].stale \/ loads[l].silent THEN shown
                    ELSE [shown EXCEPT ![loads[l].tab] = Blank("error")]
        /\ UNCHANGED <<month, forms>>
    BY <1>6 DEF ReadFails, ShowError
  <2>4. QED
    BY <1>1, <2>1, <2>2, <2>3, LoadEnds
<1>7. QED
  BY <1>2, <1>3, <1>4, <1>5, <1>6 DEF LoadStep

-----------------------------------------------------------------------------
(* Steps of the user: a load begins, the page is left.                     *)

LEMMA LoadBegins ==
    ASSUME TypeInv, PageInv, NEW tab \in Tabs, NEW m \in Months, NEW others,
           StartLoad(tab, m, others),
           \A k \in Loads : k \in others => loads[k].tab = tab,
           \A k \in Loads : Answering(k) /\ loads[k].tab = tab => k \in others,
           forms' \in [Tabs -> Form],
           forms'[tab].at = "closed",
           \A u \in Tabs : u # tab => forms'[u] = forms[u]
    PROVE  PageInv'
<1>1. /\ loads \in [Loads -> Load]
      /\ shown \in [Tabs -> Screen]
      /\ month \in [Tabs -> Months]
  BY DEF TypeInv, TypeOK
<1>2. PICK l \in Loads :
          /\ loads[l].at = "free"
          /\ loads' = [k \in Loads |->
                          IF k = l THEN NewLoad(tab, m)
                          ELSE IF k \in others
                          THEN [loads[k] EXCEPT !.stale = TRUE]
                          ELSE loads[k]]
          /\ month' = [month EXCEPT ![tab] = m]
          /\ shown' = [shown EXCEPT ![tab] = Blank("loading")]
  BY DEF StartLoad
<1>3. /\ loads'[l].at = "reading" /\ loads'[l].tab = tab
      /\ loads'[l].month = m /\ ~loads'[l].stale /\ ~loads'[l].silent
  BY <1>2 DEF NewLoad, FreeLoad
<1>4. Answering(l)'
  BY <1>3 DEF Answering
<1>5. /\ shown'[tab].status = "loading" /\ month'[tab] = m
      /\ \A u \in Tabs : u # tab =>
             shown'[u] = shown[u] /\ month'[u] = month[u]
  BY <1>1, <1>2 DEF Blank
<1>6. \A k \in Loads : k \in others /\ k # l => ~Answering(k)'
  <2>1. \A k \in Loads : [loads[k] EXCEPT !.stale = TRUE].stale
    BY <1>1 DEF Load
  <2>2. QED
    BY <1>2, <2>1 DEF Answering
<1>7. \A k \in Loads : k \notin others /\ k # l => loads'[k] = loads[k]
  BY <1>2
<1>8. \A k \in Loads : Answering(k)' /\ k # l =>
          /\ Answering(k)
          /\ loads'[k] = loads[k]
          /\ loads[k].tab \in Tabs
          /\ loads[k].tab # tab
  BY <1>6, <1>7 DEF Answering, TypeInv, LoadsPlaced
<1>9. ShowsSelectedMonth'
  BY <1>5 DEF PageInv, ShowsSelectedMonth
<1>10. AnswersFit'
  BY <1>3, <1>5, <1>8 DEF PageInv, AnswersFit
<1>11. OneAnswers'
  BY <1>3, <1>8 DEF PageInv, OneAnswers
<1>12. LoadingIsAnswered'
  <2>1. ASSUME NEW u \in Tabs, u # tab, shown'[u].status = "loading"
        PROVE  \E k \in Loads : Answering(k)' /\ loads'[k].tab = u
    <3>1. PICK k \in Loads : Answering(k) /\ loads[k].tab = u
      BY <1>5, <2>1 DEF PageInv, LoadingIsAnswered
    <3>2. k \notin others /\ k # l
      BY <1>2, <2>1, <3>1 DEF Answering
    <3>3. QED
      BY <1>7, <3>1, <3>2 DEF Answering
  <2>2. QED
    BY <1>3, <1>4, <2>1 DEF LoadingIsAnswered
<1>13. FormCovers'
  BY <1>5 DEF PageInv, FormCovers
<1>14. QED
  BY <1>9, <1>10, <1>11, <1>12, <1>13 DEF PageInv

LEMMA PageLeft ==
    ASSUME TypeInv, PageInv, NEW tab \in Tabs, LeavePage(tab),
           UNCHANGED month,
           \A u \in Tabs : u # tab => forms'[u] = forms[u]
    PROVE  PageInv'
<1>1. loads \in [Loads -> Load] /\ shown \in [Tabs -> Screen]
  BY DEF TypeInv, TypeOK
<1>2. /\ shown'[tab].status = "away"
      /\ \A u \in Tabs : u # tab => shown'[u] = shown[u]
  BY <1>1 DEF LeavePage, Blank
<1>3. \A k \in Loads : loads[k].at # "free" /\ loads[k].tab = tab =>
          ~Answering(k)'
  <2>1. \A k \in Loads : [loads[k] EXCEPT !.silent = TRUE].silent
    BY <1>1 DEF Load
  <2>2. QED
    BY <2>1 DEF LeavePage, LoadsOf, Answering
<1>4. \A k \in Loads : ~(loads[k].at # "free" /\ loads[k].tab = tab) =>
          loads'[k] = loads[k]
  BY DEF LeavePage, LoadsOf
<1>5. \A k \in Loads : Answering(k)' =>
          /\ Answering(k)
          /\ loads'[k] = loads[k]
          /\ loads[k].tab \in Tabs
          /\ loads[k].tab # tab
  BY <1>3, <1>4 DEF Answering, TypeInv, LoadsPlaced
<1>6. ShowsSelectedMonth' /\ FormCovers'
  BY <1>2 DEF PageInv, ShowsSelectedMonth, FormCovers
<1>7. AnswersFit'
  BY <1>2, <1>5 DEF PageInv, AnswersFit
<1>8. OneAnswers'
  BY <1>5 DEF PageInv, OneAnswers
<1>9. LoadingIsAnswered'
  <2>1. ASSUME NEW u \in Tabs, shown'[u].status = "loading"
        PROVE  \E k \in Loads : Answering(k)' /\ loads'[k].tab = u
    <3>1. u # tab
      BY <1>2, <2>1
    <3>2. PICK k \in Loads : Answering(k) /\ loads[k].tab = u
      BY <1>2, <2>1, <3>1 DEF PageInv, LoadingIsAnswered
    <3>3. QED
      BY <1>4, <3>1, <3>2 DEF Answering
  <2>2. QED
    BY <2>1 DEF LoadingIsAnswered
<1>10. QED
  BY <1>6, <1>7, <1>8, <1>9 DEF PageInv

(* Saves and their calls do not touch the page, and open no form.          *)
LEMMA PageUntouched ==
    ASSUME PageInv,
           UNCHANGED <<loads, shown, month>>,
           \A u \in Tabs : forms'[u].at # "closed" => forms[u].at # "closed"
    PROVE  PageInv'
<1>1. ShowsSelectedMonth' /\ FormCovers'
  BY DEF PageInv, ShowsSelectedMonth, FormCovers
<1>2. \A k \in Loads : Answering(k)' <=> Answering(k)
  BY DEF Answering
<1>3. AnswersFit' /\ OneAnswers' /\ LoadingIsAnswered'
  BY <1>2 DEF PageInv, AnswersFit, OneAnswers, LoadingIsAnswered
<1>4. QED
  BY <1>1, <1>3 DEF PageInv

LEMMA OpensNoForm ==
    ASSUME TypeInv, NEW tab \in Tabs, NEW form \in Form,
           forms[tab].at # "closed", form.at # "closed",
           \/ forms' = [forms EXCEPT ![tab] = form]
           \/ forms' = [forms EXCEPT ![tab] = Done(form)]
           \/ forms' = [forms EXCEPT ![tab] = Reopened(form)]
    PROVE  \A u \in Tabs : forms'[u].at # "closed" => forms[u].at # "closed"
<1>1. \A u \in Tabs : u # tab => forms'[u] = forms[u]
  BY DEF TypeInv, TypeOK
<1>2. QED
  BY <1>1

LEMMA SaveStepPage ==
    ASSUME TypeInv, PageInv, NEW tab \in Tabs, SaveStep(tab)
    PROVE  PageInv'
<1> DEFINE form == forms[tab]
<1>1. form \in Form /\ forms \in [Tabs -> Form]
  BY DEF TypeInv, TypeOK
<1>2. CASE Saved(tab)
  <2>1. /\ forms' = [forms EXCEPT ![tab] = ClosedForm]
        /\ StartLoad(tab, now, {})
        /\ form.at # "closed"
    BY <1>2 DEF Saved, Return
  <2>2. /\ forms' \in [Tabs -> Form] /\ forms'[tab].at = "closed"
        /\ \A u \in Tabs : u # tab => forms'[u] = forms[u]
    BY <1>1, <2>1, FormTypes DEF ClosedForm
  <2>3. \A k \in Loads : Answering(k) /\ loads[k].tab = tab => FALSE
    BY <2>1 DEF PageInv, AnswersFit, FormCovers
  <2>4. now \in Months
    BY DEF TypeInv, TypeOK
  <2>5. QED
    BY <2>1, <2>2, <2>3, <2>4, LoadBegins
<1>3. ASSUME CreateTemplate(tab) PROVE PageInv'
  <2>1. PICK t \in FreshTemplate :
            Answered(tab, [form EXCEPT !.created = t, !.made = form.made + 1])
    BY <1>3, Zenon DEF CreateTemplate
  <2> DEFINE told == [form EXCEPT !.created = t, !.made = form.made + 1]
  <2>2. told \in Form /\ told.at = form.at /\ form.at = "saving"
    BY <1>1, <1>3, ToldType
       DEF FreshTemplate, CreateTemplate, NextCall, Form
  <2>3. Answered(tab, told)
    BY <2>1
  <2> HIDE DEF told
  <2>4. \/ forms' = [forms EXCEPT ![tab] = Done(told)]
        \/ forms' = [forms EXCEPT ![tab] = Reopened(form)]
    BY <2>3 DEF Answered
  <2>5. QED
    BY <1>1, <1>3, <2>2, <2>4, OpensNoForm, PageUntouched DEF CreateTemplate
<1>4. CASE CreateExpense(tab)
  BY <1>1, <1>4, OpensNoForm, PageUntouched
     DEF CreateExpense, NextCall, Answered, SaveFails
<1>5. CASE SendUpdate(tab) \/ SendDelete(tab) \/ ListInstances(tab)
  BY <1>1, <1>5, OpensNoForm, PageUntouched
     DEF SendUpdate, SendDelete, ListInstances, NextCall
<1>6. CASE UpdateTemplate(tab) \/ DeleteTemplate(tab)
  BY <1>1, <1>6, OpensNoForm, PageUntouched
     DEF UpdateTemplate, DeleteTemplate, NextCall, Answered, SaveFails
<1>7. CASE CallFails(tab)
  BY <1>1, <1>7, OpensNoForm, PageUntouched DEF CallFails, SaveFails
<1>8. QED
  BY <1>2, <1>3, <1>4, <1>5, <1>6, <1>7 DEF SaveStep

LEMMA RequestStepPage ==
    ASSUME TypeInv, AwaitedBySave, PageInv, NEW q \in requests, RequestStep(q)
    PROVE  PageInv'
<1>1. /\ forms \in [Tabs -> Form]
      /\ q.tab \in Tabs
      /\ UNCHANGED <<loads, shown, month>>
  BY DEF TypeInv, TypeOK, Request, RequestStep, CheckUpdate, WriteUpdate,
         RemoveExpense, RequestLost
<1>2. \/ UNCHANGED forms
      \/ q.awaited /\ forms' = [forms EXCEPT ![q.tab] = Reopened(forms[q.tab])]
  BY DEF RequestStep, CheckUpdate, WriteUpdate, RemoveExpense, RequestLost,
         RequestFails, SaveFails, Answer
<1>3. CASE UNCHANGED forms
  BY <1>1, <1>3, PageUntouched
<1>4. CASE /\ q.awaited
           /\ forms' = [forms EXCEPT ![q.tab] = Reopened(forms[q.tab])]
  <2>1. forms[q.tab].at = "saving" /\ forms[q.tab] \in Form
    BY <1>1, <1>4 DEF AwaitedBySave
  <2>2. QED
    BY <1>1, <1>4, <2>1, OpensNoForm, PageUntouched
<1>5. QED
  BY <1>2, <1>3, <1>4

LEMMA UserStepPage ==
    ASSUME TypeInv, PageInv, NEW tab \in Tabs, UserStep(tab)
    PROVE  PageInv'
<1>1. forms \in [Tabs -> Form] /\ now \in Months
  BY DEF TypeInv, TypeOK
<1>2. CASE VisitLedger(tab)
  <2>1. \A k \in Loads : Answering(k) /\ loads[k].tab = tab => FALSE
    BY <1>2 DEF VisitLedger, PageInv, AnswersFit
  <2>2. QED
    BY <1>1, <1>2, <2>1, LoadBegins DEF VisitLedger
<1>3. CASE SelectMonth(tab)
  <2> DEFINE others == {l \in LoadsOf(tab) : ~loads[l].silent}
  <2>1. PICK m \in Months : StartLoad(tab, m, others)
    BY <1>3, Zenon DEF SelectMonth
  <2>2. /\ \A k \in Loads : k \in others => loads[k].tab = tab
        /\ \A k \in Loads : Answering(k) /\ loads[k].tab = tab => k \in others
    BY DEF LoadsOf, Answering
  <2>3. forms[tab].at = "closed" /\ UNCHANGED forms
    BY <1>1, <1>3 DEF SelectMonth, PageInv, FormCovers
  <2> HIDE DEF others
  <2>4. QED
    BY <1>1, <2>1, <2>2, <2>3, LoadBegins
<1>4. CASE OpenNew(tab)
  BY <1>1, <1>4, PageLeft DEF OpenNew
<1>5. ASSUME NEW e \in Expenses, OpenEdit(tab, e) PROVE PageInv'
  BY <1>1, <1>5, PageLeft DEF OpenEdit
<1>6. CASE Save(tab)
  BY <1>1, <1>6, PageUntouched DEF Save
<1>7. CASE Cancel(tab)
  <2>1. \A k \in Loads : Answering(k) /\ loads[k].tab = tab => FALSE
    BY <1>7 DEF Cancel, PageInv, AnswersFit, FormCovers
  <2>2. ClosedForm \in Form /\ ClosedForm.at = "closed"
    BY FormTypes DEF ClosedForm
  <2>3. QED
    BY <1>1, <1>7, <2>1, <2>2, LoadBegins DEF Cancel, Return
<1>8. QED
  BY <1>2, <1>3, <1>4, <1>5, <1>6, <1>7 DEF UserStep

-----------------------------------------------------------------------------
(* Who awaits a call.                                                      *)

LEMMA SaveFailsAwaited ==
    ASSUME TypeInv, AwaitedBySave, NEW tab \in Tabs, NEW qs \in SUBSET requests,
           SaveFails(tab, qs)
    PROVE  AwaitedBySave'
<1>1. /\ forms \in [Tabs -> Form] /\ requests \subseteq Request
      /\ forms' = [forms EXCEPT ![tab] = Reopened(forms[tab])]
      /\ requests' = {[q EXCEPT !.awaited = q.awaited /\ q.tab # tab] : q \in qs}
  BY DEF TypeInv, TypeOK, SaveFails, Abandoned
<1>2. ASSUME NEW p \in requests', p.awaited PROVE forms'[p.tab].at = "saving"
  <2>1. PICK q \in qs : p = [q EXCEPT !.awaited = q.awaited /\ q.tab # tab]
    BY <1>1
  <2>2. q \in Request /\ q \in requests
    BY <1>1
  <2>3. q.awaited /\ q.tab # tab /\ p.tab = q.tab
    BY <1>2, <2>1, <2>2 DEF Request
  <2>4. q.tab \in Tabs /\ forms'[q.tab] = forms[q.tab]
    BY <1>1, <2>2, <2>3 DEF Request
  <2>5. QED
    BY <2>2, <2>3, <2>4 DEF AwaitedBySave
<1>3. QED
  BY <1>2 DEF AwaitedBySave

LEMMA SendAwaited ==
    ASSUME TypeInv, AwaitedBySave, NEW tab \in Tabs,
           forms[tab].at = "saving",
           forms' = [forms EXCEPT ![tab] = Done(forms[tab])],
           \A q \in requests' : q \in requests \/ q.tab = tab
    PROVE  AwaitedBySave'
<1>1. forms \in [Tabs -> Form] /\ requests \subseteq Request
  BY DEF TypeInv, TypeOK
<1>2. Done(forms[tab]).at = "saving"
  BY <1>1 DEF Done, Form
<1>3. \A u \in Tabs : forms[u].at = "saving" => forms'[u].at = "saving"
  BY <1>1, <1>2
<1>4. QED
  BY <1>1, <1>3 DEF AwaitedBySave, Request

(* A form may change as it likes while it awaits no call.                  *)
LEMMA NothingAwaited ==
    ASSUME TypeInv, AwaitedBySave, NEW tab \in Tabs, NEW form,
           forms' = [forms EXCEPT ![tab] = form], UNCHANGED requests,
           forms[tab].at # "saving" \/ Awaited(tab) = {}
    PROVE  AwaitedBySave'
<1>1. forms \in [Tabs -> Form] /\ requests \subseteq Request
  BY DEF TypeInv, TypeOK
<1>2. \A q \in requests : q.awaited => q.tab # tab
  BY DEF AwaitedBySave, Awaited
<1>3. QED
  BY <1>1, <1>2 DEF AwaitedBySave, Request

LEMMA RequestStepAwaited ==
    ASSUME TypeInv, AwaitedBySave, NEW q \in requests, RequestStep(q)
    PROVE  AwaitedBySave'
<1>1. q \in Request /\ requests \subseteq Request /\ q.tab \in Tabs
  BY DEF TypeInv, TypeOK, Request
<1>2. CASE UNCHANGED forms /\ requests' = requests \ {q}
  BY <1>2 DEF AwaitedBySave
<1>3. CASE SaveFails(q.tab, requests \ {q}) \/ SaveFails(q.tab, requests)
  <2>1. requests \ {q} \in SUBSET requests /\ requests \in SUBSET requests
    OBVIOUS
  <2>2. QED
    BY <1>1, <1>3, <2>1, SaveFailsAwaited
<1>4. CASE /\ UNCHANGED forms
           /\ requests' = (requests \ {q}) \cup {[q EXCEPT !.checked = TRUE]}
  <2>1. /\ [q EXCEPT !.checked = TRUE].awaited = q.awaited
        /\ [q EXCEPT !.checked = TRUE].tab = q.tab
    BY <1>1 DEF Request
  <2>2. QED
    BY <1>4, <2>1 DEF AwaitedBySave
<1>5. QED
  BY <1>2, <1>3, <1>4
     DEF RequestStep, CheckUpdate, WriteUpdate, RemoveExpense, RequestLost,
         RequestFails, Answer

LEMMA SaveStepAwaited ==
    ASSUME TypeInv, AwaitedBySave, NEW tab \in Tabs, SaveStep(tab)
    PROVE  AwaitedBySave'
<1> DEFINE form == forms[tab]
<1>1. form \in Form /\ requests \in SUBSET requests
  BY DEF TypeInv, TypeOK
<1>2. CASE Saved(tab)
  BY <1>2, NothingAwaited DEF Saved, Return
<1>3. ASSUME CreateTemplate(tab) PROVE AwaitedBySave'
  <2>1. PICK t \in FreshTemplate :
            Answered(tab, [form EXCEPT !.created = t, !.made = form.made + 1])
    BY <1>3, Zenon DEF CreateTemplate
  <2>2. \E new : forms' = [forms EXCEPT ![tab] = new]
    BY <2>1 DEF Answered
  <2>3. Awaited(tab) = {} /\ UNCHANGED requests
    BY <1>3 DEF CreateTemplate, NextCall
  <2>4. QED
    BY <2>2, <2>3, NothingAwaited
<1>4. ASSUME CreateExpense(tab) \/ UpdateTemplate(tab) \/ DeleteTemplate(tab),
             Answered(tab, form), UNCHANGED requests
      PROVE  AwaitedBySave'
  <2>1. Awaited(tab) = {}
    BY <1>4 DEF CreateExpense, UpdateTemplate, DeleteTemplate, NextCall
  <2>2. QED
    BY <1>4, <2>1, NothingAwaited DEF Answered
<1>5. CASE SaveFails(tab, requests)
  BY <1>1, <1>5, SaveFailsAwaited
<1>6. CASE SendUpdate(tab) \/ SendDelete(tab)
  <2>1. /\ form.at = "saving"
        /\ forms' = [forms EXCEPT ![tab] = Done(form)]
        /\ \A q \in requests' : q \in requests \/ q.tab = tab
    BY <1>6 DEF SendUpdate, SendDelete, NextCall, Update, Delete
  <2>2. QED
    BY <2>1, SendAwaited
<1>7. CASE ListInstances(tab)
  <2>1. /\ form.at = "saving"
        /\ forms' = [forms EXCEPT ![tab] = Done(form)]
    BY <1>7 DEF ListInstances, NextCall
  <2>2. \A e : Follow(tab, form, e).tab = tab
    BY DEF Follow, Update, Delete
  <2>3. \A q \in requests' : q \in requests \/ q.tab = tab
    BY <1>7, <2>2 DEF ListInstances
  <2>4. QED
    BY <2>1, <2>3, SendAwaited
<1>8. QED
  BY <1>2, <1>3, <1>4, <1>5, <1>6, <1>7
     DEF SaveStep, CreateExpense, UpdateTemplate, DeleteTemplate, CallFails

LEMMA UserStepAwaited ==
    ASSUME TypeInv, AwaitedBySave, PageInv, NEW tab \in Tabs, UserStep(tab)
    PROVE  AwaitedBySave'
<1>1. CASE VisitLedger(tab) \/ SelectMonth(tab)
  BY <1>1 DEF VisitLedger, SelectMonth, AwaitedBySave
<1>2. CASE OpenNew(tab)
  BY <1>2, NothingAwaited DEF OpenNew, PageInv, FormCovers
<1>3. ASSUME NEW e \in Expenses, OpenEdit(tab, e) PROVE AwaitedBySave'
  <2>1. forms[tab].at = "closed" /\ UNCHANGED requests
    BY <1>3 DEF OpenEdit, PageInv, FormCovers
  <2>2. \E new : forms' = [forms EXCEPT ![tab] = new]
    BY <1>3 DEF OpenEdit
  <2>3. QED
    BY <2>1, <2>2, NothingAwaited
<1>4. CASE Save(tab)
  <2>1. forms[tab].at = "open" /\ UNCHANGED requests
    BY <1>4 DEF Save
  <2>2. \E new : forms' = [forms EXCEPT ![tab] = new]
    BY <1>4 DEF Save
  <2>3. QED
    BY <2>1, <2>2, NothingAwaited
<1>5. CASE Cancel(tab)
  BY <1>5, NothingAwaited DEF Cancel, Return
<1>6. QED
  BY <1>1, <1>2, <1>3, <1>4, <1>5 DEF UserStep

-----------------------------------------------------------------------------
LEMMA PageInit == Init => AwaitedBySave /\ PageInv
<1>1. FreeLoad.at = "free" /\ ClosedForm.at = "closed"
      /\ Blank("away").status = "away"
  BY DEF FreeLoad, ClosedForm, Blank
<1>2. QED
  BY <1>1 DEF Init, AwaitedBySave, PageInv, ShowsSelectedMonth, AnswersFit,
              OneAnswers, LoadingIsAnswered, FormCovers, Answering

LEMMA PageStep ==
    TypeInv /\ AwaitedBySave /\ PageInv /\ [Next]_vars
        => AwaitedBySave' /\ PageInv'
<1> SUFFICES ASSUME TypeInv, AwaitedBySave, PageInv, [Next]_vars
             PROVE  AwaitedBySave' /\ PageInv'
  OBVIOUS
<1>1. CASE MonthPasses \/ UNCHANGED vars
  <2>1. AwaitedBySave'
    BY <1>1 DEF MonthPasses, vars, AwaitedBySave
  <2>2. QED
    BY <1>1, <2>1, PageUntouched DEF MonthPasses, vars
<1>2. ASSUME NEW l \in Loads, LoadStep(l) PROVE AwaitedBySave' /\ PageInv'
  <2>1. AwaitedBySave'
    BY <1>2 DEF LoadStep, Read, Decide, Materialize, ShowLoad, ReadFails,
                AwaitedBySave
  <2>2. QED
    BY <1>2, <2>1, LoadStepPage
<1>3. QED
  BY <1>1, <1>2, UserStepPage, UserStepAwaited, SaveStepPage, SaveStepAwaited,
     RequestStepPage, RequestStepAwaited DEF Next

LEMMA PageCorrect == Spec => [](TypeInv /\ PageInv)
BY TypeInit, TypeStep, PageInit, PageStep, PTL DEF Spec

(* ShowsSelectedMonth: the month on the screen is the month the tab is on, *)
(* however many loads answer, and in whatever order (page.tsx:305-306).    *)
THEOREM MonthOnScreen == Spec => []ShowsSelectedMonth
<1>1. TypeInv /\ PageInv => ShowsSelectedMonth
  BY DEF PageInv
<1>2. QED
  BY <1>1, PageCorrect, PTL

(* SpinnerIsBacked: while a page says "loading", a load is under way that  *)
(* was neither overtaken nor silenced and will bring it an answer.         *)
THEOREM SpinnerEnds == Spec => []SpinnerIsBacked
<1>1. TypeInv /\ PageInv => SpinnerIsBacked
  BY DEF PageInv, LoadingIsAnswered, Answering, SpinnerIsBacked, LoadsOf
<1>2. QED
  BY <1>1, PageCorrect, PTL

-----------------------------------------------------------------------------
(* The inductive invariant of a form: creating its template is the first   *)
(* call of a save or none, and none once the form knows its template.      *)

Once(form) ==
    /\ form.made <= 1
    /\ form.created = None => form.made = 0
    /\ \A i \in 1..Len(form.todo) :
           form.todo[i] = "createTemplate" => i = 1 /\ form.created = None

FormsOnce == \A tab \in Tabs : Once(forms[tab])

LEMMA ScriptOnce ==
    ASSUME NEW form \in Form, NEW kind \in Kinds, NEW date \in Months,
           NEW i \in 1..Len(Script(form, kind, date)),
           Script(form, kind, date)[i] = "createTemplate"
    PROVE  i = 1 /\ form.created = None
<1>1. CASE kind = "fixed"
  <2>1. \/ Script(form, kind, date) = EnsureTemplate(form) \o <<>>
        \/ Script(form, kind, date) = EnsureTemplate(form) \o <<"createExpense">>
    BY <1>1 DEF Script
  <2>2. QED
    BY <2>1 DEF EnsureTemplate
<1>2. CASE kind = "convert"
  <2>1. Script(form, kind, date) = EnsureTemplate(form) \o <<"updateExpense">>
    BY <1>2 DEF Script
  <2>2. QED
    BY <2>1 DEF EnsureTemplate
<1>3. CASE kind \notin {"fixed", "convert"}
  BY <1>3 DEF Script, Kinds
<1>4. QED
  BY <1>1, <1>2, <1>3

LEMMA DoneOnce ==
    ASSUME NEW form \in Form, Once(form), form.todo # <<>>
    PROVE  Once(Done(form))
<1>1. /\ Done(form) = [form EXCEPT !.todo = Tail(form.todo)]
      /\ form.todo \in Seq(Calls)
  BY DEF Done, Form
<1>2. \A i \in 1..Len(Tail(form.todo)) :
          /\ Tail(form.todo)[i] = form.todo[i + 1]
          /\ i + 1 \in 1..Len(form.todo)
          /\ i + 1 # 1
  BY <1>1
<1>3. \A i \in 1..Len(Tail(form.todo)) : Tail(form.todo)[i] # "createTemplate"
  BY <1>2 DEF Once
<1>4. /\ Done(form).made = form.made /\ Done(form).created = form.created
      /\ Done(form).todo = Tail(form.todo)
  BY <1>1 DEF Form
<1>5. QED
  BY <1>3, <1>4 DEF Once

LEMMA IdleOnce ==
    /\ Once(ClosedForm)
    /\ \A form \in Form : Once(form) => Once(Reopened(form))
BY DEF ClosedForm, Reopened, Form, Once

LEMMA OneFormChanges ==
    ASSUME TypeInv, FormsOnce, NEW tab \in Tabs, NEW form, Once(form),
           forms' = [forms EXCEPT ![tab] = form]
    PROVE  FormsOnce'
BY DEF TypeInv, TypeOK, FormsOnce

LEMMA CreateTemplateOnce ==
    ASSUME TypeInv, FormsOnce, NEW tab \in Tabs, CreateTemplate(tab)
    PROVE  FormsOnce'
<1> DEFINE form == forms[tab]
<1>1. form \in Form /\ Once(form)
  BY DEF TypeInv, TypeOK, FormsOnce
<1>2. PICK t \in FreshTemplate :
          Answered(tab, [form EXCEPT !.created = t, !.made = form.made + 1])
  BY Zenon DEF CreateTemplate
<1> DEFINE told == [form EXCEPT !.created = t, !.made = form.made + 1]
<1>3. t \in Templates /\ t # None
  BY StoreAssumption DEF FreshTemplate
<1>4. /\ form.todo # <<>> /\ Head(form.todo) = "createTemplate"
      /\ form.todo \in Seq(Calls) /\ form.made \in Nat
  BY <1>1 DEF CreateTemplate, NextCall, Form
<1>5. form.created = None /\ form.made = 0
  BY <1>1, <1>4 DEF Once
<1>6. /\ told.made = 1 /\ told.created = t /\ told.todo = form.todo
  BY <1>1, <1>5 DEF Form
<1>7. Once(Done(told))
  <2>1. Done(told) = [told EXCEPT !.todo = Tail(form.todo)]
    BY <1>6 DEF Done
  <2>2. told \in Form
    BY <1>1, <1>3, ToldType
  <2> HIDE DEF told
  <2>3. /\ Done(told).made = 1 /\ Done(told).created = t
        /\ Done(told).todo = Tail(form.todo)
    BY <1>6, <2>1, <2>2 DEF Form
  <2>4. \A i \in 1..Len(Tail(form.todo)) : Tail(form.todo)[i] # "createTemplate"
    <3>1. \A i \in 1..Len(Tail(form.todo)) :
              /\ Tail(form.todo)[i] = form.todo[i + 1]
              /\ i + 1 \in 1..Len(form.todo)
              /\ i + 1 # 1
      BY <1>4
    <3>2. QED
      BY <1>1, <3>1 DEF Once
  <2>5. QED
    BY <1>3, <2>3, <2>4 DEF Once
<1>8. Once(Reopened(form))
  BY <1>1, IdleOnce
<1>9. Answered(tab, told)
  BY <1>2
<1> HIDE DEF told
<1>10. \/ forms' = [forms EXCEPT ![tab] = Done(told)]
       \/ forms' = [forms EXCEPT ![tab] = Reopened(form)]
  BY <1>9 DEF Answered
<1>11. QED
  BY <1>7, <1>8, <1>10, OneFormChanges

LEMMA SaveStepOnce ==
    ASSUME TypeInv, FormsOnce, NEW tab \in Tabs, SaveStep(tab)
    PROVE  FormsOnce'
<1> DEFINE form == forms[tab]
<1>1. form \in Form /\ Once(form) /\ Once(Reopened(form)) /\ Once(ClosedForm)
  BY IdleOnce DEF TypeInv, TypeOK, FormsOnce
<1>2. form.todo # <<>> => Once(Done(form))
  BY <1>1, DoneOnce
<1>3. CASE CallFails(tab) \/ SaveFails(tab, requests)
  BY <1>1, <1>3, OneFormChanges DEF CallFails, SaveFails
<1>4. CASE Saved(tab)
  BY <1>1, <1>4, OneFormChanges DEF Saved, Return
<1>5. CASE SendUpdate(tab) \/ SendDelete(tab) \/ ListInstances(tab)
  BY <1>2, <1>5, OneFormChanges DEF SendUpdate, SendDelete, ListInstances, NextCall
<1>6. ASSUME CreateExpense(tab) \/ UpdateTemplate(tab) \/ DeleteTemplate(tab),
             Answered(tab, form)
      PROVE  FormsOnce'
  <2>1. form.todo # <<>>
    BY <1>6 DEF CreateExpense, UpdateTemplate, DeleteTemplate, NextCall
  <2>2. QED
    BY <1>1, <1>2, <1>6, <2>1, OneFormChanges DEF Answered
<1>7. QED
  BY <1>3, <1>4, <1>5, <1>6, CreateTemplateOnce
     DEF SaveStep, CreateExpense, UpdateTemplate, DeleteTemplate

LEMMA UserStepOnce ==
    ASSUME TypeInv, FormsOnce, NEW tab \in Tabs, UserStep(tab)
    PROVE  FormsOnce'
<1> DEFINE form == forms[tab]
<1>1. form \in Form /\ Once(form) /\ Once(ClosedForm)
  BY IdleOnce DEF TypeInv, TypeOK, FormsOnce
<1>2. CASE VisitLedger(tab) \/ SelectMonth(tab)
  BY <1>2 DEF VisitLedger, SelectMonth, FormsOnce
<1>3. CASE OpenNew(tab)
  <2>1. Once([ClosedForm EXCEPT !.at = "open"])
    BY DEF Once, ClosedForm
  <2>2. QED
    BY <1>3, <2>1, OneFormChanges DEF OpenNew
<1>4. ASSUME NEW e \in Expenses, OpenEdit(tab, e) PROVE FormsOnce'
  <2> DEFINE row == expenses[e]
             template == templates[row.template]
             plain == [ClosedForm EXCEPT
                          !.at = "open", !.expense = e,
                          !.template = row.template,
                          !.period = row.period, !.month = row.month]
             fixed == [plain EXCEPT !.active = template.active,
                                    !.start = template.start]
  <2>1. plain.made = 0 /\ plain.created = None /\ plain.todo = <<>>
    BY DEF ClosedForm
  <2>2. fixed.made = 0 /\ fixed.created = None /\ fixed.todo = <<>>
    BY DEF ClosedForm
  <2>3. Once(plain) /\ Once(fixed)
    BY <2>1, <2>2 DEF Once
  <2>4. \/ forms' = [forms EXCEPT ![tab] = plain]
        \/ forms' = [forms EXCEPT ![tab] = fixed]
    BY <1>4 DEF OpenEdit
  <2> HIDE DEF plain, fixed
  <2>5. QED
    BY <2>3, <2>4, OneFormChanges
<1>5. ASSUME Save(tab) PROVE FormsOnce'
  <2>1. PICK kind \in KindsOf(form) : \E date \in DateChoices(form, kind) :
            \E end \in EndChoices(form, kind, date) :
                forms' = [forms EXCEPT ![tab] =
                             [form EXCEPT !.at = "saving", !.kind = kind,
                                          !.date = date, !.end = end,
                                          !.nowAt = now,
                                          !.todo = Script(form, kind, date)]]
    BY <1>5, Zenon DEF Save
  <2>2. PICK date \in DateChoices(form, kind) :
            \E end \in EndChoices(form, kind, date) :
                forms' = [forms EXCEPT ![tab] =
                             [form EXCEPT !.at = "saving", !.kind = kind,
                                          !.date = date, !.end = end,
                                          !.nowAt = now,
                                          !.todo = Script(form, kind, date)]]
    BY <2>1, Zenon
  <2>3. PICK end \in EndChoices(form, kind, date) :
            forms' = [forms EXCEPT ![tab] =
                         [form EXCEPT !.at = "saving", !.kind = kind,
                                      !.date = date, !.end = end,
                                      !.nowAt = now,
                                      !.todo = Script(form, kind, date)]]
    BY <2>2, Zenon
  <2> DEFINE saving == [form EXCEPT !.at = "saving", !.kind = kind,
                                    !.date = date, !.end = end,
                                    !.nowAt = now,
                                    !.todo = Script(form, kind, date)]
  <2>4. kind \in Kinds /\ (kind \notin {"single", "fixed"} => form.expense # None)
    BY <1>1, KindsType
  <2>5. date \in Months
    BY <1>1, <2>2, <2>4, KindsType DEF DateChoices, TypeInv, FormsFit, Fits, Form
  <2>6. \A i \in 1..Len(Script(form, kind, date)) :
            Script(form, kind, date)[i] = "createTemplate" =>
                i = 1 /\ form.created = None
    BY <1>1, <2>4, <2>5, ScriptOnce
  <2>7. /\ saving.made = form.made /\ saving.created = form.created
        /\ saving.todo = Script(form, kind, date)
    BY <1>1 DEF Form
  <2>8. forms' = [forms EXCEPT ![tab] = saving]
    BY <2>3
  <2> HIDE DEF saving
  <2>9. Once(saving)
    BY <1>1, <2>6, <2>7 DEF Once
  <2>10. QED
    BY <2>8, <2>9, OneFormChanges
<1>6. CASE Cancel(tab)
  BY <1>1, <1>6, OneFormChanges DEF Cancel, Return
<1>7. QED
  BY <1>2, <1>3, <1>4, <1>5, <1>6 DEF UserStep

LEMMA RequestStepOnce ==
    ASSUME TypeInv, FormsOnce, NEW q \in requests, RequestStep(q)
    PROVE  FormsOnce'
<1>1. q.tab \in Tabs /\ forms[q.tab] \in Form
  BY DEF TypeInv, TypeOK, Request
<1>2. Once(Reopened(forms[q.tab]))
  BY <1>1, IdleOnce DEF FormsOnce
<1>3. \/ UNCHANGED forms
      \/ forms' = [forms EXCEPT ![q.tab] = Reopened(forms[q.tab])]
  BY DEF RequestStep, CheckUpdate, WriteUpdate, RemoveExpense, RequestLost,
         RequestFails, SaveFails, Answer
<1>4. QED
  BY <1>1, <1>2, <1>3, OneFormChanges DEF FormsOnce

LEMMA OnceStep == TypeInv /\ FormsOnce /\ [Next]_vars => FormsOnce'
<1> SUFFICES ASSUME TypeInv, FormsOnce, [Next]_vars PROVE FormsOnce'
  OBVIOUS
<1>1. CASE MonthPasses \/ UNCHANGED vars \/ \E l \in Loads : LoadStep(l)
  BY <1>1 DEF MonthPasses, vars, LoadStep, Read, Decide, Materialize, ShowLoad,
              ReadFails, FormsOnce
<1>2. QED
  BY <1>1, UserStepOnce, SaveStepOnce, RequestStepOnce DEF Next

(* OneTemplatePerForm: a form that has heard of the template it created    *)
(* never creates another, whatever fails in between and however often the  *)
(* user saves again (ExpenseForm.tsx:97-99).                               *)
THEOREM OneTemplate == Spec => []OneTemplatePerForm
<1>1. Init => FormsOnce
  BY IdleOnce DEF Init, FormsOnce
<1>2. FormsOnce => OneTemplatePerForm
  BY DEF FormsOnce, Once, OneTemplatePerForm
<1>3. QED
  BY <1>1, <1>2, TypeInit, TypeStep, OnceStep, PTL DEF Spec

-----------------------------------------------------------------------------
(***************************************************************************)
(* The rows of fixed expenses. PATCH /expenses/:id checks a row it read    *)
(* earlier, so two tabs can part the date of a row from its period: one    *)
(* moves a single expense while the other makes it a fixed one. This       *)
(* conversion is the only operation that can: without it the date stays in *)
(* the period and no month is charged twice, for any number of tabs,       *)
(* overlapping loads and failing calls.                                    *)
(***************************************************************************)

-----------------------------------------------------------------------------
(* The inductive invariant.                                                *)

(* The unique key, and the date in its period.                             *)
TableFits(table) ==
    /\ \A e, f \in Present(table) :
           /\ table[e].template # None
           /\ table[e].template = table[f].template
           /\ table[e].period = table[f].period
           => e = f
    /\ \A e \in Present(table) :
           table[e].template # None =>
               /\ table[e].period # None
               /\ table[e].month = table[e].period

(* A form knows the slot of its row, which no step changes, and keeps the  *)
(* date in it.                                                             *)
FormFits(table, form) ==
    /\ form.expense # None /\ table[form.expense] # None =>
           /\ form.template = table[form.expense].template
           /\ form.period = table[form.expense].period
    /\ form.at = "saving" =>
           /\ form.kind # "convert"
           /\ form.kind \notin {"deleteMonth", "deleteAll"} /\ form.period # None =>
                  form.date = form.period

(* A PATCH under way leaves the slot alone and moves the date, if at all,  *)
(* to where it belongs.                                                    *)
RequestFits(table, q) ==
    /\ q.patch.template = None
    /\ q.patch.period = None
    /\ /\ table[q.expense] # None
       /\ table[q.expense].template # None
       /\ q.patch.month # None
       => q.patch.month = table[q.expense].period

FormsFitRows == \A tab \in Tabs : FormFits(expenses, forms[tab])
RequestsFitRows == \A q \in requests : RequestFits(expenses, q)

RowsInv == TableFits(expenses) /\ FormsFitRows /\ RequestsFitRows

(* What a step does to the table: a row keeps its slot or goes, and a new  *)
(* one has an id that no form and no call names.                           *)
SlotsKept ==
    \A e \in Expenses :
        expenses'[e] # None =>
            \/ e \in FreshExpense
            \/ /\ expenses[e] # None
               /\ expenses'[e].template = expenses[e].template
               /\ expenses'[e].period = expenses[e].period

-----------------------------------------------------------------------------
(* Forms and calls that a step leaves alone still fit.                     *)

LEMMA FormStillFits ==
    ASSUME SlotsKept, NEW form, form.expense \in Expenses \cup {None},
           form.expense \notin FreshExpense, FormFits(expenses, form)
    PROVE  FormFits(expenses', form)
BY DEF SlotsKept, FormFits

LEMMA RequestStillFits ==
    ASSUME SlotsKept, NEW q, q.expense \in Expenses,
           q.expense \notin FreshExpense, RequestFits(expenses, q)
    PROVE  RequestFits(expenses', q)
BY DEF SlotsKept, RequestFits

LEMMA HeldNotFresh ==
    ASSUME TypeInv
    PROVE  /\ \A tab \in Tabs : /\ forms[tab].expense \in Expenses \cup {None}
                                /\ forms[tab].expense \notin FreshExpense
           /\ \A q \in requests : /\ q.expense \in Expenses
                                  /\ q.expense \notin FreshExpense
BY DEF TypeInv, TypeOK, Form, Request, FreshExpense

(* A form that goes on with what it has, or gives up, or closes.           *)
Follows(new, form) ==
    /\ new.expense = form.expense
    /\ new.template = form.template
    /\ new.period = form.period
    /\ new.at = "saving" =>
           form.at = "saving" /\ new.kind = form.kind /\ new.date = form.date

LEMMA FollowingFits ==
    ASSUME NEW table, NEW form, NEW new, Follows(new, form), FormFits(table, form)
    PROVE  FormFits(table, new)
BY DEF Follows, FormFits

LEMMA DoneFollows ==
    ASSUME NEW form \in Form
    PROVE  Follows(Done(form), form) /\ Follows(Reopened(form), form)
BY DEF Follows, Done, Reopened, Form

LEMMA OneForm ==
    ASSUME TypeInv, FormsFitRows, SlotsKept, NEW tab \in Tabs, NEW form,
           forms' = [forms EXCEPT ![tab] = form],
           FormFits(expenses', form)
    PROVE  FormsFitRows'
<1>1. forms'[tab] = form /\ \A u \in Tabs \ {tab} : forms'[u] = forms[u]
  BY DEF TypeInv, TypeOK
<1>2. \A u \in Tabs \ {tab} : FormFits(expenses', forms'[u])
  BY <1>1, HeldNotFresh, FormStillFits DEF FormsFitRows
<1>3. QED
  BY <1>1, <1>2 DEF FormsFitRows

LEMMA SameForms ==
    ASSUME TypeInv, FormsFitRows, SlotsKept, UNCHANGED forms
    PROVE  FormsFitRows'
BY HeldNotFresh, FormStillFits DEF FormsFitRows

LEMMA FormGoesOn ==
    ASSUME TypeInv, FormsFitRows, SlotsKept, NEW tab \in Tabs, NEW form,
           Follows(form, forms[tab]), forms' = [forms EXCEPT ![tab] = form]
    PROVE  FormsFitRows'
<1>1. FormFits(expenses', forms[tab])
  BY HeldNotFresh, FormStillFits DEF FormsFitRows
<1>2. FormFits(expenses', form)
  BY <1>1, FollowingFits
<1>3. QED
  BY <1>2, OneForm

(* Calls that go on are the same calls.                                    *)
LEMMA SameRequests ==
    ASSUME TypeInv, RequestsFitRows, SlotsKept,
           \A q \in requests' : \E p \in requests :
               q.expense = p.expense /\ q.patch = p.patch
    PROVE  RequestsFitRows'
<1>1. \A p \in requests : RequestFits(expenses', p)
  BY HeldNotFresh, RequestStillFits DEF RequestsFitRows
<1>2. QED
  BY <1>1 DEF RequestsFitRows, RequestFits

LEMMA SlotsIfUnchanged ==
    UNCHANGED expenses => SlotsKept
BY DEF SlotsKept

-----------------------------------------------------------------------------
(* The three ways the table changes.                                       *)

(* A row is added to a free slot.                                          *)
LEMMA RowAdded ==
    ASSUME TypeInv, TableFits(expenses), NEW e \in FreshExpense,
           NEW row \in ExpenseRow,
           ~SlotTaken(expenses, row.template, row.period, {}),
           row.template # None => row.period # None /\ row.month = row.period,
           expenses' = [expenses EXCEPT ![e] = row]
    PROVE  TableFits(expenses') /\ SlotsKept
<1>1. e \in Expenses /\ expenses[e] = None
  BY DEF FreshExpense, Absent
<1>2. /\ expenses'[e] = row
      /\ \A f \in Expenses \ {e} : expenses'[f] = expenses[f]
      /\ DOMAIN expenses = Expenses /\ DOMAIN expenses' = Expenses
  BY <1>1 DEF TypeInv, TypeOK
<1>3. SlotsKept
  BY <1>2 DEF SlotsKept
<1>4. \A f \in Present(expenses') : f = e \/ (f \in Present(expenses) /\ f # e)
  BY <1>1, <1>2 DEF Present
<1>5. \A f \in Present(expenses) : f \in Expenses
  BY <1>2 DEF Present
<1>6. row.template # None =>
          \A f \in Present(expenses) :
              ~(expenses[f].template = row.template /\ expenses[f].period = row.period)
  BY DEF SlotTaken
<1>7. ASSUME NEW f \in Present(expenses'), expenses'[f].template # None
      PROVE  /\ expenses'[f].period # None
             /\ expenses'[f].month = expenses'[f].period
  BY <1>2, <1>4, <1>5, <1>7 DEF TableFits
<1>8. ASSUME NEW f \in Present(expenses'), NEW g \in Present(expenses'),
             expenses'[f].template # None,
             expenses'[f].template = expenses'[g].template,
             expenses'[f].period = expenses'[g].period
      PROVE  f = g
  <2>1. CASE f # e /\ g # e
    BY <1>2, <1>4, <1>5, <1>8, <2>1 DEF TableFits
  <2>2. CASE f = e /\ g # e
    BY <1>2, <1>4, <1>5, <1>6, <1>8, <2>2
  <2>3. CASE f # e /\ g = e
    BY <1>2, <1>4, <1>5, <1>6, <1>8, <2>3
  <2>4. QED
    BY <2>1, <2>2, <2>3
<1>9. QED
  BY <1>3, <1>7, <1>8 DEF TableFits

(* Rows go.                                                                *)
LEMMA RowsGone ==
    ASSUME TypeInv, TableFits(expenses), DOMAIN expenses' = Expenses,
           \A e \in Expenses : expenses'[e] \in {None, expenses[e]}
    PROVE  TableFits(expenses') /\ SlotsKept
<1>1. \A e \in Present(expenses') :
          e \in Present(expenses) /\ expenses'[e] = expenses[e]
  BY DEF Present, TypeInv, TypeOK
<1>2. SlotsKept
  BY DEF SlotsKept
<1>3. QED
  BY <1>1, <1>2 DEF TableFits

(* A row is written that stays in its slot.                                *)
LEMMA RowWritten ==
    ASSUME TypeInv, TableFits(expenses), NEW e \in Present(expenses),
           NEW row \in ExpenseRow,
           row.template = expenses[e].template,
           row.period = expenses[e].period,
           row.template # None => row.month = row.period,
           expenses' = [expenses EXCEPT ![e] = row]
    PROVE  TableFits(expenses') /\ SlotsKept
<1>1. e \in Expenses /\ expenses[e] # None /\ row # None
  BY StoreAssumption DEF Present, TypeInv, TypeOK
<1>2. /\ expenses'[e] = row
      /\ \A f \in Expenses \ {e} : expenses'[f] = expenses[f]
      /\ DOMAIN expenses = Expenses /\ DOMAIN expenses' = Expenses
  BY <1>1 DEF TypeInv, TypeOK
<1>3. \A f \in Present(expenses') :
          /\ f \in Present(expenses)
          /\ expenses'[f].template = expenses[f].template
          /\ expenses'[f].period = expenses[f].period
  BY <1>1, <1>2 DEF Present
<1>4. SlotsKept
  BY <1>1, <1>2 DEF SlotsKept
<1>5. \A f \in Present(expenses') :
          expenses'[f].template # None =>
              /\ expenses'[f].period # None
              /\ expenses'[f].month = expenses'[f].period
  <2>1. \A f \in Present(expenses) : f \in Expenses
    BY <1>2 DEF Present
  <2>2. QED
    BY <1>2, <1>3, <2>1 DEF TableFits
<1>6. \A f, g \in Present(expenses') :
          /\ expenses'[f].template # None
          /\ expenses'[f].template = expenses'[g].template
          /\ expenses'[f].period = expenses'[g].period
          => f = g
  BY <1>3 DEF TableFits
<1>7. QED
  BY <1>4, <1>5, <1>6 DEF TableFits

-----------------------------------------------------------------------------
(* Loads: an instance is stored in a free slot, dated in its month.        *)

LEMMA LoadStepRows ==
    ASSUME TypeInv, RowsInv, NEW l \in Loads, LoadStep(l)
    PROVE  RowsInv'
<1>1. UNCHANGED <<forms, requests>>
  BY DEF LoadStep, Read, Decide, Materialize, ShowLoad, ReadFails
<1>2. TableFits(expenses') /\ SlotsKept
  <2>1. CASE UNCHANGED expenses
    BY <2>1, SlotsIfUnchanged DEF RowsInv
  <2>2. ASSUME NEW t \in Templates, Materialize(l, t), ~UNCHANGED expenses
        PROVE  TableFits(expenses') /\ SlotsKept
    <3>1. PICK e \in FreshExpense : Creatable(l, t) /\ Stored(l, t, e)
      BY <2>2, MaterializeEffect DEF TypeInv
    <3>2. loads[l].month \in Months
      BY <2>2 DEF Materialize, TypeInv, LoadsPlaced
    <3> DEFINE row == Instance(t, loads[l].month)
    <3>3. /\ row \in ExpenseRow
          /\ row.template = t
          /\ row.period = loads[l].month /\ row.month = loads[l].month
      BY <3>2 DEF Instance, ExpenseRow
    <3>4. row.period # None
      BY <3>2, <3>3, StoreAssumption
    <3>5. QED
      BY <3>1, <3>3, <3>4, RowAdded DEF Creatable, Stored, RowsInv
  <2>3. QED
    BY <2>1, <2>2 DEF LoadStep, Read, Decide, ShowLoad, ReadFails
<1>3. QED
  BY <1>1, <1>2, SameForms, SameRequests DEF RowsInv

-----------------------------------------------------------------------------
(* Steps of the user: a form learns the slot of its row when it opens, and *)
(* saves a date in it.                                                     *)

LEMMA EmptyFormFits ==
    \A table :
        /\ FormFits(table, ClosedForm)
        /\ FormFits(table, [ClosedForm EXCEPT !.at = "open"])
BY DEF FormFits, ClosedForm

LEMMA OpenEditRows ==
    ASSUME TypeInv, RowsInv, NEW tab \in Tabs, NEW e \in Expenses,
           OpenEdit(tab, e)
    PROVE  RowsInv'
<1> DEFINE row == expenses[e]
           template == templates[row.template]
           form == [ClosedForm EXCEPT
                       !.at = "open", !.expense = e, !.template = row.template,
                       !.period = row.period, !.month = row.month]
           fixed == [form EXCEPT !.active = template.active,
                                 !.start = template.start]
<1>1. /\ form.at = "open" /\ form.expense = e
      /\ form.template = row.template /\ form.period = row.period
  BY DEF ClosedForm
<1>2. /\ fixed.at = "open" /\ fixed.expense = e
      /\ fixed.template = row.template /\ fixed.period = row.period
  BY DEF ClosedForm
<1>3. FormFits(expenses, form) /\ FormFits(expenses, fixed)
  <2> HIDE DEF form, fixed
  <2>1. QED
    BY <1>1, <1>2 DEF FormFits
<1>4. \/ forms' = [forms EXCEPT ![tab] = form]
      \/ forms' = [forms EXCEPT ![tab] = fixed]
  BY DEF OpenEdit
<1>5. UNCHANGED <<expenses, requests>>
  BY DEF OpenEdit
<1>6. SlotsKept
  BY <1>5, SlotsIfUnchanged
<1>7. FormsFitRows'
  <2> HIDE DEF form, fixed
  <2>1. FormFits(expenses', form) /\ FormFits(expenses', fixed)
    BY <1>3, <1>5
  <2>2. QED
    BY <1>4, <1>6, <2>1, OneForm DEF RowsInv
<1>8. QED
  BY <1>5, <1>6, <1>7, SameRequests DEF RowsInv

LEMMA SaveRows ==
    ASSUME TypeInv, RowsInv, "convert" \notin Operations,
           NEW tab \in Tabs, Save(tab)
    PROVE  RowsInv'
<1> DEFINE form == forms[tab]
<1>a. PICK kind \in KindsOf(form) \cap Operations :
          \E date \in DateChoices(form, kind) :
          \E end \in EndChoices(form, kind, date) :
              /\ kind = "single" => Cardinality(Singles) < SinglesMax
              /\ forms' = [forms EXCEPT ![tab] =
                       [form EXCEPT !.at = "saving", !.kind = kind,
                                    !.date = date, !.end = end,
                                    !.nowAt = now,
                                    !.todo = Script(form, kind, date)]]
  BY Zenon DEF Save
<1>b. PICK date \in DateChoices(form, kind) :
          \E end \in EndChoices(form, kind, date) :
              forms' = [forms EXCEPT ![tab] =
                       [form EXCEPT !.at = "saving", !.kind = kind,
                                    !.date = date, !.end = end,
                                    !.nowAt = now,
                                    !.todo = Script(form, kind, date)]]
  BY <1>a, Zenon
<1>1. PICK end \in EndChoices(form, kind, date) :
          forms' = [forms EXCEPT ![tab] =
                       [form EXCEPT !.at = "saving", !.kind = kind,
                                    !.date = date, !.end = end,
                                    !.nowAt = now,
                                    !.todo = Script(form, kind, date)]]
  BY <1>b
<1> DEFINE saved == [form EXCEPT !.at = "saving", !.kind = kind,
                                 !.date = date, !.end = end,
                                 !.nowAt = now,
                                 !.todo = Script(form, kind, date)]
<1>2. form \in Form
  BY DEF TypeInv, TypeOK
<1>3. /\ saved.kind = kind /\ saved.date = date
      /\ saved.expense = form.expense /\ saved.template = form.template
      /\ saved.period = form.period
  <2> HIDE DEF form
  <2>1. QED
    BY <1>2 DEF Form
<1>4. FormFits(expenses, form)
  BY DEF RowsInv, FormsFitRows
<1>5. /\ kind # "convert"
      /\ kind \notin {"deleteMonth", "deleteAll"} /\ form.period # None =>
             date = form.period
  BY DEF DateChoices
<1>6. FormFits(expenses, saved)
  <2> HIDE DEF form, saved
  <2>1. QED
    BY <1>3, <1>4, <1>5 DEF FormFits
<1>7. UNCHANGED <<expenses, requests>>
  BY DEF Save
<1>8. SlotsKept
  BY <1>7, SlotsIfUnchanged
<1>9. FormsFitRows'
  <2>1. forms' = [forms EXCEPT ![tab] = saved] /\ FormFits(expenses', saved)
    BY <1>1, <1>6, <1>7
  <2> HIDE DEF form, saved
  <2>2. QED
    BY <1>8, <2>1, OneForm DEF RowsInv
<1>10. QED
  BY <1>7, <1>8, <1>9, SameRequests DEF RowsInv

LEMMA ReturnRows ==
    ASSUME TypeInv, RowsInv, NEW tab \in Tabs, Return(tab)
    PROVE  RowsInv'
<1>1. UNCHANGED <<expenses, requests>>
  BY DEF Return
<1>2. forms' = [forms EXCEPT ![tab] = ClosedForm] /\ SlotsKept
  BY <1>1, SlotsIfUnchanged DEF Return
<1>3. FormsFitRows'
  BY <1>2, OneForm, EmptyFormFits DEF RowsInv
<1>4. QED
  BY <1>1, <1>2, <1>3, SameRequests DEF RowsInv

LEMMA UserStepRows ==
    ASSUME TypeInv, RowsInv, "convert" \notin Operations,
           NEW tab \in Tabs, UserStep(tab)
    PROVE  RowsInv'
<1>1. CASE VisitLedger(tab) \/ SelectMonth(tab)
  <2>1. UNCHANGED <<expenses, forms, requests>>
    BY <1>1 DEF VisitLedger, SelectMonth
  <2>2. QED
    BY <2>1, SlotsIfUnchanged, SameForms, SameRequests DEF RowsInv
<1>2. CASE OpenNew(tab)
  <2>1. UNCHANGED <<expenses, requests>>
    BY <1>2 DEF OpenNew
  <2>2. /\ SlotsKept
        /\ forms' = [forms EXCEPT ![tab] = [ClosedForm EXCEPT !.at = "open"]]
    BY <1>2, <2>1, SlotsIfUnchanged DEF OpenNew
  <2>3. FormsFitRows'
    BY <2>2, OneForm, EmptyFormFits DEF RowsInv
  <2>4. QED
    BY <2>1, <2>2, <2>3, SameRequests DEF RowsInv
<1>3. QED
  BY <1>1, <1>2, OpenEditRows, SaveRows, ReturnRows DEF UserStep, Cancel

-----------------------------------------------------------------------------
(* Steps of a save.                                                        *)

LEMMA SaveFailsFits ==
    ASSUME TypeInv, FormsFitRows, RequestsFitRows, SlotsKept,
           NEW tab \in Tabs, NEW qs \in SUBSET requests, SaveFails(tab, qs)
    PROVE  FormsFitRows' /\ RequestsFitRows'
<1>1. forms' = [forms EXCEPT ![tab] = Reopened(forms[tab])]
  BY DEF SaveFails
<1>2. Follows(Reopened(forms[tab]), forms[tab])
  BY DoneFollows DEF TypeInv, TypeOK
<1>3. FormsFitRows'
  BY <1>1, <1>2, FormGoesOn
<1> DEFINE given(q) == [q EXCEPT !.awaited = @ /\ q.tab # tab]
<1>4. /\ requests' = {given(q) : q \in qs}
      /\ \A q \in qs : given(q).expense = q.expense /\ given(q).patch = q.patch
  BY DEF SaveFails, Abandoned, TypeInv, TypeOK, Request
<1>5. \A q \in requests' : \E p \in requests :
          q.expense = p.expense /\ q.patch = p.patch
  <2> HIDE DEF given
  <2>1. QED
    BY <1>4
<1>6. QED
  BY <1>3, <1>5, SameRequests

LEMMA AnsweredFits ==
    ASSUME TypeInv, FormsFitRows, SlotsKept, NEW tab \in Tabs, NEW form \in Form,
           Follows(form, forms[tab]), Answered(tab, form)
    PROVE  FormsFitRows'
<1>1. Follows(Done(form), forms[tab])
  <2>1. Follows(Done(form), form)
    BY DoneFollows
  <2>2. QED
    BY <2>1 DEF Follows
<1>2. Follows(Reopened(forms[tab]), forms[tab])
  BY DoneFollows DEF TypeInv, TypeOK
<1>3. \/ forms' = [forms EXCEPT ![tab] = Done(form)]
      \/ forms' = [forms EXCEPT ![tab] = Reopened(forms[tab])]
  BY DEF Answered
<1>4. QED
  BY <1>1, <1>2, <1>3, FormGoesOn

LEMMA CreateTemplateRows ==
    ASSUME TypeInv, RowsInv, NEW tab \in Tabs, CreateTemplate(tab)
    PROVE  RowsInv'
<1> DEFINE form == forms[tab]
<1>1. form \in Form
  BY DEF TypeInv, TypeOK
<1>2. PICK t \in FreshTemplate :
          Answered(tab, [form EXCEPT !.created = t, !.made = @ + 1])
  BY Zenon DEF CreateTemplate
<1> DEFINE told == [form EXCEPT !.created = t, !.made = form.made + 1]
<1>3. told \in Form /\ Follows(told, form)
  <2> HIDE DEF form
  <2>1. t \in Templates
    BY DEF FreshTemplate
  <2>2. told \in Form
    BY <1>1, <2>1, ToldType
  <2>3. /\ told.at = form.at /\ told.expense = form.expense
        /\ told.template = form.template /\ told.period = form.period
        /\ told.kind = form.kind /\ told.date = form.date
    BY <1>1 DEF Form
  <2>4. QED
    BY <2>2, <2>3 DEF Follows
<1>4. UNCHANGED <<expenses, requests>>
  BY DEF CreateTemplate
<1>5. SlotsKept
  BY <1>4, SlotsIfUnchanged
<1>6. FormsFitRows'
  <2>1. Answered(tab, told) /\ Follows(told, forms[tab])
    BY <1>2, <1>3
  <2> HIDE DEF told
  <2>2. QED
    BY <1>3, <1>5, <2>1, AnsweredFits DEF RowsInv
<1>7. QED
  BY <1>4, <1>5, <1>6, SameRequests DEF RowsInv

LEMMA CreateExpenseRows ==
    ASSUME TypeInv, RowsInv, NEW tab \in Tabs, CreateExpense(tab)
    PROVE  RowsInv'
<1> DEFINE form == forms[tab]
           row == NewRow(form)
<1>1. form \in Form /\ form.date \in Months
  BY NextCallFacts DEF CreateExpense
<1>2. /\ row \in ExpenseRow
      /\ row.template # None => row.period = form.date /\ row.month = form.date
  BY <1>1 DEF NewRow, Instance, ExpenseRow, Form
<1>3. form.date # None
  BY <1>1, StoreAssumption
<1>4. Follows(form, form)
  BY DEF Follows
<1>5. CASE SaveFails(tab, requests) /\ UNCHANGED expenses
  <2>1. SlotsKept
    BY <1>5, SlotsIfUnchanged
  <2>2. QED
    BY <1>5, <2>1, SaveFailsFits DEF RowsInv
<1>6. ASSUME ~SlotTaken(expenses, row.template, row.period, {}),
             NEW e \in FreshExpense, expenses' = [expenses EXCEPT ![e] = row],
             Answered(tab, form), UNCHANGED requests
      PROVE  RowsInv'
  <2> HIDE DEF row
  <2>1. TableFits(expenses') /\ SlotsKept
    BY <1>2, <1>3, <1>6, RowAdded DEF RowsInv
  <2>2. FormsFitRows'
    BY <1>1, <1>4, <1>6, <2>1, AnsweredFits DEF RowsInv
  <2>3. QED
    BY <1>6, <2>1, <2>2, SameRequests DEF RowsInv
<1>7. QED
  BY <1>5, <1>6 DEF CreateExpense

(* Calls are added that fit the rows.                                      *)
LEMMA SentFits ==
    ASSUME TypeInv, RowsInv, NEW tab \in Tabs, NEW qs,
           \A q \in qs : RequestFits(expenses, q),
           requests' = requests \cup qs,
           forms' = [forms EXCEPT ![tab] = Done(forms[tab])],
           UNCHANGED expenses
    PROVE  RowsInv'
<1>1. Follows(Done(forms[tab]), forms[tab]) /\ SlotsKept
  BY DoneFollows, SlotsIfUnchanged DEF TypeInv, TypeOK
<1>2. FormsFitRows'
  BY <1>1, FormGoesOn DEF RowsInv
<1>3. QED
  BY <1>2 DEF RowsInv, RequestsFitRows

LEMMA NoPatchFits ==
    ASSUME NEW table, NEW q, q.patch.template = None, q.patch.period = None,
           q.patch.month = None
    PROVE  RequestFits(table, q)
BY DEF RequestFits

LEMMA SendUpdateRows ==
    ASSUME TypeInv, RowsInv, NEW tab \in Tabs, SendUpdate(tab)
    PROVE  RowsInv'
<1> DEFINE form == forms[tab]
           q == Update(tab, form.expense, OwnPatch(form))
<1>1. /\ form \in Form /\ Fits(form) /\ form.at = "saving"
      /\ "updateExpense" \in CallsOf(form.kind)
  BY NextCallFacts DEF SendUpdate
<1>2. form.kind \notin {"single", "fixed", "deleteAll"}
  BY <1>1 DEF CallsOf
<1>3. form.expense \in Expenses
  BY <1>1, <1>2 DEF Fits
<1>4. FormFits(expenses, form)
  BY DEF RowsInv, FormsFitRows
<1>5. /\ q.expense = form.expense
      /\ q.patch.template = None /\ q.patch.period = None
      /\ q.patch.month \in {None, form.date}
      /\ form.kind = "deleteMonth" => q.patch.month = None
  BY <1>1, <1>4 DEF FormFits, Update, OwnPatch, NoPatch
<1>6. form.expense # None
  BY <1>3, StoreAssumption
<1>7. expenses[form.expense] # None /\ expenses[form.expense].template # None =>
          form.period = expenses[form.expense].period /\ form.period # None
  <2>1. expenses[form.expense] # None => form.expense \in Present(expenses)
    BY <1>3 DEF Present, TypeInv, TypeOK
  <2>2. QED
    BY <1>4, <1>6, <2>1 DEF FormFits, RowsInv, TableFits
<1>8. RequestFits(expenses, q)
  <2> HIDE DEF q, form
  <2>1. QED
    BY <1>1, <1>2, <1>4, <1>5, <1>7 DEF RequestFits, FormFits
<1>9. /\ requests' = requests \cup {q}
      /\ forms' = [forms EXCEPT ![tab] = Done(forms[tab])]
      /\ UNCHANGED expenses
  BY DEF SendUpdate
<1> HIDE DEF q, form
<1>10. PICK qs : qs = {q}
  OBVIOUS
<1>11. /\ requests' = requests \cup qs
       /\ \A p \in qs : RequestFits(expenses, p)
  BY <1>8, <1>9, <1>10
<1>12. QED
  BY <1>9, <1>11, SentFits

LEMMA SendDeleteRows ==
    ASSUME TypeInv, RowsInv, NEW tab \in Tabs, SendDelete(tab)
    PROVE  RowsInv'
<1> DEFINE q == Delete(tab, forms[tab].expense)
<1>1. RequestFits(expenses, q)
  BY NoPatchFits DEF Delete, NoPatch
<1>2. /\ requests' = requests \cup {q}
      /\ forms' = [forms EXCEPT ![tab] = Done(forms[tab])]
      /\ UNCHANGED expenses
  BY DEF SendDelete
<1> HIDE DEF q
<1>3. PICK qs : qs = {q}
  OBVIOUS
<1>4. /\ requests' = requests \cup qs
      /\ \A p \in qs : RequestFits(expenses, p)
  BY <1>1, <1>2, <1>3
<1>5. QED
  BY <1>2, <1>4, SentFits

LEMMA ListInstancesRows ==
    ASSUME TypeInv, RowsInv, NEW tab \in Tabs, ListInstances(tab)
    PROVE  RowsInv'
<1> DEFINE form == forms[tab]
           listed == ListInstancesAfter(expenses, form.template, ListedFrom(form))
           qs == {Follow(tab, form, e) : e \in listed}
<1>1. ASSUME NEW e \in listed
      PROVE  RequestFits(expenses, Follow(tab, form, e))
  <2>1. RequestFits(expenses, Delete(tab, e))
    BY NoPatchFits DEF Delete, NoPatch
  <2>2. RequestFits(expenses, Update(tab, e, [NoPatch EXCEPT !.month = expenses[e].period]))
    BY DEF RequestFits, Update, NoPatch
  <2>3. QED
    BY <2>1, <2>2 DEF Follow
<1>2. \A q \in qs : RequestFits(expenses, q)
  BY <1>1
<1>3. /\ requests' = requests \cup qs
      /\ forms' = [forms EXCEPT ![tab] = Done(forms[tab])]
      /\ UNCHANGED expenses
  BY DEF ListInstances
<1> HIDE DEF qs
<1>4. QED
  BY <1>2, <1>3, SentFits

LEMMA UpdateTemplateRows ==
    ASSUME TypeInv, RowsInv, NEW tab \in Tabs, UpdateTemplate(tab)
    PROVE  RowsInv'
<1>1. UNCHANGED expenses
  BY DEF UpdateTemplate
<1>2. SlotsKept
  BY <1>1, SlotsIfUnchanged
<1>3. CASE SaveFails(tab, requests)
  BY <1>1, <1>2, <1>3, SaveFailsFits DEF RowsInv
<1>4. CASE Answered(tab, forms[tab]) /\ UNCHANGED requests
  <2>1. forms[tab] \in Form /\ Follows(forms[tab], forms[tab])
    BY DEF TypeInv, TypeOK, Follows
  <2>2. QED
    BY <1>1, <1>2, <1>4, <2>1, AnsweredFits, SameRequests DEF RowsInv
<1>5. QED
  BY <1>3, <1>4 DEF UpdateTemplate

LEMMA DeleteTemplateRows ==
    ASSUME TypeInv, RowsInv, NEW tab \in Tabs, DeleteTemplate(tab)
    PROVE  RowsInv'
<1>1. CASE SaveFails(tab, requests) /\ UNCHANGED expenses
  BY <1>1, SlotsIfUnchanged, SaveFailsFits DEF RowsInv
<1>2. CASE /\ expenses' = Cascade(expenses, forms[tab].template)
           /\ Answered(tab, forms[tab])
           /\ UNCHANGED requests
  <2>1. /\ DOMAIN expenses' = Expenses
        /\ \A e \in Expenses : expenses'[e] \in {None, expenses[e]}
    BY <1>2 DEF Cascade, TypeInv, TypeOK
  <2>2. TableFits(expenses') /\ SlotsKept
    BY <2>1, RowsGone DEF RowsInv
  <2>3. forms[tab] \in Form /\ Follows(forms[tab], forms[tab])
    BY DEF TypeInv, TypeOK, Follows
  <2>4. QED
    BY <1>2, <2>2, <2>3, AnsweredFits, SameRequests DEF RowsInv
<1>3. QED
  BY <1>1, <1>2 DEF DeleteTemplate

LEMMA SaveStepRows ==
    ASSUME TypeInv, RowsInv, NEW tab \in Tabs, SaveStep(tab)
    PROVE  RowsInv'
<1>1. CASE CallFails(tab)
  BY <1>1, SlotsIfUnchanged, SaveFailsFits DEF CallFails, RowsInv
<1>2. CASE Saved(tab)
  BY <1>2, ReturnRows DEF Saved
<1>3. QED
  BY <1>1, <1>2, CreateTemplateRows, CreateExpenseRows, SendUpdateRows,
     SendDeleteRows, UpdateTemplateRows, ListInstancesRows, DeleteTemplateRows
     DEF SaveStep

-----------------------------------------------------------------------------
(* Calls on the server.                                                    *)

LEMMA RequestFailsFits ==
    ASSUME TypeInv, RowsInv, NEW q \in requests, RequestFails(q),
           UNCHANGED expenses
    PROVE  RowsInv'
<1>1. SlotsKept
  BY SlotsIfUnchanged
<1>2. q.tab \in Tabs
  BY DEF TypeInv, TypeOK, Request
<1>3. CASE SaveFails(q.tab, requests \ {q})
  BY <1>1, <1>2, <1>3, SaveFailsFits DEF RowsInv
<1>4. CASE requests' = requests \ {q} /\ UNCHANGED forms
  BY <1>1, <1>4, SameForms, SameRequests DEF RowsInv
<1>5. QED
  BY <1>3, <1>4 DEF RequestFails

LEMMA CheckUpdateRows ==
    ASSUME TypeInv, RowsInv, NEW q \in requests, CheckUpdate(q)
    PROVE  RowsInv'
<1>1. UNCHANGED expenses /\ SlotsKept
  BY SlotsIfUnchanged DEF CheckUpdate
<1>2. CASE RequestFails(q)
  BY <1>1, <1>2, RequestFailsFits
<1>3. CASE /\ requests' = (requests \ {q}) \cup {[q EXCEPT !.checked = TRUE]}
           /\ UNCHANGED forms
  <2> DEFINE p == [q EXCEPT !.checked = TRUE]
  <2>1. p.expense = q.expense /\ p.patch = q.patch
    BY DEF TypeInv, TypeOK, Request
  <2>2. requests' = (requests \ {q}) \cup {p}
    BY <1>3
  <2> HIDE DEF p
  <2>3. \A r \in requests' : \E s \in requests :
            r.expense = s.expense /\ r.patch = s.patch
    BY <2>1, <2>2
  <2>4. QED
    BY <1>1, <1>3, <2>3, SameForms, SameRequests DEF RowsInv
<1>4. QED
  BY <1>2, <1>3 DEF CheckUpdate

(* The row may have changed since the check; its slot has not.             *)
LEMMA WriteUpdateRows ==
    ASSUME TypeInv, RowsInv, NEW q \in requests, WriteUpdate(q)
    PROVE  RowsInv'
<1> DEFINE row == expenses[q.expense]
           written == Patched(row, q.patch)
<1>1. CASE RequestFails(q) /\ UNCHANGED expenses
  BY <1>1, RequestFailsFits
<1>2. CASE /\ row # None
           /\ expenses' = [expenses EXCEPT ![q.expense] = written]
           /\ Answer(q)
  <2>1. q.expense \in Expenses /\ q.patch \in Patch
    BY DEF TypeInv, TypeOK, Request
  <2>2. q.expense \in Present(expenses) /\ row \in ExpenseRow
    BY <1>2, <2>1 DEF Present, TypeInv, TypeOK
  <2>3. written \in ExpenseRow
    BY <2>1, <2>2, PatchedType
  <2>4. RequestFits(expenses, q)
    BY DEF RowsInv, RequestsFitRows
  <2>5. written.template = row.template /\ written.period = row.period
    BY <2>4 DEF RequestFits, Patched, Sent
  <2>6. written.template # None => written.month = written.period
    <3>1. row.template # None => row.month = row.period
      BY <2>2 DEF RowsInv, TableFits
    <3>2. written.month \in {row.month, q.patch.month}
          /\ (q.patch.month = None => written.month = row.month)
      BY DEF Patched, Sent
    <3>3. QED
      BY <1>2, <2>4, <2>5, <3>1, <3>2 DEF RequestFits
  <2>7. TableFits(expenses') /\ SlotsKept
    <3> HIDE DEF written
    <3>1. QED
      BY <1>2, <2>2, <2>3, <2>5, <2>6, RowWritten DEF RowsInv
  <2>8. QED
    BY <1>2, <2>7, SameForms, SameRequests DEF Answer, RowsInv
<1>3. QED
  BY <1>1, <1>2 DEF WriteUpdate

LEMMA RemoveExpenseRows ==
    ASSUME TypeInv, RowsInv, NEW q \in requests, RemoveExpense(q)
    PROVE  RowsInv'
<1>1. CASE RequestFails(q) /\ UNCHANGED expenses
  BY <1>1, RequestFailsFits
<1>2. CASE expenses' = [expenses EXCEPT ![q.expense] = None] /\ Answer(q)
  <2>1. /\ DOMAIN expenses' = Expenses
        /\ \A e \in Expenses : expenses'[e] \in {None, expenses[e]}
    BY <1>2 DEF TypeInv, TypeOK
  <2>2. TableFits(expenses') /\ SlotsKept
    BY <2>1, RowsGone DEF RowsInv
  <2>3. QED
    BY <1>2, <2>2, SameForms, SameRequests DEF Answer, RowsInv
<1>3. QED
  BY <1>1, <1>2 DEF RemoveExpense

LEMMA RequestStepRows ==
    ASSUME TypeInv, RowsInv, NEW q \in requests, RequestStep(q)
    PROVE  RowsInv'
<1>1. CASE RequestLost(q)
  <2>1. UNCHANGED expenses /\ SlotsKept /\ q.tab \in Tabs
    BY <1>1, SlotsIfUnchanged DEF RequestLost, TypeInv, TypeOK, Request
  <2>2. CASE RequestFails(q)
    BY <2>1, <2>2, RequestFailsFits
  <2>3. CASE SaveFails(q.tab, requests)
    BY <2>1, <2>3, SaveFailsFits DEF RowsInv
  <2>4. QED
    BY <1>1, <2>2, <2>3 DEF RequestLost
<1>2. QED
  BY <1>1, CheckUpdateRows, WriteUpdateRows, RemoveExpenseRows DEF RequestStep

-----------------------------------------------------------------------------
LEMMA RowsInit == Init => RowsInv
<1> SUFFICES ASSUME Init PROVE RowsInv
  OBVIOUS
<1>1. Present(expenses) = {}
  BY DEF Init, Present
<1>2. \A tab \in Tabs : FormFits(expenses, forms[tab])
  BY EmptyFormFits DEF Init
<1>3. QED
  BY <1>1, <1>2 DEF Init, RowsInv, TableFits, FormsFitRows, RequestsFitRows

LEMMA RowsStep ==
    ASSUME "convert" \notin Operations, TypeInv, RowsInv, [Next]_vars
    PROVE  RowsInv'
<1>1. CASE MonthPasses \/ UNCHANGED vars
  <2>1. UNCHANGED <<expenses, forms, requests>>
    BY <1>1 DEF MonthPasses, vars
  <2>2. QED
    BY <2>1, SlotsIfUnchanged, SameForms, SameRequests DEF RowsInv
<1>2. QED
  BY <1>1, LoadStepRows, UserStepRows, SaveStepRows, RequestStepRows DEF Next

LEMMA RowsCorrect ==
    ASSUME "convert" \notin Operations
    PROVE  Spec => []RowsInv
<1>1. TypeInv /\ RowsInv /\ [Next]_vars => RowsInv'
  BY RowsStep
<1>2. QED
  BY <1>1, RowsInit, TypeInit, TypeStep, PTL DEF Spec

(* DateInPeriod: while no expense is turned into a fixed one, no order of  *)
(* checks and writes of PATCH /expenses/:id takes a date out of its period *)
(* (expense.service.ts:161).                                               *)
THEOREM DatesStay ==
    ASSUME "convert" \notin Operations
    PROVE  Spec => []DateInPeriod
<1>1. RowsInv => DateInPeriod
  BY DEF RowsInv, TableFits, DateInPeriod
<1>2. QED
  BY <1>1, RowsCorrect, PTL

LEMMA FitsCountsOnce ==
    ASSUME TableFits(expenses)
    PROVE  NoDoubleCount
<1> SUFFICES ASSUME NEW e \in Visible(expenses), NEW f \in Visible(expenses),
                    expenses[e].template # None,
                    expenses[e].template = expenses[f].template,
                    expenses[e].month = expenses[f].month
             PROVE  e = f
  BY DEF NoDoubleCount
<1>1. e \in Present(expenses) /\ f \in Present(expenses)
  BY DEF Visible
<1>2. expenses[e].period = expenses[f].period
  BY <1>1 DEF TableFits
<1>3. QED
  BY <1>1, <1>2 DEF TableFits

(* NoDoubleCount: nor is a month ever charged twice for a template,        *)
(* although loads of all tabs create the instances of a month without      *)
(* knowing of each other (asset-recurring.ts:190, expense.service.ts:164). *)
THEOREM ChargedOnce ==
    ASSUME "convert" \notin Operations
    PROVE  Spec => []NoDoubleCount
<1>1. RowsInv => NoDoubleCount
  BY FitsCountsOnce DEF RowsInv
<1>2. QED
  BY <1>1, RowsCorrect, PTL

=============================================================================
