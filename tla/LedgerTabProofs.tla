-------------------------- MODULE LedgerTabProofs --------------------------
(***************************************************************************)
(* Proofs about the ledger in one tab whose calls are all answered, for    *)
(* any number of loads, templates, rows and months.  A load that was left  *)
(* behind goes on creating rows beside the next load and beside a save.    *)
(* The second half, on what a save or a load leaves complete, also assumes *)
(* that nothing begins while a load is under way (~Overlapping): a row     *)
(* that such a load creates is on nobody's list.                           *)
(***************************************************************************)
EXTENDS LedgerProofs, SequenceTheorems

-----------------------------------------------------------------------------
(* One tab whose calls are all answered. A load that was left behind still *)
(* creates instances, but nothing else happens beside a save. The          *)
(* invariant says what a save knows: its row, until its last call is       *)
(* answered, and the rows it carries its change to.                        *)

OneTab == \E tab : Tabs = {tab}

(* A call that is the last one of its save.                                *)
Closes(form, call) ==
    \/ call \in {"createExpense", "deleteExpense", "listInstances",
                "deleteTemplate"}
    \/ call = "updateExpense" /\ form.kind \in {"convert", "deleteMonth"}

Cutters == {"edit", "unfix", "refix"}

Ordered(form) ==
    \A i \in 1..Len(form.todo) :
        /\ Closes(form, form.todo[i]) => i = Len(form.todo)
        /\ form.kind \in Cutters /\ i = Len(form.todo) =>
               form.todo[i] = "listInstances"
        /\ form.kind = "deleteMonth" =>
               form.todo[i] = IF form.template # None THEN "updateExpense"
                              ELSE "deleteExpense"

(* The row is there, as the form read it.                                  *)
KnowsRow(table, form) ==
    LET row == table[form.expense]
    IN  /\ row # None
        /\ ~row.removed
        /\ row.template = form.template
        /\ row.period = form.period

FormAlone(table, form) ==
    /\ form.at = "closed" => form.expense = None
    /\ form.expense # None /\ (form.at = "saving" => form.todo # <<>>) =>
           KnowsRow(table, form)
    /\ form.at = "saving" =>
           /\ Ordered(form)
           /\ form.kind \notin {"deleteMonth", "deleteAll"} /\ form.period # None =>
                  form.date = form.period

(* A call about the form's own row.                                        *)
Own(table, q, form) ==
    /\ q.expense = form.expense
    /\ KnowsRow(table, form)
    /\ q.call = "deleteExpense" => form.template = None /\ form.todo = <<>>
    /\ q.call = "updateExpense" =>
           /\ q.patch = OwnPatch(form)
           /\ form.kind \notin {"single", "fixed", "deleteAll"}
           /\ form.kind \in {"convert", "deleteMonth"} => form.todo = <<>>
           /\ form.kind = "deleteMonth" => form.template # None

(* A call that carries the change of a template to one of its rows.        *)
Carries(table, q, form) ==
    LET row == table[q.expense]
    IN  /\ form.todo = <<>>
        /\ row # None
        /\ ~row.removed
        /\ q.patch = NoPatch \/ q.patch = [NoPatch EXCEPT !.month = row.period]

CallAlone(table, calls, q, form) ==
    /\ q.awaited
    /\ \/ calls = {q} /\ Own(table, q, form)
       \/ Carries(table, q, form)

CallsAlone ==
    /\ \A q \in requests : CallAlone(expenses, requests, q, forms[q.tab])
    /\ \A q, p \in requests : q.expense = p.expense => q = p

AloneInv ==
    /\ TableFits(expenses)
    /\ \A tab \in Tabs : FormAlone(expenses, forms[tab])
    /\ CallsAlone

-----------------------------------------------------------------------------
(* What is left of a script.                                               *)

LEMMA Pair ==
    ASSUME NEW S, NEW a \in S, NEW b \in S
    PROVE  <<a>> \o <<b>> = <<a, b>>
<1> DEFINE s == <<a>> \o <<b>>
           t == <<a, b>>
<1>1. <<a>> \in Seq(S) /\ <<b>> \in Seq(S) /\ t \in Seq(S)
  OBVIOUS
<1>2. s \in Seq(S)
  BY <1>1
<1>3. Len(s) = 2
  BY <1>1
<1>4. s[1] = a
  BY <1>1
<1>5. s[2] = b
  BY <1>1
<1>6. Len(t) = 2 /\ t[1] = a /\ t[2] = b
  OBVIOUS
<1> HIDE DEF s, t
<1>7. \A i \in 1..Len(s) : s[i] = t[i]
  BY <1>3, <1>4, <1>5, <1>6
<1>8. Len(s) = Len(t)
  BY <1>3, <1>6
<1>9. s = t
  BY <1>1, <1>2, <1>7, <1>8, SeqEqual
<1>10. QED
  BY <1>9 DEF s, t

LEMMA Joined ==
    /\ <<>> \o <<>> = <<>>
    /\ \A a \in Calls : <<>> \o <<a>> = <<a>> /\ <<a>> \o <<>> = <<a>>
    /\ \A a, b \in Calls : <<a>> \o <<b>> = <<a, b>>
<1>1. \A s \in Seq(Calls) : <<>> \o s = s /\ s \o <<>> = s
  OBVIOUS
<1>2. <<>> \in Seq(Calls) /\ \A a \in Calls : <<a>> \in Seq(Calls)
  OBVIOUS
<1>3. \A a, b \in Calls : <<a>> \o <<b>> = <<a, b>>
  BY Pair
<1>4. QED
  BY <1>1, <1>2, <1>3

(* A call is taken off the script.                                         *)
LEMMA Takes ==
    ASSUME NEW form \in Form, form.at = "saving", Fits(form), form.todo # <<>>,
           Ordered(form), NEW told, told.kind = form.kind,
           told.template = form.template, told.todo = Tail(form.todo)
    PROVE  /\ Ordered(told)
           /\ Closes(form, Head(form.todo)) => Tail(form.todo) = <<>>
           /\ form.kind \in Cutters /\ Head(form.todo) # "listInstances" =>
                  Tail(form.todo) # <<>>
           /\ form.kind = "deleteMonth" =>
                  (Head(form.todo) = "updateExpense" => form.template # None)
           /\ form.kind = "deleteMonth" =>
                  (Head(form.todo) = "deleteExpense" => form.template = None)
<1>1. form.todo \in Seq(Calls) /\ Len(form.todo) \in Nat \ {0}
  BY DEF Form
<1>2. /\ Head(form.todo) = form.todo[1]
      /\ Len(Tail(form.todo)) = Len(form.todo) - 1
      /\ \A i \in 1..(Len(form.todo) - 1) : Tail(form.todo)[i] = form.todo[i + 1]
  BY <1>1
<1>a. Tail(form.todo) = <<>> <=> Len(form.todo) = 1
  <2>1. Tail(form.todo) \in Seq(Calls)
    BY <1>1
  <2>2. Len(Tail(form.todo)) = Len(form.todo) - 1
    BY <1>1
  <2>3. \A s \in Seq(Calls) : s = <<>> <=> Len(s) = 0
    OBVIOUS
  <2>4. Len(Tail(form.todo)) = 0 <=> Len(form.todo) = 1
    BY <1>1, <2>2
  <2> DEFINE rest == Tail(form.todo)
  <2> HIDE DEF rest
  <2>5. rest \in Seq(Calls) => (rest = <<>> <=> Len(rest) = 0)
    BY <2>3
  <2>6. QED
    BY <2>1, <2>4, <2>5 DEF rest
<1>3. Ordered(told)
  <2>1. ASSUME NEW i \in 1..Len(told.todo)
        PROVE  /\ told.todo[i] = form.todo[i + 1]
               /\ i + 1 \in 1..Len(form.todo)
               /\ i = Len(told.todo) <=> i + 1 = Len(form.todo)
    BY <1>1, <1>2
  <2>2. \A call : Closes(told, call) <=> Closes(form, call)
    BY DEF Closes
  <2>3. QED
    BY <2>1, <2>2 DEF Ordered
<1>4. 1 \in 1..Len(form.todo)
  BY <1>1
<1>5. QED
  BY <1>1, <1>2, <1>a, <1>3, <1>4 DEF Ordered

LEMMA ScriptOrdered ==
    ASSUME NEW form \in Form, NEW kind \in Kinds, NEW date \in Months,
           NEW new, new.kind = kind, new.template = form.template,
           new.todo = Script(form, kind, date)
    PROVE  Ordered(new)
<1> DEFINE todo == Script(form, kind, date)
<1>1. CASE kind \in {"fixed", "convert"}
  <2>1. "createTemplate" \in Calls /\ "createExpense" \in Calls
        /\ "updateExpense" \in Calls
    BY DEF Calls
  <2>2. \/ todo = <<>> \/ todo = <<"createTemplate">>
        \/ todo = <<"createExpense">>
        \/ todo = <<"createTemplate", "createExpense">>
        \/ kind = "convert" /\ todo = <<"updateExpense">>
        \/ kind = "convert" /\ todo = <<"createTemplate", "updateExpense">>
    BY <1>1, <2>1, Joined DEF Script, EnsureTemplate
  <2> HIDE DEF todo
  <2>3. new.todo = todo
    BY DEF todo
  <2>4. CASE todo = <<>>
    BY <2>3, <2>4 DEF Ordered
  <2>5. CASE todo = <<"createTemplate">> \/ todo = <<"createExpense">>
    <3>1. Len(new.todo) = 1
      BY <2>3, <2>5
    <3>2. \A i \in 1..1 : i = 1
      OBVIOUS
    <3>3. QED
      BY <1>1, <3>1, <3>2 DEF Ordered, Cutters
  <2>6. CASE todo = <<"createTemplate", "createExpense">>
    BY <1>1, <2>3, <2>6 DEF Ordered, Closes, Cutters
  <2>7. CASE todo = <<"updateExpense">>
    BY <1>1, <2>3, <2>7 DEF Ordered, Closes, Cutters
  <2>8. CASE todo = <<"createTemplate", "updateExpense">>
    BY <1>1, <2>3, <2>8 DEF Ordered, Closes, Cutters
  <2>9. QED
    BY <2>2, <2>4, <2>5, <2>6, <2>7, <2>8
<1>2. CASE kind = "single"
  <2>1. new.todo = <<"createExpense">>
    BY <1>2 DEF Script
  <2>2. QED
    <3>1. Len(new.todo) = 1
      BY <2>1
    <3>2. \A i \in 1..1 : i = 1
      OBVIOUS
    <3>3. QED
      BY <1>2, <3>1, <3>2 DEF Ordered, Cutters
<1>3. CASE kind = "move"
  <2>1. new.todo = <<"updateExpense">>
    BY <1>3 DEF Script
  <2>2. QED
    BY <1>3, <2>1 DEF Ordered, Closes, Cutters
<1>4. CASE kind \in {"edit", "unfix"}
  <2>1. new.todo = <<"updateExpense", "updateTemplate", "listInstances">>
    BY <1>4 DEF Script
  <2>2. QED
    BY <1>4, <2>1 DEF Ordered, Closes
<1>5. CASE kind = "refix"
  <2>1. new.todo = <<"updateTemplate", "updateExpense", "listInstances">>
    BY <1>5 DEF Script
  <2>2. QED
    <3>1. Len(new.todo) = 3 /\ new.todo[1] = "updateTemplate"
          /\ new.todo[2] = "updateExpense" /\ new.todo[3] = "listInstances"
      BY <2>1
    <3>2. \A i \in 1..3 : i = 1 \/ i = 2 \/ i = 3
      OBVIOUS
    <3>3. QED
      BY <1>5, <3>1, <3>2 DEF Ordered, Closes
<1>6. CASE kind = "deleteAll"
  <2>1. new.todo = <<"deleteTemplate">>
    BY <1>6 DEF Script
  <2>2. QED
    <3>1. Len(new.todo) = 1 /\ new.todo[1] = "deleteTemplate"
      BY <2>1
    <3>2. \A i \in 1..1 : i = 1
      OBVIOUS
    <3>3. QED
      BY <1>6, <3>1, <3>2 DEF Ordered, Closes, Cutters
<1>7. CASE kind = "deleteMonth"
  <2>1. new.todo = IF new.template # None THEN <<"updateExpense">>
                   ELSE <<"deleteExpense">>
    BY <1>7 DEF Script
  <2>2. QED
    <3>1. /\ Len(new.todo) = 1
          /\ new.template # None => new.todo[1] = "updateExpense"
          /\ new.template = None => new.todo[1] = "deleteExpense"
      BY <2>1
    <3>2. \A i \in 1..1 : i = 1
      OBVIOUS
    <3>3. QED
      BY <1>7, <3>1, <3>2 DEF Ordered, Closes, Cutters
<1>8. QED
  BY <1>1, <1>2, <1>3, <1>4, <1>5, <1>6, <1>7 DEF Kinds

-----------------------------------------------------------------------------
(* One tab: every call is its own, and between two calls nothing is under  *)
(* way.                                                                    *)

LEMMA OneTabOnly ==
    ASSUME OneTab, TypeOK, NEW tab \in Tabs
    PROVE  /\ \A u \in Tabs : u = tab
           /\ \A q \in requests : q.tab = tab
BY DEF OneTab, TypeOK, Request

LEMMA NothingUnderWay ==
    ASSUME OneTab, TypeInv, AwaitedBySave, AloneInv, NEW tab \in Tabs,
           forms[tab].at # "saving" \/ Awaited(tab) = {}
    PROVE  requests = {}
<1>1. ASSUME NEW q \in requests
      PROVE  FALSE
  <2>1. q.awaited /\ q.tab = tab
    BY OneTabOnly DEF AloneInv, CallsAlone, CallAlone, TypeInv
  <2>2. forms[tab].at = "saving" /\ q \in Awaited(tab)
    BY <2>1 DEF AwaitedBySave, Awaited
  <2>3. QED
    BY <2>2
<1>2. QED
  BY <1>1

LEMMA AloneNow ==
    ASSUME OneTab, NEW tab \in Tabs, TypeOK', TableFits(expenses'),
           FormAlone(expenses', forms'[tab]),
           \A q \in requests' :
               CallAlone(expenses', requests', q, forms'[tab]),
           \A q, p \in requests' : q.expense = p.expense => q = p
    PROVE  AloneInv'
<1>1. \A u \in Tabs : u = tab
  BY DEF OneTab
<1>2. \A q \in requests' : q.tab = tab
  BY <1>1 DEF TypeOK, Request
<1>3. QED
  BY <1>1, <1>2 DEF AloneInv, CallsAlone

(* What a form and a call know depends on their own row.                   *)
LEMMA FormKept ==
    ASSUME NEW table, NEW other, NEW form,
           form.expense # None => other[form.expense] = table[form.expense],
           FormAlone(table, form)
    PROVE  FormAlone(other, form)
BY DEF FormAlone, KnowsRow

LEMMA CallKept ==
    ASSUME NEW table, NEW other, NEW calls, NEW q, NEW form,
           other[q.expense] = table[q.expense],
           CallAlone(table, calls, q, form)
    PROVE  CallAlone(other, calls, q, form)
BY DEF CallAlone, Own, Carries, KnowsRow

(* Nobody holds a fresh row.                                               *)
HeldRowsStay ==
    \A e \in Expenses : e \notin FreshExpense => expenses'[e] = expenses[e]

LEMMA AloneStays ==
    ASSUME TypeInv, AloneInv, TableFits(expenses'), HeldRowsStay,
           UNCHANGED <<forms, requests>>
    PROVE  AloneInv'
<1>1. \A tab \in Tabs : FormAlone(expenses', forms[tab])
  <2>1. \A tab \in Tabs : forms[tab].expense # None =>
            expenses'[forms[tab].expense] = expenses[forms[tab].expense]
    BY HeldNotFresh DEF HeldRowsStay
  <2>2. QED
    BY <2>1, FormKept DEF AloneInv
<1>2. \A q \in requests : CallAlone(expenses', requests, q, forms[q.tab])
  <2>1. \A q \in requests : expenses'[q.expense] = expenses[q.expense]
    BY HeldNotFresh DEF HeldRowsStay
  <2>2. QED
    BY <2>1, CallKept DEF AloneInv, CallsAlone
<1>3. QED
  BY <1>1, <1>2 DEF AloneInv, CallsAlone

(* A step that leaves nothing under way has the form to look at only.      *)
LEMMA FormMoves ==
    ASSUME OneTab, TypeInv, NEW tab \in Tabs, NEW form, TypeOK',
           TableFits(expenses'),
           FormAlone(expenses', form), forms' = [forms EXCEPT ![tab] = form],
           requests' = {}
    PROVE  AloneInv'
<1>1. forms'[tab] = form
  BY DEF TypeInv, TypeOK
<1>2. QED
  BY <1>1, AloneNow

-----------------------------------------------------------------------------
(* Steps of a load.                                                        *)

LEMMA LoadStepAlone ==
    ASSUME TypeInv, AloneInv, NEW l \in Loads, LoadStep(l)
    PROVE  AloneInv' /\ HeldRowsStay
<1>1. UNCHANGED <<forms, requests>>
  BY DEF LoadStep, Read, Decide, Materialize, ShowLoad, ReadFails
<1>2. TableFits(expenses') /\ HeldRowsStay
  <2>1. CASE UNCHANGED expenses
    BY <2>1 DEF AloneInv, HeldRowsStay
  <2>2. ASSUME NEW t \in Templates, Materialize(l, t), ~UNCHANGED expenses
        PROVE  TableFits(expenses') /\ HeldRowsStay
    <3>1. PICK e \in FreshExpense : Creatable(l, t) /\ Stored(l, t, e)
      BY <2>2, MaterializeEffect DEF TypeInv
    <3>2. loads[l].month \in Months
      BY <2>2 DEF Materialize, TypeInv, LoadsPlaced
    <3> DEFINE row == Instance(t, loads[l].month)
    <3>3. /\ row \in ExpenseRow
          /\ row.template = t
          /\ row.period = loads[l].month /\ row.month = loads[l].month
      BY <3>2 DEF Instance, ExpenseRow
    <3>4. row.period # None
      BY <3>2, <3>3, StoreAssumption
    <3>5. TableFits(expenses')
      BY <3>1, <3>3, <3>4, RowAdded DEF Creatable, Stored, AloneInv
    <3>6. HeldRowsStay
      BY <3>1 DEF Stored, HeldRowsStay, TypeInv, TypeOK
    <3>7. QED
      BY <3>5, <3>6
  <2>3. QED
    BY <2>1, <2>2 DEF LoadStep, Read, Decide, ShowLoad, ReadFails
<1>3. QED
  BY <1>1, <1>2, AloneStays

-----------------------------------------------------------------------------
(* Steps of the user.                                                      *)

LEMMA EmptyFormAlone ==
    \A table :
        /\ FormAlone(table, ClosedForm)
        /\ FormAlone(table, [ClosedForm EXCEPT !.at = "open"])
BY DEF FormAlone, ClosedForm

LEMMA UncoveredIsClosed ==
    ASSUME PageInv, NEW tab \in Tabs, shown[tab].status # "away"
    PROVE  forms[tab].at = "closed"
BY DEF PageInv, FormCovers

LEMMA OpenEditAlone ==
    ASSUME OneTab, TypeInv, TypeOK', AwaitedBySave, PageInv, AloneInv,
           NEW tab \in Tabs, NEW e \in Expenses, OpenEdit(tab, e)
    PROVE  AloneInv'
<1> DEFINE row == expenses[e]
           template == templates[row.template]
           form == [ClosedForm EXCEPT
                       !.at = "open", !.expense = e, !.template = row.template,
                       !.period = row.period, !.month = row.month]
           fixed == [form EXCEPT !.active = template.active,
                                 !.start = template.start]
<1>1. /\ form.at = "open" /\ form.expense = e
      /\ form.template = row.template /\ form.period = row.period
  BY DEF ClosedForm
<1>2. /\ fixed.at = "open" /\ fixed.expense = e
      /\ fixed.template = row.template /\ fixed.period = row.period
  BY DEF ClosedForm
<1>3. row # None /\ ~row.removed
  BY DEF OpenEdit, Visible, Present
<1>4. FormAlone(expenses, form) /\ FormAlone(expenses, fixed)
  <2> HIDE DEF form, fixed
  <2>1. QED
    BY <1>1, <1>2, <1>3 DEF FormAlone, KnowsRow
<1>5. \/ forms' = [forms EXCEPT ![tab] = form]
      \/ forms' = [forms EXCEPT ![tab] = fixed]
  BY DEF OpenEdit
<1>6. UNCHANGED <<expenses, requests>>
  BY DEF OpenEdit
<1>7. requests = {}
  BY NothingUnderWay, UncoveredIsClosed DEF OpenEdit
<1> HIDE DEF form, fixed
<1>8. QED
  BY <1>4, <1>5, <1>6, <1>7, FormMoves DEF AloneInv

LEMMA SaveAlone ==
    ASSUME OneTab, TypeInv, TypeOK', AwaitedBySave, AloneInv,
           NEW tab \in Tabs, Save(tab)
    PROVE  AloneInv'
<1> DEFINE form == forms[tab]
           saved(kind, date, end) ==
               [form EXCEPT !.at = "saving", !.kind = kind,
                            !.date = date, !.end = end, !.nowAt = now,
                            !.todo = Script(form, kind, date)]
<1>a. form \in Form /\ Fits(form) /\ form.at = "open"
  BY DEF Save, TypeInv, TypeOK, FormsFit
<1>b. FormAlone(expenses, form)
  BY DEF AloneInv
<1>1. ASSUME NEW kind \in KindsOf(form), NEW date \in DateChoices(form, kind),
             NEW end, forms' = [forms EXCEPT ![tab] = saved(kind, date, end)]
      PROVE  AloneInv'
  <2> DEFINE new == saved(kind, date, end)
  <2>1. /\ new.kind = kind /\ new.date = date
        /\ new.expense = form.expense /\ new.template = form.template
        /\ new.period = form.period /\ new.at = "saving"
        /\ new.todo = Script(form, kind, date)
    <3> HIDE DEF form
    <3>1. QED
      BY <1>a DEF Form
  <2> HIDE DEF new
  <2>2. kind \in Kinds
    BY <1>a, KindsType
  <2>3. kind \notin {"deleteMonth", "deleteAll"} /\ form.period # None =>
            date = form.period
    BY DEF DateChoices
  <2>4. date \in Months
    <3>1. kind \notin {"single", "fixed"} => form.expense # None
      BY DEF KindsOf
    <3>2. kind \in {"deleteMonth", "deleteAll"} => form.month \in Months
      BY <1>a, <3>1 DEF Fits
    <3>3. form.period # None => form.period \in Months
      BY <1>a DEF Form
    <3>4. QED
      BY <3>2, <3>3 DEF DateChoices
  <2>5. Ordered(new)
    <3> HIDE DEF form
    <3>1. QED
      BY <1>a, <2>1, <2>2, <2>4, ScriptOrdered
  <2>6. form.expense # None => KnowsRow(expenses, form)
    BY <1>a, <1>b DEF FormAlone
  <2>7. FormAlone(expenses, new)
    <3> HIDE DEF form
    <3>1. QED
      BY <2>1, <2>3, <2>5, <2>6 DEF FormAlone, KnowsRow
  <2>8. forms' = [forms EXCEPT ![tab] = new]
    BY <1>1 DEF new
  <2>9. requests = {}
    BY <1>a, NothingUnderWay
  <2>10. UNCHANGED <<expenses, requests>>
    BY DEF Save
  <2>11. QED
    BY <2>7, <2>8, <2>9, <2>10, FormMoves DEF AloneInv
<1>2. PICK kind \in KindsOf(form) \cap Operations :
          \E date \in DateChoices(form, kind) :
          \E end \in EndChoices(form, kind, date) :
              /\ kind = "single" => Cardinality(Singles) < SinglesMax
              /\ forms' = [forms EXCEPT ![tab] = saved(kind, date, end)]
  BY Zenon DEF Save
<1>3. PICK date \in DateChoices(form, kind) :
          \E end \in EndChoices(form, kind, date) :
              forms' = [forms EXCEPT ![tab] = saved(kind, date, end)]
  BY <1>2, Zenon
<1>4. PICK end : forms' = [forms EXCEPT ![tab] = saved(kind, date, end)]
  BY <1>3
<1> HIDE DEF saved
<1>5. QED
  BY <1>1, <1>2, <1>3, <1>4

LEMMA UserStepAlone ==
    ASSUME OneTab, TypeInv, TypeOK', AwaitedBySave, PageInv, AloneInv,
           NEW tab \in Tabs, UserStep(tab)
    PROVE  AloneInv'
<1>1. CASE VisitLedger(tab) \/ SelectMonth(tab)
  <2>1. UNCHANGED <<expenses, forms, requests>>
    BY <1>1 DEF VisitLedger, SelectMonth
  <2>2. QED
    BY <2>1, AloneStays DEF HeldRowsStay, AloneInv
<1>2. CASE OpenNew(tab)
  <2>1. /\ UNCHANGED <<expenses, requests>>
        /\ forms' = [forms EXCEPT ![tab] = [ClosedForm EXCEPT !.at = "open"]]
    BY <1>2 DEF OpenNew
  <2>2. requests = {}
    BY <1>2, NothingUnderWay, UncoveredIsClosed DEF OpenNew
  <2>3. QED
    BY <2>1, <2>2, EmptyFormAlone, FormMoves DEF AloneInv
<1>3. CASE Cancel(tab)
  <2>1. /\ UNCHANGED <<expenses, requests>>
        /\ forms' = [forms EXCEPT ![tab] = ClosedForm]
    BY <1>3 DEF Cancel, Return
  <2>2. requests = {}
    BY <1>3, NothingUnderWay DEF Cancel
  <2>3. QED
    BY <2>1, <2>2, EmptyFormAlone, FormMoves DEF AloneInv
<1>4. QED
  BY <1>1, <1>2, <1>3, OpenEditAlone, SaveAlone DEF UserStep

-----------------------------------------------------------------------------
(* Steps of a save.                                                        *)

(* What a save knows before it sends its next call.                        *)
LEMMA NextCallAlone ==
    ASSUME OneTab, TypeInv, AwaitedBySave, AloneInv,
           NEW tab \in Tabs, NEW call, NextCall(tab, call)
    PROVE  /\ requests = {}
           /\ forms[tab].at = "saving" /\ forms[tab].todo # <<>>
           /\ call = Head(forms[tab].todo)
           /\ forms[tab] \in Form /\ Fits(forms[tab])
           /\ Ordered(forms[tab])
           /\ FormAlone(expenses, forms[tab])
           /\ forms[tab].expense # None => KnowsRow(expenses, forms[tab])
<1>1. /\ forms[tab].at = "saving" /\ forms[tab].todo # <<>>
      /\ call = Head(forms[tab].todo)
      /\ Awaited(tab) = {}
  BY DEF NextCall
<1>2. FormAlone(expenses, forms[tab])
  BY DEF AloneInv
<1>3. requests = {}
  BY <1>1, NothingUnderWay
<1>4. forms[tab] \in Form /\ Fits(forms[tab])
  BY DEF TypeInv, TypeOK, FormsFit
<1>5. QED
  BY <1>1, <1>2, <1>3, <1>4 DEF FormAlone

(* A form that goes on with the rest of its script, or opens again.        *)
LEMMA DoneAlone ==
    ASSUME NEW table, NEW form \in Form, form.at = "saving", Fits(form),
           form.todo # <<>>, Ordered(form), FormAlone(table, form)
    PROVE  /\ FormAlone(table, Done(form))
           /\ Ordered(Done(form))
<1> DEFINE done == Done(form)
<1>1. /\ done.at = "saving" /\ done.expense = form.expense
      /\ done.template = form.template /\ done.period = form.period
      /\ done.kind = form.kind /\ done.date = form.date
      /\ done.todo = Tail(form.todo)
  BY DEF Done, Form
<1> HIDE DEF done
<1>2. Ordered(done)
  BY <1>1, Takes
<1>3. FormAlone(table, done)
  BY <1>1, <1>2 DEF FormAlone, KnowsRow
<1>4. QED
  BY <1>2, <1>3 DEF done

LEMMA ReopenedAlone ==
    ASSUME NEW table, NEW form \in Form,
           form.expense # None => KnowsRow(table, form)
    PROVE  FormAlone(table, Reopened(form))
<1> DEFINE open == Reopened(form)
<1>1. /\ open.at = "open" /\ open.expense = form.expense
      /\ open.template = form.template /\ open.period = form.period
  BY DEF Reopened, Form
<1> HIDE DEF open
<1>2. FormAlone(table, open)
  BY <1>1 DEF FormAlone, KnowsRow
<1>3. QED
  BY <1>2 DEF open

LEMMA SaveFailsAlone ==
    ASSUME OneTab, TypeInv, TypeOK', AloneInv, NEW tab \in Tabs,
           forms[tab].expense # None => KnowsRow(expenses, forms[tab]),
           SaveFails(tab, {}), UNCHANGED expenses
    PROVE  AloneInv'
<1>1. requests' = {}
  BY DEF SaveFails, Abandoned
<1>2. forms[tab] \in Form
  BY DEF TypeInv, TypeOK
<1>3. FormAlone(expenses, Reopened(forms[tab]))
  BY <1>2, ReopenedAlone
<1>4. QED
  BY <1>1, <1>3, FormMoves DEF SaveFails, AloneInv

LEMMA AnsweredAlone ==
    ASSUME OneTab, ~Failures, TypeInv, TypeOK', NEW tab \in Tabs,
           NEW form \in Form, form.at = "saving", Fits(form),
           form.todo # <<>>, Ordered(form), FormAlone(expenses', form),
           Answered(tab, form), requests' = {}, TableFits(expenses')
    PROVE  AloneInv'
<1>1. FormAlone(expenses', Done(form))
  BY DoneAlone
<1>2. forms' = [forms EXCEPT ![tab] = Done(form)]
  BY DEF Answered
<1>3. QED
  BY <1>1, <1>2, FormMoves

LEMMA CreateTemplateAlone ==
    ASSUME OneTab, ~Failures, TypeInv, TypeOK', AwaitedBySave, AloneInv,
           NEW tab \in Tabs, CreateTemplate(tab)
    PROVE  AloneInv'
<1> DEFINE form == forms[tab]
<1>1. /\ form \in Form /\ Fits(form) /\ form.at = "saving"
      /\ form.todo # <<>> /\ Ordered(form) /\ FormAlone(expenses, form)
      /\ requests = {}
  BY NextCallAlone DEF CreateTemplate
<1>2. PICK t \in FreshTemplate :
          Answered(tab, [form EXCEPT !.created = t, !.made = @ + 1])
  BY Zenon DEF CreateTemplate
<1> DEFINE told == [form EXCEPT !.created = t, !.made = @ + 1]
<1>3. told \in Form
  BY <1>1, ToldType DEF FreshTemplate
<1>4. /\ told.at = form.at /\ told.expense = form.expense
      /\ told.template = form.template /\ told.period = form.period
      /\ told.kind = form.kind /\ told.date = form.date
      /\ told.todo = form.todo /\ told.month = form.month
      /\ told.end = form.end /\ told.nowAt = form.nowAt
  <2> HIDE DEF form
  <2>1. QED
    BY <1>1 DEF Form
<1>5. Fits(told) /\ Ordered(told) /\ FormAlone(expenses, told)
  <2> HIDE DEF form, told
  <2>1. Fits(told)
    BY <1>1, <1>4 DEF Fits
  <2>2. Ordered(told)
    BY <1>1, <1>4 DEF Ordered, Closes
  <2>3. FormAlone(expenses, told)
    BY <1>1, <1>4, <2>2 DEF FormAlone, KnowsRow
  <2>4. QED
    BY <2>1, <2>2, <2>3
<1>6. UNCHANGED <<expenses, requests>>
  BY DEF CreateTemplate
<1>7. Answered(tab, told)
  BY <1>2
<1>8. told.at = "saving" /\ told.todo # <<>>
  BY <1>1, <1>4
<1> HIDE DEF told, form
<1>9. QED
  BY <1>1, <1>3, <1>5, <1>6, <1>7, <1>8, AnsweredAlone DEF AloneInv

LEMMA CreateExpenseAlone ==
    ASSUME OneTab, ~Failures, TypeInv, TypeOK', AwaitedBySave, AloneInv,
           NEW tab \in Tabs, CreateExpense(tab)
    PROVE  AloneInv'
<1> DEFINE form == forms[tab]
           row == NewRow(form)
<1>1. /\ form \in Form /\ Fits(form) /\ form.at = "saving"
      /\ form.todo # <<>> /\ Ordered(form) /\ FormAlone(expenses, form)
      /\ form.expense # None => KnowsRow(expenses, form)
      /\ requests = {}
  BY NextCallAlone DEF CreateExpense
<1>2. /\ row \in ExpenseRow
      /\ row.template # None => row.period = form.date /\ row.month = form.date
  <2>1. form.date \in Months
    BY <1>1 DEF Fits
  <2>2. QED
    BY <1>1, <2>1 DEF NewRow, Instance, ExpenseRow, Form
<1>3. form.date # None
  BY <1>1, StoreAssumption DEF Fits
<1>4. CASE SaveFails(tab, requests) /\ UNCHANGED expenses
  BY <1>1, <1>4, SaveFailsAlone
<1>5. ASSUME ~SlotTaken(expenses, row.template, row.period, {}),
             NEW e \in FreshExpense, expenses' = [expenses EXCEPT ![e] = row],
             Answered(tab, form), UNCHANGED requests
      PROVE  AloneInv'
  <2>1. form.expense # e
    BY DEF FreshExpense
  <2>2. e \in Expenses /\ expenses \in [Expenses -> ExpenseRow \cup {None}]
    BY DEF FreshExpense, TypeInv, TypeOK
  <2> HIDE DEF row, form
  <2>3. TableFits(expenses')
    BY <1>2, <1>3, <1>5, RowAdded DEF AloneInv
  <2>4. form.expense # None => expenses'[form.expense] = expenses[form.expense]
    BY <1>1, <1>5, <2>1, <2>2 DEF Form
  <2>5. FormAlone(expenses', form)
    BY <1>1, <2>4, FormKept
  <2>6. QED
    BY <1>1, <1>5, <2>3, <2>5, AnsweredAlone
<1>6. QED
  BY <1>4, <1>5 DEF CreateExpense

LEMMA UpdateTemplateAlone ==
    ASSUME OneTab, ~Failures, TypeInv, TypeOK', AwaitedBySave, AloneInv,
           NEW tab \in Tabs, UpdateTemplate(tab)
    PROVE  AloneInv'
<1>1. /\ forms[tab] \in Form /\ Fits(forms[tab]) /\ forms[tab].at = "saving"
      /\ forms[tab].todo # <<>> /\ Ordered(forms[tab])
      /\ FormAlone(expenses, forms[tab])
      /\ forms[tab].expense # None => KnowsRow(expenses, forms[tab])
      /\ requests = {}
  BY NextCallAlone DEF UpdateTemplate
<1>2. UNCHANGED expenses
  BY DEF UpdateTemplate
<1>3. CASE SaveFails(tab, requests)
  BY <1>1, <1>2, <1>3, SaveFailsAlone
<1>4. CASE Answered(tab, forms[tab]) /\ UNCHANGED requests
  BY <1>1, <1>2, <1>4, AnsweredAlone DEF AloneInv
<1>5. QED
  BY <1>3, <1>4 DEF UpdateTemplate

LEMMA DeleteTemplateAlone ==
    ASSUME OneTab, ~Failures, TypeInv, TypeOK', AwaitedBySave, AloneInv,
           NEW tab \in Tabs, DeleteTemplate(tab)
    PROVE  AloneInv'
<1> DEFINE form == forms[tab]
           done == Done(form)
<1>1. /\ form \in Form /\ Fits(form) /\ form.at = "saving"
      /\ form.todo # <<>> /\ Ordered(form) /\ FormAlone(expenses, form)
      /\ form.expense # None => KnowsRow(expenses, form)
      /\ Head(form.todo) = "deleteTemplate"
      /\ requests = {}
  BY NextCallAlone DEF DeleteTemplate
<1>2. CASE SaveFails(tab, requests) /\ UNCHANGED expenses
  BY <1>1, <1>2, SaveFailsAlone
<1>3. CASE /\ expenses' = Cascade(expenses, form.template)
           /\ Answered(tab, form)
           /\ UNCHANGED requests
  <2>1. /\ DOMAIN expenses' = Expenses
        /\ \A e \in Expenses : expenses'[e] \in {None, expenses[e]}
    BY <1>3 DEF Cascade, TypeInv, TypeOK
  <2>2. TableFits(expenses')
    BY <2>1, RowsGone DEF AloneInv
  <2>3. /\ done.at = "saving" /\ done.expense = form.expense
        /\ done.template = form.template /\ done.period = form.period
        /\ done.kind = form.kind /\ done.date = form.date
        /\ done.todo = Tail(form.todo)
    BY <1>1 DEF Done, Form
  <2>4. forms' = [forms EXCEPT ![tab] = done]
    BY <1>3 DEF Answered
  <2> HIDE DEF form, done
  <2>5. Ordered(done) /\ done.todo = <<>>
    BY <1>1, <2>3, Takes DEF Closes
  <2>6. FormAlone(expenses', done)
    BY <1>1, <2>3, <2>5 DEF FormAlone
  <2>7. QED
    BY <1>1, <1>3, <2>2, <2>4, <2>6, FormMoves
<1>4. QED
  BY <1>2, <1>3 DEF DeleteTemplate

(* The calls a save sends: one about its own row, or one for each row that *)
(* follows its template.                                                   *)
LEMMA SendOwnAlone ==
    ASSUME OneTab, TypeInv, TypeOK', AwaitedBySave, AloneInv,
           NEW tab \in Tabs, NEW q, q.awaited, q.expense \in Expenses,
           forms[tab].at = "saving", forms[tab].todo # <<>>,
           forms[tab] \in Form, Fits(forms[tab]), Ordered(forms[tab]),
           FormAlone(expenses, forms[tab]), requests = {},
           Own(expenses, q, Done(forms[tab])),
           requests' = requests \cup {q},
           forms' = [forms EXCEPT ![tab] = Done(forms[tab])],
           UNCHANGED expenses
    PROVE  AloneInv'
<1>1. requests' = {q}
  OBVIOUS
<1>2. forms'[tab] = Done(forms[tab])
  BY DEF TypeInv, TypeOK
<1>3. FormAlone(expenses, Done(forms[tab]))
  BY DoneAlone
<1>4. CallAlone(expenses', requests', q, forms'[tab])
  BY <1>1, <1>2 DEF CallAlone
<1>5. QED
  BY <1>1, <1>2, <1>3, <1>4, AloneNow DEF AloneInv

LEMMA SendUpdateAlone ==
    ASSUME OneTab, TypeInv, TypeOK', AwaitedBySave, AloneInv,
           NEW tab \in Tabs, SendUpdate(tab)
    PROVE  AloneInv'
<1> DEFINE form == forms[tab]
           done == Done(form)
           q == Update(tab, form.expense, OwnPatch(form))
<1>1. /\ form \in Form /\ Fits(form) /\ form.at = "saving"
      /\ form.todo # <<>> /\ Ordered(form) /\ FormAlone(expenses, form)
      /\ form.expense # None => KnowsRow(expenses, form)
      /\ Head(form.todo) = "updateExpense"
      /\ requests = {}
  BY NextCallAlone DEF SendUpdate
<1>2. /\ form.expense \in Expenses
      /\ form.kind \notin {"single", "fixed", "deleteAll"}
  <2>1. "updateExpense" \in CallsOf(form.kind)
    BY NextCallFacts DEF SendUpdate
  <2>2. form.kind \notin {"single", "fixed", "deleteAll"}
    BY <2>1 DEF CallsOf
  <2>3. QED
    BY <1>1, <2>2 DEF Fits
<1>3. KnowsRow(expenses, form)
  BY <1>1, <1>2, StoreAssumption
<1>4. /\ done.at = "saving" /\ done.expense = form.expense
      /\ done.template = form.template /\ done.period = form.period
      /\ done.kind = form.kind /\ done.date = form.date
      /\ done.created = form.created /\ done.todo = Tail(form.todo)
  BY <1>1 DEF Done, Form
<1>5. /\ q.expense = form.expense /\ q.call = "updateExpense"
      /\ q.patch = OwnPatch(form) /\ q.awaited
  BY DEF Update
<1>6. /\ requests' = requests \cup {q}
      /\ forms' = [forms EXCEPT ![tab] = done]
      /\ UNCHANGED expenses
  BY DEF SendUpdate
<1> HIDE DEF form, done, q
<1>7. OwnPatch(done) = OwnPatch(form)
  BY <1>4 DEF OwnPatch
<1>8. /\ form.kind \in {"convert", "deleteMonth"} => done.todo = <<>>
      /\ form.kind = "deleteMonth" => form.template # None
  BY <1>1, <1>4, Takes DEF Closes
<1>9. Own(expenses, q, done)
  BY <1>2, <1>3, <1>4, <1>5, <1>7, <1>8 DEF Own, KnowsRow
<1>10. QED
  BY <1>1, <1>2, <1>5, <1>6, <1>9, SendOwnAlone DEF form, done

LEMMA SendDeleteAlone ==
    ASSUME OneTab, TypeInv, TypeOK', AwaitedBySave, AloneInv,
           NEW tab \in Tabs, SendDelete(tab)
    PROVE  AloneInv'
<1> DEFINE form == forms[tab]
           done == Done(form)
           q == Delete(tab, form.expense)
<1>1. /\ form \in Form /\ Fits(form) /\ form.at = "saving"
      /\ form.todo # <<>> /\ Ordered(form) /\ FormAlone(expenses, form)
      /\ form.expense # None => KnowsRow(expenses, form)
      /\ Head(form.todo) = "deleteExpense"
      /\ requests = {}
  BY NextCallAlone DEF SendDelete
<1>2. form.kind = "deleteMonth" /\ form.expense \in Expenses
  <2>1. "deleteExpense" \in CallsOf(form.kind)
    BY NextCallFacts DEF SendDelete
  <2>2. form.kind = "deleteMonth"
    BY <2>1 DEF CallsOf
  <2>3. QED
    BY <1>1, <2>2 DEF Fits
<1>3. KnowsRow(expenses, form)
  BY <1>1, <1>2, StoreAssumption
<1>4. /\ done.at = "saving" /\ done.expense = form.expense
      /\ done.template = form.template /\ done.period = form.period
      /\ done.kind = form.kind /\ done.date = form.date
      /\ done.todo = Tail(form.todo)
  BY <1>1 DEF Done, Form
<1>5. q.expense = form.expense /\ q.call = "deleteExpense" /\ q.awaited
  BY DEF Delete
<1>6. /\ requests' = requests \cup {q}
      /\ forms' = [forms EXCEPT ![tab] = done]
      /\ UNCHANGED expenses
  BY DEF SendDelete
<1> HIDE DEF form, done, q
<1>7. done.todo = <<>> /\ form.template = None
  BY <1>1, <1>2, <1>4, Takes DEF Closes
<1>8. Own(expenses, q, done)
  BY <1>3, <1>4, <1>5, <1>7 DEF Own, KnowsRow
<1>9. QED
  BY <1>1, <1>2, <1>5, <1>6, <1>8, SendOwnAlone DEF form, done

LEMMA FollowCarries ==
    ASSUME TypeInv, NEW tab \in Tabs, NEW form, NEW done, done.todo = <<>>,
           NEW e \in Visible(expenses)
    PROVE  /\ Follow(tab, form, e).expense = e
           /\ Follow(tab, form, e).awaited
           /\ Carries(expenses, Follow(tab, form, e), done)
<1>1. expenses[e] # None /\ ~expenses[e].removed
  BY DEF Visible, Present
<1>2. CASE Follow(tab, form, e) = Delete(tab, e)
  BY <1>1, <1>2 DEF Delete, Carries
<1>3. CASE Follow(tab, form, e) =
               Update(tab, e, [NoPatch EXCEPT !.month = expenses[e].period])
  BY <1>1, <1>3 DEF Update, Carries
<1>4. QED
  BY <1>2, <1>3 DEF Follow

LEMMA ListInstancesAlone ==
    ASSUME OneTab, TypeInv, TypeOK', AwaitedBySave, AloneInv,
           NEW tab \in Tabs, ListInstances(tab)
    PROVE  AloneInv'
<1> DEFINE form == forms[tab]
           done == Done(form)
           listed == ListInstancesAfter(expenses, form.template, ListedFrom(form))
           call(e) == Follow(tab, form, e)
<1>1. /\ form \in Form /\ Fits(form) /\ form.at = "saving"
      /\ form.todo # <<>> /\ Ordered(form) /\ FormAlone(expenses, form)
      /\ Head(form.todo) = "listInstances"
      /\ requests = {}
  BY NextCallAlone DEF ListInstances
<1>2. /\ done.kind = form.kind /\ done.template = form.template
      /\ done.todo = Tail(form.todo)
  BY <1>1 DEF Done, Form
<1>3. /\ requests' = requests \cup {call(e) : e \in listed}
      /\ forms' = [forms EXCEPT ![tab] = done]
      /\ UNCHANGED expenses
  BY DEF ListInstances
<1>4. listed \subseteq Visible(expenses)
  BY DEF ListInstancesAfter
<1> HIDE DEF form, done, listed
<1>5. done.todo = <<>>
  BY <1>1, <1>2, Takes DEF Closes
<1>6. \A e \in listed : /\ call(e).expense = e /\ call(e).awaited
                        /\ Carries(expenses, call(e), done)
  BY <1>4, <1>5, FollowCarries
<1>7. requests' = {call(e) : e \in listed}
  BY <1>1, <1>3
<1> HIDE DEF call
<1>8. forms'[tab] = done
  BY <1>3 DEF TypeInv, TypeOK
<1>9. FormAlone(expenses', forms'[tab])
  BY <1>1, <1>3, <1>8, DoneAlone DEF done
<1>10. \A q \in requests' : CallAlone(expenses', requests', q, forms'[tab])
  BY <1>3, <1>6, <1>7, <1>8 DEF CallAlone
<1>11. \A q, p \in requests' : q.expense = p.expense => q = p
  BY <1>6, <1>7
<1>12. TableFits(expenses')
  BY <1>3 DEF AloneInv
<1>13. QED
  BY <1>9, <1>10, <1>11, <1>12, AloneNow

LEMMA SaveStepAlone ==
    ASSUME OneTab, ~Failures, TypeInv, TypeOK', AwaitedBySave, AloneInv,
           NEW tab \in Tabs, SaveStep(tab)
    PROVE  AloneInv'
<1>1. CASE CallFails(tab)
  BY <1>1 DEF CallFails
<1>2. CASE Saved(tab)
  <2>1. /\ UNCHANGED <<expenses, requests>>
        /\ forms' = [forms EXCEPT ![tab] = ClosedForm]
    BY <1>2 DEF Saved, Return
  <2>2. requests = {}
    BY <1>2, NothingUnderWay DEF Saved
  <2>3. QED
    BY <2>1, <2>2, EmptyFormAlone, FormMoves DEF AloneInv
<1>3. QED
  BY <1>1, <1>2, CreateTemplateAlone, CreateExpenseAlone, SendUpdateAlone,
     SendDeleteAlone, UpdateTemplateAlone, ListInstancesAlone,
     DeleteTemplateAlone DEF SaveStep

-----------------------------------------------------------------------------
(* Calls on the server.                                                    *)

(* A row is written that moves to a free slot.                             *)
LEMMA RowMoved ==
    ASSUME TypeInv, TableFits(expenses), NEW e \in Present(expenses),
           NEW row \in ExpenseRow,
           ~SlotTaken(expenses, row.template, row.period, {e}),
           row.template # None => row.period # None /\ row.month = row.period,
           expenses' = [expenses EXCEPT ![e] = row]
    PROVE  TableFits(expenses')
<1>1. e \in Expenses /\ expenses[e] # None /\ row # None
  BY StoreAssumption DEF Present, TypeInv, TypeOK
<1>2. /\ expenses'[e] = row
      /\ \A f \in Expenses \ {e} : expenses'[f] = expenses[f]
      /\ DOMAIN expenses = Expenses /\ DOMAIN expenses' = Expenses
  BY <1>1 DEF TypeInv, TypeOK
<1>3. Present(expenses') = Present(expenses)
  BY <1>1, <1>2 DEF Present
<1>4. row.template # None =>
          \A f \in Present(expenses) \ {e} :
              ~(expenses[f].template = row.template /\ expenses[f].period = row.period)
  BY DEF SlotTaken
<1>5. \A f \in Present(expenses) : f \in Expenses
  BY <1>2 DEF Present
<1>6. ASSUME NEW f \in Present(expenses'), expenses'[f].template # None
      PROVE  /\ expenses'[f].period # None
             /\ expenses'[f].month = expenses'[f].period
  BY <1>2, <1>3, <1>5, <1>6 DEF TableFits
<1>7. ASSUME NEW f \in Present(expenses'), NEW g \in Present(expenses'),
             expenses'[f].template # None,
             expenses'[f].template = expenses'[g].template,
             expenses'[f].period = expenses'[g].period
      PROVE  f = g
  <2>1. CASE f # e /\ g # e
    BY <1>2, <1>3, <1>5, <1>7, <2>1 DEF TableFits
  <2>2. CASE f = e /\ g # e
    BY <1>2, <1>3, <1>4, <1>5, <1>7, <2>2
  <2>3. CASE f # e /\ g = e
    BY <1>2, <1>3, <1>4, <1>5, <1>7, <2>3
  <2>4. QED
    BY <2>1, <2>2, <2>3
<1>8. QED
  BY <1>6, <1>7 DEF TableFits

(* The two roles of a call.                                                *)
LEMMA CallRole ==
    ASSUME OneTab, TypeInv, AwaitedBySave, AloneInv, NEW q \in requests
    PROVE  /\ q \in Request /\ q.tab \in Tabs /\ q.awaited
           /\ q.expense \in Expenses
           /\ forms[q.tab].at = "saving"
           /\ forms[q.tab] \in Form /\ Fits(forms[q.tab])
           /\ FormAlone(expenses, forms[q.tab])
           /\ expenses[q.expense] # None /\ ~expenses[q.expense].removed
           /\ \/ requests = {q} /\ Own(expenses, q, forms[q.tab])
              \/ /\ forms[q.tab].todo = <<>>
                 /\ \A p \in requests :
                        /\ p.tab = q.tab
                        /\ p.awaited
                        /\ Carries(expenses, p, forms[q.tab])
<1>1. q \in Request /\ q.tab \in Tabs /\ q.expense \in Expenses
  BY DEF TypeInv, TypeOK, Request
<1>2. \A p \in requests : p.tab = q.tab /\ CallAlone(expenses, requests, p, forms[q.tab])
  BY <1>1, OneTabOnly DEF AloneInv, CallsAlone, TypeInv
<1>3. q.awaited /\ forms[q.tab].at = "saving"
  BY <1>2 DEF CallAlone, AwaitedBySave
<1>4. /\ forms[q.tab] \in Form /\ Fits(forms[q.tab])
      /\ FormAlone(expenses, forms[q.tab])
  BY <1>1 DEF AloneInv, TypeInv, TypeOK, FormsFit
<1>5. CASE requests = {q} /\ Own(expenses, q, forms[q.tab])
  BY <1>1, <1>3, <1>4, <1>5 DEF Own, KnowsRow
<1>6. CASE ~(requests = {q} /\ Own(expenses, q, forms[q.tab]))
  <2>1. Carries(expenses, q, forms[q.tab])
    BY <1>2, <1>6 DEF CallAlone
  <2>2. \A p \in requests : p.awaited /\ Carries(expenses, p, forms[q.tab])
    BY <1>2, <1>6 DEF CallAlone
  <2>3. QED
    BY <1>1, <1>2, <1>3, <1>4, <2>1, <2>2 DEF Carries
<1>7. QED
  BY <1>5, <1>6

(* A call about the form's own row that is refused opens the form again.   *)
LEMMA OwnFailsAlone ==
    ASSUME OneTab, TypeInv, TypeOK', AwaitedBySave, AloneInv,
           NEW q \in requests, requests = {q}, Own(expenses, q, forms[q.tab]),
           RequestFails(q), UNCHANGED expenses
    PROVE  AloneInv'
<1>1. q.awaited /\ q.tab \in Tabs
  BY CallRole
<1>2. KnowsRow(expenses, forms[q.tab])
  BY DEF Own
<1>3. requests \ {q} = {}
  OBVIOUS
<1>4. SaveFails(q.tab, {})
  BY <1>1, <1>3 DEF RequestFails
<1>5. QED
  BY <1>1, <1>2, <1>4, SaveFailsAlone

(* One that is done leaves nothing under way.                              *)
LEMMA OwnDoneAlone ==
    ASSUME OneTab, TypeInv, TypeOK', AwaitedBySave, AloneInv,
           NEW q \in requests, requests = {q}, Answer(q),
           TableFits(expenses'), FormAlone(expenses', forms[q.tab])
    PROVE  AloneInv'
<1>1. q.tab \in Tabs
  BY CallRole
<1>2. requests' = {} /\ forms'[q.tab] = forms[q.tab]
  BY DEF Answer
<1>3. QED
  BY <1>1, <1>2, AloneNow

(* One of the calls that follow a template is done; the others go on.      *)
LEMMA CarriedAlone ==
    ASSUME OneTab, TypeInv, TypeOK', AwaitedBySave, AloneInv,
           NEW q \in requests, Answer(q), TableFits(expenses'),
           forms[q.tab].todo = <<>>,
           \A p \in requests :
               /\ p.tab = q.tab
               /\ p.awaited
               /\ Carries(expenses, p, forms[q.tab]),
           \A e \in Expenses : e # q.expense => expenses'[e] = expenses[e]
    PROVE  AloneInv'
<1>1. /\ q.tab \in Tabs /\ forms[q.tab].at = "saving"
      /\ forms[q.tab] \in Form /\ FormAlone(expenses, forms[q.tab])
  BY CallRole
<1>2. requests' = requests \ {q} /\ forms'[q.tab] = forms[q.tab]
  BY DEF Answer
<1>3. FormAlone(expenses', forms'[q.tab])
  BY <1>1, <1>2 DEF FormAlone
<1>4. ASSUME NEW p \in requests'
      PROVE  CallAlone(expenses', requests', p, forms'[q.tab])
  <2>1. p \in requests /\ p # q /\ p.expense # q.expense
    BY <1>2 DEF AloneInv, CallsAlone
  <2>2. expenses'[p.expense] = expenses[p.expense]
    BY <2>1 DEF TypeInv, TypeOK, Request
  <2>3. QED
    BY <1>2, <2>1, <2>2 DEF CallAlone, Carries
<1>5. \A p, r \in requests' : p.expense = r.expense => p = r
  BY <1>2 DEF AloneInv, CallsAlone
<1>6. QED
  BY <1>1, <1>3, <1>4, <1>5, AloneNow

LEMMA CheckUpdateAlone ==
    ASSUME OneTab, TypeInv, TypeOK', AwaitedBySave, AloneInv,
           NEW q \in requests, CheckUpdate(q)
    PROVE  AloneInv'
<1> DEFINE form == forms[q.tab]
           p == [q EXCEPT !.checked = TRUE]
<1>1. /\ q \in Request /\ q.tab \in Tabs /\ q.awaited
      /\ q.expense \in Expenses
      /\ FormAlone(expenses, form)
      /\ expenses[q.expense] # None
      /\ \/ requests = {q} /\ Own(expenses, q, form)
         \/ /\ form.todo = <<>>
            /\ \A r \in requests :
                   r.tab = q.tab /\ r.awaited /\ Carries(expenses, r, form)
  BY CallRole
<1>2. /\ p.tab = q.tab /\ p.expense = q.expense /\ p.call = q.call
      /\ p.patch = q.patch /\ p.awaited = q.awaited
  BY <1>1 DEF Request
<1>3. UNCHANGED expenses
  BY DEF CheckUpdate
<1>4. CASE requests' = (requests \ {q}) \cup {p} /\ UNCHANGED forms
  <2> HIDE DEF p
  <2>1. forms'[q.tab] = form
    BY <1>4
  <2> HIDE DEF form
  <2>2. \A r \in requests' : CallAlone(expenses', requests', r, form)
    <3>1. CASE requests = {q} /\ Own(expenses, q, form)
      <4>1. requests' = {p}
        BY <1>4, <3>1
      <4>2. Own(expenses, p, form)
        BY <1>2, <3>1 DEF Own
      <4>3. QED
        BY <1>1, <1>2, <1>3, <4>1, <4>2 DEF CallAlone
    <3>2. CASE \A r \in requests :
                   r.tab = q.tab /\ r.awaited /\ Carries(expenses, r, form)
      <4>1. Carries(expenses, p, form)
        BY <1>2, <3>2 DEF Carries
      <4>2. QED
        BY <1>1, <1>2, <1>3, <1>4, <3>2, <4>1 DEF CallAlone
    <3>3. QED
      BY <1>1, <3>1, <3>2
  <2>3. \A r, s \in requests' : r.expense = s.expense => r = s
    BY <1>2, <1>4 DEF AloneInv, CallsAlone
  <2>4. FormAlone(expenses', form) /\ TableFits(expenses')
    BY <1>1, <1>3 DEF AloneInv
  <2>5. QED
    BY <1>1, <2>1, <2>2, <2>3, <2>4, AloneNow
<1>5. CASE /\ RequestFails(q)
           /\ ~Acceptable(expenses[q.expense], q.patch)
  <2>1. CASE requests = {q} /\ Own(expenses, q, form)
    BY <1>3, <1>5, <2>1, OwnFailsAlone
  <2>2. CASE Carries(expenses, q, form)
    <3>1. expenses[q.expense].template # None => expenses[q.expense].period # None
      <4>1. q.expense \in Present(expenses)
        BY <1>1 DEF Present, TypeInv, TypeOK
      <4>2. QED
        BY <4>1 DEF AloneInv, TableFits
    <3>2. /\ q.patch.template = None /\ q.patch.period = None
          /\ q.patch.month \in {None, expenses[q.expense].period}
      BY <2>2 DEF Carries, NoPatch
    <3>3. Acceptable(expenses[q.expense], q.patch)
      BY <3>1, <3>2 DEF Acceptable, Sent
    <3>4. QED
      BY <1>5, <3>3
  <2>3. QED
    BY <1>1, <2>1, <2>2
<1>6. QED
  BY <1>1, <1>4, <1>5 DEF CheckUpdate

(* What a call about the form's own row makes of it.                       *)
LEMMA OwnWritten ==
    ASSUME NEW q, NEW form, NEW table, Own(table, q, form),
           form \in Form, form.at = "saving", Fits(form), FormAlone(table, form),
           q.call = "updateExpense", table[q.expense] \in ExpenseRow,
           table[q.expense].template # None =>
               /\ table[q.expense].period # None
               /\ table[q.expense].month = table[q.expense].period
    PROVE  LET row == Patched(table[q.expense], q.patch)
           IN  /\ row.template # None => row.period # None /\ row.month = row.period
               /\ form.todo # <<>> =>
                      /\ row.template = form.template
                      /\ row.period = form.period
                      /\ ~row.removed
<1> DEFINE old == table[q.expense]
           row == Patched(old, q.patch)
<1>1. /\ old.template = form.template /\ old.period = form.period
      /\ ~old.removed
      /\ q.patch = OwnPatch(form)
      /\ form.kind \in {"convert", "deleteMonth"} => form.todo = <<>>
  BY DEF Own, KnowsRow
<1>2. /\ form.date \in Months /\ form.date # None
  BY StoreAssumption DEF Fits
<1>3. /\ row.month = Sent(q.patch.month, old.month)
      /\ row.template = Sent(q.patch.template, old.template)
      /\ row.period = Sent(q.patch.period, old.period)
      /\ row.removed = (q.patch.removed \/ old.removed)
  BY DEF Patched
<1> HIDE DEF row
<1>4. CASE form.kind = "deleteMonth"
  <2>1. /\ q.patch.month = None /\ q.patch.template = None
        /\ q.patch.period = None
    BY <1>1, <1>4 DEF OwnPatch, NoPatch
  <2>2. row.month = old.month /\ row.template = old.template
        /\ row.period = old.period
    BY <1>3, <2>1 DEF Sent
  <2>3. QED
    BY <1>1, <1>4, <2>2 DEF row
<1>5. CASE form.kind = "convert"
  <2>1. q.patch.month = form.date /\ q.patch.period = form.date
    BY <1>1, <1>5 DEF OwnPatch, NoPatch
  <2>2. row.month = form.date /\ row.period = form.date
    BY <1>2, <1>3, <2>1 DEF Sent
  <2>3. QED
    BY <1>1, <1>2, <1>5, <2>2 DEF row
<1>6. CASE form.kind \notin {"deleteMonth", "convert", "deleteAll"}
  <2>1. /\ q.patch.month = form.date /\ q.patch.template = None
        /\ q.patch.period = None /\ q.patch.removed = FALSE
    BY <1>1, <1>6 DEF OwnPatch, NoPatch
  <2>2. /\ row.month = form.date /\ row.template = old.template
        /\ row.period = old.period
    BY <1>2, <1>3, <2>1 DEF Sent
  <2>3. form.period # None => form.date = form.period
    BY <1>6 DEF FormAlone
  <2>4. ~row.removed
    BY <1>1, <1>3, <2>1
  <2>5. QED
    BY <1>1, <2>2, <2>3, <2>4 DEF row
<1>7. form.kind # "deleteAll"
  BY DEF Own
<1>8. QED
  BY <1>4, <1>5, <1>6, <1>7

(* What a call that follows a template makes of its row.                   *)
LEMMA CarriedWritten ==
    ASSUME NEW q, NEW form, NEW table, Carries(table, q, form),
           table[q.expense].template # None =>
               table[q.expense].month = table[q.expense].period
    PROVE  LET row == Patched(table[q.expense], q.patch)
           IN  /\ row.template = table[q.expense].template
               /\ row.period = table[q.expense].period
               /\ row.template # None => row.month = row.period
               /\ ~row.removed
               /\ q.patch.removed = FALSE
<1> DEFINE old == table[q.expense]
           row == Patched(old, q.patch)
<1>1. /\ q.patch.month \in {None, old.period} /\ q.patch.template = None
      /\ q.patch.period = None /\ q.patch.removed = FALSE
      /\ ~old.removed
  BY DEF Carries, NoPatch
<1>2. /\ row.month = Sent(q.patch.month, old.month)
      /\ row.template = Sent(q.patch.template, old.template)
      /\ row.period = Sent(q.patch.period, old.period)
      /\ row.removed = (q.patch.removed \/ old.removed)
  BY DEF Patched
<1> HIDE DEF row
<1>3. /\ row.month \in {old.month, old.period} /\ row.template = old.template
      /\ row.period = old.period
  BY <1>1, <1>2 DEF Sent
<1>4. ~row.removed
  BY <1>1, <1>2
<1>5. QED
  BY <1>1, <1>3, <1>4 DEF row

LEMMA WriteUpdateAlone ==
    ASSUME OneTab, TypeInv, TypeOK', AwaitedBySave, AloneInv,
           NEW q \in requests, WriteUpdate(q)
    PROVE  AloneInv'
<1> DEFINE form == forms[q.tab]
           old == expenses[q.expense]
           row == Patched(old, q.patch)
<1>1. /\ q \in Request /\ q.tab \in Tabs /\ q.awaited
      /\ q.expense \in Expenses
      /\ form.at = "saving" /\ form \in Form /\ Fits(form)
      /\ FormAlone(expenses, form)
      /\ old # None
      /\ \/ requests = {q} /\ Own(expenses, q, form)
         \/ /\ form.todo = <<>>
            /\ \A r \in requests :
                   r.tab = q.tab /\ r.awaited /\ Carries(expenses, r, form)
  BY CallRole
<1>2. q.expense \in Present(expenses) /\ old \in ExpenseRow
  BY <1>1 DEF Present, TypeInv, TypeOK
<1>3. old.template # None => old.period # None /\ old.month = old.period
  BY <1>2 DEF AloneInv, TableFits
<1>4. row \in ExpenseRow
  BY <1>1, <1>2, PatchedType DEF Request
<1>5. CASE requests = {q} /\ Own(expenses, q, form)
  <2>1. CASE RequestFails(q) /\ UNCHANGED expenses
    BY <1>5, <2>1, OwnFailsAlone
  <2>2. CASE /\ ~Refused(templates, expenses, q.expense, q.patch)
             /\ expenses' = [expenses EXCEPT ![q.expense] = row]
             /\ Answer(q)
    <3>1. q.call = "updateExpense"
      BY DEF WriteUpdate
    <3>2. ~SlotTaken(expenses, row.template, row.period, {q.expense})
      BY <2>2 DEF Refused
    <3>3. /\ row.template # None => row.period # None /\ row.month = row.period
          /\ form.todo # <<>> =>
                 /\ row.template = form.template
                 /\ row.period = form.period
                 /\ ~row.removed
      BY <1>1, <1>2, <1>3, <1>5, <3>1, OwnWritten
    <3> HIDE DEF row
    <3>4. TableFits(expenses')
      BY <1>2, <1>4, <2>2, <3>2, <3>3, RowMoved DEF AloneInv
    <3>5. expenses'[q.expense] = row /\ row # None
      BY <1>1, <1>4, <2>2, StoreAssumption DEF TypeInv, TypeOK
    <3>6. form.expense = q.expense
      BY <1>5 DEF Own
    <3> HIDE DEF form
    <3>7. FormAlone(expenses', form)
      BY <1>1, <3>3, <3>5, <3>6 DEF FormAlone, KnowsRow
    <3>8. QED
      BY <1>5, <2>2, <3>4, <3>7, OwnDoneAlone DEF form
  <2>3. QED
    BY <2>1, <2>2 DEF WriteUpdate
<1>6. CASE /\ form.todo = <<>>
           /\ \A r \in requests :
                  r.tab = q.tab /\ r.awaited /\ Carries(expenses, r, form)
  <2>1. /\ row.template = old.template /\ row.period = old.period
        /\ row.template # None => row.month = row.period
    BY <1>3, <1>6, CarriedWritten
  <2>2. ~Refused(templates, expenses, q.expense, q.patch)
    <3>1. ~SlotTaken(expenses, row.template, row.period, {q.expense})
      BY <1>2, <2>1 DEF SlotTaken, AloneInv, TableFits
    <3>2. Refers(templates, row.template)
      BY <1>2, <2>1 DEF TypeInv, ForeignKey
    <3>3. QED
      BY <3>1, <3>2 DEF Refused
  <2>3. expenses' = [expenses EXCEPT ![q.expense] = row] /\ Answer(q)
    BY <1>1, <2>2 DEF WriteUpdate
  <2> HIDE DEF row
  <2>4. TableFits(expenses')
    BY <1>2, <1>4, <2>1, <2>3, RowWritten DEF AloneInv
  <2>5. \A e \in Expenses : e # q.expense => expenses'[e] = expenses[e]
    BY <2>3 DEF TypeInv, TypeOK
  <2>6. QED
    BY <1>6, <2>3, <2>4, <2>5, CarriedAlone
<1>7. QED
  BY <1>1, <1>5, <1>6

LEMMA RemoveExpenseAlone ==
    ASSUME OneTab, TypeInv, TypeOK', AwaitedBySave, AloneInv,
           NEW q \in requests, RemoveExpense(q)
    PROVE  AloneInv'
<1> DEFINE form == forms[q.tab]
<1>1. /\ q.tab \in Tabs /\ q.expense \in Expenses
      /\ form.at = "saving" /\ form \in Form /\ FormAlone(expenses, form)
      /\ expenses[q.expense] # None
      /\ \/ requests = {q} /\ Own(expenses, q, form)
         \/ /\ form.todo = <<>>
            /\ \A r \in requests :
                   r.tab = q.tab /\ r.awaited /\ Carries(expenses, r, form)
  BY CallRole
<1>2. expenses' = [expenses EXCEPT ![q.expense] = None] /\ Answer(q)
  BY <1>1 DEF RemoveExpense, Absent
<1>3. TableFits(expenses')
  <2>1. /\ DOMAIN expenses' = Expenses
        /\ \A e \in Expenses : expenses'[e] \in {None, expenses[e]}
    BY <1>2 DEF TypeInv, TypeOK
  <2>2. QED
    BY <2>1, RowsGone DEF AloneInv
<1>4. form.todo = <<>>
  BY <1>1 DEF Own, RemoveExpense
<1>5. FormAlone(expenses', form)
  BY <1>1, <1>4 DEF FormAlone
<1>6. \A e \in Expenses : e # q.expense => expenses'[e] = expenses[e]
  BY <1>2 DEF TypeInv, TypeOK
<1>7. CASE requests = {q}
  BY <1>2, <1>3, <1>5, <1>7, OwnDoneAlone
<1>8. CASE \A r \in requests :
               r.tab = q.tab /\ r.awaited /\ Carries(expenses, r, form)
  BY <1>2, <1>3, <1>4, <1>6, <1>8, CarriedAlone
<1>9. QED
  BY <1>1, <1>7, <1>8

LEMMA RequestStepAlone ==
    ASSUME OneTab, ~Failures, TypeInv, TypeOK', AwaitedBySave, AloneInv,
           NEW q \in requests, RequestStep(q)
    PROVE  AloneInv'
BY CheckUpdateAlone, WriteUpdateAlone, RemoveExpenseAlone
   DEF RequestStep, RequestLost

-----------------------------------------------------------------------------
LEMMA AloneInit == Init => AloneInv
<1> SUFFICES ASSUME Init PROVE AloneInv
  OBVIOUS
<1>1. Present(expenses) = {}
  BY DEF Init, Present
<1>2. \A tab \in Tabs : FormAlone(expenses, forms[tab])
  BY EmptyFormAlone DEF Init
<1>3. QED
  BY <1>1, <1>2 DEF Init, AloneInv, TableFits, CallsAlone

LEMMA AloneStep ==
    ASSUME OneTab, ~Failures, TypeInv, TypeInv', AwaitedBySave, PageInv, AloneInv,
           [Next]_vars
    PROVE  AloneInv'
<1>1. TypeOK'
  BY DEF TypeInv
<1>2. CASE MonthPasses \/ UNCHANGED vars
  <2>1. UNCHANGED <<expenses, forms, requests>>
    BY <1>2 DEF MonthPasses, vars
  <2>2. QED
    BY <2>1, AloneStays DEF AloneInv, HeldRowsStay
<1>3. QED
  BY <1>1, <1>2, LoadStepAlone, UserStepAlone, SaveStepAlone,
     RequestStepAlone DEF Next

-----------------------------------------------------------------------------
(* What a load knows while the page waits for it: its rows are there, its  *)
(* templates are due, and of a month to come it has seen every slot that   *)
(* is taken. Only loads that were left behind change the tables meanwhile, *)
(* and they create rows up to the current month.                           *)

LoadKnows(table, plan, time, load) ==
    /\ \A p \in load.rows :
           /\ p.expense \in Visible(table)
           /\ table[p.expense].template = p.template
           /\ table[p.expense].month = load.month
    /\ load.due \subseteq ListDue(plan, load.month)
    /\ load.month > time /\ "slots" \notin load.pending =>
           ListMonthSlots(table, load.month) \subseteq load.occupied

LoadFits(table, plan, time, load) ==
    /\ load.at # "free" /\ ~load.stale /\ ~load.silent =>
           LoadKnows(table, plan, time, load)
    /\ load.at = "writing" => load.pending = {}
    /\ load.at # "free" /\ load.targets # {} => load.month <= time

LoadsInv == \A l \in Loads : LoadFits(expenses, templates, now, loads[l])

RowsOnlyAdded ==
    /\ DOMAIN expenses' = Expenses
    /\ \A e \in Expenses :
           \/ expenses'[e] = expenses[e]
           \/ /\ e \in FreshExpense
              /\ expenses'[e] # None
              /\ expenses'[e].period <= now

(* A load that a step leaves alone knows what it knew.                     *)
LEMMA LoadStillFits ==
    ASSUME TypeInv, RowsOnlyAdded, UNCHANGED templates, now' \in Months,
           now <= now', NEW k \in Loads,
           LoadFits(expenses, templates, now, loads[k])
    PROVE  LoadFits(expenses', templates', now', loads[k])
<1> DEFINE load == loads[k]
<1>1. load \in Load
  BY DEF TypeInv, TypeOK
<1>2. /\ now \in Nat /\ now' \in Nat
      /\ load.at # "free" => load.month \in Nat
  BY <1>1, MonthsAreNumbers DEF Load, TypeInv, TypeOK, LoadsPlaced
<1>3. load.at # "free" /\ load.targets # {} => load.month <= now'
  BY <1>2 DEF LoadFits
<1>4. ASSUME load.at # "free", ~load.stale, ~load.silent
      PROVE  LoadKnows(expenses', templates', now', load)
  <2>1. LoadKnows(expenses, templates, now, load)
    BY <1>4 DEF LoadFits
  <2>2. \A p \in load.rows : p.expense \in Expenses \ FreshExpense
    BY <1>1 DEF Load, Row, FreshExpense, RowsInMemory
  <2>3. \A p \in load.rows : expenses'[p.expense] = expenses[p.expense]
    BY <2>2 DEF RowsOnlyAdded
  <2>4. \A p \in load.rows :
            /\ p.expense \in Visible(expenses')
            /\ expenses'[p.expense].template = p.template
            /\ expenses'[p.expense].month = load.month
    BY <2>1, <2>2, <2>3 DEF LoadKnows, Visible, Present, RowsOnlyAdded
  <2>5. ASSUME load.month > now'
        PROVE  ListMonthSlots(expenses', load.month)
                   \subseteq ListMonthSlots(expenses, load.month)
    <3>1. load.month > now /\ load.month \in Nat
      BY <1>2, <1>4, <2>5
    <3>2. \A e \in Present(expenses') :
              expenses'[e].period = load.month =>
                  e \in Present(expenses) /\ expenses'[e] = expenses[e]
      BY <1>2, <3>1 DEF Present, RowsOnlyAdded, TypeInv, TypeOK
    <3>3. QED
      BY <3>2 DEF ListMonthSlots
  <2>6. load.month > now' => load.month > now
    BY <1>2, <1>4
  <2> HIDE DEF load
  <2>7. QED
    BY <2>1, <2>4, <2>5, <2>6 DEF LoadKnows
<1>5. QED
  BY <1>3, <1>4 DEF LoadFits

LEMMA RowsIfUnchanged ==
    ASSUME TypeInv, UNCHANGED expenses
    PROVE  RowsOnlyAdded
BY DEF RowsOnlyAdded, TypeInv, TypeOK

LEMMA OneLoadChanges ==
    ASSUME TypeInv, LoadsInv, RowsOnlyAdded, UNCHANGED <<templates, now>>,
           NEW l \in Loads, NEW load, loads' = [loads EXCEPT ![l] = load],
           LoadFits(expenses', templates', now', load)
    PROVE  LoadsInv'
<1>1. loads'[l] = load /\ \A k \in Loads \ {l} : loads'[k] = loads[k]
  BY DEF TypeInv, TypeOK
<1>2. now \in Nat /\ now' = now /\ now' \in Months
  BY MonthsAreNumbers DEF TypeInv, TypeOK
<1>3. now <= now'
  BY <1>2
<1>4. \A k \in Loads \ {l} : LoadFits(expenses', templates', now', loads'[k])
  BY <1>1, <1>2, <1>3, LoadStillFits DEF LoadsInv
<1>5. QED
  BY <1>1, <1>4 DEF LoadsInv

LEMMA FreeLoadFits ==
    \A table, plan, time : LoadFits(table, plan, time, FreeLoad)
BY DEF LoadFits, FreeLoad

LEMMA ReadKnows ==
    ASSUME TypeInv, LoadsInv, NEW l \in Loads, NEW what \in Reads, Read(l, what)
    PROVE  LoadsInv'
<1> DEFINE load == loads[l]
           rows == {[expense |-> e, template |-> expenses[e].template] :
                       e \in ListByMonth(expenses, load.month)}
           due == ListDue(templates, load.month)
           slots == ListMonthSlots(expenses, load.month)
           rest == load.pending \ {what}
<1>1. load \in Load /\ load.at = "reading"
  BY DEF Read, TypeInv, TypeOK
<1>2. UNCHANGED <<expenses, templates, now>>
  BY DEF Read
<1>3. LoadFits(expenses, templates, now, load)
  BY DEF LoadsInv
<1>a. RowsOnlyAdded
  BY <1>2, RowsIfUnchanged
<1>4. CASE what = "expenses"
  <2> DEFINE new == [load EXCEPT !.rows = rows, !.pending = rest]
  <2>1. loads' = [loads EXCEPT ![l] = new]
    BY <1>1, <1>4 DEF Read, Load
  <2>2. /\ new.rows = rows /\ new.pending = rest /\ new.due = load.due
        /\ new.occupied = load.occupied /\ new.month = load.month
        /\ new.at = load.at /\ new.stale = load.stale
        /\ new.silent = load.silent /\ new.targets = load.targets
    <3> HIDE DEF load, rows, rest
    <3>1. QED
      BY <1>1 DEF Load
  <2>3. \A p \in rows :
            /\ p.expense \in Visible(expenses)
            /\ expenses[p.expense].template = p.template
            /\ expenses[p.expense].month = load.month
    BY DEF ListByMonth
  <2>4. "slots" \notin rest <=> "slots" \notin load.pending
    BY <1>4
  <2> HIDE DEF new, rows, rest, load
  <2>5. LoadFits(expenses, templates, now, new)
    BY <1>1, <1>3, <2>2, <2>3, <2>4 DEF LoadFits, LoadKnows
  <2>6. QED
    BY <1>2, <1>a, <2>1, <2>5, OneLoadChanges
<1>5. CASE what = "templates"
  <2> DEFINE new == [load EXCEPT !.due = due, !.pending = rest]
  <2>1. loads' = [loads EXCEPT ![l] = new]
    BY <1>1, <1>5 DEF Read, Load
  <2>2. /\ new.rows = load.rows /\ new.pending = rest /\ new.due = due
        /\ new.occupied = load.occupied /\ new.month = load.month
        /\ new.at = load.at /\ new.stale = load.stale
        /\ new.silent = load.silent /\ new.targets = load.targets
    <3> HIDE DEF load, due, rest
    <3>1. QED
      BY <1>1 DEF Load
  <2>4. "slots" \notin rest <=> "slots" \notin load.pending
    BY <1>5
  <2>a. due \subseteq ListDue(templates, load.month)
    OBVIOUS
  <2> HIDE DEF new, due, rest, load
  <2>5. LoadFits(expenses, templates, now, new)
    BY <1>1, <1>3, <2>2, <2>a, <2>4 DEF LoadFits, LoadKnows
  <2>6. QED
    BY <1>2, <1>a, <2>1, <2>5, OneLoadChanges
<1>6. CASE what = "slots"
  <2> DEFINE new == [load EXCEPT !.occupied = slots, !.pending = rest]
  <2>1. loads' = [loads EXCEPT ![l] = new]
    BY <1>1, <1>6 DEF Read, Load
  <2>2. /\ new.rows = load.rows /\ new.pending = rest /\ new.due = load.due
        /\ new.occupied = slots /\ new.month = load.month
        /\ new.at = load.at /\ new.stale = load.stale
        /\ new.silent = load.silent /\ new.targets = load.targets
    <3> HIDE DEF load, slots, rest
    <3>1. QED
      BY <1>1 DEF Load
  <2>a. ListMonthSlots(expenses, load.month) \subseteq slots
    OBVIOUS
  <2> HIDE DEF new, slots, rest, load
  <2>5. LoadFits(expenses, templates, now, new)
    BY <1>1, <1>3, <2>2, <2>a DEF LoadFits, LoadKnows
  <2>6. QED
    BY <1>2, <1>a, <2>1, <2>5, OneLoadChanges
<1>7. QED
  BY <1>4, <1>5, <1>6 DEF Reads

LEMMA DecideKnows ==
    ASSUME TypeInv, LoadsInv, NEW l \in Loads, Decide(l)
    PROVE  LoadsInv'
<1> DEFINE load == loads[l]
           new == [load EXCEPT !.at = "writing", !.targets = Targets(load)]
<1>1. load \in Load /\ load.at = "reading" /\ load.pending = {}
  BY DEF Decide, TypeInv, TypeOK
<1>2. UNCHANGED <<expenses, templates, now>>
  BY DEF Decide
<1>3. LoadFits(expenses, templates, now, load)
  BY DEF LoadsInv
<1>4. RowsOnlyAdded
  BY <1>2, RowsIfUnchanged
<1>5. CASE load.stale
  <2>1. loads' = [loads EXCEPT ![l] = FreeLoad]
    BY <1>5 DEF Decide
  <2>2. QED
    BY <1>2, <1>4, <2>1, FreeLoadFits, OneLoadChanges
<1>6. CASE ~load.stale
  <2>1. loads' = [loads EXCEPT ![l] = new]
    BY <1>6 DEF Decide
  <2>2. /\ new.rows = load.rows /\ new.pending = load.pending
        /\ new.due = load.due /\ new.occupied = load.occupied
        /\ new.month = load.month /\ new.stale = load.stale
        /\ new.silent = load.silent /\ new.targets = Targets(load)
    <3> HIDE DEF load
    <3>1. QED
      BY <1>1 DEF Load
  <2>3. Targets(load) # {} => load.month <= now
    <3>1. load.month \in Nat /\ now \in Nat
      BY <1>1, MonthsAreNumbers DEF TypeInv, TypeOK, LoadsPlaced
    <3>2. QED
      BY <3>1 DEF Targets
  <2> HIDE DEF load, new
  <2>4. LoadFits(expenses, templates, now, new)
    BY <1>1, <1>3, <2>2, <2>3 DEF LoadFits, LoadKnows
  <2>5. QED
    BY <1>2, <1>4, <2>1, <2>4, OneLoadChanges
<1>7. QED
  BY <1>5, <1>6

LEMMA MaterializeKnows ==
    ASSUME ~Failures, TypeInv, LoadsInv, NEW l \in Loads, NEW t \in Templates,
           Materialize(l, t)
    PROVE  LoadsInv' /\ RowsOnlyAdded
<1> DEFINE load == loads[l]
           less == load.targets \ {t}
<1>1. load \in Load /\ load.at = "writing" /\ load.targets # {}
  BY DEF Materialize, TypeInv, TypeOK
<1>2. UNCHANGED <<templates, now>>
  BY DEF Materialize
<1>3. LoadFits(expenses, templates, now, load)
  BY DEF LoadsInv
<1>4. load.month <= now /\ load.month \in Months /\ load.pending = {}
  BY <1>1, <1>3 DEF LoadFits, TypeInv, LoadsPlaced
<1>5. CASE Exists(l, t)
  <2> DEFINE new == [load EXCEPT !.targets = less]
  <2>1. loads' = [loads EXCEPT ![l] = new] /\ UNCHANGED expenses
    BY <1>5 DEF Exists
  <2>2. /\ new.rows = load.rows /\ new.pending = load.pending
        /\ new.due = load.due /\ new.occupied = load.occupied
        /\ new.month = load.month /\ new.stale = load.stale
        /\ new.silent = load.silent /\ new.at = load.at
    <3> HIDE DEF load, less
    <3>1. QED
      BY <1>1 DEF Load
  <2>3. RowsOnlyAdded
    BY <2>1, RowsIfUnchanged
  <2> HIDE DEF load, new
  <2>4. LoadFits(expenses, templates, now, new)
    BY <1>1, <1>3, <1>4, <2>2 DEF LoadFits, LoadKnows
  <2>5. QED
    BY <1>2, <2>1, <2>3, <2>4, OneLoadChanges
<1>6. CASE CreateFails(l, t)
  <2> DEFINE new == [load EXCEPT !.targets = less, !.silent = TRUE]
  <2>1. loads' = [loads EXCEPT ![l] = new]
    BY <1>1, <1>6 DEF CreateFails, Load
  <2>2. UNCHANGED expenses
    BY <1>6 DEF CreateFails
  <2>3. /\ new.pending = load.pending /\ new.silent
        /\ new.month = load.month /\ new.at = load.at
    <3> HIDE DEF load, less
    <3>1. QED
      BY <1>1 DEF Load
  <2>4. RowsOnlyAdded
    BY <2>2, RowsIfUnchanged
  <2> HIDE DEF load, new
  <2>5. LoadFits(expenses, templates, now, new)
    BY <1>1, <1>4, <2>3 DEF LoadFits
  <2>6. QED
    BY <1>2, <2>1, <2>2, <2>4, <2>5, OneLoadChanges
<1>7. ASSUME NEW e \in FreshExpense, Created(l, t, e)
      PROVE  LoadsInv' /\ RowsOnlyAdded
  <2> DEFINE row == [expense |-> e, template |-> t]
             new == [load EXCEPT !.targets = less, !.rows = @ \cup {row}]
  <2>1. loads' = [loads EXCEPT ![l] = new]
    BY <1>1, <1>7 DEF Created, Load
  <2>2. /\ new.rows = load.rows \cup {row} /\ new.pending = load.pending
        /\ new.due = load.due /\ new.occupied = load.occupied
        /\ new.month = load.month /\ new.stale = load.stale
        /\ new.silent = load.silent /\ new.at = load.at
    <3> HIDE DEF load, less, row
    <3>1. QED
      BY <1>1 DEF Load
  <2>3. /\ e \in Expenses
        /\ expenses'[e] = Instance(t, load.month)
        /\ \A f \in Expenses \ {e} : expenses'[f] = expenses[f]
        /\ DOMAIN expenses' = Expenses
    BY <1>7 DEF Created, Stored, FreshExpense, TypeInv, TypeOK
  <2>4. /\ expenses'[e] # None /\ ~expenses'[e].removed
        /\ expenses'[e].template = t
        /\ expenses'[e].period = load.month /\ expenses'[e].month = load.month
    <3> DEFINE inst == Instance(t, load.month)
    <3>1. inst \in ExpenseRow
      BY <1>4 DEF Instance, ExpenseRow
    <3>2. /\ ~inst.removed /\ inst.template = t
          /\ inst.period = load.month /\ inst.month = load.month
      BY DEF Instance
    <3>3. expenses'[e] = inst
      BY <2>3
    <3> HIDE DEF inst
    <3>4. inst # None
      BY <3>1, StoreAssumption
    <3>5. QED
      BY <3>2, <3>3, <3>4
  <2>5. RowsOnlyAdded
    BY <1>4, <2>3, <2>4 DEF RowsOnlyAdded
  <2>6. LoadFits(expenses', templates', now', load)
    <3>1. now' \in Months /\ now <= now'
      BY <1>2, MonthsAreNumbers DEF TypeInv, TypeOK
    <3>2. QED
      BY <1>2, <1>3, <2>5, <3>1, LoadStillFits
  <2>7. e \in Visible(expenses') /\ row.expense = e /\ row.template = t
    BY <2>3, <2>4 DEF Visible, Present
  <2> HIDE DEF load, new, row
  <2>8. LoadFits(expenses', templates', now', new)
    BY <1>1, <1>2, <1>4, <2>2, <2>4, <2>6, <2>7 DEF LoadFits, LoadKnows
  <2>9. QED
    BY <1>2, <2>1, <2>5, <2>8, OneLoadChanges
<1>8. CASE UNCHANGED expenses
  BY <1>5, <1>6, <1>7, <1>8, RowsIfUnchanged DEF Materialize
<1>9. QED
  BY <1>5, <1>6, <1>7, RowsIfUnchanged DEF Materialize, Exists, CreateFails

LEMMA LoadStepKnows ==
    ASSUME ~Failures, TypeInv, LoadsInv, NEW l \in Loads, LoadStep(l)
    PROVE  LoadsInv' /\ RowsOnlyAdded
<1>1. CASE ShowLoad(l)
  <2>1. /\ loads' = [loads EXCEPT ![l] = FreeLoad]
        /\ UNCHANGED <<expenses, templates, now>>
    BY <1>1 DEF ShowLoad
  <2>2. RowsOnlyAdded
    BY <2>1, RowsIfUnchanged
  <2>3. QED
    BY <2>1, <2>2, FreeLoadFits, OneLoadChanges
<1>2. CASE ReadFails(l)
  BY <1>2 DEF ReadFails
<1>3. CASE Decide(l)
  BY <1>3, DecideKnows, RowsIfUnchanged DEF Decide
<1>4. ASSUME NEW what \in Reads, Read(l, what) PROVE LoadsInv' /\ RowsOnlyAdded
  BY <1>4, ReadKnows, RowsIfUnchanged DEF Read
<1>5. QED
  BY <1>1, <1>2, <1>3, <1>4, MaterializeKnows DEF LoadStep

(* Loads that a step only starts, overtakes or silences.                   *)
LEMMA LoadsAreLeft ==
    ASSUME TypeInv, LoadsInv, UNCHANGED <<expenses, templates, now>>,
           \A k \in Loads :
               \/ loads'[k] = loads[k]
               \/ \E tab \in Tabs, m \in Months : loads'[k] = NewLoad(tab, m)
               \/ loads'[k] = [loads[k] EXCEPT !.stale = TRUE]
               \/ loads'[k] = [loads[k] EXCEPT !.silent = TRUE]
    PROVE  LoadsInv'
<1> SUFFICES ASSUME NEW k \in Loads
             PROVE  LoadFits(expenses, templates, now, loads'[k])
  BY DEF LoadsInv
<1>1. LoadFits(expenses, templates, now, loads[k]) /\ loads[k] \in Load
  BY DEF LoadsInv, TypeInv, TypeOK
<1>2. CASE loads'[k] = loads[k]
  BY <1>1, <1>2
<1>3. ASSUME NEW tab \in Tabs, NEW m \in Months, loads'[k] = NewLoad(tab, m)
      PROVE  LoadFits(expenses, templates, now, loads'[k])
  <2> DEFINE load == NewLoad(tab, m)
  <2>1. /\ load.rows = {} /\ load.due = {} /\ load.pending = Reads
        /\ load.targets = {} /\ load.at = "reading"
    BY DEF NewLoad, FreeLoad
  <2>2. "slots" \in Reads
    BY DEF Reads
  <2> HIDE DEF load
  <2>3. LoadFits(expenses, templates, now, load)
    BY <2>1, <2>2 DEF LoadFits, LoadKnows
  <2>4. QED
    BY <1>3, <2>3 DEF load
<1>4. CASE loads'[k] = [loads[k] EXCEPT !.stale = TRUE]
  <2>1. /\ loads'[k].stale /\ loads'[k].at = loads[k].at
        /\ loads'[k].pending = loads[k].pending
        /\ loads'[k].targets = loads[k].targets
        /\ loads'[k].month = loads[k].month
    BY <1>1, <1>4 DEF Load
  <2>2. QED
    BY <1>1, <2>1 DEF LoadFits
<1>5. CASE loads'[k] = [loads[k] EXCEPT !.silent = TRUE]
  <2>1. /\ loads'[k].silent /\ loads'[k].at = loads[k].at
        /\ loads'[k].pending = loads[k].pending
        /\ loads'[k].targets = loads[k].targets
        /\ loads'[k].month = loads[k].month
    BY <1>1, <1>5 DEF Load
  <2>2. QED
    BY <1>1, <2>1 DEF LoadFits
<1>6. QED
  BY <1>2, <1>3, <1>4, <1>5

LEMMA StartedLoads ==
    ASSUME TypeInv, NEW tab \in Tabs, NEW m \in Months, NEW others,
           StartLoad(tab, m, others)
    PROVE  \A k \in Loads :
               \/ loads'[k] = loads[k]
               \/ loads'[k] = NewLoad(tab, m)
               \/ loads'[k] = [loads[k] EXCEPT !.stale = TRUE]
BY DEF StartLoad

LEMMA NobodyWaits ==
    ASSUME OneTab, TypeInv, PageInv, NEW tab \in Tabs, forms[tab].at # "closed"
    PROVE  \A l \in Loads : ~Answering(l)
<1>1. shown[tab].status = "away"
  BY DEF PageInv, FormCovers
<1>2. \A l \in Loads : Answering(l) => loads[l].tab = tab
  BY DEF OneTab, Answering, TypeInv, LoadsPlaced
<1>3. QED
  BY <1>1, <1>2 DEF PageInv, AnswersFit

LEMMA LoadsUnheard ==
    ASSUME LoadsInv, UNCHANGED <<loads, now>>, \A l \in Loads : ~Answering(l)
    PROVE  LoadsInv'
BY DEF LoadsInv, LoadFits, Answering

LEMMA LoadsBegun ==
    ASSUME TypeInv, LoadsInv, UNCHANGED <<expenses, templates, now>>,
           NEW tab \in Tabs, NEW m \in Months, NEW others,
           StartLoad(tab, m, others)
    PROVE  LoadsInv'
BY StartedLoads, LoadsAreLeft

LEMMA ReturnKnows ==
    ASSUME TypeInv, LoadsInv, NEW tab \in Tabs, Return(tab)
    PROVE  LoadsInv'
BY LoadsBegun DEF Return, TypeInv, TypeOK

LEMMA UserStepKnows ==
    ASSUME TypeInv, LoadsInv, NEW tab \in Tabs, UserStep(tab)
    PROVE  LoadsInv'
<1>1. CASE VisitLedger(tab)
  BY <1>1, LoadsBegun DEF VisitLedger, TypeInv, TypeOK
<1>2. CASE SelectMonth(tab)
  BY <1>2, LoadsBegun DEF SelectMonth
<1>3. ASSUME LeavePage(tab), UNCHANGED <<expenses, templates, now>>
      PROVE  LoadsInv'
  <2>1. \A k \in Loads : \/ loads'[k] = loads[k]
                         \/ loads'[k] = [loads[k] EXCEPT !.silent = TRUE]
    BY <1>3 DEF LeavePage
  <2>2. QED
    BY <1>3, <2>1, LoadsAreLeft
<1>4. CASE Save(tab)
  <2>1. UNCHANGED <<loads, expenses, templates, now>>
    BY <1>4 DEF Save
  <2>2. QED
    BY <2>1, LoadsAreLeft
<1>5. CASE Cancel(tab)
  BY <1>5, ReturnKnows DEF Cancel
<1>6. QED
  BY <1>1, <1>2, <1>3, <1>4, <1>5 DEF UserStep, OpenNew, OpenEdit

LEMMA SaveStepKnows ==
    ASSUME OneTab, TypeInv, PageInv, LoadsInv, NEW tab \in Tabs, SaveStep(tab)
    PROVE  LoadsInv'
<1>1. CASE Saved(tab)
  BY <1>1, ReturnKnows DEF Saved
<1>2. CASE forms[tab].at = "saving" /\ UNCHANGED <<loads, now>>
  BY <1>2, NobodyWaits, LoadsUnheard
<1>3. QED
  BY <1>1, <1>2
     DEF SaveStep, CreateTemplate, CreateExpense, SendUpdate, SendDelete,
         UpdateTemplate, ListInstances, DeleteTemplate, CallFails, NextCall

LEMMA RequestStepKnows ==
    ASSUME OneTab, TypeInv, AwaitedBySave, PageInv, AloneInv, LoadsInv,
           NEW q \in requests, RequestStep(q)
    PROVE  LoadsInv'
<1>1. q.tab \in Tabs /\ forms[q.tab].at = "saving"
  BY CallRole
<1>2. UNCHANGED <<loads, now>>
  BY DEF RequestStep, CheckUpdate, WriteUpdate, RemoveExpense, RequestLost
<1>3. QED
  BY <1>1, <1>2, NobodyWaits, LoadsUnheard

LEMMA LoadsStep ==
    ASSUME OneTab, ~Failures, TypeInv, TypeInv', AwaitedBySave, PageInv,
           AloneInv, LoadsInv, [Next]_vars
    PROVE  LoadsInv'
<1>1. CASE MonthPasses
  <2>1. UNCHANGED <<expenses, templates, loads>> /\ now' = now + 1
    BY <1>1 DEF MonthPasses
  <2>2. now \in Nat /\ now' \in Months
    BY MonthsAreNumbers DEF TypeInv, TypeOK
  <2>3. now <= now'
    BY <2>1, <2>2
  <2>4. QED
    BY <2>1, <2>2, <2>3, RowsIfUnchanged, LoadStillFits DEF LoadsInv
<1>2. CASE UNCHANGED vars
  <2>1. UNCHANGED <<loads, expenses, templates, now>>
    BY <1>2 DEF vars
  <2>2. QED
    BY <2>1, LoadsAreLeft
<1>3. QED
  BY <1>1, <1>2, LoadStepKnows, UserStepKnows, SaveStepKnows,
     RequestStepKnows DEF Next

-----------------------------------------------------------------------------
(* A month that was deleted alone leaves a removed row, which holds its    *)
(* slot until the template goes.                                           *)

Holds(table, plan, slot) ==
    /\ slot[1] # None
    /\ \/ Absent(plan, slot[1])
       \/ \E e \in Present(table) :
              /\ table[e].removed
              /\ table[e].template = slot[1]
              /\ table[e].period = slot[2]

SkipInv == \A slot \in skipped : Holds(expenses, templates, slot)

RemovedStay ==
    /\ DOMAIN expenses' = Expenses
    /\ \A e \in Expenses :
           expenses[e] # None /\ expenses[e].removed => expenses'[e] = expenses[e]

LEMMA SkipsStay ==
    ASSUME TypeInv, SkipInv, RemovedStay, UNCHANGED skipped,
           \A slot \in skipped :
               Absent(templates, slot[1]) => Absent(templates', slot[1])
    PROVE  SkipInv'
<1> SUFFICES ASSUME NEW slot \in skipped
             PROVE  Holds(expenses', templates', slot)
  BY DEF SkipInv
<1>1. Holds(expenses, templates, slot)
  BY DEF SkipInv
<1>2. \A e \in Present(expenses) : expenses[e].removed =>
          e \in Present(expenses') /\ expenses'[e] = expenses[e]
  BY DEF RemovedStay, Present, TypeInv, TypeOK
<1>3. QED
  BY <1>1, <1>2 DEF Holds

LEMMA AddedKeepsRemoved ==
    ASSUME RowsOnlyAdded
    PROVE  RemovedStay
BY DEF RowsOnlyAdded, RemovedStay, FreshExpense, Absent

LEMMA SameTablesSkips ==
    ASSUME TypeInv, SkipInv, UNCHANGED <<expenses, templates, skipped>>
    PROVE  SkipInv'
BY DEF SkipInv

LEMMA CreateTemplateSkips ==
    ASSUME TypeInv, SkipInv, NEW tab \in Tabs, CreateTemplate(tab)
    PROVE  SkipInv'
<1>1. PICK t \in FreshTemplate :
          templates' = [templates EXCEPT ![t] =
              [start |-> forms[tab].date, end |-> forms[tab].end, active |-> TRUE]]
  BY Zenon DEF CreateTemplate
<1>2. \A slot \in skipped : slot[1] # t
  BY DEF FreshTemplate
<1>3. templates \in [Templates -> TemplateRow \cup {None}] /\ t \in Templates
  BY DEF TypeInv, TypeOK, FreshTemplate
<1>4. \A u : u # t => templates'[u] = templates[u]
  BY <1>1, <1>3
<1>5. UNCHANGED <<expenses, skipped>>
  BY DEF CreateTemplate
<1>6. RemovedStay
  BY <1>5 DEF RemovedStay, TypeInv, TypeOK
<1>7. QED
  BY <1>2, <1>4, <1>5, <1>6, SkipsStay DEF Absent

LEMMA CreateExpenseSkips ==
    ASSUME TypeInv, SkipInv, NEW tab \in Tabs, CreateExpense(tab)
    PROVE  SkipInv'
<1>1. UNCHANGED <<templates, skipped>>
  BY DEF CreateExpense
<1>2. CASE UNCHANGED expenses
  BY <1>1, <1>2, SameTablesSkips
<1>3. ASSUME NEW e \in FreshExpense, NEW row,
             expenses' = [expenses EXCEPT ![e] = row]
      PROVE  SkipInv'
  <2>1. RemovedStay
    BY <1>3 DEF RemovedStay, FreshExpense, Absent, TypeInv, TypeOK
  <2>2. QED
    BY <1>1, <2>1, SkipsStay
<1>4. QED
  BY <1>2, <1>3 DEF CreateExpense

LEMMA UpdateTemplateSkips ==
    ASSUME TypeInv, SkipInv, NEW tab \in Tabs, UpdateTemplate(tab)
    PROVE  SkipInv'
<1>1. UNCHANGED <<expenses, skipped>>
  BY DEF UpdateTemplate
<1>2. CASE UNCHANGED templates
  BY <1>1, <1>2, SameTablesSkips
<1>3. CASE /\ ~Absent(templates, forms[tab].template)
           /\ templates' = [templates EXCEPT ![forms[tab].template] =
                               Retermed(forms[tab], @)]
  <2>1. \A u : u # forms[tab].template => templates'[u] = templates[u]
    BY <1>3 DEF TypeInv, TypeOK
  <2>2. \A u : Absent(templates, u) => Absent(templates', u)
    BY <1>3, <2>1 DEF Absent
  <2>3. RemovedStay
    BY <1>1 DEF RemovedStay, TypeInv, TypeOK
  <2>4. QED
    BY <1>1, <2>2, <2>3, SkipsStay
<1>4. QED
  BY <1>2, <1>3 DEF UpdateTemplate

LEMMA DeleteTemplateSkips ==
    ASSUME TypeInv, SkipInv, NEW tab \in Tabs, DeleteTemplate(tab)
    PROVE  SkipInv'
<1> DEFINE t == forms[tab].template
<1>1. UNCHANGED skipped
  BY DEF DeleteTemplate
<1>2. CASE UNCHANGED <<templates, expenses>>
  BY <1>1, <1>2, SameTablesSkips
<1>3. CASE /\ ~Absent(templates, t)
           /\ templates' = [templates EXCEPT ![t] = None]
           /\ expenses' = Cascade(expenses, t)
  <2> SUFFICES ASSUME NEW slot \in skipped
               PROVE  Holds(expenses', templates', slot)
    BY <1>1 DEF SkipInv
  <2>1. Holds(expenses, templates, slot)
    BY DEF SkipInv
  <2>2. slot[1] \in Templates
    <3>1. slot[1] \in Templates \cup {None}
      BY DEF TypeInv, TypeOK
    <3>2. QED
      BY <2>1, <3>1 DEF Holds
  <2>3. slot[1] = t \/ Absent(templates, slot[1]) => Absent(templates', slot[1])
    BY <1>3, <2>2 DEF Absent, TypeInv, TypeOK
  <2>4. ASSUME slot[1] # t, NEW e \in Present(expenses),
               expenses[e].removed, expenses[e].template = slot[1],
               expenses[e].period = slot[2]
        PROVE  Holds(expenses', templates', slot)
    <3>1. e \in DOMAIN expenses /\ expenses[e] # None
      BY DEF Present
    <3>2. e \in DOMAIN expenses' /\ expenses'[e] = expenses[e]
      BY <1>3, <2>4, <3>1 DEF Cascade
    <3>3. e \in Present(expenses')
      BY <3>1, <3>2 DEF Present
    <3>4. QED
      BY <2>1, <2>4, <3>2, <3>3 DEF Holds
  <2>5. QED
    BY <2>1, <2>3, <2>4 DEF Holds
<1>4. QED
  BY <1>2, <1>3 DEF DeleteTemplate

(* A row that is written or removed was visible, so no slot was held by it *)
(* alone.                                                                  *)
LEMMA WriteUpdateSkips ==
    ASSUME OneTab, TypeInv, AwaitedBySave, AloneInv, SkipInv,
           NEW q \in requests, WriteUpdate(q)
    PROVE  SkipInv'
<1> DEFINE form == forms[q.tab]
           old == expenses[q.expense]
           row == Patched(old, q.patch)
<1>1. /\ q \in Request /\ q.expense \in Expenses
      /\ old # None /\ ~old.removed
      /\ Own(expenses, q, form) \/ Carries(expenses, q, form)
  BY CallRole
<1>2. UNCHANGED templates
  BY DEF WriteUpdate
<1>3. CASE UNCHANGED <<expenses, skipped>>
  BY <1>2, <1>3, SameTablesSkips
<1>4. CASE /\ expenses' = [expenses EXCEPT ![q.expense] = row]
           /\ skipped' = IF q.patch.removed
                         THEN skipped \cup {<<old.template, old.period>>}
                         ELSE skipped
  <2>1. /\ expenses'[q.expense] = row
        /\ \A e \in Expenses : e # q.expense => expenses'[e] = expenses[e]
        /\ DOMAIN expenses' = Expenses
    BY <1>1, <1>4 DEF TypeInv, TypeOK
  <2>2. RemovedStay
    BY <1>1, <2>1 DEF RemovedStay
  <2>3. \A slot \in skipped : Holds(expenses', templates', slot)
    <3> SUFFICES ASSUME NEW slot \in skipped
                 PROVE  Holds(expenses', templates', slot)
      OBVIOUS
    <3>1. Holds(expenses, templates, slot)
      BY DEF SkipInv
    <3>2. \A e \in Present(expenses) : expenses[e].removed =>
              e \in Present(expenses') /\ expenses'[e] = expenses[e]
      BY <2>2 DEF RemovedStay, Present, TypeInv, TypeOK
    <3>3. QED
      BY <1>2, <3>1, <3>2 DEF Holds
  <2>4. CASE ~q.patch.removed
    BY <1>4, <2>3, <2>4 DEF SkipInv
  <2>5. CASE q.patch.removed
    <3>a. Carries(expenses, q, form) => q.patch.removed = FALSE
      BY DEF Carries, NoPatch
    <3>b. Own(expenses, q, form) /\ q.call = "updateExpense"
      BY <1>1, <2>5, <3>a DEF WriteUpdate
    <3>c. /\ q.patch = OwnPatch(form)
          /\ form.kind = "deleteMonth" => form.template # None
          /\ old.template = form.template
      BY <3>b DEF Own, KnowsRow
    <3>2. form.kind = "deleteMonth"
      BY <2>5, <3>c DEF OwnPatch, NoPatch
    <3>1. /\ q.patch = OwnPatch(form)
          /\ form.template # None
          /\ old.template = form.template
      BY <3>c, <3>2
    <3>3. q.patch.template = None /\ q.patch.period = None
      BY <3>1, <3>2 DEF OwnPatch, NoPatch
    <3>4. row.template = old.template /\ row.period = old.period /\ row.removed
      BY <2>5, <3>3 DEF Patched, Sent
    <3>5. row # None
      <4>1. old \in ExpenseRow
        BY <1>1 DEF TypeInv, TypeOK
      <4>2. row \in ExpenseRow
        BY <1>1, <4>1, PatchedType DEF Request
      <4>3. QED
        BY <4>2, StoreAssumption
    <3> DEFINE slot == <<old.template, old.period>>
    <3>6. slot[1] = old.template /\ slot[2] = old.period
      OBVIOUS
    <3>7. skipped' = skipped \cup {slot}
      BY <1>4, <2>5
    <3> HIDE DEF slot, row, form
    <3>8. q.expense \in Present(expenses')
      BY <1>1, <2>1, <3>5 DEF Present
    <3>9. Holds(expenses', templates', slot)
      BY <2>1, <3>1, <3>4, <3>6, <3>8 DEF Holds
    <3>10. QED
      BY <2>3, <3>7, <3>9 DEF SkipInv
  <2>6. QED
    BY <2>4, <2>5
<1>5. QED
  BY <1>3, <1>4 DEF WriteUpdate

LEMMA RemoveExpenseSkips ==
    ASSUME OneTab, TypeInv, AwaitedBySave, AloneInv, SkipInv,
           NEW q \in requests, RemoveExpense(q)
    PROVE  SkipInv'
<1>1. /\ q.expense \in Expenses /\ expenses[q.expense] # None
      /\ ~expenses[q.expense].removed
  BY CallRole
<1>2. expenses' = [expenses EXCEPT ![q.expense] = None]
  BY <1>1 DEF RemoveExpense, Absent
<1>3. RemovedStay
  BY <1>1, <1>2 DEF RemovedStay, TypeInv, TypeOK
<1>4. UNCHANGED <<templates, skipped>>
  BY DEF RemoveExpense
<1>5. QED
  BY <1>3, <1>4, SkipsStay

LEMMA SkipStep ==
    ASSUME OneTab, ~Failures, TypeInv, AwaitedBySave, AloneInv, LoadsInv,
           SkipInv, [Next]_vars
    PROVE  SkipInv'
<1>1. CASE UNCHANGED <<expenses, templates, skipped>>
  BY <1>1, SameTablesSkips
<1>2. ASSUME NEW l \in Loads, LoadStep(l) PROVE SkipInv'
  <2>1. RowsOnlyAdded
    BY <1>2, LoadStepKnows
  <2>2. UNCHANGED <<templates, skipped>>
    BY <1>2 DEF LoadStep, Read, Decide, Materialize, ShowLoad, ReadFails
  <2>3. QED
    BY <2>1, <2>2, AddedKeepsRemoved, SkipsStay
<1>3. ASSUME NEW tab \in Tabs, UserStep(tab) PROVE SkipInv'
  BY <1>1, <1>3 DEF UserStep, VisitLedger, SelectMonth, OpenNew, OpenEdit,
                    Save, Cancel, Return
<1>4. ASSUME NEW tab \in Tabs, SaveStep(tab) PROVE SkipInv'
  BY <1>1, <1>4, CreateTemplateSkips, CreateExpenseSkips, UpdateTemplateSkips,
     DeleteTemplateSkips
     DEF SaveStep, SendUpdate, SendDelete, ListInstances, CallFails, Saved,
         Return
<1>5. ASSUME NEW q \in requests, RequestStep(q) PROVE SkipInv'
  BY <1>1, <1>5, WriteUpdateSkips, RemoveExpenseSkips
     DEF RequestStep, CheckUpdate, RequestLost
<1>6. CASE MonthPasses \/ UNCHANGED vars
  BY <1>1, <1>6 DEF MonthPasses, vars
<1>7. QED
  BY <1>2, <1>3, <1>4, <1>5, <1>6 DEF Next

-----------------------------------------------------------------------------
(* The screen: what a load brings, and nothing else, makes it ready.       *)

OnceOn(screen) ==
    /\ \A p, q \in screen.rows :
           p.template # None /\ p.template = q.template => p = q
    /\ \A p \in screen.rows : p.template \notin screen.projected

WithoutSkips(screen, slots) ==
    \A slot \in slots :
        screen.status = "ready" /\ screen.month = slot[2]
            => slot[1] \notin screen.projected

ScreensInv ==
    \A tab \in Tabs : OnceOn(shown[tab]) /\ WithoutSkips(shown[tab], skipped)

LEMMA BlankFits ==
    \A status, slots :
        OnceOn(Blank(status)) /\ WithoutSkips(Blank(status), slots)
BY DEF OnceOn, WithoutSkips, Blank

LEMMA OneScreenChanges ==
    ASSUME TypeInv, ScreensInv, UNCHANGED skipped, NEW tab \in Tabs, NEW screen,
           shown' = [shown EXCEPT ![tab] = screen],
           OnceOn(screen) /\ WithoutSkips(screen, skipped)
    PROVE  ScreensInv'
BY DEF ScreensInv, TypeInv, TypeOK

LEMMA ScreensUntouched ==
    ASSUME ScreensInv, UNCHANGED <<shown, skipped>>
    PROVE  ScreensInv'
BY DEF ScreensInv

(* The screen a load brings.                                               *)
LEMMA LoadBrings ==
    ASSUME TypeInv, AloneInv, LoadsInv, SkipInv, NEW l \in Loads, Answering(l),
           loads[l].at = "writing", NEW screen, screen.status = "ready",
           screen.month = loads[l].month, screen.rows = loads[l].rows,
           screen.projected = Projected(loads[l])
    PROVE  OnceOn(screen) /\ WithoutSkips(screen, skipped)
<1> DEFINE load == loads[l]
<1>1. /\ load \in Load /\ load.month \in Months
      /\ load.month \in Nat /\ now \in Nat
  BY MonthsAreNumbers DEF Answering, TypeInv, TypeOK, LoadsPlaced
<1>2. LoadKnows(expenses, templates, now, load) /\ load.pending = {}
  BY DEF LoadsInv, LoadFits, Answering
<1>3. /\ Projected(load) \subseteq load.due
      /\ Projected(load) # {} => load.month > now
      /\ Projected(load) \cap load.occupied = {}
  BY <1>1 DEF Projected
<1>4. Projected(load) # {} =>
          ListMonthSlots(expenses, load.month) \subseteq load.occupied
  BY <1>2, <1>3 DEF LoadKnows
<1>5. \A p \in load.rows :
          /\ p.expense \in Present(expenses)
          /\ expenses[p.expense].template = p.template
          /\ p.template # None => expenses[p.expense].period = load.month
  <2>1. \A p \in load.rows :
            /\ p.expense \in Present(expenses)
            /\ expenses[p.expense].template = p.template
            /\ expenses[p.expense].month = load.month
    BY <1>2 DEF LoadKnows, Visible
  <2>2. QED
    BY <2>1 DEF AloneInv, TableFits
<1>6. ASSUME NEW p \in load.rows, NEW q \in load.rows,
             p.template # None, p.template = q.template
      PROVE  p = q
  <2>1. p.expense = q.expense
    BY <1>5, <1>6 DEF AloneInv, TableFits
  <2>2. p \in Row /\ q \in Row
    BY <1>1 DEF Load
  <2>3. QED
    BY <1>6, <2>1, <2>2 DEF Row
<1>7. ASSUME NEW p \in load.rows, p.template \in Projected(load)
      PROVE  FALSE
  <2>1. p.template # None
    BY <1>1, <1>3, <1>7, StoreAssumption DEF Load
  <2>2. p.template \in ListMonthSlots(expenses, load.month)
    BY <1>5, <2>1 DEF ListMonthSlots
  <2>3. QED
    BY <1>3, <1>4, <1>7, <2>2
<1>8. ASSUME NEW slot \in skipped, load.month = slot[2],
             slot[1] \in Projected(load)
      PROVE  FALSE
  <2>1. slot[1] \in Present(templates)
    BY <1>2, <1>3, <1>8 DEF LoadKnows, ListDue
  <2>2. slot[1] # None /\ ~Absent(templates, slot[1])
    BY <2>1 DEF SkipInv, Holds, Present, Absent
  <2>3. PICK e \in Present(expenses) :
            expenses[e].template = slot[1] /\ expenses[e].period = slot[2]
    BY <2>2 DEF SkipInv, Holds
  <2>4. slot[1] \in ListMonthSlots(expenses, load.month)
    BY <1>8, <2>2, <2>3 DEF ListMonthSlots
  <2>5. QED
    BY <1>3, <1>4, <1>8, <2>4
<1>9. QED
  BY <1>6, <1>7, <1>8 DEF OnceOn, WithoutSkips

LEMMA LoadStepScreens ==
    ASSUME ~Failures, TypeInv, AloneInv, LoadsInv, SkipInv, ScreensInv,
           NEW l \in Loads, LoadStep(l)
    PROVE  ScreensInv'
<1>1. UNCHANGED skipped
  BY DEF LoadStep, Read, Decide, Materialize, ShowLoad, ReadFails
<1>2. CASE UNCHANGED shown
  BY <1>1, <1>2, ScreensUntouched
<1>3. CASE ShowError(l) /\ loads[l].at # "free"
  <2>1. loads[l].tab \in Tabs
    BY <1>3 DEF TypeInv, LoadsPlaced
  <2>2. QED
    BY <1>1, <1>2, <1>3, <2>1, BlankFits, OneScreenChanges DEF ShowError
<1>4. CASE ShowLoad(l) /\ ~UNCHANGED shown
  <2> DEFINE screen == [status |-> "ready", month |-> loads[l].month,
                        rows |-> loads[l].rows,
                        projected |-> Projected(loads[l])]
  <2>1. /\ loads[l].at = "writing"
        /\ Answering(l)
        /\ shown' = [shown EXCEPT ![loads[l].tab] = screen]
    BY <1>4 DEF ShowLoad, Answering
  <2>2. loads[l].tab \in Tabs
    BY <2>1 DEF TypeInv, LoadsPlaced
  <2>3. /\ screen.status = "ready" /\ screen.month = loads[l].month
        /\ screen.rows = loads[l].rows
        /\ screen.projected = Projected(loads[l])
    OBVIOUS
  <2> HIDE DEF screen
  <2>4. OnceOn(screen) /\ WithoutSkips(screen, skipped)
    BY <2>1, <2>3, LoadBrings
  <2>5. QED
    BY <1>1, <2>1, <2>2, <2>4, OneScreenChanges
<1>5. QED
  BY <1>2, <1>3, <1>4 DEF LoadStep, Read, Decide, Materialize, ReadFails,
                          Exists, CreateFails, Created

LEMMA ScreensStep ==
    ASSUME OneTab, ~Failures, TypeInv, AwaitedBySave, PageInv, AloneInv,
           LoadsInv, SkipInv, ScreensInv, [Next]_vars
    PROVE  ScreensInv'
<1>1. CASE UNCHANGED <<shown, skipped>>
  BY <1>1, ScreensUntouched
<1>2. ASSUME NEW tab \in Tabs, NEW status, UNCHANGED skipped,
             shown' = [shown EXCEPT ![tab] = Blank(status)]
      PROVE  ScreensInv'
  BY <1>2, BlankFits, OneScreenChanges
<1>3. ASSUME NEW tab \in Tabs, UserStep(tab) PROVE ScreensInv'
  <2>1. UNCHANGED skipped
    BY <1>3 DEF UserStep, VisitLedger, SelectMonth, OpenNew, OpenEdit, Save,
                Cancel, Return
  <2>2. \/ UNCHANGED shown
        \/ \E status : shown' = [shown EXCEPT ![tab] = Blank(status)]
    BY <1>3 DEF UserStep, VisitLedger, SelectMonth, OpenNew, OpenEdit, Save,
                Cancel, Return, StartLoad, LeavePage
  <2>3. QED
    BY <1>1, <1>2, <2>1, <2>2
<1>4. ASSUME NEW tab \in Tabs, SaveStep(tab) PROVE ScreensInv'
  <2>1. UNCHANGED skipped
    BY <1>4 DEF SaveStep, CreateTemplate, CreateExpense, SendUpdate,
                SendDelete, UpdateTemplate, ListInstances, DeleteTemplate,
                CallFails, Saved, Return
  <2>2. \/ UNCHANGED shown
        \/ \E status : shown' = [shown EXCEPT ![tab] = Blank(status)]
    BY <1>4 DEF SaveStep, CreateTemplate, CreateExpense, SendUpdate,
                SendDelete, UpdateTemplate, ListInstances, DeleteTemplate,
                CallFails, Saved, Return, StartLoad
  <2>3. QED
    BY <1>1, <1>2, <2>1, <2>2
<1>5. ASSUME NEW q \in requests, RequestStep(q) PROVE ScreensInv'
  <2>1. q.tab \in Tabs /\ forms[q.tab].at = "saving"
    BY CallRole
  <2>2. \A tab \in Tabs : shown'[tab].status = "away"
    BY <1>5, <2>1 DEF OneTab, PageInv, FormCovers, RequestStep, CheckUpdate,
                      WriteUpdate, RemoveExpense, RequestLost
  <2>3. UNCHANGED shown
    BY <1>5 DEF RequestStep, CheckUpdate, WriteUpdate, RemoveExpense,
                RequestLost
  <2>4. QED
    BY <2>2, <2>3 DEF ScreensInv, WithoutSkips
<1>6. CASE MonthPasses \/ UNCHANGED vars
  BY <1>1, <1>6 DEF MonthPasses, vars
<1>7. QED
  BY <1>3, <1>4, <1>5, <1>6, LoadStepScreens DEF Next

-----------------------------------------------------------------------------
AloneAll ==
    /\ TypeInv
    /\ AwaitedBySave
    /\ PageInv
    /\ AloneInv
    /\ LoadsInv
    /\ SkipInv
    /\ ScreensInv

LEMMA AloneCorrect ==
    ASSUME OneTab, ~Failures
    PROVE  Spec => []AloneAll
<1>1. Init => AloneAll
  <2> SUFFICES ASSUME Init PROVE AloneAll
    OBVIOUS
  <2>1. LoadsInv
    BY FreeLoadFits DEF Init, LoadsInv
  <2>2. SkipInv /\ ScreensInv
    BY BlankFits DEF Init, SkipInv, ScreensInv
  <2>3. QED
    BY <2>1, <2>2, TypeInit, PageInit, AloneInit DEF AloneAll
<1>2. AloneAll /\ [Next]_vars => AloneAll'
  BY TypeStep, PageStep, AloneStep, LoadsStep, SkipStep, ScreensStep
     DEF AloneAll
<1>3. QED
  BY <1>1, <1>2, PTL DEF Spec

(* SkippedStaysSkipped: in one tab whose calls are answered, the instance  *)
(* of a month that was deleted alone never comes back, neither as a row    *)
(* nor as a planned one, however the loads of that tab overlap with each   *)
(* other, with saves and with the turn of a month (schema.prisma:165,      *)
(* asset-recurring.ts:116-119).                                            *)
THEOREM SkipsAreForGood ==
    ASSUME OneTab, ~Failures
    PROVE  Spec => []SkippedStaysSkipped
<1>1. AloneAll => SkippedStaysSkipped
  <2> SUFFICES ASSUME AloneAll PROVE SkippedStaysSkipped
    OBVIOUS
  <2>1. ASSUME NEW slot \in skipped, NEW e \in Visible(expenses),
               <<expenses[e].template, expenses[e].period>> = slot
        PROVE  FALSE
    <3>1. expenses[e].template = slot[1] /\ expenses[e].period = slot[2]
      BY <2>1
    <3>2. e \in Present(expenses) /\ ~expenses[e].removed
      BY DEF Visible
    <3>3. Holds(expenses, templates, slot)
      BY DEF AloneAll, SkipInv
    <3>4. ~Absent(templates, slot[1])
      BY <3>1, <3>2, <3>3 DEF AloneAll, TypeInv, ForeignKey, Refers, Holds
    <3>5. PICK f \in Present(expenses) :
              /\ expenses[f].removed
              /\ expenses[f].template = slot[1]
              /\ expenses[f].period = slot[2]
      BY <3>3, <3>4 DEF Holds
    <3>6. e = f
      BY <3>1, <3>2, <3>3, <3>5 DEF AloneAll, AloneInv, TableFits, Holds
    <3>7. QED
      BY <3>2, <3>5, <3>6
  <2>2. \A tab \in Tabs : WithoutSkips(shown[tab], skipped)
    BY DEF AloneAll, ScreensInv
  <2>3. QED
    BY <2>1, <2>2 DEF SkippedStaysSkipped, WithoutSkips
<1>2. QED
  BY <1>1, AloneCorrect, PTL

(* ShownOnce: in such a tab a template appears at most once on the screen, *)
(* as a row or as planned (asset-recurring.ts:116-119).                    *)
THEOREM OnceOnScreen ==
    ASSUME OneTab, ~Failures
    PROVE  Spec => []ShownOnce
<1>1. AloneAll => ShownOnce
  BY DEF AloneAll, ScreensInv, OnceOn, ShownOnce
<1>2. QED
  BY <1>1, AloneCorrect, PTL

(* DateInPeriod, conversions included: it takes a second tab, or a call    *)
(* that was given up, to part a date from its period.                      *)
THEOREM DatesStayAlone ==
    ASSUME OneTab, ~Failures
    PROVE  Spec => []DateInPeriod
<1>1. AloneAll => DateInPeriod
  BY DEF AloneAll, AloneInv, TableFits, DateInPeriod
<1>2. QED
  BY <1>1, AloneCorrect, PTL

-----------------------------------------------------------------------------
(* If no load and no save begins while a load is under way, then a save    *)
(* has the tables to itself.                                               *)

NoSaveInLoad ==
    \A l \in Loads : loads[l].at # "free" =>
        \A tab \in Tabs : forms[tab].at # "saving"

LEMMA OnlyTab ==
    ASSUME OneTab, NEW tab \in Tabs, NEW u \in Tabs
    PROVE  u = tab
BY DEF OneTab

LEMMA LoadStepBusy ==
    ASSUME TypeInv, NEW l \in Loads, LoadStep(l)
    PROVE  /\ loads[l].at # "free"
           /\ \A k \in Loads : loads'[k].at # "free" => loads[k].at # "free"
<1>1. loads[l].at # "free"
  BY DEF LoadStep, Read, Decide, Materialize, ShowLoad, ReadFails
<1>2. \A k \in Loads : k # l => loads'[k] = loads[k]
  <2>1. \E load : loads' = [loads EXCEPT ![l] = load]
    <3>1. TypeOK
      BY DEF TypeInv
    <3>2. CASE ShowLoad(l) \/ ReadFails(l)
      BY <3>2 DEF ShowLoad, ReadFails
    <3>3. CASE Decide(l)
      BY <3>1, <3>3, DecideEffect DEF Goes
    <3>4. ASSUME NEW what \in Reads, Read(l, what)
          PROVE  \E load : loads' = [loads EXCEPT ![l] = load]
      BY <3>1, <3>4, ReadEffect DEF Goes
    <3>5. ASSUME NEW t \in Templates, Materialize(l, t)
          PROVE  \E load : loads' = [loads EXCEPT ![l] = load]
      BY <3>1, <3>5, MaterializeEffect DEF Goes
    <3>6. QED
      BY <3>2, <3>3, <3>4, <3>5 DEF LoadStep
  <2>2. QED
    BY <2>1 DEF TypeInv, TypeOK
<1>3. QED
  BY <1>1, <1>2

LEMMA NoSaveStep ==
    ASSUME OneTab, ~Failures, ~Overlapping, AloneAll, AloneAll', NoSaveInLoad,
           [Next]_vars
    PROVE  NoSaveInLoad'
<1>1. TypeInv
  BY DEF AloneAll
<1>2. CASE MonthPasses \/ UNCHANGED vars
  BY <1>2 DEF MonthPasses, vars, NoSaveInLoad
<1>3. ASSUME NEW l \in Loads, LoadStep(l) PROVE NoSaveInLoad'
  <2>1. UNCHANGED forms
    BY <1>3 DEF LoadStep, Read, Decide, Materialize, ShowLoad, ReadFails
  <2>2. QED
    BY <1>1, <1>3, <2>1, LoadStepBusy DEF NoSaveInLoad
<1>4. ASSUME NEW tab \in Tabs, forms'[tab].at # "saving" PROVE NoSaveInLoad'
  BY <1>4, OnlyTab DEF NoSaveInLoad
<1>5. ASSUME \A l \in Loads : loads[l].at = "free", UNCHANGED loads
      PROVE  NoSaveInLoad'
  BY <1>5 DEF NoSaveInLoad
<1>6. ASSUME NEW tab \in Tabs, UserStep(tab) PROVE NoSaveInLoad'
  <2>1. forms \in [Tabs -> Form]
    BY <1>1 DEF TypeInv, TypeOK
  <2>2. CASE Save(tab)
    BY <1>5, <2>2 DEF Save, MayBegin
  <2>3. CASE VisitLedger(tab) \/ SelectMonth(tab)
    <3>1. forms[tab].at = "closed" /\ UNCHANGED forms
      BY <2>3, UncoveredIsClosed DEF AloneAll, VisitLedger, SelectMonth
    <3>2. QED
      BY <1>4, <3>1
  <2>4. CASE OpenNew(tab) \/ Cancel(tab)
    <3>1. \/ forms' = [forms EXCEPT ![tab] = [ClosedForm EXCEPT !.at = "open"]]
          \/ forms' = [forms EXCEPT ![tab] = ClosedForm]
      BY <2>4 DEF OpenNew, Cancel, Return
    <3>2. forms'[tab].at # "saving"
      BY <2>1, <3>1 DEF ClosedForm
    <3>3. QED
      BY <1>4, <3>2
  <2>5. ASSUME NEW e \in Expenses, OpenEdit(tab, e) PROVE NoSaveInLoad'
    <3>1. forms'[tab].at = "open"
      BY <2>1, <2>5 DEF OpenEdit, ClosedForm
    <3>2. QED
      BY <1>4, <3>1
  <2>6. QED
    BY <1>6, <2>2, <2>3, <2>4, <2>5 DEF UserStep
<1>7. ASSUME NEW tab \in Tabs, SaveStep(tab) PROVE NoSaveInLoad'
  <2>1. CASE Saved(tab)
    <3>1. forms'[tab] = ClosedForm
      BY <1>1, <2>1 DEF Saved, Return, TypeInv, TypeOK
    <3>2. QED
      BY <1>4, <3>1 DEF ClosedForm
  <2>2. CASE forms[tab].at = "saving" /\ UNCHANGED loads
    BY <1>5, <2>2 DEF NoSaveInLoad
  <2>3. QED
    BY <1>7, <2>1, <2>2
       DEF SaveStep, CreateTemplate, CreateExpense, SendUpdate, SendDelete,
           UpdateTemplate, ListInstances, DeleteTemplate, CallFails, NextCall
<1>8. ASSUME NEW q \in requests, RequestStep(q) PROVE NoSaveInLoad'
  <2>1. q.tab \in Tabs /\ forms[q.tab].at = "saving"
    BY CallRole DEF AloneAll
  <2>2. UNCHANGED loads
    BY <1>8 DEF RequestStep, CheckUpdate, WriteUpdate, RemoveExpense,
                RequestLost
  <2>3. QED
    BY <1>5, <2>1, <2>2 DEF NoSaveInLoad
<1>9. QED
  BY <1>2, <1>3, <1>6, <1>7, <1>8 DEF Next

(* A load creates what was due when it read the templates, and they are    *)
(* the same until it ends.                                                 *)
LoadPlans(plan, load) ==
    load.at # "free" =>
        /\ load.due \subseteq ListDue(plan, load.month)
        /\ load.targets \subseteq load.due
        /\ load.at = "reading" => load.targets = {}

PlansInv == \A l \in Loads : LoadPlans(templates, loads[l])

LEMMA OneLoadPlans ==
    ASSUME TypeInv, PlansInv, UNCHANGED templates, NEW l \in Loads, NEW load,
           loads' = [loads EXCEPT ![l] = load], LoadPlans(templates, load)
    PROVE  PlansInv'
BY DEF PlansInv, TypeInv, TypeOK

LEMMA LoadStepPlans ==
    ASSUME ~Failures, TypeInv, PlansInv, NEW l \in Loads, LoadStep(l)
    PROVE  PlansInv'
<1> DEFINE load == loads[l]
           rest(what) == load.pending \ {what}
           less(t) == load.targets \ {t}
<1>1. load \in Load /\ LoadPlans(templates, load) /\ load.at # "free"
  BY LoadStepBusy DEF TypeInv, TypeOK, PlansInv
<1>2. UNCHANGED templates
  BY DEF LoadStep, Read, Decide, Materialize, ShowLoad, ReadFails
<1>3. CASE loads' = [loads EXCEPT ![l] = FreeLoad]
  <2>1. LoadPlans(templates, FreeLoad)
    BY DEF LoadPlans, FreeLoad
  <2>2. QED
    BY <1>2, <1>3, <2>1, OneLoadPlans
<1>4. ASSUME NEW new, loads' = [loads EXCEPT ![l] = new],
             new.month = load.month,
             new.due \subseteq ListDue(templates, load.month),
             new.targets \subseteq new.due,
             new.at = "reading" => new.targets = {}
      PROVE  PlansInv'
  <2>1. LoadPlans(templates, new)
    BY <1>4 DEF LoadPlans
  <2>2. QED
    BY <1>2, <1>4, <2>1, OneLoadPlans
<1>5. ASSUME NEW what \in Reads, Read(l, what) PROVE PlansInv'
  <2> DEFINE rows == {[expense |-> e, template |-> expenses[e].template] :
                         e \in ListByMonth(expenses, load.month)}
             slots == ListMonthSlots(expenses, load.month)
             due == ListDue(templates, load.month)
             first == [load EXCEPT !.rows = rows, !.pending = rest(what)]
             second == [load EXCEPT !.due = due, !.pending = rest(what)]
             third == [load EXCEPT !.occupied = slots, !.pending = rest(what)]
  <2>1. load.at = "reading"
    BY <1>5 DEF Read
  <2>2. \/ loads' = [loads EXCEPT ![l] = first]
        \/ loads' = [loads EXCEPT ![l] = second]
        \/ loads' = [loads EXCEPT ![l] = third]
    <3>1. CASE what = "expenses"
      BY <1>1, <1>5, <3>1 DEF Read, Load
    <3>2. CASE what = "templates"
      BY <1>1, <1>5, <3>2 DEF Read, Load
    <3>3. CASE what = "slots"
      BY <1>1, <1>5, <3>3 DEF Read, Load
    <3>4. QED
      BY <3>1, <3>2, <3>3 DEF Reads
  <2>3. /\ first.month = load.month /\ first.due = load.due
        /\ first.targets = load.targets
        /\ second.month = load.month /\ second.due = due
        /\ second.targets = load.targets
        /\ third.month = load.month /\ third.due = load.due
        /\ third.targets = load.targets
    <3> HIDE DEF load, rows, slots, due, rest
    <3>1. QED
      BY <1>1 DEF Load
  <2>4. load.targets = {} /\ load.due \subseteq due
    BY <1>1, <2>1 DEF LoadPlans
  <2> HIDE DEF first, second, third
  <2>5. QED
    BY <1>4, <2>2, <2>3, <2>4
<1>6. CASE Decide(l) /\ ~load.stale
  <2> DEFINE new == [load EXCEPT !.at = "writing", !.targets = Targets(load)]
  <2>1. loads' = [loads EXCEPT ![l] = new]
    BY <1>6 DEF Decide
  <2>2. /\ new.month = load.month /\ new.due = load.due /\ new.at = "writing"
        /\ new.targets = Targets(load)
    <3> HIDE DEF load
    <3>1. QED
      BY <1>1 DEF Load
  <2>3. Targets(load) \subseteq load.due
    BY DEF Targets
  <2>4. load.due \subseteq ListDue(templates, load.month)
    BY <1>1 DEF LoadPlans
  <2> HIDE DEF new
  <2>5. QED
    BY <1>4, <2>1, <2>2, <2>3, <2>4
<1>7. ASSUME NEW t \in Templates, Materialize(l, t) PROVE PlansInv'
  <2>1. load.at = "writing"
    BY <1>7 DEF Materialize
  <2>2. \E new : /\ loads' = [loads EXCEPT ![l] = new]
                 /\ new.month = load.month /\ new.due = load.due
                 /\ new.targets = less(t) /\ new.at = load.at
    <3>1. CASE Exists(l, t)
      <4> DEFINE new == [load EXCEPT !.targets = less(t)]
      <4>1. loads' = [loads EXCEPT ![l] = new]
        BY <3>1 DEF Exists
      <4>2. /\ new.month = load.month /\ new.due = load.due
            /\ new.targets = less(t) /\ new.at = load.at
        <5> HIDE DEF load, less
        <5>1. QED
          BY <1>1 DEF Load
      <4> HIDE DEF new
      <4>3. QED
        BY <4>1, <4>2
    <3>2. CASE CreateFails(l, t)
      <4> DEFINE new == [load EXCEPT !.targets = less(t), !.silent = TRUE]
      <4>1. loads' = [loads EXCEPT ![l] = new]
        BY <1>1, <3>2 DEF CreateFails, Load
      <4>2. /\ new.month = load.month /\ new.due = load.due
            /\ new.targets = less(t) /\ new.at = load.at
        <5> HIDE DEF load, less
        <5>1. QED
          BY <1>1 DEF Load
      <4> HIDE DEF new
      <4>3. QED
        BY <4>1, <4>2
    <3>3. ASSUME NEW e \in FreshExpense, Created(l, t, e)
          PROVE  \E new : /\ loads' = [loads EXCEPT ![l] = new]
                          /\ new.month = load.month /\ new.due = load.due
                          /\ new.targets = less(t) /\ new.at = load.at
      <4> DEFINE row == [expense |-> e, template |-> t]
                 new == [load EXCEPT !.targets = less(t), !.rows = @ \cup {row}]
      <4>1. loads' = [loads EXCEPT ![l] = new]
        BY <1>1, <3>3 DEF Created, Load
      <4>2. /\ new.month = load.month /\ new.due = load.due
            /\ new.targets = less(t) /\ new.at = load.at
        <5> HIDE DEF load, less, row
        <5>1. QED
          BY <1>1 DEF Load
      <4> HIDE DEF new
      <4>3. QED
        BY <4>1, <4>2
    <3>4. QED
      BY <1>7, <3>1, <3>2, <3>3 DEF Materialize
  <2>3. /\ load.due \subseteq ListDue(templates, load.month)
        /\ less(t) \subseteq load.due
    BY <1>1 DEF LoadPlans
  <2> HIDE DEF less, load
  <2>4. QED
    BY <1>4, <2>1, <2>2, <2>3
<1>8. QED
  BY <1>3, <1>5, <1>6, <1>7 DEF LoadStep, ShowLoad, ReadFails, Decide

LEMMA PlansStep ==
    ASSUME OneTab, ~Failures, ~Overlapping, AloneAll, NoSaveInLoad, PlansInv,
           [Next]_vars
    PROVE  PlansInv'
<1>1. TypeInv
  BY DEF AloneAll
<1>2. ASSUME UNCHANGED templates,
             \A k \in Loads :
               \/ loads'[k] = loads[k]
               \/ \E tab \in Tabs, m \in Months : loads'[k] = NewLoad(tab, m)
               \/ loads'[k] = [loads[k] EXCEPT !.stale = TRUE]
               \/ loads'[k] = [loads[k] EXCEPT !.silent = TRUE]
      PROVE  PlansInv'
  <2> SUFFICES ASSUME NEW k \in Loads PROVE LoadPlans(templates, loads'[k])
    BY <1>2 DEF PlansInv
  <2>1. loads[k] \in Load /\ LoadPlans(templates, loads[k])
    BY <1>1 DEF TypeInv, TypeOK, PlansInv
  <2>2. ASSUME NEW tab \in Tabs, NEW m \in Months
        PROVE  LoadPlans(templates, NewLoad(tab, m))
    BY DEF LoadPlans, NewLoad, FreeLoad
  <2>3. ASSUME \/ loads'[k] = [loads[k] EXCEPT !.stale = TRUE]
               \/ loads'[k] = [loads[k] EXCEPT !.silent = TRUE]
        PROVE  LoadPlans(templates, loads'[k])
    <3>1. /\ loads'[k].at = loads[k].at /\ loads'[k].due = loads[k].due
          /\ loads'[k].targets = loads[k].targets
          /\ loads'[k].month = loads[k].month
      BY <2>1, <2>3 DEF Load
    <3>2. QED
      BY <2>1, <3>1 DEF LoadPlans
  <2>4. QED
    BY <1>2, <2>1, <2>2, <2>3
<1>3. CASE UNCHANGED <<templates, loads>>
  BY <1>3 DEF PlansInv
<1>4. ASSUME NEW tab \in Tabs, NEW m \in Months, NEW others,
             StartLoad(tab, m, others), UNCHANGED templates
      PROVE  PlansInv'
  BY <1>1, <1>2, <1>4, StartedLoads
<1>5. ASSUME NEW tab \in Tabs, LeavePage(tab), UNCHANGED templates
      PROVE  PlansInv'
  BY <1>2, <1>5 DEF LeavePage
<1>6. ASSUME NEW tab \in Tabs, UserStep(tab) PROVE PlansInv'
  <2>1. now \in Months
    BY <1>1 DEF TypeInv, TypeOK
  <2>2. QED
    BY <1>3, <1>4, <1>5, <1>6, <2>1
       DEF UserStep, VisitLedger, SelectMonth, OpenNew, OpenEdit, Save, Cancel,
           Return
<1>7. ASSUME NEW tab \in Tabs, SaveStep(tab) PROVE PlansInv'
  <2>1. CASE Saved(tab)
    BY <1>1, <1>4, <2>1 DEF Saved, Return, TypeInv, TypeOK
  <2>2. CASE forms[tab].at = "saving" /\ UNCHANGED loads
    <3>1. \A l \in Loads : loads'[l].at = "free"
      BY <2>2 DEF NoSaveInLoad
    <3>2. QED
      BY <3>1 DEF PlansInv, LoadPlans
  <2>3. QED
    BY <1>7, <2>1, <2>2
       DEF SaveStep, CreateTemplate, CreateExpense, SendUpdate, SendDelete,
           UpdateTemplate, ListInstances, DeleteTemplate, CallFails, NextCall
<1>8. ASSUME NEW q \in requests, RequestStep(q) PROVE PlansInv'
  BY <1>3, <1>8 DEF RequestStep, CheckUpdate, WriteUpdate, RemoveExpense,
                    RequestLost
<1>9. CASE MonthPasses \/ UNCHANGED vars
  BY <1>3, <1>9 DEF MonthPasses, vars
<1>10. QED
  BY <1>1, <1>6, <1>7, <1>8, <1>9, LoadStepPlans DEF Next

-----------------------------------------------------------------------------
(* The terms of the templates. A row outside the term of its template is   *)
(* condemned: by a call that deletes it, or by a save that has still to    *)
(* list the rows behind its cut.                                           *)

Cut(form) == IF form.kind = "unfix" THEN form.nowAt ELSE form.end

Cutting(form) ==
    form.at = "saving" /\ form.kind \in Cutters /\ form.todo # <<>>

Condemned(calls, form, e, row) ==
    \/ \E q \in calls : q.expense = e /\ q.call = "deleteExpense"
    \/ Cutting(form) /\ form.template = row.template /\ row.period > Cut(form)

InItsTerm(plan, time, row) ==
    /\ row.period <= plan[row.template].end
    /\ plan[row.template].active \/ row.period <= time

RowTerm(plan, calls, form, time, e, row) ==
    row.template # None =>
        /\ plan[row.template].start <= row.period
        /\ Condemned(calls, form, e, row) \/ InItsTerm(plan, time, row)

(* The template a save created, until its first row is written.            *)
Made(plan, table, form) ==
    /\ plan[form.created] =
           [start |-> form.date, end |-> form.end, active |-> TRUE]
    /\ \A e \in Present(table) : table[e].template # form.created

FormTerm(plan, table, calls, time, form) ==
    /\ form.template = None => form.start = None /\ ~form.active
    /\ form.expense = None => form.template = None
    /\ form.at = "open" => form.created = None
    /\ form.at = "saving" =>
           /\ form.nowAt <= time
           /\ form.kind \in {"fixed", "convert"} =>
                  /\ form.template = None
                  /\ form.date <= form.end
                  /\ form.created # None /\ (form.todo # <<>> \/ calls # {}) =>
                         Made(plan, table, form)
           /\ form.kind \in Cutters \cup {"deleteAll"} => form.template # None

RowsInTerm(form) ==
    \A e \in Visible(expenses) :
        RowTerm(templates, requests, form, now, e, expenses[e])

TermInv ==
    \A tab \in Tabs :
        /\ FormTerm(templates, expenses, requests, now, forms[tab])
        /\ RowsInTerm(forms[tab])

AllInTerm ==
    \A e \in Visible(expenses) :
        expenses[e].template # None =>
            /\ templates[expenses[e].template].start <= expenses[e].period
            /\ InItsTerm(templates, now, expenses[e])

LEMMA TermNow ==
    ASSUME OneTab, NEW tab \in Tabs,
           FormTerm(templates', expenses', requests', now', forms'[tab]),
           \A e \in Visible(expenses') :
               RowTerm(templates', requests', forms'[tab], now', e, expenses'[e])
    PROVE  TermInv'
BY OnlyTab DEF TermInv, RowsInTerm

LEMMA RowNumbers ==
    ASSUME TypeInv, AloneInv
    PROVE  /\ now \in Nat
           /\ \A e \in Present(expenses) :
                  /\ e \in Expenses /\ expenses[e] \in ExpenseRow
                  /\ expenses[e].template # None =>
                         /\ expenses[e].period \in Months
                         /\ expenses[e].period \in Nat
                         /\ expenses[e].template \in Templates
                         /\ templates[expenses[e].template] \in TemplateRow
                         /\ templates[expenses[e].template].start \in Nat
                         /\ templates[expenses[e].template].end \in Nat
<1>1. now \in Nat
  BY MonthsAreNumbers DEF TypeInv, TypeOK
<1>2. ASSUME NEW e \in Present(expenses)
      PROVE  e \in Expenses /\ expenses[e] \in ExpenseRow
  BY DEF Present, TypeInv, TypeOK
<1>3. ASSUME NEW e \in Present(expenses), expenses[e].template # None
      PROVE  /\ expenses[e].period \in Months
             /\ expenses[e].period \in Nat
             /\ expenses[e].template \in Templates
             /\ templates[expenses[e].template] \in TemplateRow
             /\ templates[expenses[e].template].start \in Nat
             /\ templates[expenses[e].template].end \in Nat
  <2>1. expenses[e].period \in Months /\ expenses[e].template \in Templates
    BY <1>2, <1>3 DEF AloneInv, TableFits, ExpenseRow
  <2>2. templates[expenses[e].template] \in TemplateRow
    BY <1>3, <2>1 DEF TypeInv, TypeOK, ForeignKey, Refers, Absent
  <2>3. QED
    BY <2>1, <2>2, MonthsAreNumbers DEF TemplateRow
<1>4. QED
  BY <1>1, <1>2, <1>3

(* While no save cuts and no call is under way, every row is in its term.  *)
LEMMA NobodyCondemned ==
    ASSUME TermInv, NEW tab \in Tabs, requests = {}, ~Cutting(forms[tab])
    PROVE  AllInTerm
<1>1. \A e : ~Condemned(requests, forms[tab], e, expenses[e])
  BY DEF Condemned
<1>2. QED
  BY <1>1 DEF TermInv, RowsInTerm, RowTerm, AllInTerm

LEMMA RowsStayInTerm ==
    ASSUME AllInTerm, UNCHANGED <<templates, expenses, now>>
    PROVE  \A form, calls, e : e \in Visible(expenses') =>
               RowTerm(templates', calls, form, now', e, expenses'[e])
BY DEF AllInTerm, RowTerm

LEMMA LoadStepTerm ==
    ASSUME OneTab, ~Failures, AloneAll, NoSaveInLoad, PlansInv, TermInv,
           NEW tab \in Tabs, NEW l \in Loads, LoadStep(l)
    PROVE  TermInv'
<1>1. TypeInv /\ AwaitedBySave /\ AloneInv
  BY DEF AloneAll
<1>2. UNCHANGED <<forms, requests, templates, now>>
  BY DEF LoadStep, Read, Decide, Materialize, ShowLoad, ReadFails
<1>3. forms[tab].at # "saving"
  BY <1>1, LoadStepBusy DEF NoSaveInLoad
<1>4. AllInTerm
  BY <1>1, <1>3, NothingUnderWay, NobodyCondemned DEF Cutting
<1>5. FormTerm(templates', expenses', requests', now', forms'[tab])
  BY <1>2, <1>3 DEF TermInv, FormTerm
<1>6. ASSUME NEW e \in Visible(expenses')
      PROVE  RowTerm(templates', requests', forms'[tab], now', e, expenses'[e])
  <2>1. CASE UNCHANGED expenses
    BY <1>2, <1>4, <2>1, RowsStayInTerm
  <2>2. ASSUME NEW t \in Templates, Materialize(l, t), ~UNCHANGED expenses
        PROVE  RowTerm(templates', requests', forms'[tab], now', e, expenses'[e])
    <3>1. PICK f \in FreshExpense : Creatable(l, t) /\ Stored(l, t, f)
      BY <1>1, <2>2, MaterializeEffect DEF TypeInv
    <3>2. t \in ListDue(templates, loads[l].month)
      BY <2>2 DEF Materialize, PlansInv, LoadPlans
    <3> DEFINE row == Instance(t, loads[l].month)
    <3>3. row.template = t /\ row.period = loads[l].month
      BY DEF Instance
    <3>4. /\ f \in Expenses /\ expenses'[f] = row
          /\ \A g \in Expenses \ {f} : expenses'[g] = expenses[g]
          /\ DOMAIN expenses' = Expenses
      BY <1>1, <3>1 DEF Stored, FreshExpense, TypeInv, TypeOK
    <3> HIDE DEF row
    <3>5. CASE e = f
      BY <1>2, <3>2, <3>3, <3>4, <3>5 DEF RowTerm, InItsTerm, ListDue, InTerm
    <3>6. CASE e # f
      <4>1. e \in Visible(expenses) /\ expenses'[e] = expenses[e]
        BY <1>1, <3>4, <3>6 DEF Visible, Present, TypeInv, TypeOK
      <4>2. QED
        BY <1>2, <1>4, <4>1 DEF AllInTerm, RowTerm
    <3>7. QED
      BY <3>5, <3>6
  <2>3. QED
    BY <2>1, <2>2 DEF LoadStep, Read, Decide, ShowLoad, ReadFails
<1>7. QED
  BY <1>5, <1>6, TermNow

LEMMA MonthPassesTerm ==
    ASSUME OneTab, AloneAll, TermInv, NEW tab \in Tabs, MonthPasses
    PROVE  TermInv'
<1>1. UNCHANGED <<templates, expenses, requests, forms>> /\ now' = now + 1
  BY DEF MonthPasses
<1>2. now \in Nat
  BY RowNumbers DEF AloneAll
<1>3. FormTerm(templates', expenses', requests', now', forms'[tab])
  <2>1. FormTerm(templates, expenses, requests, now, forms[tab])
    BY DEF TermInv
  <2>2. forms[tab].at = "saving" => forms[tab].nowAt \in Nat
    BY MonthsAreNumbers DEF AloneAll, TypeInv, FormsFit, Fits
  <2>3. QED
    BY <1>1, <1>2, <2>1, <2>2 DEF FormTerm
<1>4. ASSUME NEW e \in Visible(expenses)
      PROVE  RowTerm(templates', requests', forms'[tab], now', e, expenses'[e])
  <2>1. RowTerm(templates, requests, forms[tab], now, e, expenses[e])
    BY DEF TermInv, RowsInTerm
  <2>2. expenses[e].template # None => expenses[e].period \in Nat
    BY RowNumbers DEF AloneAll, Visible
  <2>3. QED
    BY <1>1, <1>2, <2>1, <2>2 DEF RowTerm, InItsTerm
<1>5. QED
  BY <1>1, <1>3, <1>4, TermNow

(* Steps of the user.                                                      *)
LEMMA EmptyFormTerm ==
    \A plan, table, calls, time :
        /\ FormTerm(plan, table, calls, time, ClosedForm)
        /\ FormTerm(plan, table, calls, time, [ClosedForm EXCEPT !.at = "open"])
BY DEF FormTerm, ClosedForm

LEMMA IdleTerm ==
    ASSUME OneTab, AloneAll, TermInv, NEW tab \in Tabs, requests = {},
           ~Cutting(forms[tab]),
           UNCHANGED <<templates, expenses, now>>, NEW form,
           forms' = [forms EXCEPT ![tab] = form],
           FormTerm(templates', expenses', requests', now', form)
    PROVE  TermInv'
<1>1. forms'[tab] = form
  BY DEF AloneAll, TypeInv, TypeOK
<1>2. AllInTerm
  BY NobodyCondemned
<1>3. QED
  BY <1>1, <1>2, RowsStayInTerm, TermNow

LEMMA OpenEditTerm ==
    ASSUME OneTab, AloneAll, TermInv, NEW tab \in Tabs, NEW e \in Expenses,
           OpenEdit(tab, e)
    PROVE  TermInv'
<1> DEFINE row == expenses[e]
           template == templates[row.template]
           form == [ClosedForm EXCEPT
                       !.at = "open", !.expense = e, !.template = row.template,
                       !.period = row.period, !.month = row.month]
           fixed == [form EXCEPT !.active = template.active,
                                 !.start = template.start]
<1>1. /\ form.at = "open" /\ form.expense = e /\ form.created = None
      /\ form.template = row.template /\ form.start = None
      /\ form.active = FALSE
  BY DEF ClosedForm
<1>2. /\ fixed.at = "open" /\ fixed.expense = e /\ fixed.created = None
      /\ fixed.template = row.template
  BY DEF ClosedForm
<1>3. e # None
  BY StoreAssumption
<1>4. \/ /\ row.template = None
         /\ forms' = [forms EXCEPT ![tab] = form]
      \/ /\ row.template # None
         /\ forms' = [forms EXCEPT ![tab] = fixed]
  BY DEF OpenEdit
<1>5. UNCHANGED <<expenses, requests, templates, now>>
  BY DEF OpenEdit
<1>6. forms[tab].at = "closed"
  BY UncoveredIsClosed DEF OpenEdit, AloneAll
<1>7. requests = {} /\ ~Cutting(forms[tab])
  BY <1>6, NothingUnderWay DEF AloneAll, Cutting
<1> HIDE DEF form, fixed
<1>8. CASE row.template = None /\ forms' = [forms EXCEPT ![tab] = form]
  <2>1. FormTerm(templates', expenses', requests', now', form)
    BY <1>1, <1>3, <1>8 DEF FormTerm
  <2>2. QED
    BY <1>5, <1>7, <1>8, <2>1, IdleTerm
<1>9. CASE row.template # None /\ forms' = [forms EXCEPT ![tab] = fixed]
  <2>1. FormTerm(templates', expenses', requests', now', fixed)
    BY <1>2, <1>3, <1>9 DEF FormTerm
  <2>2. QED
    BY <1>5, <1>7, <1>9, <2>1, IdleTerm
<1>10. QED
  BY <1>4, <1>8, <1>9

LEMMA SaveTerm ==
    ASSUME OneTab, AloneAll, TermInv, NEW tab \in Tabs, Save(tab)
    PROVE  TermInv'
<1> DEFINE form == forms[tab]
           saved(kind, date, end) ==
               [form EXCEPT !.at = "saving", !.kind = kind,
                            !.date = date, !.end = end, !.nowAt = now,
                            !.todo = Script(form, kind, date)]
<1>a. form \in Form /\ Fits(form) /\ form.at = "open"
  BY DEF Save, AloneAll, TypeInv, TypeOK, FormsFit
<1>b. FormTerm(templates, expenses, requests, now, form)
  BY DEF TermInv
<1>1. ASSUME NEW kind \in KindsOf(form), NEW date \in DateChoices(form, kind),
             NEW end \in EndChoices(form, kind, date),
             forms' = [forms EXCEPT ![tab] = saved(kind, date, end)]
      PROVE  TermInv'
  <2> DEFINE new == saved(kind, date, end)
  <2>1. /\ new.kind = kind /\ new.date = date /\ new.end = end
        /\ new.expense = form.expense /\ new.template = form.template
        /\ new.start = form.start /\ new.active = form.active
        /\ new.created = form.created /\ new.at = "saving"
        /\ new.nowAt = now
    <3> HIDE DEF form
    <3>1. QED
      BY <1>a DEF Form
  <2> HIDE DEF new
  <2>2. kind \in {"fixed", "convert"} => form.template = None
    BY <1>a, <1>b DEF KindsOf, FormTerm
  <2>3. kind \in {"fixed", "convert"} => date <= end
    <3>1. ASSUME kind \in {"fixed", "convert"}
          PROVE  end \in date..Forever
      BY <1>b, <2>2, <3>1 DEF EndChoices, StartMonth, FormTerm
    <3>2. ASSUME kind \in {"fixed", "convert"}
          PROVE  date \in Months
      BY <1>a, <3>2 DEF DateChoices, Form
    <3>3. QED
      BY <3>1, <3>2, MonthsAreNumbers
  <2>4. kind \in Cutters \cup {"deleteAll"} => form.template # None
    BY <1>a, <1>b DEF KindsOf, FormTerm, Cutters
  <2>5. now <= now
    BY RowNumbers DEF AloneAll
  <2>6. FormTerm(templates, expenses, requests, now, new)
    <3> HIDE DEF form
    <3>1. QED
      BY <1>a, <1>b, <2>1, <2>2, <2>3, <2>4, <2>5 DEF FormTerm
  <2>7. forms' = [forms EXCEPT ![tab] = new]
    BY <1>1 DEF new
  <2>8. requests = {} /\ ~Cutting(form)
    BY <1>a, NothingUnderWay DEF AloneAll, Cutting
  <2>9. UNCHANGED <<expenses, requests, templates, now>>
    BY DEF Save
  <2>10. QED
    BY <2>6, <2>7, <2>8, <2>9, IdleTerm
<1>2. PICK kind \in KindsOf(form) \cap Operations :
          \E date \in DateChoices(form, kind) :
          \E end \in EndChoices(form, kind, date) :
              /\ kind = "single" => Cardinality(Singles) < SinglesMax
              /\ forms' = [forms EXCEPT ![tab] = saved(kind, date, end)]
  BY Zenon DEF Save
<1>3. PICK date \in DateChoices(form, kind) :
          \E end \in EndChoices(form, kind, date) :
              forms' = [forms EXCEPT ![tab] = saved(kind, date, end)]
  BY <1>2, Zenon
<1>4. PICK end \in EndChoices(form, kind, date) :
          forms' = [forms EXCEPT ![tab] = saved(kind, date, end)]
  BY <1>3
<1> HIDE DEF saved
<1>5. QED
  BY <1>1, <1>2, <1>3, <1>4

LEMMA UserStepTerm ==
    ASSUME OneTab, AloneAll, TermInv, NEW tab \in Tabs, UserStep(tab)
    PROVE  TermInv'
<1>1. CASE VisitLedger(tab) \/ SelectMonth(tab)
  <2>1. UNCHANGED <<expenses, forms, requests, templates, now>>
    BY <1>1 DEF VisitLedger, SelectMonth
  <2>2. forms[tab].at = "closed"
    BY <1>1, UncoveredIsClosed DEF VisitLedger, SelectMonth, AloneAll
  <2>3. QED
    BY <2>1 DEF TermInv, RowsInTerm
<1>2. CASE OpenNew(tab)
  <2>1. /\ UNCHANGED <<expenses, requests, templates, now>>
        /\ forms' = [forms EXCEPT ![tab] = [ClosedForm EXCEPT !.at = "open"]]
    BY <1>2 DEF OpenNew
  <2>2. forms[tab].at = "closed"
    BY <1>2, UncoveredIsClosed DEF OpenNew, AloneAll
  <2>3. requests = {} /\ ~Cutting(forms[tab])
    BY <2>2, NothingUnderWay DEF AloneAll, Cutting
  <2>4. QED
    BY <2>1, <2>3, EmptyFormTerm, IdleTerm
<1>3. CASE Cancel(tab)
  <2>1. /\ UNCHANGED <<expenses, requests, templates, now>>
        /\ forms' = [forms EXCEPT ![tab] = ClosedForm]
    BY <1>3 DEF Cancel, Return
  <2>2. requests = {} /\ ~Cutting(forms[tab])
    BY <1>3, NothingUnderWay DEF AloneAll, Cutting, Cancel
  <2>3. QED
    BY <2>1, <2>2, EmptyFormTerm, IdleTerm
<1>4. QED
  BY <1>1, <1>2, <1>3, OpenEditTerm, SaveTerm DEF UserStep

-----------------------------------------------------------------------------
(* Steps of a save.                                                        *)

LEMMA NextCallTerm ==
    ASSUME OneTab, AloneAll, TermInv, NEW tab \in Tabs, NEW call,
           NextCall(tab, call)
    PROVE  /\ requests = {}
           /\ forms[tab] \in Form /\ forms[tab].at = "saving"
           /\ forms[tab].todo # <<>> /\ forms[tab].date \in Months
           /\ forms[tab].end \in Ends /\ forms[tab].nowAt \in Months
           /\ call \in CallsOf(forms[tab].kind)
           /\ forms[tab].expense # None => KnowsRow(expenses, forms[tab])
           /\ Closes(forms[tab], call) => Tail(forms[tab].todo) = <<>>
           /\ forms[tab].kind \in Cutters /\ call # "listInstances" =>
                  Tail(forms[tab].todo) # <<>>
           /\ FormTerm(templates, expenses, {}, now, forms[tab])
           /\ forms[tab].kind \notin Cutters => AllInTerm
           /\ \A e \in Visible(expenses) :
                  RowTerm(templates, {}, forms[tab], now, e, expenses[e])
<1> DEFINE form == forms[tab]
<1>1. TypeInv /\ AwaitedBySave /\ AloneInv
  BY DEF AloneAll
<1>2. /\ requests = {} /\ form \in Form /\ form.at = "saving"
      /\ form.todo # <<>> /\ Fits(form) /\ Ordered(form)
      /\ call = Head(form.todo)
      /\ form.expense # None => KnowsRow(expenses, form)
  BY <1>1, NextCallAlone
<1>3. /\ call \in CallsOf(form.kind) /\ form.date \in Months
      /\ form.end \in Ends /\ form.nowAt \in Months
  BY <1>1, NextCallFacts
<1>4. /\ Closes(form, call) => Tail(form.todo) = <<>>
      /\ form.kind \in Cutters /\ call # "listInstances" => Tail(form.todo) # <<>>
  <2> DEFINE done == Done(form)
  <2>1. /\ done.kind = form.kind /\ done.template = form.template
        /\ done.todo = Tail(form.todo)
    BY <1>2 DEF Done, Form
  <2> HIDE DEF form, done
  <2>2. QED
    BY <1>2, <2>1, Takes
<1>5. FormTerm(templates, expenses, {}, now, form)
  BY <1>2 DEF TermInv
<1>6. form.kind \notin Cutters => AllInTerm
  BY <1>2, NobodyCondemned DEF Cutting
<1>7. \A e \in Visible(expenses) :
          RowTerm(templates, {}, form, now, e, expenses[e])
  BY <1>2 DEF TermInv, RowsInTerm
<1>8. QED
  BY <1>2, <1>3, <1>4, <1>5, <1>6, <1>7

(* A form that goes on with the rest of its script.                        *)
LEMMA DoneTerm ==
    ASSUME NEW plan, NEW table, NEW calls, NEW time, NEW form \in Form,
           form.at = "saving", form.todo # <<>>,
           FormTerm(plan, table, {}, time, form)
    PROVE  FormTerm(plan, table, calls, time, Done(form))
<1> DEFINE done == Done(form)
<1>1. /\ done.at = "saving" /\ done.expense = form.expense
      /\ done.template = form.template /\ done.start = form.start
      /\ done.active = form.active /\ done.created = form.created
      /\ done.kind = form.kind /\ done.date = form.date
      /\ done.end = form.end /\ done.nowAt = form.nowAt
  BY DEF Done, Form
<1> HIDE DEF done
<1>2. FormTerm(plan, table, calls, time, done)
  BY <1>1 DEF FormTerm, Made
<1>3. QED
  BY <1>2 DEF done

LEMMA DoneCondemns ==
    ASSUME NEW calls, NEW form \in Form, form.at = "saving", form.todo # <<>>,
           form.kind \in Cutters => Tail(form.todo) # <<>>,
           NEW e, NEW row
    PROVE  Condemned({}, form, e, row) => Condemned(calls, Done(form), e, row)
<1> DEFINE done == Done(form)
<1>1. /\ done.at = "saving" /\ done.template = form.template
      /\ done.kind = form.kind /\ done.end = form.end
      /\ done.nowAt = form.nowAt /\ done.todo = Tail(form.todo)
  BY DEF Done, Form
<1> HIDE DEF done
<1>2. Condemned({}, form, e, row) => Condemned(calls, done, e, row)
  BY <1>1 DEF Condemned, Cutting, Cut
<1>3. QED
  BY <1>2 DEF done

(* A call that changes no table.                                           *)
LEMMA SentTerm ==
    ASSUME OneTab, AloneAll, TermInv, NEW tab \in Tabs, NEW call,
           NextCall(tab, call), call # "listInstances",
           forms' = [forms EXCEPT ![tab] = Done(@)],
           UNCHANGED <<now, templates, expenses>>
    PROVE  TermInv'
<1> DEFINE form == forms[tab]
<1>1. /\ form \in Form /\ form.at = "saving" /\ form.todo # <<>>
      /\ form.kind \in Cutters => Tail(form.todo) # <<>>
      /\ FormTerm(templates, expenses, {}, now, form)
      /\ \A e \in Visible(expenses) :
             RowTerm(templates, {}, form, now, e, expenses[e])
  BY NextCallTerm
<1>2. forms'[tab] = Done(form)
  BY DEF AloneAll, TypeInv, TypeOK
<1> HIDE DEF form
<1>3. FormTerm(templates', expenses', requests', now', Done(form))
  BY <1>1, DoneTerm
<1>4. ASSUME NEW e \in Visible(expenses)
      PROVE  RowTerm(templates', requests', Done(form), now', e, expenses'[e])
  <2>1. Condemned({}, form, e, expenses[e]) =>
            Condemned(requests', Done(form), e, expenses[e])
    BY <1>1, DoneCondemns
  <2>2. QED
    BY <1>1, <2>1 DEF RowTerm
<1>5. QED
  BY <1>2, <1>3, <1>4, TermNow

LEMMA CreateTemplateTerm ==
    ASSUME OneTab, ~Failures, AloneAll, TermInv, NEW tab \in Tabs,
           CreateTemplate(tab)
    PROVE  TermInv'
<1> DEFINE form == forms[tab]
           made == [start |-> form.date, end |-> form.end, active |-> TRUE]
<1>1. /\ form \in Form /\ form.at = "saving" /\ form.todo # <<>>
      /\ "createTemplate" \in CallsOf(form.kind)
      /\ FormTerm(templates, expenses, {}, now, form)
      /\ form.kind \notin Cutters => AllInTerm
  BY NextCallTerm DEF CreateTemplate
<1>2. form.kind \in {"fixed", "convert"} /\ form.kind \notin Cutters
  BY <1>1 DEF CallsOf, Cutters
<1>3. PICK t \in FreshTemplate :
          /\ templates' = [templates EXCEPT ![t] = made]
          /\ Answered(tab, [form EXCEPT !.created = t, !.made = @ + 1])
  BY Zenon DEF CreateTemplate
<1> DEFINE told == [form EXCEPT !.created = t, !.made = @ + 1]
<1>4. told \in Form
  BY <1>1, ToldType DEF FreshTemplate
<1>5. /\ told.at = form.at /\ told.expense = form.expense
      /\ told.template = form.template /\ told.start = form.start
      /\ told.active = form.active /\ told.created = t
      /\ told.kind = form.kind /\ told.date = form.date
      /\ told.todo = form.todo
      /\ told.end = form.end /\ told.nowAt = form.nowAt
  <2> HIDE DEF form
  <2>1. QED
    BY <1>1 DEF Form
<1>6. UNCHANGED <<expenses, requests, now>>
  BY DEF CreateTemplate
<1>7. t \in Templates /\ templates[t] = None
  BY DEF FreshTemplate, Absent
<1>8. \A e \in Present(expenses) : expenses[e].template # t
  BY <1>7, StoreAssumption
     DEF AloneAll, TypeInv, ForeignKey, Refers, Absent
<1>9. templates'[t] = made /\ \A u \in Templates \ {t} : templates'[u] = templates[u]
  BY <1>3, <1>7 DEF AloneAll, TypeInv, TypeOK
<1>10. forms' = [forms EXCEPT ![tab] = Done(told)]
  BY <1>3 DEF Answered
<1>11. forms'[tab] = Done(told)
  BY <1>10 DEF AloneAll, TypeInv, TypeOK
<1>12. /\ made.start = form.date /\ made.end = form.end /\ made.active
  OBVIOUS
<1> HIDE DEF told, form
<1>13. FormTerm(templates', expenses', {}, now', told)
  <2>1. Made(templates', expenses', told)
    BY <1>5, <1>6, <1>8, <1>9 DEF Made
  <2> HIDE DEF made
  <2>2. QED
    BY <1>1, <1>2, <1>5, <1>6, <2>1 DEF FormTerm
<1>14. FormTerm(templates', expenses', requests', now', Done(told))
  BY <1>1, <1>4, <1>5, <1>13, DoneTerm
<1>15. ASSUME NEW e \in Visible(expenses)
       PROVE  RowTerm(templates', requests', Done(told), now', e, expenses'[e])
  <2>1. AllInTerm
    BY <1>1, <1>2
  <2>2. e \in Present(expenses)
    BY DEF Visible
  <2>3. expenses[e].template # None => expenses[e].template \in Templates \ {t}
    BY <1>8, <2>2, RowNumbers DEF AloneAll
  <2>4. expenses[e].template # None =>
            templates'[expenses[e].template] = templates[expenses[e].template]
    BY <1>9, <2>3
  <2>5. QED
    BY <1>6, <2>1, <2>4 DEF AllInTerm, RowTerm, InItsTerm
<1>16. QED
  BY <1>6, <1>11, <1>14, <1>15, TermNow

LEMMA CreateExpenseTerm ==
    ASSUME OneTab, ~Failures, AloneAll, TermInv, NEW tab \in Tabs,
           CreateExpense(tab)
    PROVE  TermInv'
<1> DEFINE form == forms[tab]
           done == Done(form)
           row == NewRow(form)
<1>1. /\ form \in Form /\ form.at = "saving" /\ form.todo # <<>>
      /\ requests = {} /\ form.date \in Months
      /\ "createExpense" \in CallsOf(form.kind)
      /\ Closes(form, "createExpense") => Tail(form.todo) = <<>>
      /\ FormTerm(templates, expenses, {}, now, form)
      /\ form.kind \notin Cutters => AllInTerm
  BY NextCallTerm DEF CreateExpense
<1>2. form.kind \in {"single", "fixed"} /\ AllInTerm
  BY <1>1 DEF CallsOf, Cutters
<1>3. /\ row.template # None =>
             /\ form.kind = "fixed" /\ form.created # None
             /\ row.template = form.created
             /\ row.period = form.date
      /\ row.template \in Templates \cup {None}
  BY <1>1, <1>2 DEF NewRow, Instance, Form
<1>4. form.kind = "fixed" /\ form.created # None =>
          /\ form.date <= form.end
          /\ Made(templates, expenses, form)
  BY <1>1 DEF FormTerm
<1>5. ~SlotTaken(expenses, row.template, row.period, {})
  BY <1>3, <1>4 DEF SlotTaken, Made
<1>6. Refers(templates, row.template)
  <2>1. row.template # None => templates[row.template] \in TemplateRow
    <3>1. form.end \in Ends
      BY NextCallTerm DEF CreateExpense
    <3>2. [start |-> form.date, end |-> form.end, active |-> TRUE] \in TemplateRow
      BY <1>1, <3>1 DEF TemplateRow
    <3> HIDE DEF row
    <3>3. QED
      BY <1>3, <1>4, <3>2 DEF Made
  <2>2. QED
    BY <2>1, StoreAssumption DEF Refers, Absent
<1>7. PICK f \in FreshExpense : expenses' = [expenses EXCEPT ![f] = row]
  BY <1>5, <1>6 DEF CreateExpense
<1>8. UNCHANGED <<templates, requests, now>> /\ Answered(tab, form)
  BY <1>5, <1>6 DEF CreateExpense
<1>9. forms' = [forms EXCEPT ![tab] = done]
  BY <1>8 DEF Answered
<1>10. forms'[tab] = done
  BY <1>9 DEF AloneAll, TypeInv, TypeOK
<1>11. /\ done.at = "saving" /\ done.expense = form.expense
       /\ done.template = form.template /\ done.start = form.start
       /\ done.active = form.active
       /\ done.kind = form.kind /\ done.date = form.date
       /\ done.end = form.end /\ done.nowAt = form.nowAt
       /\ done.todo = Tail(form.todo)
  BY <1>1 DEF Done, Form
<1>12. done.todo = <<>>
  BY <1>1, <1>11 DEF Closes
<1>13. /\ f \in Expenses /\ expenses'[f] = row
       /\ \A g \in Expenses \ {f} : expenses'[g] = expenses[g]
       /\ DOMAIN expenses' = Expenses /\ DOMAIN expenses = Expenses
  BY <1>7 DEF FreshExpense, AloneAll, TypeInv, TypeOK
<1> HIDE DEF form, done, row
<1>14. FormTerm(templates', expenses', requests', now', done)
  BY <1>1, <1>8, <1>11, <1>12 DEF FormTerm
<1>15. ASSUME NEW e \in Visible(expenses')
       PROVE  RowTerm(templates', requests', done, now', e, expenses'[e])
  <2>1. CASE e = f
    <3>1. row.template # None =>
              /\ templates[row.template].start = row.period
              /\ templates[row.template].active
              /\ row.period <= templates[row.template].end
      BY <1>3, <1>4 DEF Made
    <3>2. row.template # None => row.period <= row.period
      <4>1. form.date \in Nat
        BY <1>1, MonthsAreNumbers
      <4>2. QED
        BY <1>3, <4>1
    <3>3. QED
      BY <1>8, <1>13, <2>1, <3>1, <3>2 DEF RowTerm, InItsTerm
  <2>2. CASE e # f
    <3>1. e \in Visible(expenses) /\ expenses'[e] = expenses[e]
      BY <1>13, <2>2 DEF Visible, Present
    <3>2. QED
      BY <1>2, <1>8, <3>1 DEF AllInTerm, RowTerm
  <2>3. QED
    BY <2>1, <2>2
<1>16. QED
  BY <1>10, <1>14, <1>15, TermNow

(* The template of the row a form was opened with is there.                *)
LEMMA FormsTemplate ==
    ASSUME AloneAll, NEW form \in Form, form.template # None,
           FormTerm(templates, expenses, {}, now, form),
           form.expense # None => KnowsRow(expenses, form)
    PROVE  /\ form.template \in Templates
           /\ templates[form.template] \in TemplateRow
           /\ ~Absent(templates, form.template)
<1>1. form.template \in Templates
  BY DEF Form
<1>2. form.expense \in Expenses /\ KnowsRow(expenses, form)
  BY DEF FormTerm, Form
<1>3. form.expense \in Present(expenses) /\ expenses[form.expense].template = form.template
  BY <1>2 DEF Present, KnowsRow, AloneAll, TypeInv, TypeOK
<1>4. ~Absent(templates, form.template)
  BY <1>3 DEF AloneAll, TypeInv, ForeignKey, Refers
<1>5. QED
  BY <1>1, <1>4 DEF Absent, AloneAll, TypeInv, TypeOK

(* What a cut makes of the template.                                       *)
LEMMA CutTemplate ==
    ASSUME NEW form, form.kind \in Cutters, NEW old \in TemplateRow,
           form.end \in Ends
    PROVE  LET new == Retermed(form, old)
           IN  /\ new.start = old.start
               /\ form.kind = "unfix" => new.end = old.end
               /\ form.kind # "unfix" => new.end = form.end
               /\ form.kind = "edit" => new.active = old.active
               /\ form.kind = "refix" => new.active
<1>1. CASE form.kind = "unfix"
  BY <1>1 DEF Retermed, TemplateRow
<1>2. CASE form.kind = "edit"
  BY <1>2 DEF Retermed, TemplateRow
<1>3. CASE form.kind = "refix"
  BY <1>3 DEF Retermed, TemplateRow
<1>4. QED
  BY <1>1, <1>2, <1>3 DEF Cutters

LEMMA UpdateTemplateTerm ==
    ASSUME OneTab, ~Failures, AloneAll, TermInv, NEW tab \in Tabs,
           UpdateTemplate(tab)
    PROVE  TermInv'
<1> DEFINE form == forms[tab]
           done == Done(form)
           old == templates[form.template]
           new == Retermed(form, old)
<1>1. /\ form \in Form /\ form.at = "saving" /\ form.todo # <<>>
      /\ form.end \in Ends /\ form.nowAt \in Months
      /\ "updateTemplate" \in CallsOf(form.kind)
      /\ form.expense # None => KnowsRow(expenses, form)
      /\ form.kind \in Cutters => Tail(form.todo) # <<>>
      /\ FormTerm(templates, expenses, {}, now, form)
      /\ \A e \in Visible(expenses) :
             RowTerm(templates, {}, form, now, e, expenses[e])
  BY NextCallTerm DEF UpdateTemplate
<1>2. form.kind \in Cutters
  <2>1. form.kind \in Kinds
    BY NextCallFacts DEF UpdateTemplate, AloneAll
  <2>2. QED
    BY <1>1, <2>1 DEF CallsOf, Cutters, Kinds
<1>3. form.template # None /\ form.nowAt <= now
  BY <1>1, <1>2 DEF FormTerm
<1>4. /\ form.template \in Templates /\ old \in TemplateRow
      /\ ~Absent(templates, form.template)
  BY <1>1, <1>3, FormsTemplate
<1>5. /\ templates' = [templates EXCEPT ![form.template] = new]
      /\ Answered(tab, form)
      /\ UNCHANGED <<requests, expenses, now>>
  BY <1>4 DEF UpdateTemplate
<1>6. /\ templates'[form.template] = new
      /\ \A u \in Templates \ {form.template} : templates'[u] = templates[u]
  BY <1>4, <1>5 DEF AloneAll, TypeInv, TypeOK
<1>7. /\ new.start = old.start
      /\ form.kind = "unfix" => new.end = old.end
      /\ form.kind # "unfix" => new.end = form.end
      /\ form.kind = "edit" => new.active = old.active
      /\ form.kind = "refix" => new.active
  BY <1>1, <1>2, <1>4, CutTemplate
<1>8. forms'[tab] = done
  BY <1>5 DEF Answered, AloneAll, TypeInv, TypeOK
<1>9. /\ done.at = "saving" /\ done.template = form.template
      /\ done.kind = form.kind /\ done.end = form.end
      /\ done.nowAt = form.nowAt /\ done.todo = Tail(form.todo)
  BY <1>1 DEF Done, Form
<1>10. FormTerm(templates', expenses', requests', now', done)
  <2>1. FormTerm(templates', expenses', {}, now', form)
    <3>1. form.kind \notin {"fixed", "convert"}
      BY <1>2 DEF Cutters
    <3> HIDE DEF form, new, old
    <3>2. QED
      BY <1>1, <1>5, <3>1 DEF FormTerm
  <2>2. QED
    BY <1>1, <2>1, DoneTerm
<1> HIDE DEF done, new
<1>11. ASSUME NEW e \in Visible(expenses)
       PROVE  RowTerm(templates', requests', done, now', e, expenses'[e])
  <2> DEFINE row == expenses[e]
  <2>1. RowTerm(templates, {}, form, now, e, row)
    BY <1>1
  <2>2. row.template # None =>
            /\ row.template \in Templates /\ row.period \in Nat
            /\ templates[row.template].start \in Nat
            /\ templates[row.template].end \in Nat
            /\ now \in Nat
    BY RowNumbers DEF AloneAll, Visible
  <2>3. UNCHANGED <<expenses, now>>
    BY <1>5
  <2> HIDE DEF row
  <2>4. CASE row.template # form.template
    <3>1. ~Condemned({}, form, e, row)
      BY <2>4 DEF Condemned
    <3>2. row.template # None => templates'[row.template] = templates[row.template]
      BY <1>6, <2>2, <2>4
    <3>3. RowTerm(templates', requests', done, now', e, row)
      BY <2>1, <2>3, <3>1, <3>2 DEF RowTerm, InItsTerm
    <3>4. QED
      BY <2>3, <3>3 DEF row
  <2>5. CASE row.template = form.template
    <3>1. row.period > Cut(form) => Condemned(requests', done, e, row)
      BY <1>1, <1>2, <1>9, <2>5 DEF Condemned, Cutting, Cut
    <3>2. /\ Cut(form) \in Nat
          /\ form.kind = "unfix" => Cut(form) = form.nowAt
          /\ form.kind # "unfix" => Cut(form) = form.end
      BY <1>1, MonthsAreNumbers DEF Cut
    <3>3. ASSUME row.period <= Cut(form) PROVE InItsTerm(templates', now', row)
      <4>1. ~Condemned({}, form, e, row)
        BY <1>3, <2>2, <2>5, <3>2, <3>3 DEF Condemned
      <4>2. /\ row.period <= old.end
            /\ old.active \/ row.period <= now
        BY <1>3, <2>1, <2>5, <4>1 DEF RowTerm, InItsTerm
      <4>3. form.nowAt \in Nat
        BY <1>1, MonthsAreNumbers
      <4>4. row.period <= new.end
        BY <1>7, <3>2, <3>3, <4>2
      <4>5. new.active \/ row.period <= now
        <5>1. CASE form.kind = "unfix"
          BY <1>3, <2>2, <2>5, <3>2, <3>3, <4>3, <5>1
        <5>2. CASE form.kind # "unfix"
          BY <1>2, <1>7, <4>2, <5>2 DEF Cutters
        <5>3. QED
          BY <5>1, <5>2
      <4>6. QED
        BY <1>6, <2>3, <2>5, <4>4, <4>5 DEF InItsTerm
    <3>4. templates'[row.template].start <= row.period
      BY <1>3, <1>6, <1>7, <2>1, <2>5 DEF RowTerm
    <3>5. row.period <= Cut(form) \/ row.period > Cut(form)
      BY <1>3, <2>2, <2>5, <3>2
    <3>6. RowTerm(templates', requests', done, now', e, row)
      BY <3>1, <3>3, <3>4, <3>5 DEF RowTerm
    <3>7. QED
      BY <2>3, <3>6 DEF row
  <2>6. QED
    BY <2>4, <2>5
<1>12. QED
  BY <1>5, <1>8, <1>10, <1>11, TermNow

(* Every row behind the cut is listed, and deleted.                        *)
LEMMA ListsTheCut ==
    ASSUME OneTab, AloneAll, TermInv, NEW tab \in Tabs, ListInstances(tab),
           NEW e \in Visible(expenses),
           expenses[e].template = forms[tab].template,
           expenses[e].period > Cut(forms[tab])
    PROVE  /\ e \in ListInstancesAfter(expenses, forms[tab].template,
                                       ListedFrom(forms[tab]))
           /\ Follow(tab, forms[tab], e) = Delete(tab, e)
<1> DEFINE form == forms[tab]
           row == expenses[e]
<1>1. /\ form.end \in Ends /\ form.nowAt \in Months /\ form.at = "saving"
      /\ "listInstances" \in CallsOf(form.kind)
      /\ FormTerm(templates, expenses, {}, now, form)
  BY NextCallTerm DEF ListInstances
<1>2. form.kind \in Cutters
  <2>1. form.kind \in Kinds
    BY NextCallFacts DEF ListInstances, AloneAll
  <2>2. QED
    BY <1>1, <2>1 DEF CallsOf, Cutters, Kinds
<1>3. form.template # None /\ form.expense # None
  BY <1>1, <1>2 DEF FormTerm
<1>4. form.month \in Months
  BY <1>3 DEF AloneAll, TypeInv, FormsFit, Fits
<1>5. row.period \in Nat /\ row.period # None
  BY <1>3, RowNumbers DEF AloneAll, Visible, AloneInv, TableFits
<1>6. form.month \in Nat /\ form.nowAt \in Nat /\ form.end \in Nat
  BY <1>1, <1>4, MonthsAreNumbers
<1>7. row.template = form.template /\ row.period > Cut(form)
  OBVIOUS
<1> HIDE DEF form
<1>8. row.period > ListedFrom(form)
  <2> HIDE DEF row
  <2>1. QED
    BY <1>5, <1>6, <1>7 DEF ListedFrom, Cut
<1>9. form.kind = "unfix" \/ row.period > form.end
  BY <1>7 DEF Cut
<1>10. QED
  BY <1>5, <1>7, <1>8, <1>9 DEF ListInstancesAfter, Follow, form

LEMMA ListInstancesTerm ==
    ASSUME OneTab, AloneAll, TermInv, NEW tab \in Tabs, ListInstances(tab)
    PROVE  TermInv'
<1> DEFINE form == forms[tab]
           done == Done(form)
           listed == ListInstancesAfter(expenses, form.template, ListedFrom(form))
           call(e) == Follow(tab, form, e)
<1>1. /\ form \in Form /\ form.at = "saving" /\ form.todo # <<>>
      /\ FormTerm(templates, expenses, {}, now, form)
      /\ \A e \in Visible(expenses) :
             RowTerm(templates, {}, form, now, e, expenses[e])
  BY NextCallTerm DEF ListInstances
<1>3. /\ requests' = requests \cup {call(e) : e \in listed}
      /\ forms' = [forms EXCEPT ![tab] = done]
      /\ UNCHANGED <<expenses, templates, now>>
  BY DEF ListInstances
<1>4. forms'[tab] = done
  BY <1>3 DEF AloneAll, TypeInv, TypeOK
<1>5. FormTerm(templates', expenses', requests', now', done)
  BY <1>1, <1>3, DoneTerm
<1> HIDE DEF done
<1>6. ASSUME NEW e \in Visible(expenses)
      PROVE  RowTerm(templates', requests', done, now', e, expenses'[e])
  <2> DEFINE row == expenses[e]
  <2>1. RowTerm(templates, {}, form, now, e, row)
    BY <1>1
  <2>2. ASSUME Condemned({}, form, e, row)
        PROVE  \E q \in requests' : q.expense = e /\ q.call = "deleteExpense"
    <3>1. row.template = form.template /\ row.period > Cut(form)
      BY <2>2 DEF Condemned
    <3>2. e \in listed /\ call(e) = Delete(tab, e)
      BY <3>1, ListsTheCut
    <3>3. call(e).expense = e /\ call(e).call = "deleteExpense"
      BY <3>2 DEF Delete
    <3> HIDE DEF call, listed
    <3>4. QED
      BY <1>3, <3>2, <3>3
  <2>3. RowTerm(templates, requests', done, now, e, row)
    BY <2>1, <2>2 DEF RowTerm, Condemned
  <2>4. QED
    BY <1>3, <2>3
<1>7. QED
  BY <1>3, <1>4, <1>5, <1>6, TermNow

LEMMA DeleteTemplateTerm ==
    ASSUME OneTab, ~Failures, AloneAll, TermInv, NEW tab \in Tabs,
           DeleteTemplate(tab)
    PROVE  TermInv'
<1> DEFINE form == forms[tab]
<1>1. /\ form \in Form /\ form.at = "saving" /\ form.todo # <<>>
      /\ "deleteTemplate" \in CallsOf(form.kind)
      /\ form.expense # None => KnowsRow(expenses, form)
      /\ FormTerm(templates, expenses, {}, now, form)
      /\ form.kind \notin Cutters => AllInTerm
  BY NextCallTerm DEF DeleteTemplate
<1>2. form.kind = "deleteAll" /\ AllInTerm
  <2>1. form.kind \in Kinds
    BY NextCallFacts DEF DeleteTemplate, AloneAll
  <2>2. QED
    BY <1>1, <2>1 DEF CallsOf, Cutters, Kinds
<1>3. form.template # None
  BY <1>1, <1>2 DEF FormTerm
<1>4. form.template \in Templates /\ ~Absent(templates, form.template)
  BY <1>1, <1>3, FormsTemplate
<1>5. /\ templates' = [templates EXCEPT ![form.template] = None]
      /\ expenses' = Cascade(expenses, form.template)
      /\ Answered(tab, form)
      /\ UNCHANGED <<requests, now>>
  BY <1>4 DEF DeleteTemplate
<1>6. \A u \in Templates \ {form.template} : templates'[u] = templates[u]
  BY <1>4, <1>5 DEF AloneAll, TypeInv, TypeOK
<1>7. forms'[tab] = Done(form)
  BY <1>5 DEF Answered, AloneAll, TypeInv, TypeOK
<1> HIDE DEF form
<1>8. FormTerm(templates', expenses', requests', now', Done(form))
  <2>1. FormTerm(templates', expenses', {}, now', form)
    BY <1>1, <1>2, <1>5 DEF FormTerm
  <2>2. QED
    BY <1>1, <2>1, DoneTerm
<1>9. ASSUME NEW e \in Visible(expenses')
      PROVE  RowTerm(templates', requests', Done(form), now', e, expenses'[e])
  <2>1. /\ e \in Visible(expenses) /\ expenses'[e] = expenses[e]
        /\ expenses[e].template # form.template
    BY <1>5 DEF Visible, Present, Cascade, AloneAll, TypeInv, TypeOK
  <2>2. expenses[e].template # None => expenses[e].template \in Templates
    BY <2>1, RowNumbers DEF AloneAll, Visible
  <2>3. QED
    BY <1>2, <1>5, <1>6, <2>1, <2>2 DEF AllInTerm, RowTerm, InItsTerm
<1>10. QED
  BY <1>7, <1>8, <1>9, TermNow

LEMMA SaveStepTerm ==
    ASSUME OneTab, ~Failures, AloneAll, TermInv, NEW tab \in Tabs,
           SaveStep(tab)
    PROVE  TermInv'
<1>1. CASE CallFails(tab)
  BY <1>1 DEF CallFails
<1>2. CASE Saved(tab)
  <2>1. /\ UNCHANGED <<expenses, requests, templates, now>>
        /\ forms' = [forms EXCEPT ![tab] = ClosedForm]
    BY <1>2 DEF Saved, Return
  <2>2. requests = {} /\ ~Cutting(forms[tab])
    BY <1>2, NothingUnderWay DEF AloneAll, Saved, Cutting
  <2>3. QED
    BY <2>1, <2>2, EmptyFormTerm, IdleTerm
<1>3. CASE SendUpdate(tab)
  BY <1>3, SentTerm DEF SendUpdate
<1>4. CASE SendDelete(tab)
  BY <1>4, SentTerm DEF SendDelete
<1>5. QED
  BY <1>1, <1>2, <1>3, <1>4, CreateTemplateTerm, CreateExpenseTerm,
     UpdateTemplateTerm, ListInstancesTerm, DeleteTemplateTerm DEF SaveStep

-----------------------------------------------------------------------------
(* Calls on the server. With nobody else at work none of them is refused.  *)

(* A call that moves no row to another slot and leaves the calls that      *)
(* delete, unless their row is gone.                                       *)
SlotsAndCallsKept ==
    /\ UNCHANGED <<templates, now, forms>>
    /\ \A p \in requests :
           p.call = "deleteExpense" /\ p.expense \in Visible(expenses') =>
               p \in requests'
    /\ \A e \in Present(expenses') :
           /\ e \in Present(expenses)
           /\ expenses'[e].template = expenses[e].template
           /\ expenses'[e].period = expenses[e].period
           /\ expenses[e].removed => expenses'[e].removed

LEMMA CallTerm ==
    ASSUME OneTab, AloneAll, TermInv, NEW q \in requests, SlotsAndCallsKept
    PROVE  TermInv'
<1> DEFINE form == forms[q.tab]
<1>1. q.tab \in Tabs /\ forms'[q.tab] = form
  BY CallRole DEF AloneAll, SlotsAndCallsKept
<1>2. FormTerm(templates, expenses, requests, now, form)
  BY <1>1 DEF TermInv
<1>3. RowsInTerm(form)
  BY <1>1 DEF TermInv
<1> HIDE DEF form
<1>4. FormTerm(templates', expenses', requests', now', form)
  BY <1>2 DEF FormTerm, Made, SlotsAndCallsKept
<1>5. ASSUME NEW e \in Visible(expenses')
      PROVE  RowTerm(templates', requests', form, now', e, expenses'[e])
  <2>1. /\ e \in Visible(expenses)
        /\ expenses'[e].template = expenses[e].template
        /\ expenses'[e].period = expenses[e].period
    BY DEF Visible, SlotsAndCallsKept
  <2>2. RowTerm(templates, requests, form, now, e, expenses[e])
    BY <1>3, <2>1 DEF RowsInTerm
  <2>3. Condemned(requests, form, e, expenses[e]) =>
            Condemned(requests', form, e, expenses'[e])
    BY <2>1 DEF Condemned, SlotsAndCallsKept
  <2>4. InItsTerm(templates, now, expenses[e]) =>
            InItsTerm(templates', now', expenses'[e])
    BY <2>1 DEF InItsTerm, SlotsAndCallsKept
  <2>5. QED
    BY <2>1, <2>2, <2>3, <2>4 DEF RowTerm, SlotsAndCallsKept
<1>6. QED
  BY <1>1, <1>4, <1>5, TermNow

(* What a form asks of its own row, field by field.                        *)
LEMMA OwnAsks ==
    ASSUME AloneAll, NEW q, NEW form, NEW table, Own(table, q, form),
           form.at = "saving", Fits(form), FormAlone(table, form),
           q.call = "updateExpense"
    PROVE  LET old == table[q.expense]
           IN  /\ form.kind # "convert" =>
                      /\ q.patch.template = None /\ q.patch.period = None
                      /\ q.patch.month # None /\ form.period # None =>
                             q.patch.month = form.period
               /\ form.kind = "convert" =>
                      /\ q.patch.template = form.created
                      /\ q.patch.period = form.date /\ q.patch.month = form.date
               /\ form.kind = "convert" => form.todo = <<>>
               /\ old.template = form.template /\ old.period = form.period
               /\ form.date \in Months /\ form.date # None
<1>1. /\ q.patch = OwnPatch(form) /\ form.kind # "deleteAll"
      /\ form.kind = "convert" => form.todo = <<>>
      /\ table[q.expense].template = form.template
      /\ table[q.expense].period = form.period
  BY DEF Own, KnowsRow
<1>2. form.date \in Months /\ form.date # None
  BY StoreAssumption DEF Fits
<1>3. form.kind \notin {"deleteMonth", "deleteAll"} /\ form.period # None =>
          form.date = form.period
  BY DEF FormAlone
<1>4. CASE form.kind = "deleteMonth"
  BY <1>1, <1>2, <1>4 DEF OwnPatch, NoPatch
<1>5. CASE form.kind = "convert"
  BY <1>1, <1>2, <1>5 DEF OwnPatch, NoPatch
<1>6. CASE form.kind \notin {"deleteMonth", "convert"}
  BY <1>1, <1>2, <1>3, <1>6 DEF OwnPatch, NoPatch
<1>7. QED
  BY <1>4, <1>5, <1>6

LEMMA CheckUpdateKeeps ==
    ASSUME OneTab, AloneAll, NEW q \in requests, CheckUpdate(q)
    PROVE  SlotsAndCallsKept
<1> DEFINE form == forms[q.tab]
           row == expenses[q.expense]
<1>1. /\ form.at = "saving" /\ form \in Form /\ Fits(form)
      /\ FormAlone(expenses, form)
      /\ q.expense \in Expenses /\ row # None
      /\ Own(expenses, q, form) \/ Carries(expenses, q, form)
  BY CallRole DEF AloneAll
<1>2. row.template # None => row.period # None
  <2>1. q.expense \in Present(expenses)
    BY <1>1 DEF Present, AloneAll, TypeInv, TypeOK
  <2>2. QED
    BY <2>1 DEF AloneAll, AloneInv, TableFits
<1>3. q.call = "updateExpense"
  BY DEF CheckUpdate
<1>4. Acceptable(row, q.patch)
  <2>1. CASE Own(expenses, q, form)
    <3>1. /\ form.kind # "convert" =>
                 /\ q.patch.template = None /\ q.patch.period = None
                 /\ q.patch.month # None /\ form.period # None =>
                        q.patch.month = form.period
          /\ form.kind = "convert" =>
                 q.patch.period = form.date /\ q.patch.month = form.date
          /\ row.period = form.period
          /\ form.date # None
      BY <1>1, <1>3, <2>1, OwnAsks
    <3> HIDE DEF form, row
    <3>2. QED
      BY <1>2, <3>1 DEF Acceptable, Sent
  <2>2. CASE Carries(expenses, q, form)
    <3>1. /\ q.patch.template = None /\ q.patch.period = None
          /\ q.patch.month \in {None, row.period}
      BY <2>2 DEF Carries, NoPatch
    <3> HIDE DEF form, row
    <3>2. QED
      BY <1>2, <3>1 DEF Acceptable, Sent
  <2>3. QED
    BY <1>1, <2>1, <2>2
<1>5. /\ requests' = (requests \ {q}) \cup {[q EXCEPT !.checked = TRUE]}
      /\ UNCHANGED <<templates, now, forms, expenses>>
  BY <1>1, <1>4 DEF CheckUpdate
<1>6. \A p \in requests : p.call = "deleteExpense" => p \in requests'
  BY <1>3, <1>5
<1>7. QED
  BY <1>5, <1>6 DEF SlotsAndCallsKept

LEMMA RemoveExpenseKeeps ==
    ASSUME OneTab, AloneAll, NEW q \in requests, RemoveExpense(q)
    PROVE  SlotsAndCallsKept
<1>1. q.expense \in Expenses /\ expenses[q.expense] # None
  BY CallRole DEF AloneAll
<1>2. /\ expenses' = [expenses EXCEPT ![q.expense] = None]
      /\ requests' = requests \ {q}
      /\ UNCHANGED <<templates, now, forms>>
  BY <1>1 DEF RemoveExpense, Absent, Answer
<1>3. \A e \in Present(expenses') :
          e # q.expense /\ e \in Present(expenses) /\ expenses'[e] = expenses[e]
  BY <1>1, <1>2 DEF Present, AloneAll, TypeInv, TypeOK
<1>4. \A p \in requests : p.expense \in Visible(expenses') => p \in requests'
  BY <1>2, <1>3 DEF Visible
<1>5. QED
  BY <1>2, <1>3, <1>4 DEF SlotsAndCallsKept

(* A row is written that stays in its slot.                                *)
LEMMA WriteKeeps ==
    ASSUME OneTab, AloneAll, NEW q \in requests, WriteUpdate(q),
           q.patch.template = None, q.patch.period = None
    PROVE  SlotsAndCallsKept
<1> DEFINE old == expenses[q.expense]
           row == Patched(old, q.patch)
<1>1. q.expense \in Expenses /\ old # None /\ ~old.removed
  BY CallRole DEF AloneAll
<1>2. q.expense \in Present(expenses)
  BY <1>1 DEF Present, AloneAll, TypeInv, TypeOK
<1>3. row.template = old.template /\ row.period = old.period
  BY DEF Patched, Sent
<1>4. ~Refused(templates, expenses, q.expense, q.patch)
  <2>1. ~SlotTaken(expenses, row.template, row.period, {q.expense})
    BY <1>2, <1>3 DEF SlotTaken, AloneAll, AloneInv, TableFits
  <2>2. Refers(templates, row.template)
    BY <1>2, <1>3 DEF AloneAll, TypeInv, ForeignKey
  <2>3. QED
    BY <2>1, <2>2 DEF Refused
<1>5. /\ expenses' = [expenses EXCEPT ![q.expense] = row]
      /\ requests' = requests \ {q}
      /\ UNCHANGED <<templates, now, forms>>
  BY <1>1, <1>4 DEF WriteUpdate, Answer
<1> HIDE DEF row
<1>6. ASSUME NEW e \in Present(expenses')
      PROVE  /\ e \in Present(expenses)
             /\ expenses'[e].template = expenses[e].template
             /\ expenses'[e].period = expenses[e].period
             /\ expenses[e].removed => expenses'[e].removed
  <2>1. e \in Expenses /\ expenses'[e] # None
    BY <1>5 DEF Present, AloneAll, TypeInv, TypeOK
  <2>2. CASE e = q.expense
    <3>1. expenses'[e] = row
      BY <1>1, <1>5, <2>2 DEF AloneAll, TypeInv, TypeOK
    <3>2. QED
      BY <1>1, <1>2, <1>3, <2>2, <3>1
  <2>3. CASE e # q.expense
    <3>1. expenses'[e] = expenses[e]
      BY <1>5, <2>1, <2>3 DEF AloneAll, TypeInv, TypeOK
    <3>2. QED
      BY <2>1, <3>1 DEF Present, AloneAll, TypeInv, TypeOK
  <2>4. QED
    BY <2>2, <2>3
<1>7. \A p \in requests : p.call = "deleteExpense" => p \in requests'
  BY <1>5 DEF WriteUpdate
<1>8. QED
  BY <1>5, <1>6, <1>7 DEF SlotsAndCallsKept

(* An expense becomes the first instance of the template its form made.    *)
LEMMA ConvertTerm ==
    ASSUME OneTab, AloneAll, TermInv, NEW q \in requests, WriteUpdate(q),
           requests = {q}, Own(expenses, q, forms[q.tab]),
           forms[q.tab].kind = "convert"
    PROVE  TermInv'
<1> DEFINE form == forms[q.tab]
           old == expenses[q.expense]
           row == Patched(old, q.patch)
<1>1. /\ q.tab \in Tabs /\ q.expense \in Expenses /\ old # None
      /\ form.at = "saving" /\ form \in Form /\ Fits(form)
      /\ FormAlone(expenses, form) /\ form.kind = "convert"
  BY CallRole DEF AloneAll
<1>2. /\ q.patch.template = form.created
      /\ q.patch.period = form.date
      /\ form.todo = <<>>
      /\ old.template = form.template
      /\ form.date \in Months /\ form.date # None
  <2>1. q.call = "updateExpense"
    BY DEF WriteUpdate
  <2>2. QED
    BY <1>1, <2>1, OwnAsks
<1>3. FormTerm(templates, expenses, requests, now, form)
  BY <1>1 DEF TermInv
<1>4. /\ form.template = None /\ form.date <= form.end
      /\ form.created # None => Made(templates, expenses, form)
  <2> HIDE DEF form
  <2>1. QED
    BY <1>1, <1>3 DEF FormTerm
<1>5. row.template = form.created /\ row.period = form.date
  BY <1>2, <1>4 DEF Patched, Sent
<1>6. AllInTerm
  <2>1. \A p \in requests : p.call # "deleteExpense"
    BY DEF WriteUpdate
  <2>2. ~Cutting(form)
    BY <1>2 DEF Cutting
  <2>3. \A e : ~Condemned(requests, form, e, expenses[e])
    BY <2>1, <2>2 DEF Condemned
  <2>4. QED
    BY <1>1, <2>3 DEF TermInv, RowsInTerm, RowTerm, AllInTerm
<1>7. ~Refused(templates, expenses, q.expense, q.patch)
  <2>1. ~SlotTaken(expenses, row.template, row.period, {q.expense})
    BY <1>4, <1>5 DEF SlotTaken, Made
  <2>2. Refers(templates, row.template)
    <3>1. form.end \in Ends
      BY <1>1 DEF Fits
    <3>2. [start |-> form.date, end |-> form.end, active |-> TRUE] \in TemplateRow
      BY <1>2, <3>1 DEF TemplateRow
    <3> HIDE DEF row, form
    <3>3. form.created # None => templates[form.created] \in TemplateRow
      BY <1>4, <3>2 DEF Made
    <3>4. QED
      BY <1>5, <3>3, StoreAssumption DEF Refers, Absent
  <2>3. QED
    BY <2>1, <2>2 DEF Refused
<1>8. /\ expenses' = [expenses EXCEPT ![q.expense] = row]
      /\ requests' = {}
      /\ UNCHANGED <<templates, now, forms>>
  BY <1>1, <1>7 DEF WriteUpdate, Answer
<1>9. expenses'[q.expense] = row
  BY <1>1, <1>8 DEF AloneAll, TypeInv, TypeOK
<1> HIDE DEF row
<1>10. FormTerm(templates', expenses', requests', now', form)
  <2> HIDE DEF form
  <2>1. QED
    BY <1>2, <1>3, <1>8 DEF FormTerm
<1>11. ASSUME NEW e \in Visible(expenses')
       PROVE  RowTerm(templates', requests', form, now', e, expenses'[e])
  <2>1. CASE e = q.expense
    <3> HIDE DEF form
    <3>1. row.template # None =>
              /\ templates[row.template].start = row.period
              /\ templates[row.template].active
              /\ row.period <= templates[row.template].end
      BY <1>4, <1>5 DEF Made
    <3>2. row.period <= row.period
      <4>1. form.date \in Nat
        BY <1>2, MonthsAreNumbers
      <4>2. QED
        BY <1>5, <4>1
    <3>3. QED
      BY <1>8, <1>9, <2>1, <3>1, <3>2 DEF RowTerm, InItsTerm
  <2>2. CASE e # q.expense
    <3>1. e \in Visible(expenses) /\ expenses'[e] = expenses[e]
      BY <1>8, <2>2 DEF Visible, Present, AloneAll, TypeInv, TypeOK
    <3>2. QED
      BY <1>6, <1>8, <3>1 DEF AllInTerm, RowTerm
  <2>3. QED
    BY <2>1, <2>2
<1>12. forms'[q.tab] = form
  BY <1>8
<1>13. QED
  BY <1>1, <1>10, <1>11, <1>12, TermNow

LEMMA RequestKeeps ==
    ASSUME OneTab, ~Failures, AloneAll, NEW q \in requests, RequestStep(q)
    PROVE  \/ SlotsAndCallsKept
           \/ /\ WriteUpdate(q) /\ requests = {q}
              /\ Own(expenses, q, forms[q.tab])
              /\ forms[q.tab].kind = "convert"
<1> DEFINE form == forms[q.tab]
<1>1. /\ form.at = "saving" /\ Fits(form) /\ FormAlone(expenses, form)
      /\ \/ requests = {q} /\ Own(expenses, q, form)
         \/ Carries(expenses, q, form)
  BY CallRole DEF AloneAll
<1>2. CASE WriteUpdate(q) /\ Carries(expenses, q, form)
  <2>1. q.patch.template = None /\ q.patch.period = None
    BY <1>2 DEF Carries, NoPatch
  <2>2. QED
    BY <1>2, <2>1, WriteKeeps
<1>3. CASE WriteUpdate(q) /\ requests = {q} /\ Own(expenses, q, form)
  <2>1. q.call = "updateExpense"
    BY <1>3 DEF WriteUpdate
  <2>2. form.kind # "convert" => q.patch.template = None /\ q.patch.period = None
    BY <1>1, <1>3, <2>1, OwnAsks
  <2>3. QED
    BY <1>3, <2>2, WriteKeeps
<1>4. QED
  BY <1>1, <1>2, <1>3, CheckUpdateKeeps, RemoveExpenseKeeps
     DEF RequestStep, RequestLost

LEMMA TermStep ==
    ASSUME OneTab, ~Failures, AloneAll, NoSaveInLoad, PlansInv, TermInv,
           [Next]_vars
    PROVE  TermInv'
<1>1. PICK tab : tab \in Tabs
  BY DEF OneTab
<1>2. CASE UNCHANGED vars
  BY <1>2 DEF vars, TermInv, RowsInTerm
<1>3. CASE MonthPasses
  BY <1>1, <1>3, MonthPassesTerm
<1>4. ASSUME NEW l \in Loads, LoadStep(l) PROVE TermInv'
  BY <1>1, <1>4, LoadStepTerm
<1>5. ASSUME NEW q \in requests, RequestStep(q) PROVE TermInv'
  BY <1>5, RequestKeeps, CallTerm, ConvertTerm
<1>6. QED
  BY <1>2, <1>3, <1>4, <1>5, UserStepTerm, SaveStepTerm DEF Next

LEMMA SettledCorrect ==
    ASSUME OneTab, ~Failures, ~Overlapping
    PROVE  Spec => [](AloneAll /\ NoSaveInLoad /\ PlansInv /\ TermInv)
<1> DEFINE Inv == NoSaveInLoad /\ PlansInv /\ TermInv
<1>1. Init => Inv
  <2> SUFFICES ASSUME Init PROVE Inv
    OBVIOUS
  <2>1. \A l \in Loads : loads[l].at = "free"
    BY DEF Init, FreeLoad
  <2>2. NoSaveInLoad /\ PlansInv
    BY <2>1 DEF NoSaveInLoad, PlansInv, LoadPlans
  <2>3. Visible(expenses) = {}
    BY DEF Init, Visible, Present
  <2>4. \A tab \in Tabs :
            FormTerm(templates, expenses, requests, now, forms[tab])
    BY EmptyFormTerm DEF Init
  <2>5. QED
    BY <2>2, <2>3, <2>4 DEF TermInv, RowsInTerm
<1>2. AloneAll /\ AloneAll' /\ Inv /\ [Next]_vars => Inv'
  BY NoSaveStep, PlansStep, TermStep
<1>3. QED
  BY <1>1, <1>2, AloneCorrect, PTL DEF Spec

(* SettledInTerm: in one tab whose calls are answered and whose saves wait *)
(* for its loads, every row that is left when nothing is under way lies in *)
(* the term of its template, and one of a template that was switched off   *)
(* is not in the future: what a save does to the rows behind its cut       *)
(* (asset-recurring.ts:208-252) reaches all of them.                       *)
THEOREM SettlesInTerm ==
    ASSUME OneTab, ~Failures, ~Overlapping
    PROVE  Spec => []SettledInTerm
<1>1. AloneAll /\ TermInv => SettledInTerm
  <2> SUFFICES ASSUME AloneAll, TermInv, Quiet PROVE SettledInTerm
    BY DEF SettledInTerm
  <2>1. PICK tab : tab \in Tabs
    BY DEF OneTab
  <2>2. AllInTerm
    BY <2>1, NobodyCondemned DEF Quiet, Cutting
  <2>3. QED
    BY <2>2 DEF AllInTerm, InItsTerm, InTerm, SettledInTerm
<1>2. QED
  BY <1>1, SettledCorrect, PTL

-----------------------------------------------------------------------------
(* A save that has listed the rows behind its cut deletes each of them     *)
(* before it ends.                                                         *)

CutDone(calls, table, form) ==
    form.at = "saving" /\ form.kind \in Cutters /\ form.todo = <<>> =>
        \A e \in Visible(table) :
            table[e].template = form.template /\ table[e].period > Cut(form) =>
                \E q \in calls : q.expense = e /\ q.call = "deleteExpense"

CutsInv == \A tab \in Tabs : CutDone(requests, expenses, forms[tab])

LEMMA SaveStepCuts ==
    ASSUME OneTab, ~Failures, AloneAll, TermInv, NEW tab \in Tabs, SaveStep(tab)
    PROVE  CutDone(requests', expenses', forms'[tab])
<1> DEFINE form == forms[tab]
           done == Done(form)
<1>1. forms \in [Tabs -> Form] /\ form \in Form
  BY DEF AloneAll, TypeInv, TypeOK
<1>2. ASSUME forms'[tab].at # "saving"
      PROVE  CutDone(requests', expenses', forms'[tab])
  BY <1>2 DEF CutDone
<1>3. CASE forms' = [forms EXCEPT ![tab] = Reopened(@)]
  <2>1. forms'[tab] = Reopened(form)
    BY <1>1, <1>3
  <2>2. Reopened(form).at = "open"
    BY <1>1 DEF Reopened, Form
  <2>3. QED
    BY <1>2, <2>1, <2>2
<1>4. CASE Saved(tab) \/ CallFails(tab)
  <2>1. forms'[tab] = ClosedForm
    BY <1>1, <1>4 DEF Saved, Return, CallFails
  <2>2. QED
    BY <1>2, <2>1 DEF ClosedForm
<1>5. ASSUME NEW call, NextCall(tab, call), call # "listInstances",
             NEW told \in Form, told.kind = form.kind,
             told.todo = form.todo, forms' = [forms EXCEPT ![tab] = Done(told)]
      PROVE  CutDone(requests', expenses', forms'[tab])
  <2>1. form.kind \in Cutters => Tail(form.todo) # <<>>
    BY <1>5, NextCallTerm
  <2>2. forms'[tab] = Done(told)
    BY <1>1, <1>5
  <2> DEFINE new == Done(told)
  <2>3. new.kind = form.kind /\ new.todo = Tail(form.todo)
    BY <1>5 DEF Done, Form
  <2> HIDE DEF new, form
  <2>4. CutDone(requests', expenses', new)
    BY <2>1, <2>3 DEF CutDone
  <2>5. QED
    BY <2>2, <2>4 DEF new
<1>6. CASE ListInstances(tab)
  <2>1. TermInv'
    BY <1>6, ListInstancesTerm
  <2> DEFINE listed == ListInstancesAfter(expenses, form.template, ListedFrom(form))
             call(e) == Follow(tab, form, e)
  <2>2. /\ requests' = requests \cup {call(e) : e \in listed}
        /\ forms' = [forms EXCEPT ![tab] = done]
        /\ UNCHANGED expenses
    BY <1>6 DEF ListInstances
  <2>3. ASSUME NEW e \in Visible(expenses), form.kind \in Cutters,
               expenses[e].template = form.template,
               expenses[e].period > Cut(form)
        PROVE  \E q \in requests' : q.expense = e /\ q.call = "deleteExpense"
    <3>1. e \in listed /\ call(e) = Delete(tab, e)
      BY <1>6, <2>3, ListsTheCut
    <3>2. call(e).expense = e /\ call(e).call = "deleteExpense"
      BY <3>1 DEF Delete
    <3> HIDE DEF call, listed
    <3>3. QED
      BY <2>2, <3>1, <3>2
  <2>4. forms'[tab] = done
    BY <1>1, <2>2
  <2>5. done.kind = form.kind /\ done.template = form.template
        /\ done.end = form.end /\ done.nowAt = form.nowAt
    BY <1>1 DEF Done, Form
  <2> HIDE DEF done, form
  <2>6. Cut(done) = Cut(form)
    BY <2>5 DEF Cut
  <2>7. QED
    BY <2>2, <2>3, <2>4, <2>5, <2>6 DEF CutDone
<1>7. CASE CreateTemplate(tab)
  <2>1. PICK t \in FreshTemplate :
            Answered(tab, [form EXCEPT !.created = t, !.made = @ + 1])
    BY <1>7, Zenon DEF CreateTemplate
  <2> DEFINE told == [form EXCEPT !.created = t, !.made = @ + 1]
  <2>2. told \in Form
    BY <1>1, ToldType DEF FreshTemplate
  <2>3. told.kind = form.kind /\ told.todo = form.todo
    BY <1>1 DEF Form
  <2>4. forms' = [forms EXCEPT ![tab] = Done(told)]
    BY <2>1 DEF Answered
  <2>5. NextCall(tab, "createTemplate")
    BY <1>7 DEF CreateTemplate
  <2> HIDE DEF told, form
  <2>6. QED
    BY <1>5, <2>2, <2>3, <2>4, <2>5
<1>8. ASSUME NEW call \in {"createExpense", "updateExpense", "deleteExpense",
                           "updateTemplate", "deleteTemplate"},
             NextCall(tab, call), forms' = [forms EXCEPT ![tab] = Done(form)]
      PROVE  CutDone(requests', expenses', forms'[tab])
  BY <1>1, <1>5, <1>8
<1>9. CASE CreateExpense(tab) \/ UpdateTemplate(tab) \/ DeleteTemplate(tab)
  BY <1>3, <1>8, <1>9
     DEF CreateExpense, UpdateTemplate, DeleteTemplate, SaveFails, Answered
<1>10. CASE SendUpdate(tab) \/ SendDelete(tab)
  BY <1>8, <1>10 DEF SendUpdate, SendDelete
<1>11. QED
  BY <1>4, <1>6, <1>7, <1>9, <1>10 DEF SaveStep

LEMMA CutsStep ==
    ASSUME OneTab, ~Failures, AloneAll, NoSaveInLoad, TermInv, CutsInv,
           [Next]_vars
    PROVE  CutsInv'
<1>1. ASSUME NEW tab \in Tabs, CutDone(requests', expenses', forms'[tab])
      PROVE  CutsInv'
  BY <1>1, OnlyTab DEF CutsInv
<1>2. forms \in [Tabs -> Form]
  BY DEF AloneAll, TypeInv, TypeOK
<1>3. CASE MonthPasses \/ UNCHANGED vars
  BY <1>3 DEF MonthPasses, vars, CutsInv
<1>4. ASSUME NEW l \in Loads, LoadStep(l) PROVE CutsInv'
  <2>1. UNCHANGED forms /\ loads[l].at # "free"
    BY <1>4, LoadStepBusy
       DEF AloneAll, LoadStep, Read, Decide, Materialize, ShowLoad, ReadFails
  <2>2. QED
    BY <2>1 DEF NoSaveInLoad, CutsInv, CutDone
<1>5. ASSUME NEW tab \in Tabs, UserStep(tab) PROVE CutsInv'
  <2>1. ASSUME forms'[tab].at # "saving" PROVE CutsInv'
    BY <1>1, <2>1 DEF CutDone
  <2>2. CASE VisitLedger(tab) \/ SelectMonth(tab)
    <3>1. forms[tab].at = "closed" /\ UNCHANGED forms
      BY <2>2, UncoveredIsClosed DEF AloneAll, VisitLedger, SelectMonth
    <3>2. QED
      BY <2>1, <3>1
  <2>3. CASE OpenNew(tab) \/ Cancel(tab)
    <3>1. \/ forms' = [forms EXCEPT ![tab] = [ClosedForm EXCEPT !.at = "open"]]
          \/ forms' = [forms EXCEPT ![tab] = ClosedForm]
      BY <2>3 DEF OpenNew, Cancel, Return
    <3>2. forms'[tab].at # "saving"
      BY <1>2, <3>1 DEF ClosedForm
    <3>3. QED
      BY <2>1, <3>2
  <2>4. ASSUME NEW e \in Expenses, OpenEdit(tab, e) PROVE CutsInv'
    <3>1. forms'[tab].at = "open"
      BY <1>2, <2>4 DEF OpenEdit, ClosedForm
    <3>2. QED
      BY <2>1, <3>1
  <2>5. CASE Save(tab)
    <3> DEFINE form == forms[tab]
               saved(kind, date, end) ==
                   [form EXCEPT !.at = "saving", !.kind = kind,
                                !.date = date, !.end = end, !.nowAt = now,
                                !.todo = Script(form, kind, date)]
    <3>1. \E kind, date, end :
              forms' = [forms EXCEPT ![tab] = saved(kind, date, end)]
      BY <2>5, Zenon DEF Save
    <3>2. PICK kind, date, end :
              forms' = [forms EXCEPT ![tab] = saved(kind, date, end)]
      BY <3>1
    <3> DEFINE new == saved(kind, date, end)
    <3>3. forms'[tab] = new
      BY <1>2, <3>2
    <3>4. new.kind = kind /\ new.todo = Script(form, kind, date)
      BY <1>2 DEF Form
    <3>5. kind \in Cutters => Script(form, kind, date) # <<>>
      BY DEF Cutters, Script
    <3> HIDE DEF new, form
    <3>6. CutDone(requests', expenses', new)
      BY <3>4, <3>5 DEF CutDone
    <3>7. QED
      BY <1>1, <3>3, <3>6
  <2>6. QED
    BY <1>5, <2>2, <2>3, <2>4, <2>5 DEF UserStep
<1>6. ASSUME NEW tab \in Tabs, SaveStep(tab) PROVE CutsInv'
  BY <1>1, <1>6, SaveStepCuts
<1>7. ASSUME NEW q \in requests, RequestStep(q) PROVE CutsInv'
  <2> DEFINE form == forms[q.tab]
  <2>1. q.tab \in Tabs
    BY CallRole DEF AloneAll
  <2>2. CutDone(requests, expenses, form)
    BY <2>1 DEF CutsInv
  <2>3. CASE SlotsAndCallsKept
    <3>1. forms'[q.tab] = form
      BY <2>3 DEF SlotsAndCallsKept
    <3> HIDE DEF form
    <3>2. ASSUME NEW e \in Visible(expenses')
          PROVE  /\ e \in Visible(expenses)
                 /\ expenses'[e].template = expenses[e].template
                 /\ expenses'[e].period = expenses[e].period
      BY <2>3 DEF Visible, SlotsAndCallsKept
    <3>3. CutDone(requests', expenses', form)
      BY <2>2, <2>3, <3>2 DEF CutDone, SlotsAndCallsKept
    <3>4. QED
      BY <1>1, <2>1, <3>1, <3>3
  <2>4. CASE WriteUpdate(q) /\ form.kind = "convert"
    <3>1. form \in Form
      BY <1>2, <2>1
    <3>2. Reopened(form).at = "open"
      BY <3>1 DEF Reopened, Form
    <3>3. forms' = [forms EXCEPT ![q.tab] = Reopened(@)] \/ UNCHANGED forms
      BY <2>4 DEF WriteUpdate, Answer, RequestFails, SaveFails
    <3>4. forms'[q.tab].at = "open" \/ forms'[q.tab].kind = "convert"
      BY <1>2, <2>1, <2>4, <3>2, <3>3
    <3>5. CutDone(requests', expenses', forms'[q.tab])
      BY <3>4 DEF CutDone, Cutters
    <3>6. QED
      BY <1>1, <2>1, <3>5
  <2>5. QED
    BY <1>7, <2>3, <2>4, RequestKeeps
<1>8. QED
  BY <1>3, <1>4, <1>5, <1>6, <1>7 DEF Next

(* Only its own end closes a form that saves.                              *)
LEMMA ClosedBySaved ==
    ASSUME OneTab, ~Failures, AloneAll, NEW tab \in Tabs, [Next]_vars,
           forms[tab].at = "saving", forms'[tab].at = "closed"
    PROVE  Saved(tab)
<1>1. forms \in [Tabs -> Form] /\ forms[tab] \in Form
  BY DEF AloneAll, TypeInv, TypeOK
<1>2. ASSUME NEW form \in Form PROVE Done(form).at = form.at
  BY DEF Done, Form
<1>3. Reopened(forms[tab]).at = "open"
  BY <1>1 DEF Reopened, Form
<1>4. ~(forms' = [forms EXCEPT ![tab] = Reopened(@)]) /\ forms' # forms
  BY <1>1, <1>3
<1>5. ~UNCHANGED vars /\ ~MonthPasses
  BY <1>4 DEF vars, MonthPasses
<1>6. ASSUME NEW l \in Loads PROVE ~LoadStep(l)
  BY <1>4 DEF LoadStep, Read, Decide, Materialize, ShowLoad, ReadFails
<1>7. ASSUME NEW u \in Tabs, UserStep(u) PROVE FALSE
  <2>1. u = tab
    BY OnlyTab
  <2>2. ~OpenNew(tab) /\ ~(\E e \in Expenses : OpenEdit(tab, e))
    BY UncoveredIsClosed DEF AloneAll, OpenNew, OpenEdit
  <2>3. QED
    BY <1>4, <1>7, <2>1, <2>2
       DEF UserStep, VisitLedger, SelectMonth, Save, Cancel
<1>8. ASSUME NEW q \in requests, RequestStep(q) PROVE FALSE
  <2>1. q.tab = tab
    BY OneTabOnly DEF AloneAll, TypeInv
  <2>2. forms' = [forms EXCEPT ![tab] = Reopened(@)] \/ forms' = forms
    BY <1>8, <2>1
       DEF RequestStep, RequestLost, CheckUpdate, WriteUpdate, RemoveExpense,
           Answer, RequestFails, SaveFails
  <2>3. QED
    BY <1>4, <2>2
<1>9. ASSUME NEW u \in Tabs, SaveStep(u) PROVE Saved(tab)
  <2>1. u = tab
    BY OnlyTab
  <2>2. ASSUME NEW form \in Form, form.at = "saving",
               forms' = [forms EXCEPT ![tab] = Done(form)]
        PROVE  FALSE
    BY <1>1, <1>2, <2>2
  <2>3. ASSUME Answered(tab, forms[tab]) PROVE FALSE
    BY <1>1, <2>2, <2>3 DEF Answered
  <2>4. ~CreateTemplate(tab)
    <3> SUFFICES ASSUME CreateTemplate(tab) PROVE FALSE
      OBVIOUS
    <3>1. PICK t \in FreshTemplate :
              Answered(tab, [forms[tab] EXCEPT !.created = t, !.made = @ + 1])
      BY Zenon DEF CreateTemplate
    <3> DEFINE told == [forms[tab] EXCEPT !.created = t, !.made = @ + 1]
    <3>2. told \in Form
      BY <1>1, ToldType DEF FreshTemplate
    <3>3. told.at = "saving"
      BY <1>1 DEF Form
    <3>4. forms' = [forms EXCEPT ![tab] = Done(told)]
      BY <3>1 DEF Answered
    <3> HIDE DEF told
    <3>5. QED
      BY <2>2, <3>2, <3>3, <3>4
  <2>5. ~(CreateExpense(tab) \/ UpdateTemplate(tab) \/ DeleteTemplate(tab))
    BY <1>4, <2>3 DEF CreateExpense, UpdateTemplate, DeleteTemplate, SaveFails
  <2>6. ~(SendUpdate(tab) \/ SendDelete(tab) \/ ListInstances(tab))
    BY <1>1, <2>2 DEF SendUpdate, SendDelete, ListInstances
  <2>7. QED
    BY <1>9, <2>1, <2>4, <2>5, <2>6 DEF SaveStep, CallFails
<1>10. QED
  BY <1>5, <1>6, <1>7, <1>8, <1>9 DEF Next

(* SaveDoesItAll: under the same conditions a save that went through has   *)
(* left no row behind its cut, although the rows are deleted by calls of   *)
(* their own that are answered in any order (asset-recurring.ts:208-252).  *)
THEOREM SavesAreComplete ==
    ASSUME OneTab, ~Failures, ~Overlapping
    PROVE  Spec => SaveDoesItAll
<1>1. Init => CutsInv
  BY DEF Init, CutsInv, CutDone, ClosedForm
<1>2. /\ AloneAll /\ NoSaveInLoad /\ TermInv /\ CutsInv /\ [Next]_vars
      => CutsInv'
  BY CutsStep
<1>3. ASSUME AloneAll, CutsInv, [Next]_vars, NEW tab \in Tabs, GoesThrough(tab)
      PROVE  NothingBeyond(forms[tab])
  <2>1. Saved(tab)
    BY <1>3, ClosedBySaved DEF GoesThrough
  <2>2. /\ requests = {} /\ forms[tab].todo = <<>>
        /\ forms[tab].at = "saving"
    BY <1>3, <2>1, NothingUnderWay DEF AloneAll, Saved
  <2>3. forms[tab].kind \in Cutters =>
            ~\E e \in Visible(expenses) :
                /\ expenses[e].template = forms[tab].template
                /\ expenses[e].period > Cut(forms[tab])
    BY <1>3, <2>2 DEF CutsInv, CutDone
  <2>4. QED
    BY <2>3 DEF Cutters, Cut, NothingBeyond
<1>4. AloneAll /\ CutsInv /\ [Next]_vars =>
          [\A tab \in Tabs : GoesThrough(tab) => NothingBeyond(forms[tab])]_vars
  BY <1>3
<1>5. QED
  BY <1>1, <1>2, <1>4, SettledCorrect, PTL DEF Spec, SaveDoesItAll

-----------------------------------------------------------------------------
(* While no save and no other load begins in a load, what a load has read  *)
(* stays true until the page shows it.                                     *)

OneLoad ==
    \A k, l \in Loads :
        loads[k].at # "free" /\ loads[l].at # "free" => k = l

HasSlot(table, t, m) ==
    \E e \in Present(table) : table[e].template = t /\ table[e].period = m

LoadComplete(table, plan, time, load) ==
    load.at # "free" =>
        /\ "expenses" \notin load.pending =>
               \A e \in ListByMonth(table, load.month) :
                   [expense |-> e, template |-> table[e].template] \in load.rows
        /\ "templates" \notin load.pending =>
               ListDue(plan, load.month) \subseteq load.due
        /\ "slots" \notin load.pending =>
               \A t \in load.occupied : HasSlot(table, t, load.month)
        /\ load.at = "writing" =>
               /\ load.pending = {}
               /\ load.month <= time =>
                      \A t \in load.due :
                          t \in load.targets \/ HasSlot(table, t, load.month)

(* A row the ledger hides was hidden by "delete this month only".          *)
RemovedAreSkipped ==
    \A e \in Present(expenses) :
        expenses[e].removed /\ expenses[e].template # None =>
            <<expenses[e].template, expenses[e].period>> \in skipped

CompleteInv ==
    /\ OneLoad
    /\ \A l \in Loads : LoadComplete(expenses, templates, now, loads[l])
    /\ RemovedAreSkipped

LEMMA ReadCompletes ==
    ASSUME TypeInv, NEW l \in Loads, NEW what \in Reads, Read(l, what),
           LoadComplete(expenses, templates, now, loads[l])
    PROVE  \E new : /\ loads' = [loads EXCEPT ![l] = new]
                    /\ LoadComplete(expenses, templates, now, new)
<1> DEFINE load == loads[l]
           rest == load.pending \ {what}
           rows == {[expense |-> e, template |-> expenses[e].template] :
                       e \in ListByMonth(expenses, load.month)}
           slots == ListMonthSlots(expenses, load.month)
           due == ListDue(templates, load.month)
<1>1. load \in Load /\ load.at = "reading"
  BY DEF TypeInv, TypeOK, Read
<1>2. \A t \in slots : HasSlot(expenses, t, load.month)
  BY DEF ListMonthSlots, HasSlot
<1>3. \A e \in ListByMonth(expenses, load.month) :
          [expense |-> e, template |-> expenses[e].template] \in rows
  OBVIOUS
<1>4. CASE what = "expenses"
  <2> DEFINE new == [load EXCEPT !.rows = rows, !.pending = rest]
  <2>1. loads' = [loads EXCEPT ![l] = new]
    BY <1>1, <1>4 DEF Read, Load
  <2>2. /\ new.at = "reading" /\ new.month = load.month /\ new.rows = rows
        /\ new.due = load.due /\ new.occupied = load.occupied
        /\ new.pending = rest
    <3> HIDE DEF load, rows, rest
    <3>1. QED
      BY <1>1 DEF Load
  <2> HIDE DEF new, rows
  <2>3. LoadComplete(expenses, templates, now, new)
    BY <1>1, <1>3, <1>4, <2>2 DEF LoadComplete
  <2>4. QED
    BY <2>1, <2>3
<1>5. CASE what = "templates"
  <2> DEFINE new == [load EXCEPT !.due = due, !.pending = rest]
  <2>1. loads' = [loads EXCEPT ![l] = new]
    BY <1>1, <1>5 DEF Read, Load
  <2>2. /\ new.at = "reading" /\ new.month = load.month /\ new.rows = load.rows
        /\ new.due = due /\ new.occupied = load.occupied
        /\ new.pending = rest
    <3> HIDE DEF load, due, rest
    <3>1. QED
      BY <1>1 DEF Load
  <2> HIDE DEF new
  <2>3. LoadComplete(expenses, templates, now, new)
    BY <1>1, <1>5, <2>2 DEF LoadComplete
  <2>4. QED
    BY <2>1, <2>3
<1>6. CASE what = "slots"
  <2> DEFINE new == [load EXCEPT !.occupied = slots, !.pending = rest]
  <2>1. loads' = [loads EXCEPT ![l] = new]
    BY <1>1, <1>6 DEF Read, Load
  <2>2. /\ new.at = "reading" /\ new.month = load.month /\ new.rows = load.rows
        /\ new.due = load.due /\ new.occupied = slots
        /\ new.pending = rest
    <3> HIDE DEF load, slots, rest
    <3>1. QED
      BY <1>1 DEF Load
  <2> HIDE DEF new, slots
  <2>3. LoadComplete(expenses, templates, now, new)
    BY <1>1, <1>2, <1>6, <2>2 DEF LoadComplete
  <2>4. QED
    BY <2>1, <2>3
<1>7. QED
  BY <1>4, <1>5, <1>6 DEF Reads

LEMMA DecideCompletes ==
    ASSUME TypeInv, NEW l \in Loads, Decide(l),
           LoadComplete(expenses, templates, now, loads[l])
    PROVE  \E new : /\ loads' = [loads EXCEPT ![l] = new]
                    /\ LoadComplete(expenses, templates, now, new)
<1> DEFINE load == loads[l]
           new == [load EXCEPT !.at = "writing", !.targets = Targets(load)]
<1>1. load \in Load /\ load.at = "reading" /\ load.pending = {}
  BY DEF TypeInv, TypeOK, Decide
<1>2. CASE load.stale
  <2>1. LoadComplete(expenses, templates, now, FreeLoad)
    BY DEF LoadComplete, FreeLoad
  <2>2. QED
    BY <1>2, <2>1 DEF Decide
<1>3. CASE ~load.stale
  <2>1. loads' = [loads EXCEPT ![l] = new]
    BY <1>3 DEF Decide
  <2>2. /\ new.at = "writing" /\ new.month = load.month /\ new.rows = load.rows
        /\ new.due = load.due /\ new.occupied = load.occupied
        /\ new.pending = {} /\ new.targets = Targets(load)
    <3> HIDE DEF load
    <3>1. QED
      BY <1>1 DEF Load
  <2>3. load.month <= now => Targets(load) = load.due \ load.occupied
    BY <1>1, MonthsAreNumbers DEF Targets, TypeInv, TypeOK, LoadsPlaced
  <2> HIDE DEF new
  <2>4. LoadComplete(expenses, templates, now, new)
    BY <1>1, <2>2, <2>3 DEF LoadComplete
  <2>5. QED
    BY <2>1, <2>4
<1>4. QED
  BY <1>2, <1>3

(* A row that only adds a slot leaves what was read true.                  *)
LEMMA SlotsAdded ==
    ASSUME NEW table, NEW other, DOMAIN other = DOMAIN table,
           \A e \in Present(table) : other[e] = table[e], NEW t, NEW m,
           HasSlot(table, t, m)
    PROVE  HasSlot(other, t, m)
BY DEF HasSlot, Present

LEMMA CreatedCompletes ==
    ASSUME TypeInv, NEW l \in Loads, NEW t \in Templates, NEW e \in FreshExpense,
           loads[l].at = "writing", Created(l, t, e),
           LoadComplete(expenses, templates, now, loads[l])
    PROVE  \E new : /\ loads' = [loads EXCEPT ![l] = new]
                    /\ LoadComplete(expenses', templates, now, new)
<1> DEFINE load == loads[l]
           row == [expense |-> e, template |-> t]
           less == load.targets \ {t}
           more == load.rows \cup {row}
           new == [load EXCEPT !.targets = less, !.rows = more]
           record == Instance(t, load.month)
<1>1. load \in Load /\ load.at = "writing" /\ load.pending = {}
  BY DEF TypeInv, TypeOK, LoadComplete
<1>2. loads' = [loads EXCEPT ![l] = new]
  BY <1>1 DEF Created, Load
<1>3. /\ new.at = "writing" /\ new.month = load.month /\ new.rows = more
      /\ new.due = load.due /\ new.occupied = load.occupied
      /\ new.pending = {} /\ new.targets = less
  <2> HIDE DEF load, row, less, more
  <2>1. QED
    BY <1>1 DEF Load
<1>4. /\ record.template = t /\ record.period = load.month
      /\ record \in ExpenseRow
  BY DEF Instance, ExpenseRow, TypeInv, LoadsPlaced
<1> HIDE DEF record, new
<1>5. record # None
  BY <1>4, StoreAssumption
<1>6. e \in Expenses /\ expenses[e] = None
  BY DEF FreshExpense, Absent
<1>7. /\ expenses'[e] = record /\ DOMAIN expenses' = DOMAIN expenses
      /\ DOMAIN expenses = Expenses
      /\ \A f \in Expenses \ {e} : expenses'[f] = expenses[f]
  BY <1>6 DEF Created, Stored, record, TypeInv, TypeOK
<1>8. \A f \in Present(expenses) : expenses'[f] = expenses[f]
  BY <1>6, <1>7 DEF Present
<1>9. \A u : HasSlot(expenses, u, load.month) => HasSlot(expenses', u, load.month)
  BY <1>7, <1>8, SlotsAdded
<1>10. HasSlot(expenses', t, load.month)
  BY <1>4, <1>5, <1>6, <1>7 DEF HasSlot, Present
<1>11. ASSUME NEW f \in ListByMonth(expenses', load.month)
       PROVE  [expense |-> f, template |-> expenses'[f].template] \in more
  <2>1. CASE f = e
    BY <1>4, <1>7, <2>1
  <2>2. CASE f # e
    <3>1. f \in ListByMonth(expenses, load.month) /\ expenses'[f] = expenses[f]
      BY <1>7, <2>2 DEF ListByMonth, Visible, Present
    <3>2. QED
      BY <1>1, <3>1 DEF LoadComplete
  <2>3. QED
    BY <2>1, <2>2
<1>12. LoadComplete(expenses', templates, now, new)
  <2> HIDE DEF load, more
  <2>1. load.at # "free" /\ LoadComplete(expenses, templates, now, load)
    BY <1>1 DEF load
  <2>2. QED
    BY <1>1, <1>3, <1>9, <1>10, <1>11, <2>1 DEF LoadComplete
<1>13. QED
  BY <1>2, <1>12

LEMMA MaterializeCompletes ==
    ASSUME ~Failures, TypeInv, PlansInv, NEW l \in Loads, NEW t \in Templates,
           Materialize(l, t),
           LoadComplete(expenses, templates, now, loads[l])
    PROVE  \E new : /\ loads' = [loads EXCEPT ![l] = new]
                    /\ LoadComplete(expenses', templates, now, new)
<1> DEFINE load == loads[l]
           less == load.targets \ {t}
<1>1. load \in Load /\ load.at = "writing" /\ load.pending = {} /\ t \in load.targets
  BY DEF TypeInv, TypeOK, LoadComplete, Materialize
<1>2. CASE Exists(l, t)
  <2> DEFINE new == [load EXCEPT !.targets = less]
  <2>1. loads' = [loads EXCEPT ![l] = new] /\ expenses' = expenses
    BY <1>2 DEF Exists
  <2>2. /\ new.at = "writing" /\ new.month = load.month /\ new.rows = load.rows
        /\ new.due = load.due /\ new.occupied = load.occupied
        /\ new.pending = {} /\ new.targets = less
    <3> HIDE DEF load, less
    <3>1. QED
      BY <1>1 DEF Load
  <2>3. HasSlot(expenses, t, load.month)
    BY <1>2 DEF Exists, SlotTaken, HasSlot
  <2> HIDE DEF new
  <2>4. LoadComplete(expenses', templates, now, new)
    BY <1>1, <2>1, <2>2, <2>3 DEF LoadComplete
  <2>5. QED
    BY <2>1, <2>4
<1>3. ~CreateFails(l, t)
  <2>1. t \in ListDue(templates, load.month)
    BY <1>1 DEF PlansInv, LoadPlans
  <2>2. Refers(templates, t)
    BY <2>1 DEF ListDue, Present, Refers, Absent
  <2>3. QED
    BY <2>2 DEF CreateFails
<1>4. QED
  BY <1>1, <1>2, <1>3, CreatedCompletes DEF Materialize

LEMMA LoadStepCompletes ==
    ASSUME ~Failures, TypeInv, PlansInv, CompleteInv, NEW l \in Loads, LoadStep(l)
    PROVE  CompleteInv'
<1>1. /\ loads[l].at # "free"
      /\ \A k \in Loads : loads'[k].at # "free" => loads[k].at # "free"
  BY LoadStepBusy
<1>2. OneLoad'
  BY <1>1 DEF CompleteInv, OneLoad
<1>3. UNCHANGED <<templates, now, skipped>>
  BY DEF LoadStep, Read, Decide, Materialize, ShowLoad, ReadFails
<1>4. LoadComplete(expenses, templates, now, loads[l])
  BY DEF CompleteInv
<1>5. \E new : /\ loads' = [loads EXCEPT ![l] = new]
               /\ LoadComplete(expenses', templates, now, new)
  <2>1. CASE ShowLoad(l) \/ ReadFails(l)
    <3>1. LoadComplete(expenses', templates, now, FreeLoad)
      BY DEF LoadComplete, FreeLoad
    <3>2. QED
      BY <2>1, <3>1 DEF ShowLoad, ReadFails
  <2>2. CASE Decide(l)
    <3>1. UNCHANGED expenses
      BY <2>2 DEF Decide
    <3>2. QED
      BY <1>4, <2>2, <3>1, DecideCompletes
  <2>3. ASSUME NEW what \in Reads, Read(l, what)
        PROVE  \E new : /\ loads' = [loads EXCEPT ![l] = new]
                        /\ LoadComplete(expenses', templates, now, new)
    <3>1. UNCHANGED expenses
      BY <2>3 DEF Read
    <3>2. QED
      BY <1>4, <2>3, <3>1, ReadCompletes
  <2>4. QED
    BY <1>4, <2>1, <2>2, <2>3, MaterializeCompletes DEF LoadStep
<1>6. \A k \in Loads : LoadComplete(expenses', templates', now', loads'[k])
  <2>1. ASSUME NEW k \in Loads, k # l PROVE loads'[k].at = "free"
    BY <1>1, <2>1 DEF CompleteInv, OneLoad
  <2>2. LoadComplete(expenses', templates', now', loads'[l])
    BY <1>3, <1>5 DEF TypeInv, TypeOK
  <2>3. QED
    BY <2>1, <2>2 DEF LoadComplete
<1>7. RemovedAreSkipped'
  <2>1. CASE UNCHANGED expenses
    BY <1>3, <2>1 DEF CompleteInv, RemovedAreSkipped
  <2>2. ASSUME NEW t \in Templates, Materialize(l, t), ~UNCHANGED expenses
        PROVE  RemovedAreSkipped'
    <3>1. PICK f \in FreshExpense : Creatable(l, t) /\ Stored(l, t, f)
      BY <2>2, MaterializeEffect DEF TypeInv
    <3> DEFINE row == Instance(t, loads[l].month)
    <3>2. row.removed = FALSE
      BY DEF Instance
    <3>3. /\ f \in Expenses /\ expenses'[f] = row
          /\ \A g \in Expenses \ {f} : expenses'[g] = expenses[g]
          /\ DOMAIN expenses' = Expenses /\ DOMAIN expenses = Expenses
      BY <3>1 DEF Stored, FreshExpense, TypeInv, TypeOK
    <3> HIDE DEF row
    <3>4. QED
      BY <1>3, <3>2, <3>3 DEF CompleteInv, RemovedAreSkipped, Present
  <2>3. QED
    BY <2>1, <2>2 DEF LoadStep, Read, Decide, ShowLoad, ReadFails
<1>8. QED
  BY <1>2, <1>6, <1>7 DEF CompleteInv

(* While no load is under way, the history of removals is all there is.    *)
LEMMA IdleCompletes ==
    ASSUME RemovedAreSkipped', \A l \in Loads : loads'[l].at = "free"
    PROVE  CompleteInv'
BY DEF CompleteInv, OneLoad, LoadComplete

LEMMA StartCompletes ==
    ASSUME ~Overlapping, TypeInv, CompleteInv, NEW tab \in Tabs, NEW m \in Months,
           NEW others, StartLoad(tab, m, others),
           UNCHANGED <<expenses, skipped>>
    PROVE  CompleteInv'
<1>1. PICK l \in Loads :
          /\ loads[l].at = "free"
          /\ MayBegin
          /\ loads' = [k \in Loads |->
                          IF k = l THEN NewLoad(tab, m)
                          ELSE IF k \in others
                          THEN [loads[k] EXCEPT !.stale = TRUE]
                          ELSE loads[k]]
  BY Zenon DEF StartLoad
<1>2. \A k \in Loads : loads[k].at = "free" /\ loads[k] \in Load
  BY <1>1 DEF MayBegin, TypeInv, TypeOK
<1>3. \A k \in Loads \ {l} : loads'[k].at = "free"
  BY <1>1, <1>2 DEF Load
<1>4. loads'[l].pending = Reads /\ loads'[l].at = "reading"
  BY <1>1 DEF NewLoad, FreeLoad
<1>5. OneLoad'
  BY <1>3 DEF OneLoad
<1>6. \A k \in Loads : LoadComplete(expenses', templates', now', loads'[k])
  BY <1>3, <1>4 DEF LoadComplete, Reads
<1>7. RemovedAreSkipped'
  BY DEF CompleteInv, RemovedAreSkipped
<1>8. QED
  BY <1>5, <1>6, <1>7 DEF CompleteInv

LEMMA LeaveCompletes ==
    ASSUME TypeInv, CompleteInv, NEW tab \in Tabs, LeavePage(tab),
           UNCHANGED <<expenses, templates, now, skipped>>
    PROVE  CompleteInv'
<1>1. \A k \in Loads :
          \/ loads'[k] = loads[k]
          \/ loads'[k] = [loads[k] EXCEPT !.silent = TRUE]
  BY DEF LeavePage
<1>2. ASSUME NEW k \in Loads
      PROVE  /\ loads'[k].at = loads[k].at /\ loads'[k].month = loads[k].month
             /\ loads'[k].pending = loads[k].pending
             /\ loads'[k].rows = loads[k].rows /\ loads'[k].due = loads[k].due
             /\ loads'[k].occupied = loads[k].occupied
             /\ loads'[k].targets = loads[k].targets
  <2>1. loads[k] \in Load
    BY DEF TypeInv, TypeOK
  <2>2. QED
    BY <1>1, <2>1 DEF Load
<1>3. OneLoad'
  BY <1>2 DEF CompleteInv, OneLoad
<1>4. \A k \in Loads : LoadComplete(expenses', templates', now', loads'[k])
  BY <1>2 DEF CompleteInv, LoadComplete
<1>5. QED
  BY <1>3, <1>4 DEF CompleteInv, RemovedAreSkipped

LEMMA SaveStepRemovals ==
    ASSUME TypeInv, RemovedAreSkipped, NEW tab \in Tabs, SaveStep(tab)
    PROVE  RemovedAreSkipped'
<1>1. CASE UNCHANGED <<expenses, skipped>>
  BY <1>1 DEF RemovedAreSkipped
<1>2. CASE CreateExpense(tab) /\ ~UNCHANGED expenses
  <2> DEFINE row == NewRow(forms[tab])
  <2>1. PICK e \in FreshExpense : expenses' = [expenses EXCEPT ![e] = row]
    BY <1>2 DEF CreateExpense
  <2>2. row.removed = FALSE
    BY DEF NewRow, Instance
  <2>3. UNCHANGED skipped
    BY <1>2 DEF CreateExpense
  <2> HIDE DEF row
  <2>4. /\ e \in Expenses /\ expenses'[e] = row
        /\ \A g \in Expenses \ {e} : expenses'[g] = expenses[g]
        /\ DOMAIN expenses' = Expenses /\ DOMAIN expenses = Expenses
    BY <2>1 DEF FreshExpense, TypeInv, TypeOK
  <2>5. QED
    BY <2>2, <2>3, <2>4 DEF RemovedAreSkipped, Present
<1>3. CASE DeleteTemplate(tab) /\ ~UNCHANGED expenses
  <2>1. expenses' = Cascade(expenses, forms[tab].template) /\ UNCHANGED skipped
    BY <1>3 DEF DeleteTemplate
  <2>2. \A e \in Present(expenses') :
            e \in Present(expenses) /\ expenses'[e] = expenses[e]
    BY <2>1 DEF Present, Cascade, TypeInv, TypeOK
  <2>3. QED
    BY <2>1, <2>2 DEF RemovedAreSkipped
<1>4. QED
  BY <1>1, <1>2, <1>3
     DEF SaveStep, CreateTemplate, CreateExpense, SendUpdate, SendDelete,
         UpdateTemplate, ListInstances, DeleteTemplate, CallFails, Saved, Return

LEMMA WriteRemovals ==
    ASSUME OneTab, AloneAll, RemovedAreSkipped, NEW q \in requests,
           WriteUpdate(q)
    PROVE  RemovedAreSkipped'
<1> DEFINE form == forms[q.tab]
           old == expenses[q.expense]
           row == Patched(old, q.patch)
<1>1. /\ q.expense \in Expenses /\ old # None /\ ~old.removed
      /\ Own(expenses, q, form) \/ Carries(expenses, q, form)
  BY CallRole DEF AloneAll
<1>2. CASE UNCHANGED <<expenses, skipped>>
  BY <1>2 DEF RemovedAreSkipped
<1>3. CASE /\ expenses' = [expenses EXCEPT ![q.expense] = row]
           /\ skipped' = IF q.patch.removed
                         THEN skipped \cup {<<old.template, old.period>>}
                         ELSE skipped
  <2>1. q.patch.removed => q.patch.template = None /\ q.patch.period = None
    <3>1. CASE Carries(expenses, q, form)
      BY <3>1 DEF Carries, NoPatch
    <3>2. CASE Own(expenses, q, form)
      <4>1. q.patch = OwnPatch(form)
        BY <3>2 DEF Own, WriteUpdate
      <4>2. QED
        BY <4>1 DEF OwnPatch, NoPatch
    <3>3. QED
      BY <1>1, <3>1, <3>2
  <2>2. row.removed => /\ q.patch.removed
                       /\ row.template = old.template /\ row.period = old.period
    BY <1>1, <2>1 DEF Patched, Sent
  <2> HIDE DEF row
  <2>3. /\ expenses'[q.expense] = row
        /\ \A g \in Expenses \ {q.expense} : expenses'[g] = expenses[g]
        /\ DOMAIN expenses' = Expenses /\ DOMAIN expenses = Expenses
    BY <1>1, <1>3 DEF AloneAll, TypeInv, TypeOK
  <2>4. skipped \subseteq skipped'
    BY <1>3
  <2>5. row.removed => <<row.template, row.period>> \in skipped'
    BY <1>3, <2>2
  <2>6. QED
    BY <2>3, <2>4, <2>5 DEF RemovedAreSkipped, Present
<1>4. QED
  BY <1>2, <1>3 DEF WriteUpdate

LEMMA CompleteStep ==
    ASSUME OneTab, ~Failures, ~Overlapping, AloneAll, NoSaveInLoad, PlansInv,
           CompleteInv, [Next]_vars
    PROVE  CompleteInv'
<1>1. TypeInv /\ RemovedAreSkipped
  BY DEF AloneAll, CompleteInv
<1>2. now \in Months
  BY <1>1 DEF TypeInv, TypeOK
<1>3. CASE UNCHANGED vars
  BY <1>3 DEF vars, CompleteInv, OneLoad, RemovedAreSkipped
<1>4. ASSUME \A l \in Loads : loads[l].at = "free", UNCHANGED loads,
             RemovedAreSkipped'
      PROVE  CompleteInv'
  BY <1>4, IdleCompletes
<1>5. CASE MonthPasses
  BY <1>1, <1>4, <1>5 DEF MonthPasses, MayBegin, RemovedAreSkipped
<1>6. ASSUME NEW l \in Loads, LoadStep(l) PROVE CompleteInv'
  BY <1>1, <1>6, LoadStepCompletes
<1>7. ASSUME NEW tab \in Tabs, UserStep(tab) PROVE CompleteInv'
  <2>1. CASE VisitLedger(tab) \/ Cancel(tab)
    BY <1>1, <1>2, <2>1, StartCompletes DEF VisitLedger, Cancel, Return
  <2>2. CASE SelectMonth(tab)
    BY <1>1, <2>2, StartCompletes DEF SelectMonth
  <2>3. CASE OpenNew(tab) \/ \E e \in Expenses : OpenEdit(tab, e)
    BY <1>1, <2>3, LeaveCompletes DEF OpenNew, OpenEdit
  <2>4. CASE Save(tab)
    BY <1>1, <1>4, <2>4 DEF Save, MayBegin, RemovedAreSkipped
  <2>5. QED
    BY <1>7, <2>1, <2>2, <2>3, <2>4 DEF UserStep
<1>8. ASSUME NEW tab \in Tabs, SaveStep(tab) PROVE CompleteInv'
  <2>1. CASE Saved(tab)
    BY <1>1, <1>2, <2>1, StartCompletes DEF Saved, Return
  <2>2. CASE forms[tab].at = "saving" /\ UNCHANGED loads
    <3>1. \A l \in Loads : loads[l].at = "free"
      BY <2>2 DEF NoSaveInLoad
    <3>2. QED
      BY <1>1, <1>4, <1>8, <2>2, <3>1, SaveStepRemovals
  <2>3. QED
    BY <1>8, <2>1, <2>2
       DEF SaveStep, CreateTemplate, CreateExpense, SendUpdate, SendDelete,
           UpdateTemplate, ListInstances, DeleteTemplate, CallFails, NextCall
<1>9. ASSUME NEW q \in requests, RequestStep(q) PROVE CompleteInv'
  <2>1. UNCHANGED loads
    BY <1>9 DEF RequestStep, CheckUpdate, WriteUpdate, RemoveExpense,
                RequestLost
  <2>2. \A l \in Loads : loads[l].at = "free"
    BY CallRole DEF AloneAll, NoSaveInLoad
  <2>3. RemovedAreSkipped'
    <3>1. CASE CheckUpdate(q)
      BY <1>1, <3>1 DEF CheckUpdate, RemovedAreSkipped
    <3>2. CASE RemoveExpense(q)
      <4>1. \A e \in Present(expenses') :
                e \in Present(expenses) /\ expenses'[e] = expenses[e]
        BY <1>1, <3>2 DEF RemoveExpense, Present, TypeInv, TypeOK
      <4>2. UNCHANGED skipped
        BY <3>2 DEF RemoveExpense
      <4>3. QED
        BY <1>1, <4>1, <4>2 DEF RemovedAreSkipped
    <3>3. QED
      BY <1>1, <1>9, <3>1, <3>2, WriteRemovals DEF RequestStep, RequestLost
  <2>4. QED
    BY <1>4, <2>1, <2>2, <2>3
<1>10. QED
  BY <1>3, <1>5, <1>6, <1>7, <1>8, <1>9 DEF Next

(* The page becomes ready by what a load shows, and by nothing else.       *)
LEMMA ReadyByLoad ==
    ASSUME AloneAll, [Next]_vars, NEW tab \in Tabs, BecomesReady(tab)
    PROVE  \E l \in Loads :
               /\ loads[l].at = "writing" /\ loads[l].targets = {}
               /\ shown'[tab] = [status |-> "ready", month |-> loads[l].month,
                                 rows |-> loads[l].rows,
                                 projected |-> Projected(loads[l])]
<1>1. shown \in [Tabs -> Screen]
  BY DEF AloneAll, TypeInv, TypeOK
<1>2. ~UNCHANGED shown
  BY DEF BecomesReady
<1>3. ASSUME NEW u, NEW status \in {"away", "loading", "error"},
             shown' = [shown EXCEPT ![u] = Blank(status)]
      PROVE  FALSE
  <2>1. Blank(status).status # "ready"
    BY DEF Blank
  <2>2. QED
    BY <1>1, <1>3, <2>1 DEF BecomesReady
<1>4. ASSUME NEW u, NEW m, NEW others, StartLoad(u, m, others) PROVE FALSE
  BY <1>3, <1>4 DEF StartLoad
<1>5. ASSUME NEW u, LeavePage(u) PROVE FALSE
  BY <1>3, <1>5 DEF LeavePage
<1>6. ASSUME NEW l \in Loads, ShowError(l) PROVE FALSE
  BY <1>2, <1>3, <1>6 DEF ShowError
<1>7. ASSUME NEW u \in Tabs PROVE ~UserStep(u) /\ ~SaveStep(u)
  <2>1. ~UserStep(u)
    BY <1>2, <1>4, <1>5
       DEF UserStep, VisitLedger, SelectMonth, OpenNew, OpenEdit, Save, Cancel,
           Return
  <2>2. ~SaveStep(u)
    BY <1>2, <1>4
       DEF SaveStep, CreateTemplate, CreateExpense, SendUpdate, SendDelete,
           UpdateTemplate, ListInstances, DeleteTemplate, CallFails, Saved,
           Return
  <2>3. QED
    BY <2>1, <2>2
<1>8. \A q \in requests : ~RequestStep(q)
  BY <1>2 DEF RequestStep, CheckUpdate, WriteUpdate, RemoveExpense, RequestLost
<1>9. PICK l \in Loads : LoadStep(l)
  BY <1>2, <1>7, <1>8 DEF Next, MonthPasses, vars
<1>10. ShowLoad(l)
  BY <1>2, <1>6, <1>9
     DEF LoadStep, Read, Decide, Materialize, Exists, CreateFails, Created,
         ReadFails
<1> DEFINE screen == [status |-> "ready", month |-> loads[l].month,
                      rows |-> loads[l].rows,
                      projected |-> Projected(loads[l])]
<1>11. /\ loads[l].at = "writing" /\ loads[l].targets = {}
       /\ shown' = [shown EXCEPT ![loads[l].tab] = screen]
  BY <1>2, <1>10 DEF ShowLoad
<1>12. shown'[tab] = screen
  BY <1>1, <1>11 DEF BecomesReady
<1>13. QED
  BY <1>11, <1>12

LEMMA ReadyShowsAll ==
    ASSUME AloneAll, CompleteInv, [Next]_vars, NEW tab \in Tabs,
           BecomesReady(tab)
    PROVE  ShowsAll(shown'[tab])
<1>1. PICK l \in Loads :
          /\ loads[l].at = "writing" /\ loads[l].targets = {}
          /\ shown'[tab] = [status |-> "ready", month |-> loads[l].month,
                            rows |-> loads[l].rows,
                            projected |-> Projected(loads[l])]
  BY ReadyByLoad
<1> DEFINE load == loads[l]
           screen == shown'[tab]
<1>2. /\ screen.month = load.month /\ screen.rows = load.rows
      /\ screen.projected = Projected(load)
  BY <1>1
<1>3. load.month \in Nat /\ now \in Nat
  BY <1>1, MonthsAreNumbers DEF AloneAll, TypeInv, TypeOK, LoadsPlaced
<1>4. /\ \A e \in ListByMonth(expenses, load.month) :
             [expense |-> e, template |-> expenses[e].template] \in load.rows
      /\ ListDue(templates, load.month) \subseteq load.due
      /\ \A t \in load.occupied : HasSlot(expenses, t, load.month)
      /\ load.month <= now =>
             \A t \in load.due : HasSlot(expenses, t, load.month)
  BY <1>1 DEF CompleteInv, LoadComplete
<1> HIDE DEF load, screen
<1>5. ListByMonth(expenses, screen.month) \subseteq
          {row.expense : row \in screen.rows}
  <2> SUFFICES ASSUME NEW e \in ListByMonth(expenses, load.month)
               PROVE  \E row \in load.rows : row.expense = e
    BY <1>2
  <2> DEFINE row == [expense |-> e, template |-> expenses[e].template]
  <2>1. row \in load.rows /\ row.expense = e
    BY <1>4
  <2> HIDE DEF row
  <2>2. QED
    BY <2>1
<1>6. ASSUME NEW t \in ListDue(templates, load.month)
      PROVE  \/ \E row \in load.rows : row.template = t
             \/ t \in Projected(load)
             \/ <<t, load.month>> \in skipped
  <2>1. t \in load.due /\ t # None
    BY <1>4, StoreAssumption DEF ListDue, Present, AloneAll, TypeInv, TypeOK
  <2>2. CASE HasSlot(expenses, t, load.month)
    <3>1. PICK e \in Present(expenses) : /\ expenses[e].template = t
                                         /\ expenses[e].period = load.month
      BY <2>2 DEF HasSlot
    <3>2. CASE expenses[e].removed
      BY <2>1, <3>1, <3>2 DEF CompleteInv, RemovedAreSkipped
    <3>3. CASE ~expenses[e].removed
      <4>1. expenses[e].month = load.month
        BY <2>1, <3>1 DEF AloneAll, AloneInv, TableFits
      <4>2. e \in ListByMonth(expenses, load.month)
        BY <3>1, <3>3, <4>1 DEF ListByMonth, Visible
      <4> DEFINE row == [expense |-> e, template |-> expenses[e].template]
      <4>3. row \in load.rows /\ row.template = t
        BY <1>4, <3>1, <4>2
      <4> HIDE DEF row
      <4>4. QED
        BY <4>3
    <3>4. QED
      BY <3>2, <3>3
  <2>3. CASE ~HasSlot(expenses, t, load.month)
    <3>1. t \notin load.occupied /\ ~(load.month <= now)
      BY <1>4, <2>1, <2>3
    <3>2. QED
      BY <2>1, <3>1 DEF Projected
  <2>4. QED
    BY <2>2, <2>3
<1>7. ListDue(templates, screen.month) \subseteq
          {row.template : row \in screen.rows}
              \cup screen.projected
              \cup {slot[1] : slot \in {s \in skipped : s[2] = screen.month}}
  <2> SUFFICES ASSUME NEW t \in ListDue(templates, load.month)
               PROVE  \/ \E row \in load.rows : row.template = t
                      \/ t \in Projected(load)
                      \/ \E slot \in skipped : slot[2] = load.month /\ slot[1] = t
    BY <1>2
  <2>1. CASE <<t, load.month>> \in skipped
    <3> DEFINE slot == <<t, load.month>>
    <3>1. slot \in skipped /\ slot[1] = t /\ slot[2] = load.month
      BY <2>1
    <3> HIDE DEF slot
    <3>2. QED
      BY <3>1
  <2>2. QED
    BY <1>6, <2>1
<1>8. QED
  BY <1>5, <1>7 DEF ShowsAll, screen

(* ShownIsComplete: under the same conditions a page that becomes ready    *)
(* leaves out nothing: its three reads and its creations, answered in any  *)
(* order and one by one, add up to the month (asset-recurring.ts:98-190).  *)
THEOREM ReadyIsComplete ==
    ASSUME OneTab, ~Failures, ~Overlapping
    PROVE  Spec => ShownIsComplete
<1>1. Init => CompleteInv
  BY DEF Init, CompleteInv, OneLoad, LoadComplete, FreeLoad,
         RemovedAreSkipped, Present
<1>2. /\ AloneAll /\ NoSaveInLoad /\ PlansInv /\ CompleteInv /\ [Next]_vars
      => CompleteInv'
  BY CompleteStep
<1>3. AloneAll /\ CompleteInv /\ [Next]_vars =>
          [\A tab \in Tabs : BecomesReady(tab) => ShowsAll(shown'[tab])]_vars
  BY ReadyShowsAll
<1>4. QED
  BY <1>1, <1>2, <1>3, SettledCorrect, PTL DEF Spec, ShownIsComplete

(* NoDoubleCount: in one tab whose calls are answered no month is charged  *)
(* twice either, conversions included: it takes a second tab to part a     *)
(* date from its period (expense.service.ts:161-176).                      *)
THEOREM ChargedOnceAlone ==
    ASSUME OneTab, ~Failures
    PROVE  Spec => []NoDoubleCount
<1>1. AloneAll => NoDoubleCount
  BY FitsCountsOnce DEF AloneAll, AloneInv
<1>2. QED
  BY <1>1, AloneCorrect, PTL

=============================================================================
