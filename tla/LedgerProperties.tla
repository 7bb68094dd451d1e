-------------------------- MODULE LedgerProperties --------------------------
(* What the ledger promises of fixed expenses.                             *)
EXTENDS Ledger

(* Every variable keeps its shape.                                         *)
TypeOK ==
    /\ now \in Months
    /\ templates \in [Templates -> TemplateRow \cup {None}]
    /\ expenses \in [Expenses -> ExpenseRow \cup {None}]
    /\ month \in [Tabs -> Months]
    /\ shown \in [Tabs -> Screen]
    /\ loads \in [Loads -> Load]
    /\ forms \in [Tabs -> Form]
    /\ requests \subseteq Request
    /\ skipped \subseteq (Templates \cup {None}) \X (Months \cup {None})

-----------------------------------------------------------------------------
(* The tables.                                                             *)

(* INV-4 of docs/ssot/ledger.md: the date of a fixed expense lies in the   *)
(* month of its period, whatever order the server answers in.              *)
DateInPeriod ==
    \A e \in Present(expenses) :
        expenses[e].template # None => expenses[e].month = expenses[e].period

(* A month is never charged twice for a template, however loads, saves and *)
(* removals interleave: the database knows periods, the ledger sums up     *)
(* dates (expense.service.ts:164-176).                                     *)
NoDoubleCount ==
    \A e, f \in Visible(expenses) :
        /\ expenses[e].template # None
        /\ expenses[e].template = expenses[f].template
        /\ expenses[e].month = expenses[f].month
        => e = f

(* Nothing is under way: no load, no save, no call.                        *)
Quiet ==
    /\ \A l \in Loads : loads[l].at = "free"
    /\ \A tab \in Tabs : forms[tab].at # "saving"
    /\ requests = {}

(* When the dust has settled, a template has charged no month outside its  *)
(* term, and one that was switched off has nothing left in the future      *)
(* (asset-recurring.ts:208-252).                                           *)
SettledInTerm ==
    Quiet =>
        \A e \in Visible(expenses) :
            LET row == expenses[e]
                template == templates[row.template]
            IN  row.template # None =>
                    /\ InTerm(template, row.period)
                    /\ template.active \/ row.period <= now

(* "Delete this month only" is for good: the instance of that month comes  *)
(* back neither as a row nor as a planned one (schema.prisma:165).         *)
SkippedStaysSkipped ==
    \A slot \in skipped :
        /\ \A e \in Visible(expenses) :
               <<expenses[e].template, expenses[e].period>> # slot
        /\ \A tab \in Tabs :
               shown[tab].status = "ready" /\ shown[tab].month = slot[2]
                   => slot[1] \notin shown[tab].projected

-----------------------------------------------------------------------------
(* The screen.                                                             *)

(* A slow answer never puts another month on the screen                    *)
(* (page.tsx:305-306).                                                     *)
ShowsSelectedMonth ==
    \A tab \in Tabs :
        shown[tab].status = "ready" => shown[tab].month = month[tab]

(* A spinner is never left behind: as long as a page says "loading", a     *)
(* load is under way that will end it.                                     *)
SpinnerIsBacked ==
    \A tab \in Tabs : shown[tab].status = "loading" =>
        \E l \in LoadsOf(tab) : ~loads[l].stale /\ ~loads[l].silent

(* A template appears at most once on the screen, as a row or as planned   *)
(* (asset-recurring.ts:116-119).                                           *)
ShownOnce ==
    \A tab \in Tabs :
        /\ \A p, q \in shown[tab].rows :
               p.template # None /\ p.template = q.template => p = q
        /\ \A p \in shown[tab].rows : p.template \notin shown[tab].projected

(* A page that becomes ready shows the month as it is: every expense of    *)
(* the month, and each instance that is due, unless it was skipped.        *)
BecomesReady(tab) == shown[tab] # shown'[tab] /\ shown'[tab].status = "ready"

ShowsAll(screen) ==
    /\ ListByMonth(expenses, screen.month) \subseteq
           {row.expense : row \in screen.rows}
    /\ ListDue(templates, screen.month) \subseteq
           {row.template : row \in screen.rows}
               \cup screen.projected
               \cup {slot[1] : slot \in {s \in skipped : s[2] = screen.month}}

ShownIsComplete ==
    [][\A tab \in Tabs : BecomesReady(tab) => ShowsAll(shown'[tab])]_vars

-----------------------------------------------------------------------------
(* Saves.                                                                  *)

(* However often a save fails and is tried again, a form that has heard of *)
(* its template never creates another (ExpenseForm.tsx:97-99).             *)
OneTemplatePerForm == \A tab \in Tabs : forms[tab].made <= 1

(* A save that went through did its whole job: a template that was         *)
(* switched off or shortened has no instance beyond that.                  *)
GoesThrough(tab) == forms[tab].at = "saving" /\ forms'[tab].at = "closed"

NothingBeyond(form) ==
    LET left(m) == {e \in Visible(expenses) :
                       /\ expenses[e].template = form.template
                       /\ expenses[e].period > m}
    IN  /\ form.kind = "unfix" => left(form.nowAt) = {}
        /\ form.kind \in {"edit", "refix"} => left(form.end) = {}

SaveDoesItAll ==
    [][\A tab \in Tabs : GoesThrough(tab) => NothingBeyond(forms[tab])]_vars

(* Nothing goes on for ever: a load ends, a save returns to the user.      *)
LoadsEnd == \A l \in Loads : loads[l].at # "free" ~> loads[l].at = "free"
SavesEnd ==
    \A tab \in Tabs : forms[tab].at = "saving" ~> forms[tab].at # "saving"
=============================================================================
