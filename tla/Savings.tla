------------------------------ MODULE Savings ------------------------------
(***************************************************************************)
(* The page of assets in a browser's tabs, without its expenses: the       *)
(* month's budget, the categories, and the savings tab with its accounts,  *)
(* the petty-cash box and the investment, each edited in a sheet           *)
(* (apps/web/app/(vault)/asset/page.tsx and its sheets).                   *)
(*                                                                         *)
(* A call of the API acts at one moment of its way, except those that look *)
(* something up before they write: a category's name, the position.  It    *)
(* may fail before it acts or lose its answer after.  A sheet is modal; a  *)
(* user may leave the page and come back at any time.                      *)
(*                                                                         *)
(* The parallel reads of one load are taken at one moment: what another    *)
(* tab writes between them puts this one in doubt in either case.          *)
(***************************************************************************)
EXTENDS SavingsStore

CONSTANTS
    Tabs,
    Databases,   \* what the database may hold at the start
    MaxSaves,    \* bound: writes that users begin
    MaxFaults    \* bound: calls that fail or lose their answer

ASSUME PageAssumption ==
    /\ Databases \subseteq Database
    /\ MaxSaves \in Nat
    /\ MaxFaults \in Nat
    /\ \A d \in Databases : Consistent(d) /\ d.born + MaxSaves <= LastId

VARIABLES
    db,      \* the tables
    tabs,    \* what each tab shows
    calls,   \* calls of the API in flight
    doubt,   \* tabs told of a failure, or with writes behind their back
    saves,   \* writes begun
    faults   \* faults met

vars == <<db, tabs, calls, doubt, saves, faults>>

Reads == {"load", "loadSavings", "readAccounts", "readInvestment", "readBox",
          "readIncomes", "readCategories"}
Writes == {"createIncome", "updateIncome", "deleteIncome", "createBox",
           "deleteBox", "createAccount", "updateAccount", "deleteAccount",
           "saveInvestment", "createCategory", "updateCategory",
           "deleteCategory"}
CategoryWrites == {"createCategory", "updateCategory", "deleteCategory"}

(* Reads that only the page on the screen waits for.                       *)
PageReads == Reads \ {"readIncomes"}

(* heard: somebody waits for the outcome; body: what is sent; got: what    *)
(* the answer brings.                                                      *)
New(t, kind) ==
    [tab |-> t, kind |-> kind, id |-> 0, body |-> [kind |-> kind],
     status |-> "sent", heard |-> TRUE, got |-> [kind |-> kind]]

With(k, id, body) == [k EXCEPT !.id = id, !.body = body]

CallsOf(t) == {k \in calls : k.tab = t}

Kinds == {"none", "budget", "category", "boxIn", "boxOut", "boxDetail",
          "addAccount", "goal", "return"}

(* list: what the category manager has loaded; account: the one whose goal *)
(* is edited, as it was when the sheet was opened.                         *)
Sheet ==
    [kind: Kinds, saving: BOOLEAN, deleting: BOOLEAN, dirty: BOOLEAN,
     list: SUBSET User, account: Account \cup {None}]
Loading == {"idle", "loading", "error", "ready"}

(* codes: the fixed categories whose contributions were asked for.         *)
SavingsState ==
    [status: Loading, codes: SUBSET Fixed, accounts: SUBSET Account,
     position: Position \cup {None}, box: SUBSET Txn]
Tab ==
    [status: Loading \ {"idle"}, fixed: SUBSET Fixed, users: SUBSET User,
     incomes: SUBSET Income, assetTab: {"budget", "savings"},
     savings: SavingsState, sheet: Sheet]

NoSheet ==
    [kind |-> "none", saving |-> FALSE, deleting |-> FALSE, dirty |-> FALSE,
     list |-> {}, account |-> None]
NoSavings ==
    [status |-> "idle", codes |-> {}, accounts |-> {}, position |-> None,
     box |-> {}]
Mounted ==
    [status |-> "loading", fixed |-> {}, users |-> {}, incomes |-> {},
     assetTab |-> "budget", savings |-> NoSavings, sheet |-> NoSheet]

-----------------------------------------------------------------------------
(* The page.                                                               *)

Init ==
    /\ db \in Databases
    /\ tabs = [t \in Tabs |-> Mounted]
    /\ calls = {New(t, "load") : t \in Tabs}
    /\ doubt = {}
    /\ saves = 0
    /\ faults = 0

Untouched == UNCHANGED <<db, saves, faults>>

(* A load makes the ones before it stale.                                  *)
Loads(t, others) ==
    {k \in others : k.tab # t \/ k.kind # "load"} \cup {New(t, "load")}

(* Mutant: the savings tab does not wait for the categories. *)
SavingsAtOnce(tab) ==
    /\ tab.assetTab = "savings"
    /\ tab.savings.status = "idle"

(* The effect that loads the savings tab, after the categories have come.  *)
WantsSavings(tab) ==
    /\ tab.assetTab = "savings"
    /\ tab.status = "ready"
    /\ tab.savings.status = "idle"

(* Tab t becomes tab, and the effect runs; others are the calls in flight. *)
Becomes(t, tab, others) ==
    IF WantsSavings(tab)
    THEN /\ tabs' = [tabs EXCEPT
                        ![t] = [tab EXCEPT !.savings.status = "loading"]]
         /\ calls' = others \cup
                {With(New(t, "loadSavings"), 0,
                      [codes |-> tab.fixed \cap {SavingsCode, InvestmentCode}])}
    ELSE /\ tabs' = [tabs EXCEPT ![t] = tab]
         /\ calls' = others

(* The page is left and comes up again; what it wrote goes on unheard.     *)
Enter(t) ==
    LET left == {[k EXCEPT !.heard = @ /\ k.tab # t] :
                    k \in {k \in calls : k.tab # t \/ k.kind \notin PageReads}}
    IN  /\ tabs' = [tabs EXCEPT ![t] = Mounted]
        /\ calls' = Loads(t, left)
        /\ doubt' = doubt \ {t}
        /\ Untouched

HandleAssetTab(t, assetTab) ==
    LET tab == tabs[t]
        failed == assetTab = "savings" /\ tab.savings.status = "error"
    IN  /\ tab.sheet = NoSheet
        /\ assetTab # tab.assetTab \/ failed
        /\ Becomes(t,
               [tab EXCEPT !.assetTab = assetTab,
                           !.savings.status = IF failed THEN "idle" ELSE @],
               calls)
        /\ UNCHANGED doubt
        /\ Untouched

-----------------------------------------------------------------------------
(* Sheets.                                                                 *)

Opens(t, sheet, others) ==
    /\ tabs[t].sheet = NoSheet
    /\ tabs' = [tabs EXCEPT ![t].sheet = sheet]
    /\ calls' = others
    /\ UNCHANGED doubt
    /\ Untouched

OnBudget(t) == tabs[t].assetTab = "budget"
OnSavings(t) ==
    /\ tabs[t].assetTab = "savings"
    /\ tabs[t].status = "ready"
    /\ tabs[t].savings.status = "ready"

OpenBudget(t) ==
    /\ OnBudget(t)
    /\ tabs[t].status = "ready"
    /\ Opens(t, [NoSheet EXCEPT !.kind = "budget"], calls)

OpenCategories(t) ==
    /\ OnBudget(t)
    /\ Opens(t, [NoSheet EXCEPT !.kind = "category"],
             calls \cup {New(t, "readCategories")})

OpenBox(t, kind) ==
    /\ OnSavings(t)
    /\ kind \in {"boxIn", "boxOut", "boxDetail"}
    /\ Opens(t, [NoSheet EXCEPT !.kind = kind], calls)

OnAddAccount(t) ==
    /\ OnSavings(t)
    /\ Opens(t, [NoSheet EXCEPT !.kind = "addAccount"], calls)

(* The first of the accounts with the name that was tapped.                *)
OnEditAccountGoal(t, name) ==
    LET named == {a \in tabs[t].savings.accounts : a.name = name}
    IN  /\ OnSavings(t)
        /\ named # {}
        /\ Opens(t, [NoSheet EXCEPT !.kind = "goal", !.account = First(named)],
                 calls)

(* Mutant: a position that does not open is edited as if there were none. *)
EditReturnUnread(t) ==
    /\ OnSavings(t)
    /\ Opens(t, [NoSheet EXCEPT !.kind = "return"], calls)

OnEditReturn(t) ==
    LET position == tabs[t].savings.position
    IN  /\ OnSavings(t)
        /\ position = None \/ Readable(position)
        /\ Opens(t, [NoSheet EXCEPT !.kind = "return"], calls)

(* The box's history closes at any time, other sheets not while they save. *)
OnClose(t) ==
    LET sheet == tabs[t].sheet
    IN  /\ sheet.kind \notin {"none", "category"}
        /\ sheet.kind # "boxDetail" => ~sheet.saving /\ ~sheet.deleting
        /\ tabs' = [tabs EXCEPT ![t].sheet = NoSheet]
        /\ UNCHANGED <<calls, doubt>>
        /\ Untouched

(* The manager closes at any time; only when it is dirty is the page       *)
(* loaded.  A write that it has not heard of by then goes on unheard.      *)
HandleClose(t) ==
    LET sheet == tabs[t].sheet
        pending == {k \in CallsOf(t) : k.kind \in CategoryWrites /\ k.heard}
        reads == {k \in CallsOf(t) : k.kind = "readCategories"}
        left == {[k EXCEPT !.heard = @ /\ k \notin pending] :
                    k \in calls \ reads}
        unheard == \/ pending # {}
                   \/ \E k \in reads : k.body.kind # k.kind /\ ~sheet.dirty
    IN  /\ sheet.kind = "category"
        /\ IF sheet.dirty
           THEN /\ tabs' = [tabs EXCEPT ![t].sheet = NoSheet,
                                        ![t].status = "loading"]
                /\ calls' = Loads(t, left)
           ELSE /\ tabs' = [tabs EXCEPT ![t].sheet = NoSheet]
                /\ calls' = left
        /\ doubt' = IF unheard THEN doubt \cup {t} ELSE doubt
        /\ Untouched

-----------------------------------------------------------------------------
(* What users save in a sheet.                                             *)

Saves(t, sheet, call) ==
    /\ saves < MaxSaves
    /\ saves' = saves + 1
    /\ tabs' = [tabs EXCEPT ![t].sheet = sheet]
    /\ calls' = calls \cup {call}
    /\ UNCHANGED <<db, doubt, faults>>

In(t, kind) == tabs[t].sheet.kind = kind /\ ~tabs[t].sheet.saving

Saving(t) == [tabs[t].sheet EXCEPT !.saving = TRUE]
Deleting(t) == [tabs[t].sheet EXCEPT !.deleting = TRUE]

(* The plan is made from the rows of now, not from those of the page.      *)
SaveBudget(t, amount) ==
    /\ In(t, "budget")
    /\ Saves(t, Saving(t),
             With(New(t, "readIncomes"), 0, [amount |-> amount]))

(* savings: what the page says is left to move into the box.               *)
DisplayedSaved(savings) ==
    SavedTotal(savings.accounts, savings.codes) - FromSavings(savings.box)

(* Mutant: what is taken out has the source that is chosen for going in. *)
SaveBoxAnySource(t, source, amount) ==
    /\ In(t, "boxIn") \/ In(t, "boxOut")
    /\ Saves(t, Saving(t),
             With(New(t, "createBox"), 0,
                  [id |-> 0, type |-> IF In(t, "boxIn") THEN "in" ELSE "out",
                   source |-> source, amount |-> amount]))

SaveBox(t, source, amount) ==
    /\ In(t, "boxIn") \/ (In(t, "boxOut") /\ source = "cash")
    /\ In(t, "boxIn") /\ source = "savings" =>
           amount <= DisplayedSaved(tabs[t].savings)
    /\ Saves(t, Saving(t),
             With(New(t, "createBox"), 0,
                  [id |-> 0, type |-> IF In(t, "boxIn") THEN "in" ELSE "out",
                   source |-> source, amount |-> amount]))

(* A row's button is off while it is being deleted.                        *)
DeleteBox(t, x) ==
    /\ In(t, "boxDetail")
    /\ x \in tabs[t].savings.box
    /\ ~\E k \in CallsOf(t) : k.kind = "deleteBox" /\ k.id = x.id
    /\ Saves(t, tabs[t].sheet,
             With(New(t, "deleteBox"), x.id, [kind |-> "deleteBox"]))

AddAccount(t, name, base) ==
    /\ In(t, "addAccount")
    /\ \A a \in tabs[t].savings.accounts : a.name # name
    /\ Saves(t, Saving(t),
             With(New(t, "createAccount"), 0,
                  [id |-> 0, name |-> name, base |-> base, goal |-> 0]))

(* The base is sealed again as it was when the sheet was opened.           *)
SaveGoal(t, goal) ==
    LET account == tabs[t].sheet.account
    IN  /\ In(t, "goal")
        /\ Saves(t, Saving(t),
                 With(New(t, "updateAccount"), account.id,
                      [base |-> account.base, goal |-> goal]))

DeleteAccount(t) ==
    /\ In(t, "goal")
    /\ ~tabs[t].sheet.deleting
    /\ Saves(t, Deleting(t),
             With(New(t, "deleteAccount"), tabs[t].sheet.account.id,
                  [kind |-> "deleteAccount"]))

SaveReturn(t, rate) ==
    /\ In(t, "return")
    /\ Saves(t, Saving(t),
             With(New(t, "saveInvestment"), 0,
                  [id |-> 0, base |-> BaseOf(tabs[t].savings.position),
                   rate |-> rate]))

(* The form of a new category, or of one in the list.                      *)
SaveCategory(t, name) ==
    /\ In(t, "category")
    /\ Saves(t, Saving(t),
             With(New(t, "createCategory"), 0, [id |-> 0, name |-> name]))

RenameCategory(t, row, name) ==
    /\ In(t, "category")
    /\ row \in tabs[t].sheet.list
    /\ Saves(t, Saving(t),
             With(New(t, "updateCategory"), row.id, [name |-> name]))

DeleteCategory(t, row) ==
    /\ tabs[t].sheet.kind = "category"
    /\ ~tabs[t].sheet.deleting
    /\ row \in tabs[t].sheet.list
    /\ Saves(t, Deleting(t),
             With(New(t, "deleteCategory"), row.id,
                  [kind |-> "deleteCategory"]))

-----------------------------------------------------------------------------
(* The API.                                                                *)

Answered(k, status, got) ==
    calls' = (calls \ {k}) \cup {[k EXCEPT !.status = status, !.got = got]}

(* What a tab writes is behind the back of the others, and behind its own  *)
(* if nobody waits for the answer.                                         *)
Acts(k, after) ==
    /\ db' = after
    /\ Answered(k, "ok", k.got)
    /\ doubt' = doubt \cup (Tabs \ {k.tab})
                     \cup (IF k.heard THEN {} ELSE {k.tab})
    /\ UNCHANGED <<tabs, saves, faults>>

Tells(k, status, got) ==
    /\ Answered(k, status, got)
    /\ UNCHANGED <<db, tabs, doubt, saves, faults>>

Refuses(k) == Tells(k, "refused", k.got)

Sent(k, kind) == k.kind = kind /\ k.status = "sent"

ServeLoad(k) ==
    /\ Sent(k, "load")
    /\ db' = Seeded(db)
    /\ Answered(k, "ok", [fixed |-> Fixed, users |-> db.users,
                          incomes |-> db.incomes])
    /\ UNCHANGED <<tabs, doubt, saves, faults>>

ServeCategories(k) ==
    /\ Sent(k, "readCategories")
    /\ db' = Seeded(db)
    /\ Answered(k, "ok", [users |-> db.users])
    /\ UNCHANGED <<tabs, doubt, saves, faults>>

ServeRead(k) ==
    \/ /\ Sent(k, "loadSavings")
       /\ Tells(k, "ok", [accounts |-> db.accounts, box |-> db.box,
                          position |-> First(db.positions)])
    \/ Sent(k, "readAccounts") /\ Tells(k, "ok", [accounts |-> db.accounts])
    \/ Sent(k, "readBox") /\ Tells(k, "ok", [box |-> db.box])
    \/ /\ Sent(k, "readInvestment")
       /\ Tells(k, "ok", [position |-> First(db.positions)])
    \/ Sent(k, "readIncomes") /\ Tells(k, "ok", [rows |-> db.incomes])

TableOf(kind) ==
    CASE kind \in {"createIncome", "updateIncome", "deleteIncome"} -> "incomes"
      [] kind \in {"createBox", "deleteBox"} -> "box"
      [] kind \in {"createAccount", "updateAccount", "deleteAccount"}
             -> "accounts"
      [] kind \in CategoryWrites -> "users"

ServeCreate(k) ==
    /\ k.kind \in {"createIncome", "createBox", "createAccount"}
    /\ k.status = "sent"
    /\ Acts(k, Created(db, TableOf(k.kind), k.body))

(* The new blob takes the place of the old one; other columns stay.        *)
ServeUpdate(k) ==
    LET rows == db[TableOf(k.kind)]
        row == RowOf(rows, k.id)
    IN  /\ k.kind \in {"updateIncome", "updateAccount"}
        /\ k.status = "sent"
        /\ IF k.id \notin IdsOf(rows) THEN Refuses(k)
           ELSE IF k.kind = "updateIncome"
           THEN Acts(k, Updated(db, "incomes",
                                [row EXCEPT !.amount = k.body.amount]))
           ELSE Acts(k, Updated(db, "accounts",
                                [row EXCEPT !.base = k.body.base,
                                            !.goal = k.body.goal]))

ServeDelete(k) ==
    /\ k.kind \in {"deleteIncome", "deleteBox", "deleteAccount",
                   "deleteCategory"}
    /\ k.status = "sent"
    /\ IF k.id \notin IdsOf(db[TableOf(k.kind)]) THEN Refuses(k)
       ELSE Acts(k, Removed(db, TableOf(k.kind), k.id))

(* assertUserCategory and assertNameAvailable.                             *)
CheckCategory(k) ==
    LET known == k.kind = "createCategory" \/ k.id \in IdsOf(db.users)
    IN  /\ k.kind \in {"createCategory", "updateCategory"}
        /\ k.status = "sent"
        /\ IF known /\ NameAvailable(db, k.body.name, k.id)
           THEN Tells(k, "checked", k.got)
           ELSE Refuses(k)

WriteCategory(k) ==
    /\ k.kind \in {"createCategory", "updateCategory"}
    /\ k.status = "checked"
    /\ IF k.kind = "createCategory"
       THEN Acts(k, Created(db, "users", k.body))
       ELSE IF k.id \in IdsOf(db.users)
       THEN Acts(k, Updated(db, "users", [id |-> k.id, name |-> k.body.name]))
       ELSE Refuses(k)

FindInvestment(k) ==
    /\ Sent(k, "saveInvestment")
    /\ Tells(k, "checked", [row |-> First(db.positions)])

WriteInvestment(k) ==
    /\ k.kind = "saveInvestment"
    /\ k.status = "checked"
    /\ IF k.got.row = None
       THEN Acts(k, Created(db, "positions", k.body))
       ELSE Acts(k, Updated(db, "positions",
                            [k.body EXCEPT !.id = k.got.row.id]))

(* A call fails before it acts.                                            *)
Fail(k) ==
    /\ faults < MaxFaults
    /\ k.status \in {"sent", "checked"}
    /\ faults' = faults + 1
    /\ Answered(k, "failed", k.got)
    /\ UNCHANGED <<db, tabs, doubt, saves>>

(* The answer of a write is lost.                                          *)
LoseAnswer(k) ==
    /\ faults < MaxFaults
    /\ k.kind \in Writes
    /\ k.status = "ok"
    /\ faults' = faults + 1
    /\ Answered(k, "failed", k.got)
    /\ UNCHANGED <<db, tabs, doubt, saves>>

-----------------------------------------------------------------------------
(* What the page and its sheets do with the outcome of a call.             *)

Done(k) == k.heard /\ k.status \in {"ok", "refused", "failed"}
Succeeded(k, kinds) == k.heard /\ k.status = "ok" /\ k.kind \in kinds
Others(k) == calls \ {k}

HearLoad(k) ==
    LET tab == tabs[k.tab]
    IN  /\ k.kind = "load"
        /\ Done(k)
        /\ Becomes(k.tab,
               IF k.status = "ok"
               THEN [tab EXCEPT !.status = "ready", !.fixed = k.got.fixed,
                                !.users = k.got.users,
                                !.incomes = k.got.incomes]
               ELSE [tab EXCEPT !.status = "error"],
               Others(k))
        /\ UNCHANGED doubt
        /\ Untouched

HearSavings(k) ==
    /\ k.kind = "loadSavings"
    /\ Done(k)
    /\ tabs' = [tabs EXCEPT ![k.tab].savings =
           IF k.status = "ok"
           THEN [status |-> "ready", codes |-> k.body.codes,
                 accounts |-> k.got.accounts, position |-> k.got.position,
                 box |-> k.got.box]
           ELSE [NoSavings EXCEPT !.status = "error"]]
    /\ calls' = Others(k)
    /\ UNCHANGED doubt
    /\ Untouched

(* The sheets a write comes from; the history of the box stays open.       *)
SheetsOf(kind) ==
    CASE kind = "createBox" -> {"boxIn", "boxOut"}
      [] kind = "createAccount" -> {"addAccount"}
      [] kind \in {"updateAccount", "deleteAccount"} -> {"goal"}
      [] kind = "saveInvestment" -> {"return"}
      [] kind \in CategoryWrites -> {"category"}
      [] kind = "deleteBox" -> {}
      [] OTHER -> {"budget"}

(* A sheet's write has succeeded: what it wrote is read again.  Two reads  *)
(* of the same rows at once may be answered in either order.               *)
ReloadOf(kind) ==
    CASE kind \in {"createBox", "deleteBox"} -> "readBox"
      [] kind = "saveInvestment" -> "readInvestment"
      [] OTHER -> "readAccounts"

HearSheetWrite(k) ==
    LET reload == New(k.tab, ReloadOf(k.kind))
    IN  /\ Succeeded(k, {"createBox", "deleteBox", "createAccount",
                         "updateAccount", "deleteAccount", "saveInvestment"})
        /\ calls' = Others(k) \cup
               {With(reload, 0, [closes |-> SheetsOf(k.kind)])}
        /\ doubt' = IF \E other \in CallsOf(k.tab) : other.kind = reload.kind
                    THEN doubt \cup {k.tab} ELSE doubt
        /\ UNCHANGED tabs
        /\ Untouched

(* The reload fails silently but for a message; the sheet that saved       *)
(* closes anyway.                                                          *)
HearReload(k) ==
    LET tab == tabs[k.tab]
        savings ==
            IF k.status # "ok" THEN tab.savings
            ELSE IF k.kind = "readAccounts"
            THEN [tab.savings EXCEPT !.accounts = k.got.accounts]
            ELSE IF k.kind = "readBox"
            THEN [tab.savings EXCEPT !.box = k.got.box]
            ELSE [tab.savings EXCEPT !.position = k.got.position]
    IN  /\ k.kind \in {"readAccounts", "readBox", "readInvestment"}
        /\ Done(k)
        /\ tabs' = [tabs EXCEPT
               ![k.tab].savings = savings,
               ![k.tab].sheet = IF @.kind \in k.body.closes THEN NoSheet ELSE @]
        /\ calls' = Others(k)
        /\ doubt' = IF k.status = "ok" THEN doubt ELSE doubt \cup {k.tab}
        /\ Untouched

(* A write was refused or failed: a message, and the sheet stays open.     *)
HearFailure(k) ==
    LET deletes == k.kind \in {"deleteAccount", "deleteCategory"}
    IN  /\ k.kind \in Writes \cup {"readIncomes"}
        /\ Done(k)
        /\ k.status # "ok"
        /\ k.kind = "deleteIncome" => k.status = "failed"
        /\ tabs' = [tabs EXCEPT
               ![k.tab].sheet =
                   IF @.kind \notin SheetsOf(k.kind) THEN @
                   ELSE IF deletes THEN [@ EXCEPT !.deleting = FALSE]
                   ELSE [@ EXCEPT !.saving = FALSE]]
        /\ calls' = {[other EXCEPT
                         !.heard = @ /\ ~(other.tab = k.tab /\
                                          k.kind = "deleteIncome" /\
                                          other.kind = "deleteIncome")] :
                        other \in Others(k)}
        /\ doubt' = IF k.kind \in Writes THEN doubt \cup {k.tab} ELSE doubt
        /\ Untouched

(* Nobody waits for the end of a call, except the steps of a budget.       *)
EndUnheard(k) ==
    /\ ~k.heard
    /\ k.status \in {"ok", "refused", "failed"}
    /\ k.status = "ok" => k.kind \notin {"readIncomes", "updateIncome"}
    /\ calls' = Others(k)
    /\ UNCHANGED <<tabs, doubt>>
    /\ Untouched

-----------------------------------------------------------------------------
(* The steps of a budget (BudgetSheet): they go on when the page has gone. *)

Follows(k, next) ==
    /\ calls' = Others(k) \cup {[call EXCEPT !.heard = k.heard] : call \in next}
    /\ UNCHANGED <<tabs, doubt>>
    /\ Untouched

(* The page is loaded, which takes the sheet away.                         *)
Finishes(k) ==
    /\ IF k.heard
       THEN /\ tabs' = [tabs EXCEPT ![k.tab].sheet = NoSheet,
                                    ![k.tab].status = "loading"]
            /\ calls' = Loads(k.tab, Others(k))
       ELSE /\ calls' = Others(k)
            /\ UNCHANGED tabs
    /\ UNCHANGED doubt
    /\ Untouched

(* Mutant: all rows go and a new one comes. *)
HearRowsDeletesFirst(k) ==
    LET rows == k.got.rows
    IN  /\ k.kind = "readIncomes"
        /\ k.status = "ok"
        /\ Follows(k,
               {With(New(k.tab, "createIncome"), 0,
                     [id |-> 0, amount |-> k.body.amount])} \cup
               {With(New(k.tab, "deleteIncome"), id,
                     [kind |-> "deleteIncome"]) : id \in IdsOf(rows)})

HearRows(k) ==
    LET rows == k.got.rows
    IN  /\ k.kind = "readIncomes"
        /\ k.status = "ok"
        /\ Follows(k,
               {IF rows = {}
                THEN With(New(k.tab, "createIncome"), 0,
                          [id |-> 0, amount |-> k.body.amount])
                ELSE With(New(k.tab, "updateIncome"), First(rows).id,
                          [amount |-> k.body.amount,
                           surplus |-> Surplus(rows)])})

HearIncome(k) ==
    LET surplus ==
            IF k.kind = "updateIncome" THEN k.body.surplus ELSE {}
    IN  /\ \/ k.kind = "updateIncome"
           \/ k.kind = "createIncome" /\ k.heard
        /\ k.status = "ok"
        /\ IF surplus = {} THEN Finishes(k)
           ELSE Follows(k, {With(New(k.tab, "deleteIncome"), id,
                                 [kind |-> "deleteIncome"]) : id \in surplus})

(* A row that is gone already is as good as deleted.                       *)
HearSurplus(k) ==
    /\ k.kind = "deleteIncome"
    /\ k.heard
    /\ k.status \in {"ok", "refused"}
    /\ IF \E other \in Others(k) :
              other.tab = k.tab /\ other.kind = "deleteIncome" /\ other.heard
       THEN Follows(k, {})
       ELSE Finishes(k)

-----------------------------------------------------------------------------
(* The manager of categories.                                              *)

HearCategory(k) ==
    /\ Succeeded(k, CategoryWrites)
    /\ calls' = Others(k) \cup
           {With(New(k.tab, "readCategories"), 0,
                 [kind |-> IF k.kind = "deleteCategory" THEN "delete"
                           ELSE "save"])}
    /\ UNCHANGED <<tabs, doubt>>
    /\ Untouched

(* Mutant: a deletion does not make the manager dirty. *)
HearListForgetsDelete(k) ==
    LET sheet == tabs[k.tab].sheet
        list == IF k.status = "ok" THEN k.got.users ELSE sheet.list
        after == [sheet EXCEPT !.list = list]
    IN  /\ k.kind = "readCategories"
        /\ Done(k)
        /\ tabs' = [tabs EXCEPT ![k.tab].sheet =
               IF k.body.kind = "save"
               THEN [after EXCEPT !.dirty = TRUE, !.saving = FALSE]
               ELSE IF k.body.kind = "delete"
               THEN [after EXCEPT !.deleting = FALSE]
               ELSE after]
        /\ calls' = Others(k)
        /\ UNCHANGED doubt
        /\ Untouched

(* A list that fails leaves the one before; the write counts all the same. *)
HearList(k) ==
    LET sheet == tabs[k.tab].sheet
        list == IF k.status = "ok" THEN k.got.users ELSE sheet.list
        after == [sheet EXCEPT !.list = list]
    IN  /\ k.kind = "readCategories"
        /\ Done(k)
        /\ tabs' = [tabs EXCEPT ![k.tab].sheet =
               IF k.body.kind = "save"
               THEN [after EXCEPT !.dirty = TRUE, !.saving = FALSE]
               ELSE IF k.body.kind = "delete"
               THEN [after EXCEPT !.dirty = TRUE, !.deleting = FALSE]
               ELSE after]
        /\ calls' = Others(k)
        /\ UNCHANGED doubt
        /\ Untouched

-----------------------------------------------------------------------------
Navigate(t) ==
    \/ Enter(t)
    \/ \E assetTab \in {"budget", "savings"} : HandleAssetTab(t, assetTab)
    \/ OpenBudget(t)
    \/ OpenCategories(t)
    \/ \E kind \in Kinds : OpenBox(t, kind)
    \/ OnAddAccount(t)
    \/ \E name \in Names : OnEditAccountGoal(t, name)
    \/ OnEditReturn(t)
    \/ OnClose(t)
    \/ HandleClose(t)

Edit(t) ==
    \/ \E amount \in Amounts : SaveBudget(t, amount)
    \/ \E source \in {"cash", "savings"}, amount \in Amounts :
           SaveBox(t, source, amount)
    \/ \E x \in tabs[t].savings.box : DeleteBox(t, x)
    \/ \E name \in Names, base \in Bases : AddAccount(t, name, base)
    \/ \E goal \in Amounts : SaveGoal(t, goal)
    \/ DeleteAccount(t)
    \/ \E rate \in Rates : SaveReturn(t, rate)
    \/ \E name \in CategoryNames : SaveCategory(t, name)
    \/ \E row \in tabs[t].sheet.list, name \in CategoryNames :
           RenameCategory(t, row, name)
    \/ \E row \in tabs[t].sheet.list : DeleteCategory(t, row)

Serve(k) ==
    \/ ServeLoad(k)
    \/ ServeCategories(k)
    \/ ServeRead(k)
    \/ ServeCreate(k)
    \/ ServeUpdate(k)
    \/ ServeDelete(k)
    \/ CheckCategory(k)
    \/ WriteCategory(k)
    \/ FindInvestment(k)
    \/ WriteInvestment(k)

Hear(k) ==
    \/ HearLoad(k)
    \/ HearSavings(k)
    \/ HearSheetWrite(k)
    \/ HearReload(k)
    \/ HearFailure(k)
    \/ EndUnheard(k)
    \/ HearRows(k)
    \/ HearIncome(k)
    \/ HearSurplus(k)
    \/ HearCategory(k)
    \/ HearList(k)

Next ==
    \/ \E t \in Tabs : Navigate(t) \/ Edit(t)
    \/ \E k \in calls : Serve(k) \/ Hear(k) \/ Fail(k) \/ LoseAnswer(k)

Spec == Init /\ [][Next]_vars
=============================================================================
