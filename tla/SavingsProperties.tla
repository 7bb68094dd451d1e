------------------------- MODULE SavingsProperties -------------------------
(* What the savings tab, the budget and the categories promise.            *)
EXTENDS Savings

(* Every variable keeps its shape and ids are keys.  Money taken out of    *)
(* the box never counts as savings moved (SavingsBoxSheet.tsx:77).         *)
TypeOK ==
    /\ db \in Database
    /\ Consistent(db)
    /\ tabs \in [Tabs -> Tab]
    /\ \A k \in calls : k.tab \in Tabs /\ k.kind \in Reads \cup Writes
    /\ doubt \subseteq Tabs
    /\ saves \in 0..MaxSaves
    /\ faults \in 0..MaxFaults

(* A tab has no call in flight, heard of no failure since it came up, and  *)
(* nothing was written behind its back.                                    *)
Settled(t) == CallsOf(t) = {} /\ t \notin doubt

(* What a settled tab shows is what was saved: its own writes are read     *)
(* again before it comes to rest, in whatever sheet they were made         *)
(* (page.tsx:597-636, CategoryManager.tsx:59-64, BudgetSheet.tsx:78).  The *)
(* categories wait until their manager closes.                             *)
ShownIsSaved ==
    \A t \in Tabs :
        LET tab == tabs[t]
        IN  Settled(t) =>
                /\ tab.status = "ready" /\ tab.sheet.kind # "category" =>
                       /\ tab.users = db.users
                       /\ tab.fixed = db.fixed
                       /\ tab.incomes = db.incomes
                /\ tab.savings.status = "ready" =>
                       /\ tab.savings.accounts = db.accounts
                       /\ tab.savings.box = db.box
                       /\ tab.savings.position = First(db.positions)

(* page.tsx: netWorth.                                                     *)
NetWorth(savings) ==
    DisplayedSaved(savings)
        + InvestmentValue(savings.position, savings.codes)
        + Balance(savings.box)

(* All there is: what the accounts began with, what was put into them, the *)
(* investment, and the cash that went into the box less what was taken.    *)
Cash ==
    Total(LAMBDA x : x.amount,
          {x \in db.box : x.type = "in" /\ x.source = "cash"})
Bases0 == Total(LAMBDA a : a.base, db.accounts)
PutIn(names) ==
    Total(LAMBDA c : c.amount,
          {c \in Contributions : c.code = SavingsCode /\ c.item \in names})
Worth ==
    Bases0 + PutIn({a.name : a \in db.accounts})
        + InvestmentValue(First(db.positions), Fixed)
        + Cash - OutTotal(db.box)

UniquelyNamed(rows) ==
    \A row, other \in rows : row.name = other.name => row = other

(* The net worth on a settled tab is the money there is: moving savings    *)
(* into the box changes nothing, cash raises it, taking out lowers it, and *)
(* no contribution is missing (page.tsx:580-582, 641-642).                 *)
WorthIsKept ==
    \A t \in Tabs :
        Settled(t) /\ OnSavings(t) /\ UniquelyNamed(db.accounts) =>
            NetWorth(tabs[t].savings) = Worth

(* A change of a goal or of a return, whatever the tab knew when it was    *)
(* made, leaves the base that was sealed with it (page.tsx:176-180).       *)
BasesKept ==
    [][\A table \in {"accounts", "positions"} :
          \A row \in db[table], after \in db'[table] :
              row.id = after.id => row.base = after.base]_vars

(* Two saves of a return that both found no position make two rows.  The   *)
(* one that is read from then on is settled by the first of them: no later *)
(* write puts another in its place, so a page never reads a base or a      *)
(* return of one row and saves them into the other                         *)
(* (investment.service.ts:31-36, 38-56).                                   *)
PositionStays ==
    [][db.positions # {} =>
          First(db'.positions).id = First(db.positions).id]_vars

(* A budget that is saved again is never gone in between, not even when a  *)
(* step fails or another tab saves (BudgetSheet.tsx:74).                   *)
BudgetNotLost == [][db.incomes # {} => db'.incomes # {}]_vars
=============================================================================
