---------------------------- MODULE SavingsStore ----------------------------
(***************************************************************************)
(* Categories, the month's budget, savings accounts, the petty-cash box    *)
(* and the investment position: their tables, what the API's calls do to   *)
(* them and the sums that a page makes of them.                            *)
(*                                                                         *)
(* Ids are numbers in the order of creation, so they also stand for        *)
(* createdAt.  Colours, dates and memos are left out, and so are           *)
(* ciphertexts: a blob opens to what was sealed in it, or it is Corrupt.   *)
(***************************************************************************)
EXTENDS Integers, FiniteSets, Functions

CONSTANTS
    None,
    Corrupt,        \* the base in a blob that does not open
    Fixed,          \* codes of the fixed categories
    SavingsCode,    \* the code SAVINGS
    InvestmentCode, \* the code INVESTMENT
    CategoryNames,  \* names a user gives to categories
    Names,          \* names of savings accounts
    Amounts,        \* what a user types
    LastId,         \* bound: rows created
    Contributions   \* expenses of the categories SAVINGS and INVESTMENT

ASSUME StoreAssumption ==
    /\ {SavingsCode, InvestmentCode} \subseteq Fixed
    /\ Amounts \subseteq Nat \ {0}
    /\ LastId \in Nat
    /\ Contributions \subseteq
           [code: {SavingsCode, InvestmentCode}, item: Names, amount: Amounts]
    /\ IsFiniteSet(Contributions)

Id == 1..LastId
Bases == Amounts \cup {0}

(* Returns in whole hundreds of percent; None is an empty rate.            *)
Rates == {None, 0, 1}

User == [id: Id, name: CategoryNames]
Income == [id: Id, amount: Amounts]
Account == [id: Id, name: Names, base: Bases, goal: Bases]
Txn == [id: Id, type: {"in", "out"}, source: {"cash", "savings"},
        amount: Amounts]
Position == [id: Id, base: Bases \cup {Corrupt}, rate: Rates]

Database ==
    [born: 0..LastId, fixed: SUBSET Fixed, users: SUBSET User,
     incomes: SUBSET Income, accounts: SUBSET Account, box: SUBSET Txn,
     positions: SUBSET Position]

ASSUME NoneAssumption ==
    /\ None \notin Account \cup Position
    /\ Corrupt \notin Bases

IdsOf(rows) == {row.id : row \in rows}
RowOf(rows, id) == CHOOSE row \in rows : row.id = id
Keyed(rows) == \A row, other \in rows : row.id = other.id => row = other
Without(rows, id) == {row \in rows : row.id # id}
Changed(rows, row) == Without(rows, row.id) \cup {row}

Tables == {"users", "incomes", "accounts", "box", "positions"}

(* Ids are keys, and only those given out occur; money taken out of the    *)
(* box has no source but cash.                                             *)
Consistent(db) ==
    /\ \A table \in Tables :
           Keyed(db[table]) /\ \A row \in db[table] : row.id <= db.born
    /\ \A x \in db.box : x.type = "out" => x.source = "cash"

(* Mutant: the newest row comes first (orderBy createdAt, desc). *)
Newest(rows) ==
    IF rows = {} THEN None
    ELSE CHOOSE row \in rows : \A other \in rows : other.id <= row.id

(* The first row created, None of no rows (orderBy createdAt, findFirst).  *)
First(rows) ==
    IF rows = {} THEN None
    ELSE CHOOSE row \in rows : \A other \in rows : row.id <= other.id

Total(Amount(_), rows) ==
    SumFunctionOnSet([row \in rows |-> Amount(row)], rows)

-----------------------------------------------------------------------------
(* The API.                                                                *)

(* The list of categories adds the fixed ones that are missing; code is    *)
(* unique, so two lists at once add each once.                             *)
Seeded(db) == [db EXCEPT !.fixed = Fixed]

(* A name is taken by another category.  Fixed categories have names no    *)
(* user gives.                                                             *)
NameAvailable(db, name, id) ==
    ~\E row \in db.users : row.name = name /\ row.id # id

(* The row gets the next id.                                               *)
Created(db, table, row) ==
    LET id == db.born + 1
    IN  [db EXCEPT !.born = id,
                   ![table] = @ \cup {[row EXCEPT !.id = id]}]

Updated(db, table, row) == [db EXCEPT ![table] = Changed(@, row)]

Removed(db, table, id) == [db EXCEPT ![table] = Without(@, id)]

-----------------------------------------------------------------------------
(* The sums of the savings tab (asset-compute.ts).                         *)

(* planBudgetSave: all but the row to update.                              *)
Surplus(rows) == IF rows = {} THEN {} ELSE IdsOf(rows) \ {First(rows).id}

(* Contributions of a code, as far as the page asked for it and knows it.  *)
Contributed(code, codes) ==
    IF code \in codes
    THEN Total(LAMBDA c : c.amount, {c \in Contributions : c.code = code})
    ELSE 0

ContributedTo(name, codes) ==
    IF SavingsCode \in codes
    THEN Total(LAMBDA c : c.amount,
               {c \in Contributions : c.code = SavingsCode /\ c.item = name})
    ELSE 0

(* savingsAccountsView: savedTotal.                                        *)
SavedTotal(accounts, codes) ==
    Total(LAMBDA a : a.base + ContributedTo(a.name, codes), accounts)

(* The base of a position, 0 where there is none or it cannot be read.     *)
Readable(position) == position # None /\ position.base # Corrupt
BaseOf(position) == IF Readable(position) THEN position.base ELSE 0

(* investmentView: value.                                                  *)
InvestmentValue(position, codes) ==
    LET principal == BaseOf(position) + Contributed(InvestmentCode, codes)
    IN  IF Readable(position) /\ position.rate # None
        THEN principal * (1 + position.rate)
        ELSE principal

(* savingsBoxBalance.                                                      *)
InTotal(box) == Total(LAMBDA x : x.amount, {x \in box : x.type = "in"})
OutTotal(box) == Total(LAMBDA x : x.amount, {x \in box : x.type = "out"})
Balance(box) == InTotal(box) - OutTotal(box)
FromSavings(box) ==
    Total(LAMBDA x : x.amount,
          {x \in box : x.type = "in" /\ x.source = "savings"})
=============================================================================
