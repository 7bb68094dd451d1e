--------------------------- MODULE SavingsProofs ----------------------------
(***************************************************************************)
(* Proofs about the month's budget, the categories, the savings accounts,  *)
(* the petty-cash box and the investment, for any number of tabs, any      *)
(* rows, any number of saves and of failing calls.                         *)
(***************************************************************************)
EXTENDS SavingsProperties, FiniteSetTheorems, WellFoundedInduction, TLAPS

(* The calls by what they are about.                                       *)
BudgetWrites == {"createIncome", "updateIncome", "deleteIncome"}
AccountWrites == {"createAccount", "updateAccount", "deleteAccount"}
BoxWrites == {"createBox", "deleteBox"}
SavingsWrites == AccountWrites \cup BoxWrites \cup {"saveInvestment"}
Reloads == {"readAccounts", "readInvestment", "readBox"}
SavingsSheets == {"boxIn", "boxOut", "boxDetail", "addAccount", "goal", "return"}

-----------------------------------------------------------------------------
(* The inductive invariant: types.                                         *)

Statuses == {"sent", "checked", "ok", "refused", "failed"}

(* A call, whatever it carries.                                            *)
Shaped(k) ==
    k \in [tab: Tabs, kind: Reads \cup Writes, id: 0..LastId, body: {k.body},
           status: Statuses, heard: BOOLEAN, got: {k.got}]

(* What a call is sent with.                                               *)
Sends(k) ==
    /\ k.kind = "readIncomes" => k.body \in [amount: Amounts]
    /\ k.kind = "loadSavings" =>
           k.body \in [codes: {{SavingsCode, InvestmentCode}}]
    /\ k.kind \in Reloads => k.body \in [closes: SUBSET Kinds]
    /\ k.kind = "readCategories" =>
           k.body \in [kind: {"readCategories", "save", "delete"}]
    /\ k.kind = "createIncome" => k.body \in [id: {0}, amount: Amounts]
    /\ k.kind = "updateIncome" =>
           k.id \in Id /\ k.body \in [amount: Amounts, surplus: SUBSET Id]
    /\ k.kind = "createBox" =>
           /\ k.body \in [id: {0}, type: {"in", "out"},
                          source: {"cash", "savings"}, amount: Amounts]
           /\ k.body.type = "out" => k.body.source = "cash"
    /\ k.kind = "createAccount" =>
           k.body \in [id: {0}, name: Names, base: Bases, goal: Bases]
    /\ k.kind = "updateAccount" =>
           k.id \in Id /\ k.body \in [base: Bases, goal: Amounts]
    /\ k.kind = "saveInvestment" =>
           k.body \in [id: {0}, base: Bases, rate: Rates]
    /\ k.kind = "createCategory" =>
           k.body \in [id: {0}, name: CategoryNames]
    /\ k.kind = "updateCategory" =>
           k.id \in Id /\ k.body \in [name: CategoryNames]

(* What its answer brings.                                                 *)
Brings(k) ==
    /\ k.status = "ok" =>
           /\ k.kind = "load" =>
                  k.got \in [fixed: {Fixed}, users: SUBSET User,
                             incomes: SUBSET Income]
           /\ k.kind = "loadSavings" =>
                  k.got \in [accounts: SUBSET Account, box: SUBSET Txn,
                             position: Position \cup {None}]
           /\ k.kind = "readAccounts" => k.got \in [accounts: SUBSET Account]
           /\ k.kind = "readBox" => k.got \in [box: SUBSET Txn]
           /\ k.kind = "readInvestment" =>
                  k.got \in [position: Position \cup {None}]
           /\ k.kind = "readIncomes" => k.got \in [rows: SUBSET Income]
           /\ k.kind = "readCategories" => k.got \in [users: SUBSET User]
    /\ k.status = "checked" =>
           /\ k.kind \in {"createCategory", "updateCategory", "saveInvestment"}
           /\ k.kind = "saveInvestment" =>
                  k.got \in [row: Position \cup {None}]

(* Calls that may still add a row: there is room for what they add and for *)
(* what the saves to come will.                                            *)
Creator(k) ==
    \/ k.kind = "readIncomes" /\ k.status \in {"sent", "ok"}
    \/ /\ k.kind \in {"createIncome", "createBox", "createAccount",
                      "createCategory", "saveInvestment"}
       /\ k.status \in {"sent", "checked"}
Creators == {k \in calls : Creator(k)}
Room ==
    /\ IsFiniteSet(Creators)
    /\ db.born + Cardinality(Creators) + (MaxSaves - saves) <= LastId

(* A page that is ready has the fixed categories, and asks for the savings *)
(* of both of theirs.                                                      *)
Asked(tab) ==
    /\ tab.status = "ready" => tab.fixed = Fixed
    /\ tab.savings.status = "ready" =>
           tab.savings.codes = {SavingsCode, InvestmentCode}
    /\ tab.sheet.kind = "goal" => tab.sheet.account # None

TypeInv ==
    /\ TypeOK
    /\ \A k \in calls : Shaped(k) /\ Sends(k) /\ Brings(k)
    /\ \A t \in Tabs : Asked(tabs[t])
    /\ Room

-----------------------------------------------------------------------------
(* The budget: below each row that a budget's steps delete, or will, there *)
(* is one with a smaller id.                                               *)

Below(id) == \E row \in db.incomes : row.id < id

Spares(k) ==
    /\ k.kind = "deleteIncome" => Below(k.id)
    /\ k.kind = "updateIncome" => \A id \in k.body.surplus : Below(id)
    /\ k.kind = "readIncomes" /\ k.status = "ok" =>
           \A id \in Surplus(k.got.rows) : Below(id)

BudgetInv == \A k \in calls : Spares(k)

-----------------------------------------------------------------------------
(* The savings tab: its sheets, writes and reloads come with its rows.     *)

Opened(t) ==
    LET ready == tabs[t].savings.status = "ready"
    IN  /\ tabs[t].sheet.kind \in SavingsSheets => ready
        /\ \A k \in CallsOf(t) :
               /\ k.kind \in SavingsWrites /\ k.heard => ready
               /\ k.kind \in Reloads => ready
               /\ k.kind = "loadSavings" => tabs[t].savings.status = "loading"
        /\ \A k, other \in CallsOf(t) :
               k.kind = "loadSavings" /\ other.kind = "loadSavings" => k = other

TabInv == \A t \in Tabs : Opened(t)

(* The heard steps of a budget come from its sheet, which stays and saves; *)
(* so do those of the manager of categories.  Only a savings sheet is      *)
(* closed by a reload, and somebody always waits for a page's read.        *)
BudgetCalls == BudgetWrites \cup {"readIncomes"}
Stepping(k) == k.heard /\ k.kind \in BudgetCalls
Fits(k, sheet) ==
    /\ Stepping(k) => sheet.kind = "budget" /\ sheet.saving
    /\ k.kind = "readCategories" => sheet.kind = "category"
    /\ k.heard /\ k.kind \in CategoryWrites => sheet.kind = "category"
    /\ k.kind \in Reloads => k.body.closes \subseteq SavingsSheets
    /\ k.kind \in PageReads => k.heard

(* Steps are taken one by one, but for the deletions.                      *)
Modal(t) ==
    /\ \A k \in CallsOf(t) : Fits(k, tabs[t].sheet)
    /\ \A k, other \in CallsOf(t) :
           Stepping(k) /\ Stepping(other) /\ k.kind # "deleteIncome" => k = other

SheetInv == \A t \in Tabs : Modal(t)

-----------------------------------------------------------------------------
(* Bases: what anybody knows of a row that is there is its base.           *)

KnownAccount(a) ==
    /\ a.id \in 0..db.born
    /\ \A row \in db.accounts : row.id = a.id => row.base = a.base
KnownBase(base) ==
    IF db.positions = {} THEN base = 0 ELSE First(db.positions).base = base
KnownPosition(position) ==
    KnownBase(IF position = None THEN 0 ELSE position.base)

TabKnows(tab) ==
    /\ tab.savings.status = "ready" =>
           /\ \A a \in tab.savings.accounts : KnownAccount(a)
           /\ KnownPosition(tab.savings.position)
    /\ tab.sheet.kind = "goal" => KnownAccount(tab.sheet.account)
    /\ tab.sheet.kind = "return" =>
           tab.savings.position = None \/ Readable(tab.savings.position)

CallKnows(k) ==
    /\ k.status = "ok" /\ k.kind \in {"loadSavings", "readAccounts"} =>
           \A a \in k.got.accounts : KnownAccount(a)
    /\ k.status = "ok" /\ k.kind \in {"loadSavings", "readInvestment"} =>
           KnownPosition(k.got.position)
    /\ k.kind = "updateAccount" => KnownAccount([id |-> k.id, base |-> k.body.base])
    /\ k.kind = "saveInvestment" => KnownBase(k.body.base)
    /\ k.kind = "saveInvestment" /\ k.status = "checked" =>
           \/ k.got.row = None
           \/ db.positions # {} /\ k.got.row.id = First(db.positions).id

BasesInv ==
    /\ \A t \in Tabs : TabKnows(tabs[t])
    /\ \A k \in calls : CallKnows(k)

-----------------------------------------------------------------------------
(* What is shown: a tab that is not in doubt shows its rows as they are,   *)
(* or a step of its own is under way that will read them again.            *)

Writing(t, kinds) == \E k \in CallsOf(t) : k.heard /\ k.kind \in kinds
Reading(t, kind) == \E k \in CallsOf(t) : k.kind = kind

(* field of a load and of the page.                                        *)
Shows(t, field) ==
    /\ tabs[t].status = "ready" => tabs[t][field] = db[field]
    /\ \A k \in CallsOf(t) :
           k.kind = "load" /\ k.status = "ok" => k.got[field] = db[field]

IncomesShown(t) == Writing(t, BudgetWrites) \/ Shows(t, "incomes")

Listing(t) ==
    \/ Writing(t, CategoryWrites)
    \/ \E k \in CallsOf(t) :
           k.kind = "readCategories" /\ k.body.kind # "readCategories"
    \/ tabs[t].sheet.kind = "category" /\ tabs[t].sheet.dirty
UsersShown(t) == Listing(t) \/ Shows(t, "users")

(* field of the savings, where reload reads it and kinds write it.         *)
Saved(field) ==
    IF field = "position" THEN First(db.positions) ELSE db[field]
SavingsShown(t, field, reload, kinds) ==
    \/ Writing(t, kinds)
    \/ /\ \/ Reading(t, reload)
          \/ tabs[t].savings.status = "ready" =>
                 tabs[t].savings[field] = Saved(field)
       /\ \A k \in CallsOf(t) :
              k.kind \in {"loadSavings", reload} /\ k.status = "ok" =>
                  k.got[field] = Saved(field)

SavingsFields ==
    {<<"accounts", "readAccounts", AccountWrites>>, <<"box", "readBox", BoxWrites>>,
     <<"position", "readInvestment", {"saveInvestment"}>>}

ShownAt(t) ==
    /\ IncomesShown(t)
    /\ UsersShown(t)
    /\ \A f \in SavingsFields : SavingsShown(t, f[1], f[2], f[3])

ShownInv == \A t \in Tabs \ doubt : ShownAt(t)

FixedInv ==
    /\ \A t \in Tabs : tabs[t].status = "ready" => db.fixed = Fixed
    /\ \A k \in calls : k.kind = "load" /\ k.status = "ok" => db.fixed = Fixed

-----------------------------------------------------------------------------
(* The least of a set of ids.                                              *)

LEMMA Smallest ==
    ASSUME NEW A, NEW Sets, IsFiniteSet(A), Sets \subseteq SUBSET A, Sets # {}
    PROVE  \E x \in Sets : \A y \in Sets : y \subseteq x => y = x
<1>1. IsWellFoundedOn(StrictSubsetOrdering(A), SUBSET A)
  BY FS_StrictSubsetOrderingWellFounded, FS_FiniteSubsetsOfFinite
<1>2. PICK x \in Sets : \A y \in Sets : <<y, x>> \notin StrictSubsetOrdering(A)
  BY <1>1, WFMin
<1>3. QED
  BY <1>2 DEF StrictSubsetOrdering

LEMMA Least ==
    ASSUME NEW S, S \subseteq Nat, S # {}
    PROVE  \E n \in S : \A m \in S : n <= m
<1>1. PICK k \in S : TRUE
  OBVIOUS
<1> DEFINE Sets == {0..n : n \in {m \in S : m <= k}}
           A == 0..k
<1>2. IsFiniteSet(A)
  BY FS_Interval
<1>3. Sets \subseteq SUBSET A /\ Sets # {}
  OBVIOUS
<1>4. PICK x \in Sets : \A y \in Sets : y \subseteq x => y = x
  <2> HIDE DEF Sets, A
  <2>1. QED
    BY <1>2, <1>3, Smallest, SMT
<1>5. PICK n \in S : n <= k /\ x = 0..n
  OBVIOUS
<1>6. ASSUME NEW m \in S, m < n
      PROVE  FALSE
  <2>1. 0..m \in Sets /\ 0..m \subseteq x
    BY <1>5, <1>6
  <2> HIDE DEF Sets
  <2>2. 0..m = 0..n
    BY <1>4, <1>5, <2>1
  <2>3. n \in 0..m
    BY <1>5, <2>2
  <2>4. QED
    BY <1>6, <2>3
<1>7. QED
  BY <1>6

LEMMA FirstIsLeast ==
    ASSUME NEW rows, rows # {}, \A row \in rows : row.id \in Nat
    PROVE  /\ First(rows) \in rows
           /\ \A row \in rows : First(rows).id <= row.id
<1>1. IdsOf(rows) \subseteq Nat /\ IdsOf(rows) # {}
  BY DEF IdsOf
<1>2. PICK id \in IdsOf(rows) : \A other \in IdsOf(rows) : id <= other
  BY <1>1, Least
<1>3. PICK row \in rows : row.id = id
  BY DEF IdsOf
<1>4. \A other \in rows : row.id <= other.id
  BY <1>2, <1>3 DEF IdsOf
<1>5. QED
  BY <1>4 DEF First

LEMMA FirstOfNone == First({}) = None
BY DEF First

(* The first of some rows is what has the least id, and stays so when rows *)
(* with greater ids come.                                                  *)
LEMMA FirstIs ==
    ASSUME NEW rows, Keyed(rows), \A row \in rows : row.id \in Nat,
           NEW row \in rows, \A other \in rows : row.id <= other.id
    PROVE  First(rows) = row
<1>1. First(rows) \in rows /\ First(rows).id <= row.id
  BY FirstIsLeast
<1>2. First(rows).id = row.id
  BY <1>1
<1>3. QED
  BY <1>1, <1>2 DEF Keyed

-----------------------------------------------------------------------------
(* Sums over finite sets, as the library's fold makes them: sums has the   *)
(* sum of f over each subset of S.  The fold takes one element after the   *)
(* other; the lemmas say that their order does not matter.                 *)

Some(s) == CHOOSE x \in s : TRUE
Sums(sums, f, S) ==
    sums = [s \in SUBSET S |->
               IF s = {} THEN 0 ELSE f[Some(s)] + sums[s \ {Some(s)}]]

LEMMA SumIsFold ==
    ASSUME NEW f, NEW S
    PROVE  SumFunctionOnSet(f, S) = (CHOOSE sums : Sums(sums, f, S))[S]
BY DEF SumFunctionOnSet, FoldFunctionOnSet, MapThenFoldSet, Sums, Some

LEMMA SomeIn ==
    ASSUME NEW s, s # {}
    PROVE  Some(s) \in s
BY DEF Some

LEMMA SumsSame ==
    ASSUME NEW f, NEW S, IsFiniteSet(S), NEW T, S \subseteq T,
           NEW sums, Sums(sums, f, S), NEW others, Sums(others, f, T)
    PROVE  \A s \in SUBSET S : sums[s] = others[s]
<1> DEFINE Sets == {s \in SUBSET S : sums[s] # others[s]}
<1>1. ASSUME Sets # {}
      PROVE  FALSE
  <2>1. Sets \subseteq SUBSET S
    OBVIOUS
  <2>2. PICK s \in Sets : \A r \in Sets : r \subseteq s => r = s
    <3> HIDE DEF Sets
    <3>1. QED
      BY <1>1, <2>1, Smallest
  <2>3. s \in SUBSET S /\ s \in SUBSET T /\ sums[s] # others[s]
    OBVIOUS
  <2>4. s # {}
    BY <2>3 DEF Sums
  <2>5. s \ {Some(s)} \notin Sets
    <3>1. s \ {Some(s)} \subseteq s /\ s \ {Some(s)} # s
      BY <2>4, SomeIn
    <3> HIDE DEF Sets
    <3>2. QED
      BY <2>2, <3>1
  <2>6. sums[s \ {Some(s)}] = others[s \ {Some(s)}]
    BY <2>3, <2>5
  <2>7. sums[s] = f[Some(s)] + sums[s \ {Some(s)}]
    BY <2>3, <2>4 DEF Sums
  <2>8. others[s] = f[Some(s)] + others[s \ {Some(s)}]
    BY <2>3, <2>4 DEF Sums
  <2>9. QED
    BY <2>3, <2>6, <2>7, <2>8
<1>2. QED
  BY <1>1

(* There are such sums: over the subsets of n elements at most, for any n.  *)
LEMMA SumsExist ==
    ASSUME NEW f, NEW S, IsFiniteSet(S), \A x \in S : f[x] \in Int
    PROVE  \E sums \in [SUBSET S -> Int] : Sums(sums, f, S)
<1> DEFINE UpTo(n) == {s \in SUBSET S : Cardinality(s) <= n}
           Step(sums, s) == IF s = {} THEN 0 ELSE f[Some(s)] + sums[s \ {Some(s)}]
           Exist(n) == \E sums \in [UpTo(n) -> Int] :
                           \A s \in UpTo(n) : sums[s] = Step(sums, s)
           Bad == {n \in Nat : ~Exist(n)}
<1>1. \A s \in SUBSET S :
          /\ Cardinality(s) \in Nat
          /\ s # {} =>
                 /\ Some(s) \in S
                 /\ s \ {Some(s)} \in SUBSET S
                 /\ Cardinality(s \ {Some(s)}) = Cardinality(s) - 1
          /\ s # {} => Cardinality(s) > 0
  <2>1. TAKE s \in SUBSET S
  <2>2. IsFiniteSet(s) /\ Cardinality(s) \in Nat
    BY FS_Subset, FS_CardinalityType
  <2>3. s # {} => Some(s) \in s /\ Cardinality(s) # 0
    BY <2>2, SomeIn, FS_EmptySet
  <2>4. s # {} => Cardinality(s \ {Some(s)}) = Cardinality(s) - 1
    BY <2>2, <2>3, FS_RemoveElement
  <2>5. QED
    BY <2>2, <2>3, <2>4
<1>2. ASSUME NEW n \in Nat, n > 0 => Exist(n - 1)
      PROVE  Exist(n)
  <2>1. PICK below \in [UpTo(n - 1) -> Int] :
            n > 0 => \A s \in UpTo(n - 1) : below[s] = Step(below, s)
    <3>1. CASE n = 0
      <4>1. [s \in UpTo(n - 1) |-> 0] \in [UpTo(n - 1) -> Int]
        OBVIOUS
      <4>2. ~(n > 0)
        BY <3>1
      <4> HIDE DEF UpTo, Step
      <4>3. QED
        BY <4>1, <4>2
    <3>2. CASE n > 0
      <4>1. Exist(n - 1)
        BY <1>2, <3>2
      <4> HIDE DEF UpTo, Step
      <4>2. QED
        BY <4>1
    <3>3. n = 0 \/ n > 0
      BY <1>2
    <3> HIDE DEF UpTo, Step
    <3>4. QED
      BY <3>1, <3>2, <3>3
  <2> DEFINE sums == [s \in UpTo(n) |-> Step(below, s)]
  <2>2. \A s \in UpTo(n) : s # {} =>
            n > 0 /\ Some(s) \in S /\ s \ {Some(s)} \in UpTo(n - 1)
                  /\ s \ {Some(s)} \in UpTo(n)
    BY <1>1
  <2>3. sums \in [UpTo(n) -> Int]
    BY <2>1, <2>2
  <2>4. \A s \in UpTo(n - 1) : n > 0 => s \in UpTo(n) /\ sums[s] = below[s]
    <3>1. ASSUME NEW s \in UpTo(n - 1)
          PROVE  s \in UpTo(n)
      <4>1. s \in SUBSET S /\ Cardinality(s) <= n - 1 /\ Cardinality(s) \in Nat
        BY <1>1
      <4>2. Cardinality(s) <= n
        BY <4>1
      <4>3. QED
        BY <4>1, <4>2
    <3>2. \A s \in UpTo(n - 1) : n > 0 => below[s] = Step(below, s)
      BY <2>1
    <3> HIDE DEF UpTo, Step
    <3>3. QED
      BY <3>1, <3>2
  <2>5. ASSUME NEW s \in UpTo(n)
        PROVE  sums[s] = Step(sums, s)
    BY <2>2, <2>4
  <2>6. QED
    BY <2>3, <2>5
<1>3. Bad = {}
  <2>1. SUFFICES ASSUME Bad # {}
                 PROVE  FALSE
    OBVIOUS
  <2>2. Bad \subseteq Nat
    OBVIOUS
  <2>3. PICK n \in Bad : \A m \in Bad : n <= m
    <3> HIDE DEF Bad
    <3>1. QED
      BY <2>1, <2>2, Least
  <2>4. n \in Nat /\ ~Exist(n)
    OBVIOUS
  <2>5. n > 0 => n - 1 \in Nat /\ n - 1 \notin Bad
    <3> HIDE DEF Bad
    <3>1. QED
      BY <2>3, <2>4
  <2>6. n > 0 => Exist(n - 1)
    <3> HIDE DEF Exist
    <3>1. QED
      BY <2>5
  <2>7. QED
    <3> HIDE DEF Exist
    <3>1. QED
      BY <1>2, <2>4, <2>6
<1>4. Cardinality(S) \in Nat /\ UpTo(Cardinality(S)) = SUBSET S
  BY FS_CardinalityType, FS_Subset
<1>5. PICK sums \in [SUBSET S -> Int] : \A s \in SUBSET S : sums[s] = Step(sums, s)
  <2>1. Exist(Cardinality(S))
    <3> HIDE DEF Exist
    <3>1. QED
      BY <1>3, <1>4
  <2>2. QED
    BY <1>4, <2>1
<1>6. sums = [s \in SUBSET S |-> Step(sums, s)]
  BY <1>5
<1>7. QED
  BY <1>5, <1>6 DEF Sums

LEMMA SumSteps ==
    ASSUME NEW f, NEW S, IsFiniteSet(S), \A x \in S : f[x] \in Int
    PROVE  /\ SumFunctionOnSet(f, S) \in Int
           /\ S = {} => SumFunctionOnSet(f, S) = 0
           /\ S # {} => SumFunctionOnSet(f, S) =
                            f[Some(S)] + SumFunctionOnSet(f, S \ {Some(S)})
<1>1. PICK sums \in [SUBSET S -> Int] : Sums(sums, f, S)
  BY SumsExist
<1>2. ASSUME NEW T \in SUBSET S
      PROVE  SumFunctionOnSet(f, T) = sums[T]
  <2>1. IsFiniteSet(T)
    BY FS_Subset
  <2>2. \E others : Sums(others, f, T)
    BY <2>1, SumsExist
  <2>3. ASSUME NEW others, Sums(others, f, T)
        PROVE  others[T] = sums[T]
    <3>1. \A s \in SUBSET T : others[s] = sums[s]
      BY <1>1, <2>1, <2>3, SumsSame
    <3>2. QED
      BY <3>1
  <2>4. (CHOOSE others : Sums(others, f, T))[T] = sums[T]
    BY <2>2, <2>3
  <2>5. QED
    BY <2>4, SumIsFold
<1>3. sums[S] = IF S = {} THEN 0 ELSE f[Some(S)] + sums[S \ {Some(S)}]
  BY <1>1 DEF Sums
<1>4. SumFunctionOnSet(f, S) = sums[S]
  BY <1>2
<1>5. SumFunctionOnSet(f, S \ {Some(S)}) = sums[S \ {Some(S)}]
  BY <1>2
<1>6. QED
  BY <1>1, <1>3, <1>4, <1>5

(* Any element may be taken first.                                         *)
LEMMA SumWithout ==
    ASSUME NEW f, NEW S, IsFiniteSet(S), \A x \in S : f[x] \in Int, NEW x \in S
    PROVE  SumFunctionOnSet(f, S) = f[x] + SumFunctionOnSet(f, S \ {x})
<1> DEFINE SumOf(T) == SumFunctionOnSet(f, T)
           Wrong(T) == \E y \in T : SumOf(T) # f[y] + SumOf(T \ {y})
           Sets == {T \in SUBSET S : Wrong(T)}
<1>1. ASSUME NEW T \in SUBSET S
      PROVE  /\ IsFiniteSet(T) /\ SumOf(T) \in Int
             /\ T # {} => SumOf(T) = f[Some(T)] + SumOf(T \ {Some(T)})
  <2>1. IsFiniteSet(T)
    BY FS_Subset
  <2>2. QED
    BY <2>1, SumSteps
<1>2. ASSUME NEW T \in SUBSET S, NEW y \in T, SumOf(T) # f[y] + SumOf(T \ {y}),
             \A R \in SUBSET S : R \subseteq T /\ Wrong(R) => R = T
      PROVE  FALSE
  <2> DEFINE z == Some(T)
  <2>1. z \in T /\ SumOf(T) = f[z] + SumOf(T \ {z})
    BY <1>1, SomeIn
  <2>2. y # z
    BY <1>2, <2>1
  <2> HIDE DEF z
  <2>3. T \ {z} \in SUBSET S /\ y \in T \ {z} /\ ~Wrong(T \ {z})
    <3> HIDE DEF Wrong
    <3>1. QED
      BY <1>2, <2>1, <2>2
  <2>4. T \ {y} \in SUBSET S /\ z \in T \ {y} /\ ~Wrong(T \ {y})
    <3> HIDE DEF Wrong
    <3>1. QED
      BY <1>2, <2>1, <2>2
  <2> DEFINE R == (T \ {z}) \ {y}
  <2>5. R = (T \ {y}) \ {z} /\ R \in SUBSET S
    OBVIOUS
  <2>6. SumOf(T \ {z}) = f[y] + SumOf(R)
    <3> HIDE DEF SumOf
    <3>1. QED
      BY <2>3
  <2>7. SumOf(T \ {y}) = f[z] + SumOf(R)
    <3> HIDE DEF SumOf, R
    <3>1. QED
      BY <2>4, <2>5
  <2>8. f[y] \in Int /\ f[z] \in Int /\ SumOf(R) \in Int
    <3> HIDE DEF SumOf, R
    <3>1. QED
      BY <1>1, <2>1, <2>5
  <2>9. QED
    <3> HIDE DEF SumOf, R
    <3>1. QED
      BY <1>2, <2>1, <2>6, <2>7, <2>8
<1>3. Sets = {}
  <2>1. SUFFICES ASSUME Sets # {}
                 PROVE  FALSE
    OBVIOUS
  <2>2. Sets \subseteq SUBSET S
    OBVIOUS
  <2>3. PICK T \in Sets : \A R \in Sets : R \subseteq T => R = T
    <3> HIDE DEF Sets
    <3>1. QED
      BY <2>1, <2>2, Smallest
  <2>4. T \in SUBSET S /\ Wrong(T)
    OBVIOUS
  <2>5. PICK y \in T : SumOf(T) # f[y] + SumOf(T \ {y})
    BY <2>4
  <2>6. \A R \in SUBSET S : R \subseteq T /\ Wrong(R) => R = T
    <3> HIDE DEF Wrong
    <3>1. QED
      BY <2>3
  <2>7. QED
    <3> HIDE DEF Wrong, SumOf, Sets
    <3>1. QED
      BY <1>2, <2>4, <2>5, <2>6
<1>4. ~Wrong(S)
  <2> HIDE DEF Wrong
  <2>1. QED
    BY <1>3
<1>5. QED
  BY <1>4

(* Induction over a finite set, for the subsets that are in Good.          *)
LEMMA SubsetInduction ==
    ASSUME NEW S, IsFiniteSet(S), NEW Good, {} \in Good,
           \A T \in SUBSET S : \A x \in T : T \ {x} \in Good => T \in Good
    PROVE  S \in Good
<1> DEFINE Bad == {T \in SUBSET S : T \notin Good}
<1>1. ASSUME Bad # {}
      PROVE  FALSE
  <2>1. Bad \subseteq SUBSET S
    OBVIOUS
  <2>2. PICK T \in Bad : \A R \in Bad : R \subseteq T => R = T
    <3> HIDE DEF Bad
    <3>1. QED
      BY <1>1, <2>1, Smallest
  <2>3. T \in SUBSET S /\ T \notin Good
    OBVIOUS
  <2>4. PICK x \in T : TRUE
    BY <2>3
  <2>5. T \ {x} \notin Bad
    <3>1. T \ {x} \subseteq T /\ T \ {x} # T
      BY <2>4
    <3> HIDE DEF Bad
    <3>2. QED
      BY <2>2, <3>1
  <2>6. QED
    BY <2>3, <2>4, <2>5
<1>2. QED
  BY <1>1

LEMMA SumTyped ==
    ASSUME NEW f, NEW S, IsFiniteSet(S), NEW T \in SUBSET S,
           \A x \in S : f[x] \in Int
    PROVE  /\ IsFiniteSet(T)
           /\ SumFunctionOnSet(f, T) \in Int
           /\ T = {} => SumFunctionOnSet(f, T) = 0
           /\ \A x \in T :
                  SumFunctionOnSet(f, T) = f[x] + SumFunctionOnSet(f, T \ {x})
<1>1. IsFiniteSet(T) /\ \A x \in T : f[x] \in Int
  BY FS_Subset
<1>2. SumFunctionOnSet(f, T) \in Int /\ (T = {} => SumFunctionOnSet(f, T) = 0)
  BY <1>1, SumSteps
<1>3. ASSUME NEW x \in T
      PROVE  SumFunctionOnSet(f, T) = f[x] + SumFunctionOnSet(f, T \ {x})
  BY <1>1, SumWithout
<1>4. QED
  BY <1>1, <1>2, <1>3

LEMMA SumAgrees ==
    ASSUME NEW S, IsFiniteSet(S), NEW f, NEW g,
           \A x \in S : f[x] \in Int /\ g[x] = f[x]
    PROVE  SumFunctionOnSet(g, S) = SumFunctionOnSet(f, S)
<1> DEFINE Good == {T \in SUBSET S : SumFunctionOnSet(g, T) = SumFunctionOnSet(f, T)}
<1>1. {} \in Good
  BY SumTyped
<1>2. ASSUME NEW T \in SUBSET S, NEW x \in T, T \ {x} \in Good
      PROVE  T \in Good
  <2>1. SumFunctionOnSet(f, T) = f[x] + SumFunctionOnSet(f, T \ {x})
    BY SumTyped
  <2>2. SumFunctionOnSet(g, T) = g[x] + SumFunctionOnSet(g, T \ {x})
    BY SumTyped
  <2>3. QED
    BY <1>2, <2>1, <2>2
<1>3. S \in Good
  <2> HIDE DEF Good
  <2>1. QED
    BY <1>1, <1>2, SubsetInduction
<1>4. QED
  BY <1>3

LEMMA SumPlus ==
    ASSUME NEW S, IsFiniteSet(S), NEW f, NEW g, NEW h,
           \A x \in S : f[x] \in Int /\ g[x] \in Int /\ h[x] = f[x] + g[x]
    PROVE  SumFunctionOnSet(h, S) = SumFunctionOnSet(f, S) + SumFunctionOnSet(g, S)
<1> DEFINE Good ==
        {T \in SUBSET S : SumFunctionOnSet(h, T) =
                              SumFunctionOnSet(f, T) + SumFunctionOnSet(g, T)}
<1>1. {} \in Good
  BY SumTyped
<1>2. ASSUME NEW T \in SUBSET S, NEW x \in T, T \ {x} \in Good
      PROVE  T \in Good
  <2>1. /\ SumFunctionOnSet(f, T) = f[x] + SumFunctionOnSet(f, T \ {x})
        /\ SumFunctionOnSet(f, T \ {x}) \in Int
    BY SumTyped
  <2>2. /\ SumFunctionOnSet(g, T) = g[x] + SumFunctionOnSet(g, T \ {x})
        /\ SumFunctionOnSet(g, T \ {x}) \in Int
    BY SumTyped
  <2>3. SumFunctionOnSet(h, T) = h[x] + SumFunctionOnSet(h, T \ {x})
    BY SumTyped
  <2>4. QED
    BY <1>2, <2>1, <2>2, <2>3
<1>3. S \in Good
  <2> HIDE DEF Good
  <2>1. QED
    BY <1>1, <1>2, SubsetInduction
<1>4. QED
  BY <1>3

LEMMA SumUnion ==
    ASSUME NEW S, IsFiniteSet(S), NEW f, \A x \in S : f[x] \in Int,
           NEW A \in SUBSET S, NEW B \in SUBSET S, A \cap B = {}
    PROVE  SumFunctionOnSet(f, A \cup B) =
               SumFunctionOnSet(f, A) + SumFunctionOnSet(f, B)
<1> DEFINE Good ==
        {T \in SUBSET A : SumFunctionOnSet(f, T \cup B) =
                              SumFunctionOnSet(f, T) + SumFunctionOnSet(f, B)}
<1>1. {} \in Good
  <2>1. {} \cup B = B
    OBVIOUS
  <2>2. SumFunctionOnSet(f, {}) = 0 /\ SumFunctionOnSet(f, B) \in Int
    BY SumTyped
  <2>3. QED
    BY <2>1, <2>2
<1>2. ASSUME NEW T \in SUBSET A, NEW x \in T, T \ {x} \in Good
      PROVE  T \in Good
  <2>1. /\ SumFunctionOnSet(f, T) = f[x] + SumFunctionOnSet(f, T \ {x})
        /\ SumFunctionOnSet(f, T \ {x}) \in Int /\ f[x] \in Int
        /\ SumFunctionOnSet(f, B) \in Int
    <3>1. T \in SUBSET S /\ T \ {x} \in SUBSET S
      OBVIOUS
    <3>2. QED
      BY <3>1, SumTyped
  <2>2. T \cup B \in SUBSET S /\ x \in T \cup B
        /\ (T \cup B) \ {x} = (T \ {x}) \cup B
    OBVIOUS
  <2>3. SumFunctionOnSet(f, T \cup B) =
            f[x] + SumFunctionOnSet(f, (T \cup B) \ {x})
    BY <2>2, SumTyped
  <2>4. SumFunctionOnSet(f, T \cup B) =
            f[x] + SumFunctionOnSet(f, (T \ {x}) \cup B)
    BY <2>2, <2>3
  <2>5. QED
    BY <1>2, <2>1, <2>4
<1>3. IsFiniteSet(A)
  BY FS_Subset
<1>4. A \in Good
  <2> HIDE DEF Good
  <2>1. QED
    BY <1>1, <1>2, <1>3, SubsetInduction
<1>5. QED
  BY <1>4

-----------------------------------------------------------------------------
(* Calls.                                                                  *)

(* A call that goes on as it was, though perhaps unheard.                  *)
Like(c, k) ==
    /\ c.tab = k.tab /\ c.kind = k.kind /\ c.id = k.id /\ c.body = k.body
    /\ c.status = k.status /\ c.got = k.got
    /\ c.heard => k.heard

LEMMA CallSets ==
    /\ Reads \cup Writes =
           {"load", "loadSavings", "readAccounts", "readInvestment", "readBox",
            "readIncomes", "readCategories", "createIncome", "updateIncome",
            "deleteIncome", "createBox", "deleteBox", "createAccount",
            "updateAccount", "deleteAccount", "saveInvestment",
            "createCategory", "updateCategory", "deleteCategory"}
    /\ Reads \cap Writes = {}
BY DEF Reads, Writes

LEMMA NewCall ==
    ASSUME NEW t \in Tabs, NEW kind \in Reads \cup Writes
    PROVE  LET c == New(t, kind)
           IN  /\ Shaped(c)
               /\ c.tab = t /\ c.kind = kind /\ c.id = 0
               /\ c.body = [kind |-> kind] /\ c.status = "sent" /\ c.heard
BY StoreAssumption DEF New, Shaped, Statuses

LEMMA WithCall ==
    ASSUME NEW t \in Tabs, NEW kind \in Reads \cup Writes, NEW id \in 0..LastId,
           NEW body
    PROVE  LET c == With(New(t, kind), id, body)
           IN  /\ Shaped(c)
               /\ c.tab = t /\ c.kind = kind /\ c.id = id
               /\ c.body = body /\ c.status = "sent" /\ c.heard
BY DEF With, New, Shaped, Statuses

Reply(k, status, got) == [k EXCEPT !.status = status, !.got = got]

LEMMA AnsweredCall ==
    ASSUME NEW k, Shaped(k), NEW status \in Statuses, NEW got
    PROVE  LET c == Reply(k, status, got)
           IN  /\ Shaped(c)
               /\ c.tab = k.tab /\ c.kind = k.kind /\ c.id = k.id
               /\ c.body = k.body /\ c.heard = k.heard
               /\ c.status = status /\ c.got = got
BY DEF Shaped, Reply

LEMMA HeardCall ==
    ASSUME NEW k, Shaped(k), NEW heard \in BOOLEAN
    PROVE  LET c == [k EXCEPT !.heard = heard]
           IN  /\ Shaped(c)
               /\ c.tab = k.tab /\ c.kind = k.kind /\ c.id = k.id
               /\ c.body = k.body /\ c.status = k.status /\ c.got = k.got
               /\ c.heard = heard
BY DEF Shaped

LEMMA LikeTyped ==
    ASSUME NEW c, NEW k, Like(c, k), Sends(k), Brings(k)
    PROVE  Sends(c) /\ Brings(c)
BY DEF Like, Sends, Brings

LEMMA LikeCreates ==
    ASSUME NEW c, NEW k, Like(c, k)
    PROVE  Creator(c) <=> Creator(k)
BY DEF Like, Creator

(* A call of a kind that adds no row, and one that has ended.              *)
LEMMA NotCreator ==
    ASSUME NEW c,
           \/ c.kind \notin {"readIncomes", "createIncome", "createBox",
                             "createAccount", "createCategory", "saveInvestment"}
           \/ c.status \in {"refused", "failed"}
           \/ c.status = "ok" /\ c.kind # "readIncomes"
    PROVE  ~Creator(c)
BY DEF Creator

-----------------------------------------------------------------------------
(* Room for the rows to come.                                              *)

LEMMA RangeSmaller ==
    ASSUME NEW S, NEW U, IsFiniteSet(S), NEW g \in [S -> U]
    PROVE  LET T == {g[x] : x \in S}
           IN  IsFiniteSet(T) /\ Cardinality(T) <= Cardinality(S)
<1> DEFINE T == {g[x] : x \in S}
<1>1. g \in Surjection(S, T)
  BY DEF Surjection
<1> HIDE DEF T
<1>2. IsFiniteSet(T) /\ Cardinality(T) <= Cardinality(S)
  BY <1>1, FS_Surjection
<1>3. QED
  BY <1>2 DEF T

(* How many are left when one is added, gone or replaced.                  *)
LEMMA Counting ==
    ASSUME NEW S, IsFiniteSet(S), NEW T, NEW k, NEW c
    PROVE  /\ Cardinality(S) \in Nat
           /\ T \subseteq S =>
                  /\ IsFiniteSet(T)
                  /\ Cardinality(T) \in 0..Cardinality(S)
           /\ T \subseteq S \cup {c} =>
                  /\ IsFiniteSet(T)
                  /\ Cardinality(T) \in 0..Cardinality(S) + 1
           /\ k \in S /\ T \subseteq S \ {k} =>
                  /\ IsFiniteSet(T)
                  /\ Cardinality(T) \in 0..Cardinality(S) - 1
           /\ k \in S /\ T \subseteq (S \ {k}) \cup {c} =>
                  /\ IsFiniteSet(T)
                  /\ Cardinality(T) \in 0..Cardinality(S)
<1> DEFINE A == S \cup {c}
           R == S \ {k}
           X == R \cup {c}
<1>1. Cardinality(S) \in Nat
  BY FS_CardinalityType
<1>2. /\ IsFiniteSet(A) /\ Cardinality(A) \in Nat
      /\ Cardinality(A) <= Cardinality(S) + 1
  BY <1>1, FS_AddElement
<1>3. /\ IsFiniteSet(R) /\ Cardinality(R) \in Nat
      /\ k \in S => Cardinality(R) = Cardinality(S) - 1
  BY <1>1, FS_RemoveElement, FS_CardinalityType
<1>4. /\ IsFiniteSet(X) /\ Cardinality(X) \in Nat
      /\ Cardinality(X) <= Cardinality(R) + 1
  <2> HIDE DEF R
  <2>1. QED
    BY <1>3, FS_AddElement
<1>5. \A U : IsFiniteSet(U) /\ T \subseteq U =>
          /\ IsFiniteSet(T) /\ Cardinality(T) \in Nat
          /\ Cardinality(T) <= Cardinality(U)
  BY FS_Subset, FS_CardinalityType
<1> HIDE DEF A, R, X
<1>6. T \subseteq S => IsFiniteSet(T) /\ Cardinality(T) \in 0..Cardinality(S)
  BY <1>1, <1>5
<1>7. T \subseteq A => IsFiniteSet(T) /\ Cardinality(T) \in 0..Cardinality(S) + 1
  BY <1>1, <1>2, <1>5
<1>8. k \in S /\ T \subseteq R =>
          IsFiniteSet(T) /\ Cardinality(T) \in 0..Cardinality(S) - 1
  BY <1>1, <1>3, <1>5
<1>9. k \in S /\ T \subseteq X =>
          IsFiniteSet(T) /\ Cardinality(T) \in 0..Cardinality(S)
  BY <1>1, <1>3, <1>4, <1>5
<1>10. QED
  BY <1>1, <1>6, <1>7, <1>8, <1>9 DEF A, R, X

LEMMA Numbers ==
    ASSUME TypeInv
    PROVE  /\ db.born \in Nat /\ saves \in Nat /\ MaxSaves \in Nat /\ LastId \in Nat
           /\ saves <= MaxSaves
BY PageAssumption, StoreAssumption DEF TypeInv, TypeOK, Database

LEMMA StillRoom ==
    ASSUME TypeInv, Creators' \subseteq Creators, UNCHANGED <<db, saves>>
    PROVE  Room'
BY Counting, Numbers DEF TypeInv, Room

LEMMA SwapRoom ==
    ASSUME TypeInv, NEW k \in Creators, NEW c,
           Creators' \subseteq (Creators \ {k}) \cup {c},
           db'.born = db.born, UNCHANGED saves
    PROVE  Room'
<1>1. IsFiniteSet(Creators)
  BY DEF TypeInv, Room
<1>2. /\ Cardinality(Creators) \in Nat
      /\ IsFiniteSet(Creators') /\ Cardinality(Creators') \in 0..Cardinality(Creators)
  BY <1>1, Counting
<1>3. QED
  BY <1>2, Numbers DEF TypeInv, Room

LEMMA SaveRoom ==
    ASSUME TypeInv, NEW c, Creators' \subseteq Creators \cup {c},
           UNCHANGED db, saves' = saves + 1
    PROVE  Room'
<1>1. IsFiniteSet(Creators)
  BY DEF TypeInv, Room
<1>2. /\ Cardinality(Creators) \in Nat
      /\ IsFiniteSet(Creators') /\ Cardinality(Creators') \in 0..Cardinality(Creators) + 1
  BY <1>1, Counting
<1>3. QED
  BY <1>2, Numbers DEF TypeInv, Room

LEMMA BornRoom ==
    ASSUME TypeInv, NEW k \in Creators, Creators' \subseteq Creators \ {k},
           db'.born = db.born + 1, UNCHANGED saves
    PROVE  Room' /\ db'.born \in Id
<1>1. IsFiniteSet(Creators)
  BY DEF TypeInv, Room
<1>2. /\ Cardinality(Creators) \in Nat
      /\ IsFiniteSet(Creators') /\ Cardinality(Creators') \in 0..Cardinality(Creators) - 1
  BY <1>1, Counting
<1>3. QED
  BY <1>2, Numbers DEF TypeInv, Room, Id

LEMMA ImageRoom ==
    ASSUME TypeInv, NEW U, NEW g \in [Creators -> U],
           Creators' \subseteq {g[k] : k \in Creators}, UNCHANGED <<db, saves>>
    PROVE  Room'
<1> DEFINE T == {g[k] : k \in Creators}
<1>1. IsFiniteSet(Creators) /\ Cardinality(Creators) \in Nat
  BY FS_CardinalityType DEF TypeInv, Room
<1>2. IsFiniteSet(T) /\ Cardinality(T) <= Cardinality(Creators)
  BY <1>1, RangeSmaller
<1> HIDE DEF T
<1>3. IsFiniteSet(Creators') /\ Cardinality(Creators') \in 0..Cardinality(T)
  BY <1>2, Counting DEF T
<1>4. Cardinality(T) \in Nat
  BY <1>2, FS_CardinalityType
<1>5. QED
  BY <1>1, <1>2, <1>3, <1>4, Numbers DEF TypeInv, Room

-----------------------------------------------------------------------------
(* Tabs and their sheets.                                                  *)

LEMMA SheetTypes ==
    /\ NoSheet \in Sheet
    /\ \A kind \in Kinds : LET sheet == [NoSheet EXCEPT !.kind = kind]
                           IN  sheet \in Sheet /\ sheet.kind = kind
    /\ \A account \in Account :
           LET sheet == [NoSheet EXCEPT !.kind = "goal", !.account = account]
           IN  /\ sheet \in Sheet /\ sheet.kind = "goal"
               /\ sheet.account = account /\ ~sheet.dirty
    /\ NoSheet.kind = "none" /\ ~NoSheet.dirty
BY DEF NoSheet, Sheet, Kinds

LEMMA SheetClosed ==
    ASSUME NEW tab \in Tab
    PROVE  LET closed == [tab EXCEPT !.sheet = NoSheet]
           IN  /\ closed \in Tab
               /\ closed.savings = tab.savings /\ closed.sheet.kind = "none"
<1>1. NoSheet \in Sheet /\ NoSheet.kind = "none"
  BY SheetTypes
<1>2. QED
  BY <1>1 DEF Tab

LEMMA SheetEdits ==
    ASSUME NEW sheet \in Sheet, NEW b \in BOOLEAN, NEW list \in SUBSET User
    PROVE  /\ [sheet EXCEPT !.saving = b] \in Sheet
           /\ [sheet EXCEPT !.saving = b].kind = sheet.kind
           /\ [sheet EXCEPT !.saving = b].account = sheet.account
           /\ [sheet EXCEPT !.saving = b].dirty = sheet.dirty
           /\ [sheet EXCEPT !.deleting = b] \in Sheet
           /\ [sheet EXCEPT !.deleting = b].kind = sheet.kind
           /\ [sheet EXCEPT !.deleting = b].account = sheet.account
           /\ [sheet EXCEPT !.deleting = b].dirty = sheet.dirty
           /\ [sheet EXCEPT !.list = list] \in Sheet
           /\ [sheet EXCEPT !.list = list].kind = sheet.kind
           /\ [sheet EXCEPT !.list = list].account = sheet.account
           /\ [sheet EXCEPT !.list = list].dirty = sheet.dirty
BY DEF Sheet

LEMMA TabParts ==
    ASSUME NEW tab \in Tab
    PROVE  /\ tab.status \in Loading \ {"idle"}
           /\ tab.fixed \in SUBSET Fixed /\ tab.users \in SUBSET User
           /\ tab.incomes \in SUBSET Income
           /\ tab.assetTab \in {"budget", "savings"}
           /\ tab.savings \in SavingsState /\ tab.sheet \in Sheet
           /\ tab.savings.status \in Loading
           /\ tab.savings.codes \in SUBSET Fixed
           /\ tab.savings.accounts \in SUBSET Account
           /\ tab.savings.position \in Position \cup {None}
           /\ tab.savings.box \in SUBSET Txn
BY DEF Tab, SavingsState

(* A tab with another sheet.                                               *)
LEMMA TabWithSheet ==
    ASSUME NEW tab \in Tab, NEW sheet \in Sheet
    PROVE  LET new == [tab EXCEPT !.sheet = sheet]
           IN  /\ new \in Tab
               /\ new.sheet = sheet /\ new.status = tab.status
               /\ new.fixed = tab.fixed /\ new.users = tab.users
               /\ new.incomes = tab.incomes /\ new.savings = tab.savings
               /\ new.assetTab = tab.assetTab
BY DEF Tab

LEMMA NewTab ==
    /\ Mounted \in Tab
    /\ Asked(Mounted)
    /\ Mounted.status = "loading" /\ Mounted.savings.status = "idle"
    /\ Mounted.sheet = NoSheet
    /\ Mounted.sheet.kind = "none" /\ ~Mounted.sheet.dirty
BY SheetTypes DEF Mounted, NoSavings, Tab, SavingsState, Loading, Asked

LEMMA TabChange ==
    ASSUME TypeInv, NEW t \in Tabs, NEW tab, tabs' = [tabs EXCEPT ![t] = tab]
    PROVE  /\ tabs'[t] = tab
           /\ \A u \in Tabs \ {t} : tabs'[u] = tabs[u]
           /\ tab \in Tab => tabs' \in [Tabs -> Tab]
           /\ tabs[t] \in Tab
BY DEF TypeInv, TypeOK

-----------------------------------------------------------------------------
(* The parts of the type invariant.                                        *)

DataTyped == db \in Database /\ Consistent(db)
Typed(k) == Shaped(k) /\ Sends(k) /\ Brings(k)
CallsTyped == \A k \in calls : Typed(k)
TabsTyped == tabs \in [Tabs -> Tab] /\ \A t \in Tabs : Asked(tabs[t])
CountsTyped ==
    doubt \subseteq Tabs /\ saves \in 0..MaxSaves /\ faults \in 0..MaxFaults

LEMMA TypeParts ==
    TypeInv <=> DataTyped /\ CallsTyped /\ TabsTyped /\ CountsTyped /\ Room
BY DEF TypeInv, TypeOK, DataTyped, CallsTyped, Typed, TabsTyped, CountsTyped, Shaped

LEMMA TypePartsNext ==
    DataTyped' /\ CallsTyped' /\ TabsTyped' /\ CountsTyped' /\ Room' => TypeInv'
BY DEF TypeInv, TypeOK, DataTyped, CallsTyped, Typed, TabsTyped, CountsTyped, Shaped

LEMMA LikeCall ==
    ASSUME NEW c, NEW k, Typed(k), Shaped(c), Like(c, k)
    PROVE  Typed(c)
BY LikeTyped DEF Typed

LEMMA NewTyped ==
    ASSUME NEW t \in Tabs
    PROVE  /\ Typed(New(t, "load")) /\ ~Creator(New(t, "load"))
           /\ Typed(New(t, "readCategories")) /\ ~Creator(New(t, "readCategories"))
<1>1. ASSUME NEW kind \in {"load", "readCategories"}
      PROVE  Typed(New(t, kind)) /\ ~Creator(New(t, kind))
  <2> DEFINE c == New(t, kind)
  <2>1. kind \in Reads \cup Writes
    BY CallSets
  <2>2. /\ Shaped(c) /\ c.kind = kind /\ c.body = [kind |-> kind]
        /\ c.status = "sent"
    BY <2>1, NewCall
  <2> HIDE DEF c
  <2>3. Sends(c) /\ Brings(c)
    BY <2>2 DEF Sends, Brings, Reloads
  <2>4. ~Creator(c)
    BY <2>2, NotCreator
  <2>5. QED
    BY <2>2, <2>3, <2>4 DEF Typed, c
<1>2. QED
  BY <1>1

(* A tab changes, no data, and the calls are the ones before and some that *)
(* add no row.                                                             *)
LEMMA TabStepTyped ==
    ASSUME TypeInv, NEW t \in Tabs, NEW tab \in Tab, Asked(tab),
           tabs' = [tabs EXCEPT ![t] = tab],
           \A k \in calls' : k \in calls \/ (Typed(k) /\ ~Creator(k)),
           doubt' \subseteq Tabs, Untouched
    PROVE  TypeInv'
<1>1. TabsTyped'
  BY TabChange, TypeParts DEF TabsTyped
<1>2. CallsTyped'
  BY TypeParts DEF CallsTyped
<1>3. Creators' \subseteq Creators /\ UNCHANGED <<db, saves, faults>>
  BY DEF Creators, Untouched
<1>4. Room'
  BY <1>3, StillRoom
<1>5. DataTyped' /\ CountsTyped'
  BY <1>3, TypeParts DEF DataTyped, CountsTyped, Untouched
<1>6. QED
  BY <1>1, <1>2, <1>4, <1>5, TypePartsNext

LEMMA OpensTyped ==
    ASSUME TypeInv, NEW t \in Tabs, NEW sheet \in Sheet, NEW others,
           Opens(t, sheet, others),
           sheet.kind = "goal" => sheet.account # None,
           others \in {calls, calls \cup {New(t, "readCategories")}}
    PROVE  TypeInv'
<1> DEFINE tab == [tabs[t] EXCEPT !.sheet = sheet]
<1>1. tabs' = [tabs EXCEPT ![t] = tab] /\ tabs[t] \in Tab /\ Asked(tabs[t])
  BY TypeParts DEF Opens, TabsTyped
<1>2. tab \in Tab /\ Asked(tab)
  BY <1>1, TabWithSheet DEF Asked
<1>3. \A k \in calls' : k \in calls \/ (Typed(k) /\ ~Creator(k))
  BY NewTyped DEF Opens
<1>4. doubt' \subseteq Tabs /\ Untouched
  BY TypeParts DEF Opens, CountsTyped
<1> HIDE DEF tab
<1>5. QED
  BY <1>1, <1>2, <1>3, <1>4, TabStepTyped

(* Calls go on, some of them unheard.                                      *)

(* Calls go on, some of them unheard.                                      *)
Silenced(k, deaf) == [k EXCEPT !.heard = @ /\ k \notin deaf]
LEMMA SilencedTyped ==
    ASSUME TypeInv, NEW t \in Tabs, NEW tab \in Tab, Asked(tab), NEW deaf,
           tabs' = [tabs EXCEPT ![t] = tab],
           \A c \in calls' :
               \/ c = New(t, "load")
               \/ \E k \in calls : c = Silenced(k, deaf),
           doubt' \subseteq Tabs, Untouched
    PROVE  TypeInv'
<1>1. TabsTyped'
  BY TabChange, TypeParts DEF TabsTyped
<1>2. \A k \in calls : LET c == Silenced(k, deaf)
                       IN  Typed(c) /\ (Creator(c) <=> Creator(k))
  <2> SUFFICES ASSUME NEW k \in calls
               PROVE  LET c == Silenced(k, deaf)
                      IN  Typed(c) /\ (Creator(c) <=> Creator(k))
    OBVIOUS
  <2> DEFINE heard == k.heard /\ k \notin deaf
             c == [k EXCEPT !.heard = heard]
  <2>1. Typed(k) /\ heard \in BOOLEAN
    BY TypeParts DEF CallsTyped, Typed, Shaped
  <2>2. Shaped(c) /\ Like(c, k)
    <3> HIDE DEF heard
    <3>1. QED
      BY <2>1, HeardCall DEF Typed, Like, heard
  <2>3. Typed(c) /\ (Creator(c) <=> Creator(k))
    <3> HIDE DEF c
    <3>1. QED
      BY <2>1, <2>2, LikeCall, LikeCreates
  <2>4. QED
    BY <2>3 DEF Silenced
<1>3. CallsTyped'
  BY <1>2, NewTyped DEF CallsTyped
<1>4. Room'
  <2> DEFINE g == [k \in Creators |-> Silenced(k, deaf)]
             U == {g[k] : k \in Creators}
  <2>1. g \in [Creators -> U]
    OBVIOUS
  <2>2. Creators' \subseteq {g[k] : k \in Creators}
    BY <1>2, NewTyped DEF Creators
  <2>3. UNCHANGED <<db, saves>>
    BY DEF Untouched
  <2> HIDE DEF g, U
  <2>4. QED
    BY <2>1, <2>2, <2>3, ImageRoom
<1>5. DataTyped' /\ CountsTyped'
  BY TypeParts DEF DataTyped, CountsTyped, Untouched
<1>6. QED
  BY <1>1, <1>3, <1>4, <1>5, TypePartsNext

LEMMA BecomesTyped ==
    ASSUME TypeInv, NEW t \in Tabs, NEW tab \in Tab, Asked(tab), NEW others,
           others \subseteq calls, Becomes(t, tab, others),
           UNCHANGED doubt, Untouched
    PROVE  TypeInv'
<1>0. doubt' \subseteq Tabs
  BY TypeParts DEF CountsTyped
<1>1. CASE ~WantsSavings(tab)
  <2>1. tabs' = [tabs EXCEPT ![t] = tab] /\ calls' = others
    BY <1>1 DEF Becomes
  <2>2. QED
    BY <1>0, <2>1, TabStepTyped
<1>2. CASE WantsSavings(tab)
  <2> DEFINE new == [tab EXCEPT !.savings.status = "loading"]
             body == [codes |-> tab.fixed \cap {SavingsCode, InvestmentCode}]
             c == With(New(t, "loadSavings"), 0, body)
  <2>1. tabs' = [tabs EXCEPT ![t] = new] /\ calls' = others \cup {c}
    BY <1>2 DEF Becomes
  <2>2. new \in Tab /\ Asked(new)
    BY DEF Tab, SavingsState, Loading, Asked
  <2>3. body \in [codes: {{SavingsCode, InvestmentCode}}]
    BY <1>2, StoreAssumption DEF WantsSavings, Asked
  <2>4. Typed(c) /\ ~Creator(c)
    <3> HIDE DEF body
    <3>1. /\ Shaped(c) /\ c.kind = "loadSavings" /\ c.body = body
          /\ c.status = "sent"
      BY CallSets, WithCall, StoreAssumption
    <3> HIDE DEF c
    <3>2. Sends(c) /\ Brings(c)
      BY <2>3, <3>1 DEF Sends, Brings, Reloads
    <3>3. QED
      BY <3>1, <3>2, NotCreator DEF Typed
  <2> HIDE DEF new, c
  <2>5. \A k \in calls' : k \in calls \/ (Typed(k) /\ ~Creator(k))
    BY <2>1, <2>4
  <2>6. QED
    BY <1>0, <2>1, <2>2, <2>5, TabStepTyped
<1>3. QED
  BY <1>1, <1>2

LEMMA SavesTyped ==
    ASSUME TypeInv, NEW t \in Tabs, NEW sheet \in Sheet, NEW call,
           Saves(t, sheet, call), Typed(call),
           sheet.kind = tabs[t].sheet.kind, sheet.account = tabs[t].sheet.account
    PROVE  TypeInv'
<1> DEFINE tab == [tabs[t] EXCEPT !.sheet = sheet]
<1>1. tabs' = [tabs EXCEPT ![t] = tab] /\ tabs[t] \in Tab /\ Asked(tabs[t])
  BY TypeParts DEF Saves, TabsTyped
<1>2. tab \in Tab /\ Asked(tab)
  BY <1>1, TabWithSheet DEF Asked
<1> HIDE DEF tab
<1>3. TabsTyped'
  BY <1>1, <1>2, TabChange, TypeParts DEF TabsTyped
<1>4. CallsTyped'
  BY TypeParts DEF CallsTyped, Saves
<1>5. Creators' \subseteq Creators \cup {call} /\ UNCHANGED db /\ saves' = saves + 1
  BY DEF Creators, Saves
<1>6. Room'
  BY <1>5, SaveRoom
<1>7. DataTyped' /\ CountsTyped'
  BY TypeParts, Numbers DEF DataTyped, CountsTyped, Saves
<1>8. QED
  BY <1>3, <1>4, <1>6, <1>7, TypePartsNext

-----------------------------------------------------------------------------
(* Types: what a user does.                                                *)

LEMMA EnterTyped ==
    ASSUME TypeInv, NEW t \in Tabs, Enter(t)
    PROVE  TypeInv'
<1> DEFINE deaf == CallsOf(t)
<1>1. tabs' = [tabs EXCEPT ![t] = Mounted] /\ Untouched
  BY DEF Enter
<1>2. \A k \in calls : (k.heard /\ k.tab # t) = (k.heard /\ k \notin deaf)
  BY DEF CallsOf
<1>3. \A c \in calls' :
          \/ c = New(t, "load")
          \/ \E k \in calls : c = Silenced(k, deaf)
  <2> HIDE DEF deaf
  <2>1. QED
    BY <1>2 DEF Enter, Loads, Silenced
<1>4. doubt' \subseteq Tabs
  BY TypeParts DEF Enter, CountsTyped
<1> HIDE DEF deaf
<1>5. QED
  BY <1>1, <1>3, <1>4, NewTab, SilencedTyped

LEMMA HandleAssetTabTyped ==
    ASSUME TypeInv, NEW t \in Tabs, NEW assetTab \in {"budget", "savings"},
           HandleAssetTab(t, assetTab)
    PROVE  TypeInv'
<1> DEFINE failed == assetTab = "savings" /\ tabs[t].savings.status = "error"
           tab == [tabs[t] EXCEPT !.assetTab = assetTab,
                                  !.savings.status = IF failed THEN "idle" ELSE @]
<1>1. Becomes(t, tab, calls) /\ UNCHANGED doubt /\ Untouched
  BY DEF HandleAssetTab
<1>2. tabs[t] \in Tab /\ Asked(tabs[t])
  BY TypeParts DEF TabsTyped
<1>3. tab \in Tab /\ Asked(tab)
  BY <1>2 DEF Tab, SavingsState, Loading, Asked
<1> HIDE DEF tab
<1>4. QED
  BY <1>1, <1>3, BecomesTyped

LEMMA OpeningTyped ==
    ASSUME TypeInv, NEW t \in Tabs,
           \/ OpenBudget(t) \/ OpenCategories(t) \/ OnAddAccount(t)
           \/ OnEditReturn(t)
           \/ \E kind \in Kinds : OpenBox(t, kind)
    PROVE  TypeInv'
<1>1. \E kind, others :
          /\ kind \in Kinds \ {"goal"}
          /\ Opens(t, [NoSheet EXCEPT !.kind = kind], others)
          /\ others \in {calls, calls \cup {New(t, "readCategories")}}
  BY DEF OpenBudget, OpenCategories, OnAddAccount, OnEditReturn, OpenBox, Kinds
<1>2. QED
  BY <1>1, SheetTypes, OpensTyped

LEMMA OnEditAccountGoalTyped ==
    ASSUME TypeInv, NEW t \in Tabs, NEW name, OnEditAccountGoal(t, name)
    PROVE  /\ TypeInv'
           /\ \E a \in tabs[t].savings.accounts :
                  Opens(t, [NoSheet EXCEPT !.kind = "goal", !.account = a], calls)
<1> DEFINE named == {a \in tabs[t].savings.accounts : a.name = name}
<1>1. named \subseteq Account
  BY TypeParts, TabParts DEF TabsTyped
<1>2. named # {} /\ \A a \in named : a.id \in Nat
  BY <1>1 DEF OnEditAccountGoal, Account, Id
<1>3. Opens(t, [NoSheet EXCEPT !.kind = "goal", !.account = First(named)], calls)
  BY DEF OnEditAccountGoal
<1>4. First(named) \in named
  <2> HIDE DEF named
  <2>1. QED
    BY <1>2, FirstIsLeast
<1>5. First(named) \in Account /\ First(named) # None
  BY <1>1, <1>4, NoneAssumption
<1>6. First(named) \in tabs[t].savings.accounts
  BY <1>4
<1> HIDE DEF named
<1>7. TypeInv'
  BY <1>3, <1>5, SheetTypes, OpensTyped
<1>8. PICK a : a = First(named)
  OBVIOUS
<1>9. /\ a \in tabs[t].savings.accounts
      /\ Opens(t, [NoSheet EXCEPT !.kind = "goal", !.account = a], calls)
  BY <1>3, <1>6, <1>8
<1>10. QED
  BY <1>7, <1>9

LEMMA OnCloseTyped ==
    ASSUME TypeInv, NEW t \in Tabs, OnClose(t)
    PROVE  TypeInv'
<1> DEFINE tab == [tabs[t] EXCEPT !.sheet = NoSheet]
<1>1. tabs' = [tabs EXCEPT ![t] = tab] /\ tabs[t] \in Tab /\ Asked(tabs[t])
  BY TypeParts DEF OnClose, TabsTyped
<1>2. tab \in Tab /\ Asked(tab)
  BY <1>1, TabWithSheet, SheetTypes DEF Asked
<1>3. calls' = calls /\ doubt' \subseteq Tabs /\ Untouched
  BY TypeParts DEF OnClose, CountsTyped
<1> HIDE DEF tab
<1>4. QED
  BY <1>1, <1>2, <1>3, TabStepTyped

LEMMA HandleCloseTyped ==
    ASSUME TypeInv, NEW t \in Tabs, HandleClose(t)
    PROVE  TypeInv'
<1> DEFINE pending == {k \in CallsOf(t) : k.kind \in CategoryWrites /\ k.heard}
           closed == [tabs[t] EXCEPT !.sheet = NoSheet]
           loading == [tabs[t] EXCEPT !.sheet = NoSheet, !.status = "loading"]
<1>1. tabs[t] \in Tab /\ Asked(tabs[t])
  BY TypeParts DEF TabsTyped
<1>2. \A tab \in {closed, loading} : tab \in Tab /\ Asked(tab)
  <2>1. closed \in Tab /\ Asked(closed)
    BY <1>1, SheetTypes, TabWithSheet DEF Asked
  <2>2. loading = [closed EXCEPT !.status = "loading"]
    BY <1>1 DEF Tab
  <2> HIDE DEF closed, loading
  <2>3. loading \in Tab /\ Asked(loading)
    BY <2>1, <2>2 DEF Tab, Loading, Asked
  <2>4. QED
    BY <2>1, <2>3
<1>3. \A c \in calls' :
          \/ c = New(t, "load")
          \/ \E k \in calls : c = Silenced(k, pending)
  <2> HIDE DEF pending
  <2>1. QED
    BY DEF HandleClose, Loads, pending, Silenced
<1>4. doubt' \subseteq Tabs /\ Untouched
  BY TypeParts DEF HandleClose, CountsTyped
<1>5. \E tab \in {closed, loading} : tabs' = [tabs EXCEPT ![t] = tab]
  BY DEF HandleClose
<1> HIDE DEF pending, closed, loading
<1>6. QED
  BY <1>2, <1>3, <1>4, <1>5, SilencedTyped

(* A write as it is sent, from a sheet that says that it saves or deletes. *)
LEMMA EditTyped ==
    ASSUME TypeInv, NEW t \in Tabs, NEW kind \in Reads \cup Writes,
           NEW id \in 0..LastId, NEW body,
           NEW sheet \in {tabs[t].sheet, Saving(t), Deleting(t)},
           Saves(t, sheet, With(New(t, kind), id, body)),
           Sends(With(New(t, kind), id, body))
    PROVE  TypeInv'
<1> DEFINE call == With(New(t, kind), id, body)
<1>1. Shaped(call) /\ call.status = "sent"
  BY WithCall
<1>2. Typed(call)
  <2> HIDE DEF call
  <2>1. Brings(call)
    BY <1>1 DEF Brings
  <2>2. QED
    BY <1>1, <2>1 DEF Typed, call
<1>3. tabs[t].sheet \in Sheet
  BY TypeParts, TabParts DEF TabsTyped
<1>4. /\ sheet \in Sheet /\ sheet.kind = tabs[t].sheet.kind
      /\ sheet.account = tabs[t].sheet.account
  <2>1. CASE sheet = tabs[t].sheet
    BY <1>3, <2>1
  <2>2. CASE sheet = Saving(t)
    BY <1>3, <2>2, SheetEdits DEF Saving
  <2>3. CASE sheet = Deleting(t)
    BY <1>3, <2>3, SheetEdits DEF Deleting
  <2>4. QED
    BY <2>1, <2>2, <2>3
<1> HIDE DEF call
<1>5. QED
  BY <1>2, <1>4, SavesTyped DEF call

LEMMA SaveBudgetTyped ==
    ASSUME TypeInv, NEW t \in Tabs, NEW amount \in Amounts, SaveBudget(t, amount)
    PROVE  TypeInv'
<1> DEFINE c == With(New(t, "readIncomes"), 0, [amount |-> amount])
<1>1. Saves(t, Saving(t), c)
  BY DEF SaveBudget
<1>2. c.kind = "readIncomes" /\ c.body = [amount |-> amount]
  BY CallSets, WithCall, StoreAssumption
<1>3. Sends(c)
  <2> HIDE DEF c
  <2>1. QED
    BY <1>2 DEF Sends, Reloads
<1>4. QED
  BY <1>1, <1>3, CallSets, StoreAssumption, EditTyped

LEMMA SaveBoxTyped ==
    ASSUME TypeInv, NEW t \in Tabs, NEW source \in {"cash", "savings"},
           NEW amount \in Amounts, SaveBox(t, source, amount)
    PROVE  TypeInv'
<1> DEFINE body == [id |-> 0, type |-> IF In(t, "boxIn") THEN "in" ELSE "out",
                    source |-> source, amount |-> amount]
           c == With(New(t, "createBox"), 0, body)
<1>1. Saves(t, Saving(t), c)
  BY DEF SaveBox
<1>2. /\ body \in [id: {0}, type: {"in", "out"}, source: {"cash", "savings"},
                   amount: Amounts]
      /\ body.type = "out" => body.source = "cash"
  BY DEF SaveBox, In
<1> HIDE DEF body
<1>3. c.kind = "createBox" /\ c.body = body
  BY CallSets, WithCall, StoreAssumption
<1>4. Sends(c)
  <2> HIDE DEF c
  <2>1. QED
    BY <1>2, <1>3 DEF Sends, Reloads
<1>5. QED
  BY <1>1, <1>4, CallSets, StoreAssumption, EditTyped

LEMMA DeleteBoxTyped ==
    ASSUME TypeInv, NEW t \in Tabs, NEW x, DeleteBox(t, x)
    PROVE  TypeInv'
<1> DEFINE body == [kind |-> "deleteBox"]
           c == With(New(t, "deleteBox"), x.id, body)
<1>1. Saves(t, tabs[t].sheet, c) /\ x \in tabs[t].savings.box
  BY DEF DeleteBox
<1>2. x.id \in 0..LastId
  BY <1>1, TypeParts, TabParts, StoreAssumption DEF TabsTyped, Txn, Id
<1>3. c.kind = "deleteBox"
  BY <1>2, CallSets, WithCall
<1>4. Sends(c)
  <2> HIDE DEF c
  <2>1. QED
    BY <1>3 DEF Sends, Reloads
<1> HIDE DEF body
<1>5. QED
  BY <1>1, <1>2, <1>4, CallSets, EditTyped

LEMMA AddAccountTyped ==
    ASSUME TypeInv, NEW t \in Tabs, NEW name \in Names, NEW base \in Bases,
           AddAccount(t, name, base)
    PROVE  TypeInv'
<1> DEFINE body == [id |-> 0, name |-> name, base |-> base, goal |-> 0]
           c == With(New(t, "createAccount"), 0, body)
<1>1. Saves(t, Saving(t), c)
  BY DEF AddAccount
<1>2. body \in [id: {0}, name: Names, base: Bases, goal: Bases]
  BY DEF Bases
<1> HIDE DEF body
<1>3. c.kind = "createAccount" /\ c.body = body
  BY CallSets, WithCall, StoreAssumption
<1>4. Sends(c)
  <2> HIDE DEF c
  <2>1. QED
    BY <1>2, <1>3 DEF Sends, Reloads
<1>5. QED
  BY <1>1, <1>4, CallSets, StoreAssumption, EditTyped

(* The account of a goal's sheet.                                          *)
LEMMA GoalAccount ==
    ASSUME TypeInv, NEW t \in Tabs, tabs[t].sheet.kind = "goal"
    PROVE  tabs[t].sheet.account \in Account /\ tabs[t].sheet.account.id \in Id
<1>1. tabs[t].sheet \in Sheet /\ tabs[t].sheet.account # None
  BY TypeParts, TabParts DEF TabsTyped, Asked
<1>2. tabs[t].sheet.account \in Account
  BY <1>1 DEF Sheet
<1>3. QED
  BY <1>2 DEF Account

LEMMA SaveGoalTyped ==
    ASSUME TypeInv, NEW t \in Tabs, NEW goal \in Amounts, SaveGoal(t, goal)
    PROVE  TypeInv'
<1> DEFINE account == tabs[t].sheet.account
           body == [base |-> account.base, goal |-> goal]
           c == With(New(t, "updateAccount"), account.id, body)
<1>1. Saves(t, Saving(t), c) /\ tabs[t].sheet.kind = "goal"
  BY DEF SaveGoal, In
<1>2. account \in Account /\ account.id \in Id
  BY <1>1, GoalAccount
<1>3. body \in [base: Bases, goal: Amounts] /\ account.id \in 0..LastId
  BY <1>2 DEF Account, Id
<1> HIDE DEF body, account
<1>4. c.kind = "updateAccount" /\ c.body = body /\ c.id = account.id
  BY <1>3, CallSets, WithCall
<1>5. Sends(c)
  <2> HIDE DEF c
  <2>1. QED
    BY <1>2, <1>3, <1>4 DEF Sends, Reloads
<1>6. QED
  BY <1>1, <1>3, <1>5, CallSets, EditTyped

LEMMA DeleteAccountTyped ==
    ASSUME TypeInv, NEW t \in Tabs, DeleteAccount(t)
    PROVE  TypeInv'
<1> DEFINE id == tabs[t].sheet.account.id
           body == [kind |-> "deleteAccount"]
           c == With(New(t, "deleteAccount"), id, body)
<1>1. Saves(t, Deleting(t), c) /\ tabs[t].sheet.kind = "goal"
  BY DEF DeleteAccount, In
<1>2. id \in 0..LastId
  BY <1>1, GoalAccount DEF Id
<1> HIDE DEF id
<1>3. c.kind = "deleteAccount"
  BY <1>2, CallSets, WithCall
<1>4. Sends(c)
  <2> HIDE DEF c
  <2>1. QED
    BY <1>3 DEF Sends, Reloads
<1> HIDE DEF body
<1>5. QED
  BY <1>1, <1>2, <1>4, CallSets, EditTyped

LEMMA BaseTyped ==
    ASSUME NEW position \in Position \cup {None}
    PROVE  BaseOf(position) \in Bases
BY NoneAssumption DEF BaseOf, Readable, Bases, Position

LEMMA SaveReturnTyped ==
    ASSUME TypeInv, NEW t \in Tabs, NEW rate \in Rates, SaveReturn(t, rate)
    PROVE  TypeInv'
<1> DEFINE base == BaseOf(tabs[t].savings.position)
           body == [id |-> 0, base |-> base, rate |-> rate]
           c == With(New(t, "saveInvestment"), 0, body)
<1>1. Saves(t, Saving(t), c)
  BY DEF SaveReturn
<1>2. base \in Bases
  BY TypeParts, TabParts, BaseTyped DEF TabsTyped
<1> HIDE DEF base
<1>3. body \in [id: {0}, base: Bases, rate: Rates]
  BY <1>2
<1> HIDE DEF body
<1>4. c.kind = "saveInvestment" /\ c.body = body
  BY CallSets, WithCall, StoreAssumption
<1>5. Sends(c)
  <2> HIDE DEF c
  <2>1. QED
    BY <1>3, <1>4 DEF Sends, Reloads
<1>6. QED
  BY <1>1, <1>5, CallSets, StoreAssumption, EditTyped

LEMMA SaveCategoryTyped ==
    ASSUME TypeInv, NEW t \in Tabs, NEW name \in CategoryNames,
           SaveCategory(t, name)
    PROVE  TypeInv'
<1> DEFINE body == [id |-> 0, name |-> name]
           c == With(New(t, "createCategory"), 0, body)
<1>1. Saves(t, Saving(t), c)
  BY DEF SaveCategory
<1>2. c.kind = "createCategory" /\ c.body = body
  BY CallSets, WithCall, StoreAssumption
<1>3. Sends(c)
  <2> HIDE DEF c
  <2>1. QED
    BY <1>2 DEF Sends, Reloads
<1>4. QED
  BY <1>1, <1>3, CallSets, StoreAssumption, EditTyped

LEMMA ListedId ==
    ASSUME TypeInv, NEW t \in Tabs, NEW row \in tabs[t].sheet.list
    PROVE  row.id \in Id /\ row.id \in 0..LastId
BY TypeParts, TabParts DEF TabsTyped, Sheet, User, Id

LEMMA RenameCategoryTyped ==
    ASSUME TypeInv, NEW t \in Tabs, NEW row \in tabs[t].sheet.list,
           NEW name \in CategoryNames, RenameCategory(t, row, name)
    PROVE  TypeInv'
<1> DEFINE body == [name |-> name]
           c == With(New(t, "updateCategory"), row.id, body)
<1>1. Saves(t, Saving(t), c)
  BY DEF RenameCategory
<1>2. c.kind = "updateCategory" /\ c.body = body /\ c.id = row.id
  BY CallSets, WithCall, ListedId
<1>3. Sends(c)
  <2> HIDE DEF c
  <2>1. QED
    BY <1>2, ListedId DEF Sends, Reloads
<1>4. QED
  BY <1>1, <1>3, CallSets, ListedId, EditTyped

LEMMA DeleteCategoryTyped ==
    ASSUME TypeInv, NEW t \in Tabs, NEW row \in tabs[t].sheet.list,
           DeleteCategory(t, row)
    PROVE  TypeInv'
<1> DEFINE body == [kind |-> "deleteCategory"]
           c == With(New(t, "deleteCategory"), row.id, body)
<1>1. Saves(t, Deleting(t), c)
  BY DEF DeleteCategory
<1>2. c.kind = "deleteCategory"
  BY CallSets, WithCall, ListedId
<1>3. Sends(c)
  <2> HIDE DEF c
  <2>1. QED
    BY <1>2 DEF Sends, Reloads
<1> HIDE DEF body
<1>4. QED
  BY <1>1, <1>3, CallSets, ListedId, EditTyped

LEMMA UserTyped ==
    ASSUME TypeInv, NEW t \in Tabs, Navigate(t) \/ Edit(t)
    PROVE  TypeInv'
<1>1. CASE Navigate(t)
  BY <1>1, EnterTyped, HandleAssetTabTyped, OpeningTyped, OnEditAccountGoalTyped,
     OnCloseTyped, HandleCloseTyped DEF Navigate
<1>2. CASE Edit(t)
  BY <1>2, SaveBudgetTyped, SaveBoxTyped, DeleteBoxTyped, AddAccountTyped,
     SaveGoalTyped, DeleteAccountTyped, SaveReturnTyped, SaveCategoryTyped,
     RenameCategoryTyped, DeleteCategoryTyped DEF Edit
<1>3. QED
  BY <1>1, <1>2

-----------------------------------------------------------------------------
(* Types: the tables.                                                      *)

LEMMA SeededTyped ==
    ASSUME DataTyped
    PROVE  /\ Seeded(db) \in Database /\ Consistent(Seeded(db))
           /\ Seeded(db).born = db.born
BY DEF DataTyped, Seeded, Database, Consistent, Tables

(* The row that a call creates in a table, and the type of its rows.       *)
RowsOf(table) ==
    CASE table = "users" -> User
      [] table = "incomes" -> Income
      [] table = "accounts" -> Account
      [] table = "box" -> Txn
      [] table = "positions" -> Position

LEMMA TableTyped ==
    ASSUME DataTyped, NEW table \in Tables
    PROVE  /\ db[table] \in SUBSET RowsOf(table)
           /\ \A row \in RowsOf(table) : row.id \in Id
           /\ \A row \in db[table] :
                  row.id \in Id /\ row.id \in Nat /\ row.id <= db.born
           /\ Keyed(db[table])
<1>1. db[table] \in SUBSET RowsOf(table)
  BY DEF DataTyped, Database, RowsOf, Tables
<1>2. \A row \in RowsOf(table) : row.id \in Id
  BY DEF RowsOf, Tables, User, Income, Account, Txn, Position
<1>3. /\ Keyed(db[table])
      /\ \A row \in db[table] : row.id <= db.born
  BY DEF DataTyped, Consistent
<1>4. QED
  BY <1>1, <1>2, <1>3 DEF Id

(* A table with other rows.                                                *)
WithRows(table, rows, born) == [db EXCEPT !.born = born, ![table] = rows]

LEMMA TableChange ==
    ASSUME DataTyped, NEW table \in Tables, NEW rows \in SUBSET RowsOf(table),
           Keyed(rows), NEW born \in 0..LastId, born >= db.born,
           \A row \in rows : row.id <= born,
           table = "box" => \A x \in rows : x.type = "out" => x.source = "cash"
    PROVE  LET new == WithRows(table, rows, born)
           IN  /\ new \in Database /\ Consistent(new) /\ new.born = born
               /\ new[table] = rows
               /\ \A other \in Tables \ {table} : new[other] = db[other]
               /\ new.fixed = db.fixed
<1> DEFINE new == WithRows(table, rows, born)
<1>1. /\ new.born = born /\ new.fixed = db.fixed
      /\ new[table] = rows
      /\ \A other \in Tables \ {table} : new[other] = db[other]
      /\ DOMAIN new = DOMAIN db
  BY DEF DataTyped, Database, Tables, WithRows
<1>2. new = [db EXCEPT !.born = born, ![table] = rows]
  BY DEF WithRows
<1> HIDE DEF new
<1>3. new \in Database
  BY <1>1, <1>2 DEF DataTyped, Database, Tables, RowsOf
<1>4. \A other \in Tables :
          Keyed(new[other]) /\ \A row \in new[other] : row.id <= new.born
  <2> SUFFICES ASSUME NEW other \in Tables
               PROVE  /\ Keyed(new[other])
                      /\ \A row \in new[other] : row.id <= new.born
    OBVIOUS
  <2>1. CASE other = table
    BY <1>1, <2>1
  <2>2. CASE other # table
    <3>1. new[other] = db[other] /\ new.born = born
      BY <1>1, <2>2
    <3>2. \A row \in db[other] : row.id \in Nat /\ row.id <= db.born
      BY TableTyped
    <3>3. db.born \in Nat /\ born \in Nat
      BY DEF DataTyped, Database
    <3>4. Keyed(db[other])
      BY TableTyped
    <3>5. QED
      BY <3>1, <3>2, <3>3, <3>4
  <2>3. QED
    BY <2>1, <2>2
<1>5. \A x \in new.box : x.type = "out" => x.source = "cash"
  <2>1. CASE table = "box"
    BY <1>1, <2>1
  <2>2. CASE table # "box"
    BY <1>1, <2>2 DEF DataTyped, Consistent, Tables
  <2>3. QED
    BY <2>1, <2>2
<1>6. QED
  BY <1>1, <1>3, <1>4, <1>5 DEF Consistent, new

(* A row as it is created.                                                 *)
WithId(row, id) == [row EXCEPT !.id = id]

LEMMA CreatedTyped ==
    ASSUME DataTyped, NEW table \in Tables, NEW row, db.born + 1 \in Id,
           WithId(row, db.born + 1) \in RowsOf(table),
           WithId(row, db.born + 1).id = db.born + 1,
           table = "box" => (row.type = "out" => row.source = "cash"),
           table = "box" => row \in [id: {0}, type: {"in", "out"},
                                     source: {"cash", "savings"}, amount: Amounts]
    PROVE  LET new == Created(db, table, row)
           IN  /\ new \in Database /\ Consistent(new) /\ new.born = db.born + 1
               /\ new[table] = db[table] \cup {WithId(row, db.born + 1)}
               /\ \A other \in Tables \ {table} : new[other] = db[other]
               /\ new.fixed = db.fixed
<1> DEFINE got == WithId(row, db.born + 1)
           rows == db[table] \cup {got}
           born == db.born + 1
           new == WithRows(table, rows, born)
<1>1. /\ rows \in SUBSET RowsOf(table)
      /\ \A other \in db[table] : other.id \in Nat /\ other.id <= db.born
      /\ Keyed(db[table])
  BY TableTyped
<1>2. db.born \in Nat /\ born \in 0..LastId /\ born >= db.born
  BY DEF DataTyped, Database, Id
<1>3. got.id = born
  OBVIOUS
<1>4. table = "box" => \A x \in rows : x.type = "out" => x.source = "cash"
  <2> SUFFICES ASSUME table = "box", NEW x \in rows, x.type = "out"
               PROVE  x.source = "cash"
    OBVIOUS
  <2>1. CASE x \in db[table]
    BY <2>1 DEF DataTyped, Consistent
  <2>2. CASE x = got
    BY <2>2 DEF WithId
  <2>3. QED
    BY <2>1, <2>2
<1> HIDE DEF got
<1>5. Keyed(rows) /\ \A other \in rows : other.id <= born
  BY <1>1, <1>2, <1>3 DEF Keyed
<1>6. Created(db, table, row) = new
  BY DEF Created, got, WithRows, WithId
<1> HIDE DEF rows, born
<1>7. /\ new \in Database /\ Consistent(new) /\ new.born = born
      /\ new[table] = rows
      /\ \A other \in Tables \ {table} : new[other] = db[other]
      /\ new.fixed = db.fixed
  BY <1>1, <1>2, <1>4, <1>5, TableChange
<1>8. QED
  BY <1>6, <1>7 DEF rows, born, got

LEMMA RemovedTyped ==
    ASSUME DataTyped, NEW table \in Tables, NEW id
    PROVE  LET new == Removed(db, table, id)
           IN  /\ new \in Database /\ Consistent(new) /\ new.born = db.born
               /\ new[table] = Without(db[table], id)
               /\ \A other \in Tables \ {table} : new[other] = db[other]
               /\ new.fixed = db.fixed
<1> DEFINE rows == Without(db[table], id)
           new == WithRows(table, rows, db.born)
<1>1. db.born \in 0..LastId /\ db.born >= db.born
  BY DEF DataTyped, Database
<1>2. rows \subseteq db[table]
  BY DEF Without
<1>3. /\ rows \in SUBSET RowsOf(table) /\ Keyed(rows)
      /\ \A row \in rows : row.id <= db.born
  BY <1>2, TableTyped DEF Keyed
<1>4. table = "box" => \A x \in rows : x.type = "out" => x.source = "cash"
  BY <1>2 DEF DataTyped, Consistent
<1>5. Removed(db, table, id) = new
  BY DEF WithRows, Removed, DataTyped, Database
<1> HIDE DEF rows
<1>6. QED
  BY <1>1, <1>3, <1>4, <1>5, TableChange DEF rows

LEMMA UpdatedTyped ==
    ASSUME DataTyped, NEW table \in Tables \ {"box"}, NEW row \in RowsOf(table),
           row.id \in IdsOf(db[table])
    PROVE  LET new == Updated(db, table, row)
           IN  /\ new \in Database /\ Consistent(new) /\ new.born = db.born
               /\ new[table] = Without(db[table], row.id) \cup {row}
               /\ \A other \in Tables \ {table} : new[other] = db[other]
               /\ new.fixed = db.fixed
<1> DEFINE rows == Without(db[table], row.id) \cup {row}
           new == WithRows(table, rows, db.born)
<1>1. db.born \in 0..LastId /\ db.born >= db.born
  BY DEF DataTyped, Database
<1>2. row.id <= db.born
  BY TableTyped DEF IdsOf
<1>3. rows \in SUBSET RowsOf(table)
  BY TableTyped DEF Without
<1>4. Keyed(rows) /\ \A other \in rows : other.id <= db.born
  BY <1>2, TableTyped DEF Keyed, Without
<1>5. Updated(db, table, row) = new
  BY DEF WithRows, Updated, Changed, DataTyped, Database
<1>6. table \in Tables /\ table # "box"
  OBVIOUS
<1> HIDE DEF rows
<1>7. /\ new \in Database /\ Consistent(new) /\ new.born = db.born
      /\ new[table] = rows
      /\ \A other \in Tables \ {table} : new[other] = db[other]
      /\ new.fixed = db.fixed
  BY <1>1, <1>3, <1>4, <1>6, TableChange
<1> HIDE DEF new
<1>8. QED
  BY <1>5, <1>7 DEF rows

LEMMA RowOfTable ==
    ASSUME DataTyped, NEW table \in Tables, NEW id \in IdsOf(db[table])
    PROVE  /\ RowOf(db[table], id) \in db[table]
           /\ RowOf(db[table], id).id = id
           /\ RowOf(db[table], id) \in RowsOf(table)
BY TableTyped DEF IdsOf, RowOf

-----------------------------------------------------------------------------
(* Types: the API.                                                         *)

(* A call is answered, and the tables may change.                          *)
LEMMA AnsweredTyped ==
    ASSUME TypeInv, NEW k \in calls, NEW status \in Statuses, NEW got,
           Answered(k, status, got), Brings(Reply(k, status, got)),
           DataTyped', UNCHANGED <<tabs, saves>>,
           doubt' \subseteq Tabs, faults' \in 0..MaxFaults,
           \/ /\ db'.born = db.born
              /\ Creator(Reply(k, status, got)) => Creator(k)
           \/ /\ db'.born = db.born + 1
              /\ Creator(k) /\ ~Creator(Reply(k, status, got))
    PROVE  TypeInv'
<1> DEFINE c == Reply(k, status, got)
<1>1. Typed(k)
  BY TypeParts DEF CallsTyped
<1>2. /\ Shaped(c) /\ c.tab = k.tab /\ c.kind = k.kind /\ c.id = k.id
      /\ c.body = k.body /\ c.heard = k.heard /\ c.status = status /\ c.got = got
  BY <1>1, AnsweredCall DEF Typed
<1>3. calls' = (calls \ {k}) \cup {c}
  BY DEF Answered, Reply
<1> HIDE DEF c
<1>4. Sends(c)
  BY <1>1, <1>2 DEF Sends, Typed
<1>5. CallsTyped'
  BY <1>2, <1>3, <1>4, TypeParts DEF CallsTyped, Typed, c
<1>6. TabsTyped' /\ CountsTyped'
  BY TypeParts DEF TabsTyped, CountsTyped
<1>7. Creators' \subseteq (Creators \ {k}) \cup (IF Creator(c) THEN {c} ELSE {})
  BY <1>3 DEF Creators
<1>8. Room'
  <2>1. CASE db'.born = db.born + 1
    <3>1. k \in Creators /\ Creators' \subseteq Creators \ {k}
      BY <1>7, <2>1, Numbers DEF Creators, c
    <3>2. QED
      BY <2>1, <3>1, BornRoom
  <2>2. CASE db'.born = db.born /\ Creator(c)
    <3>1. k \in Creators /\ Creators' \subseteq (Creators \ {k}) \cup {c}
      BY <1>7, <2>2, Numbers DEF Creators, c
    <3>2. QED
      BY <2>2, <3>1, SwapRoom
  <2>3. CASE db'.born = db.born /\ ~Creator(c)
    <3>1. Creators' \subseteq Creators
      BY <1>7, <2>3
    <3>2. IsFiniteSet(Creators) /\ Cardinality(Creators) \in Nat
      BY FS_CardinalityType DEF TypeInv, Room
    <3>3. IsFiniteSet(Creators') /\ Cardinality(Creators') \in 0..Cardinality(Creators)
      BY <3>1, <3>2, Counting
    <3>4. QED
      BY <2>3, <3>2, <3>3, Numbers DEF TypeInv, Room
  <2>4. QED
    BY <2>1, <2>2, <2>3
<1>9. QED
  BY <1>5, <1>6, <1>8, TypePartsNext

(* An answer that changes no table.                                        *)
LEMMA TellsTyped ==
    ASSUME TypeInv, NEW k \in calls, NEW status \in Statuses, NEW got,
           Answered(k, status, got), UNCHANGED <<db, tabs, doubt, saves>>,
           faults' \in 0..MaxFaults, Brings(Reply(k, status, got)),
           Creator(Reply(k, status, got)) => Creator(k)
    PROVE  TypeInv'
<1>1. DataTyped' /\ doubt' \subseteq Tabs /\ db'.born = db.born
  BY TypeParts DEF DataTyped, CountsTyped
<1>2. QED
  BY <1>1, AnsweredTyped

LEMMA ReplyParts ==
    ASSUME TypeInv, NEW k \in calls, NEW status \in Statuses, NEW got
    PROVE  LET c == Reply(k, status, got)
           IN  /\ c.tab = k.tab /\ c.kind = k.kind /\ c.id = k.id
               /\ c.body = k.body /\ c.heard = k.heard
               /\ c.status = status /\ c.got = got
BY TypeParts, AnsweredCall DEF CallsTyped, Typed

LEMMA RefusesTyped ==
    ASSUME TypeInv, NEW k \in calls, Refuses(k)
    PROVE  TypeInv'
<1> DEFINE c == Reply(k, "refused", k.got)
<1>1. c.status = "refused"
  BY ReplyParts DEF Statuses
<1> HIDE DEF c
<1>2. Brings(c) /\ ~Creator(c)
  BY <1>1, NotCreator DEF Brings
<1>3. faults' \in 0..MaxFaults
  BY TypeParts DEF CountsTyped, Refuses, Tells
<1>4. QED
  BY <1>2, <1>3, TellsTyped DEF Refuses, Tells, Statuses, c

LEMMA FailTyped ==
    ASSUME TypeInv, NEW k \in calls, Fail(k) \/ LoseAnswer(k)
    PROVE  TypeInv'
<1> DEFINE c == Reply(k, "failed", k.got)
<1>1. c.status = "failed"
  BY ReplyParts DEF Statuses
<1> HIDE DEF c
<1>2. Brings(c) /\ ~Creator(c)
  BY <1>1, NotCreator DEF Brings
<1>3. faults' \in 0..MaxFaults
  BY TypeParts, PageAssumption DEF CountsTyped, Fail, LoseAnswer
<1>4. QED
  BY <1>2, <1>3, TellsTyped DEF Fail, LoseAnswer, Statuses, c

(* A write acts.                                                           *)
LEMMA ActsTyped ==
    ASSUME TypeInv, NEW k \in calls, NEW after, Acts(k, after),
           after \in Database, Consistent(after),
           k.kind \in Writes,
           \/ after.born = db.born
           \/ Creator(k) /\ after.born = db.born + 1
    PROVE  TypeInv'
<1> DEFINE c == Reply(k, "ok", k.got)
<1>1. c.status = "ok" /\ c.kind = k.kind
  BY ReplyParts DEF Statuses
<1> HIDE DEF c
<1>2. Brings(c) /\ ~Creator(c)
  BY <1>1, NotCreator, CallSets DEF Brings, Writes
<1>3. k.tab \in Tabs
  BY TypeParts DEF CallsTyped, Typed, Shaped
<1>4. DataTyped' /\ doubt' \subseteq Tabs /\ faults' \in 0..MaxFaults
  BY <1>3, TypeParts DEF DataTyped, CountsTyped, Acts
<1>5. QED
  BY <1>2, <1>4, AnsweredTyped DEF Acts, Statuses, c

LEMMA ServeLoadTyped ==
    ASSUME TypeInv, NEW k \in calls, ServeLoad(k) \/ ServeCategories(k)
    PROVE  TypeInv'
<1>1. db' = Seeded(db) /\ UNCHANGED <<tabs, doubt, saves, faults>>
  BY DEF ServeLoad, ServeCategories
<1>2. DataTyped' /\ db'.born = db.born
  BY <1>1, SeededTyped, TypeParts DEF DataTyped
<1>3. doubt' \subseteq Tabs /\ faults' \in 0..MaxFaults
  BY <1>1, TypeParts DEF CountsTyped
<1>4. db.users \in SUBSET User /\ db.incomes \in SUBSET Income
  BY TypeParts DEF DataTyped, Database
<1>5. CASE ServeLoad(k)
  <2> DEFINE got == [fixed |-> Fixed, users |-> db.users, incomes |-> db.incomes]
             c == Reply(k, "ok", got)
  <2>1. got \in [fixed: {Fixed}, users: SUBSET User, incomes: SUBSET Income]
    BY <1>4
  <2>2. Answered(k, "ok", got) /\ k.kind = "load"
    BY <1>5 DEF ServeLoad, Sent
  <2> HIDE DEF got
  <2>3. c.kind = k.kind /\ c.status = "ok" /\ c.got = got
    BY ReplyParts DEF Statuses
  <2> HIDE DEF c
  <2>4. Brings(c) /\ ~Creator(c)
    BY <2>1, <2>2, <2>3, NotCreator DEF Brings
  <2>5. QED
    BY <1>1, <1>2, <1>3, <2>2, <2>4, AnsweredTyped DEF Statuses, c
<1>6. CASE ServeCategories(k)
  <2> DEFINE got == [users |-> db.users]
             c == Reply(k, "ok", got)
  <2>1. got \in [users: SUBSET User]
    BY <1>4
  <2>2. Answered(k, "ok", got) /\ k.kind = "readCategories"
    BY <1>6 DEF ServeCategories, Sent
  <2> HIDE DEF got
  <2>3. c.kind = k.kind /\ c.status = "ok" /\ c.got = got
    BY ReplyParts DEF Statuses
  <2> HIDE DEF c
  <2>4. Brings(c) /\ ~Creator(c)
    BY <2>1, <2>2, <2>3, NotCreator DEF Brings
  <2>5. QED
    BY <1>1, <1>2, <1>3, <2>2, <2>4, AnsweredTyped DEF Statuses, c
<1>7. QED
  BY <1>5, <1>6

(* The first row of a position's table, if there is one.                   *)
LEMMA FirstTyped ==
    ASSUME DataTyped
    PROVE  /\ First(db.positions) \in Position \cup {None}
           /\ db.positions = {} => First(db.positions) = None
           /\ db.positions # {} =>
                  /\ First(db.positions) \in db.positions
                  /\ First(db.positions) # None
                  /\ \A row \in db.positions : First(db.positions).id <= row.id
<1>1. db.positions \subseteq Position /\ \A row \in db.positions : row.id \in Nat
  BY TableTyped DEF Tables, RowsOf
<1>2. CASE db.positions = {}
  BY <1>2, FirstOfNone
<1>3. CASE db.positions # {}
  BY <1>1, <1>3, FirstIsLeast, NoneAssumption
<1>4. QED
  BY <1>2, <1>3

LEMMA ServeReadTyped ==
    ASSUME TypeInv, NEW k \in calls, ServeRead(k)
    PROVE  TypeInv'
<1>1. PICK got :
          /\ Tells(k, "ok", got)
          /\ \/ /\ k.kind = "loadSavings"
                /\ got = [accounts |-> db.accounts, box |-> db.box,
                          position |-> First(db.positions)]
             \/ k.kind = "readAccounts" /\ got = [accounts |-> db.accounts]
             \/ k.kind = "readBox" /\ got = [box |-> db.box]
             \/ /\ k.kind = "readInvestment"
                /\ got = [position |-> First(db.positions)]
             \/ k.kind = "readIncomes" /\ got = [rows |-> db.incomes]
          /\ k.status = "sent"
  BY DEF ServeRead, Sent
<1> DEFINE c == Reply(k, "ok", got)
<1>2. c.kind = k.kind /\ c.status = "ok" /\ c.got = got
  BY ReplyParts DEF Statuses
<1>3. /\ db.accounts \in SUBSET Account /\ db.box \in SUBSET Txn
      /\ db.incomes \in SUBSET Income
      /\ First(db.positions) \in Position \cup {None}
  BY TypeParts, FirstTyped DEF DataTyped, Database
<1> HIDE DEF c
<1>4. Brings(c)
  BY <1>1, <1>2, <1>3 DEF Brings
<1>5. Creator(c) => Creator(k)
  BY <1>1, <1>2 DEF Creator
<1>6. faults' \in 0..MaxFaults
  BY <1>1, TypeParts DEF CountsTyped, Tells
<1>7. QED
  BY <1>1, <1>4, <1>5, <1>6, TellsTyped DEF Tells, Statuses, c

-----------------------------------------------------------------------------
(* What the API does with a call, in one piece.                            *)

WrittenBy(kind) ==
    IF kind = "saveInvestment" THEN "positions" ELSE TableOf(kind)
Creating == {"createIncome", "createBox", "createAccount", "createCategory"}
Updating == {"updateIncome", "updateAccount", "updateCategory"}
Removing == {"deleteIncome", "deleteBox", "deleteAccount", "deleteCategory"}

(* What a read is told.                                                    *)
Reports(k, got) ==
    /\ k.kind = "load" =>
           got.fixed = Fixed /\ got.users = db.users /\ got.incomes = db.incomes
    /\ k.kind \in {"loadSavings", "readAccounts"} => got.accounts = db.accounts
    /\ k.kind \in {"loadSavings", "readBox"} => got.box = db.box
    /\ k.kind \in {"loadSavings", "readInvestment"} =>
           got.position = First(db.positions)
    /\ k.kind = "readIncomes" => got.rows = db.incomes

(* What a write does to its table.                                         *)
Adds(k, table) ==
    /\ k.kind \in Creating \/ (k.kind = "saveInvestment" /\ k.got.row = None)
    /\ db'.born = db.born + 1
    /\ db'[table] = db[table] \cup {WithId(k.body, db.born + 1)}
    /\ WithId(k.body, db.born + 1).id = db.born + 1
Replaces(k, table) ==
    /\ k.kind \in Updating \cup {"saveInvestment"}
    /\ db'.born = db.born
    /\ \E row \in RowsOf(table) :
           /\ row.id \in IdsOf(db[table])
           /\ db'[table] = Without(db[table], row.id) \cup {row}
           /\ k.kind = "updateAccount" => row.id = k.id /\ row.base = k.body.base
           /\ k.kind = "saveInvestment" =>
                  /\ k.status = "checked" /\ k.got.row # None
                  /\ row.id = k.got.row.id /\ row.base = k.body.base
Removes(k, table) ==
    /\ k.kind \in Removing
    /\ db'.born = db.born
    /\ db'[table] = Without(db[table], k.id)

(* A call is told something, or writes.                                    *)
Told(k, status, got) ==
    /\ \A table \in Tables : db'[table] = db[table]
    /\ db'.born = db.born
    /\ db'.fixed \in {db.fixed, Fixed} /\ (k.kind = "load" => db'.fixed = Fixed)
    /\ UNCHANGED doubt
    /\ \/ status = "ok" /\ k.kind \in Reads /\ Reports(k, got)
       \/ status = "refused"
       \/ /\ status = "checked"
          /\ \/ k.kind \in {"createCategory", "updateCategory"}
             \/ k.kind = "saveInvestment" /\ got = [row |-> First(db.positions)]
Wrote(k, status, got) ==
    LET table == WrittenBy(k.kind)
    IN  /\ k.kind \in Writes /\ status = "ok" /\ got = k.got
        /\ Acts(k, db')
        /\ table \in Tables
        /\ \A other \in Tables \ {table} : db'[other] = db[other]
        /\ db'.fixed = db.fixed
        /\ Adds(k, table) \/ Replaces(k, table) \/ Removes(k, table)

Served(k) ==
    \E status, got :
        /\ status \in {"ok", "refused", "checked"}
        /\ Answered(k, status, got)
        /\ UNCHANGED <<tabs, saves, faults>>
        /\ k.status \in {"sent", "checked"}
        /\ Told(k, status, got) \/ Wrote(k, status, got)

LEMMA SeededTables ==
    ASSUME TypeInv, db' = Seeded(db)
    PROVE  /\ \A table \in Tables : db'[table] = db[table]
           /\ db'.born = db.born /\ db'.fixed = Fixed
BY TypeParts DEF DataTyped, Seeded, Database, Tables

LEMMA ReadServed ==
    ASSUME TypeInv, NEW k \in calls,
           ServeLoad(k) \/ ServeCategories(k) \/ ServeRead(k)
    PROVE  Served(k)
<1>1. PICK got :
          /\ Answered(k, "ok", got) /\ UNCHANGED <<tabs, doubt, saves, faults>>
          /\ k.status = "sent" /\ db' \in {db, Seeded(db)}
          /\ \/ /\ k.kind = "load"
                /\ got = [fixed |-> Fixed, users |-> db.users,
                          incomes |-> db.incomes]
             \/ k.kind = "readCategories"
             \/ /\ k.kind = "loadSavings"
                /\ got = [accounts |-> db.accounts, box |-> db.box,
                          position |-> First(db.positions)]
             \/ k.kind = "readAccounts" /\ got = [accounts |-> db.accounts]
             \/ k.kind = "readBox" /\ got = [box |-> db.box]
             \/ /\ k.kind = "readInvestment"
                /\ got = [position |-> First(db.positions)]
             \/ k.kind = "readIncomes" /\ got = [rows |-> db.incomes]
  <2>1. CASE ServeLoad(k)
    BY <2>1 DEF ServeLoad, Sent
  <2>2. CASE ServeCategories(k)
    BY <2>2 DEF ServeCategories, Sent
  <2>3. CASE ServeRead(k)
    BY <2>3 DEF ServeRead, Sent, Tells
  <2>4. QED
    BY <2>1, <2>2, <2>3
<1>2. k.kind \in Reads
  BY <1>1 DEF Reads
<1>3. Reports(k, got)
  BY <1>1 DEF Reports
<1>4. \A table \in Tables : db'[table] = db[table]
  BY <1>1, SeededTables
<1>5. /\ db'.born = db.born /\ db'.fixed \in {db.fixed, Fixed}
      /\ k.kind = "load" => db'.fixed = Fixed
  <2>1. k.kind = "load" => ServeLoad(k)
    BY DEF ServeLoad, ServeCategories, ServeRead, Sent
  <2>2. QED
    BY <1>1, <2>1, SeededTables DEF ServeLoad
<1>6. QED
  BY <1>1, <1>2, <1>3, <1>4, <1>5 DEF Served, Told

LEMMA TellsServed ==
    ASSUME TypeInv, NEW k \in calls,
           k.status \in {"sent", "checked"}, k.kind # "load",
           \/ Refuses(k)
           \/ CheckCategory(k) \/ FindInvestment(k)
    PROVE  Served(k)
<1>1. PICK status, got :
          /\ status \in {"refused", "checked"}
          /\ Tells(k, status, got)
          /\ status = "checked" =>
                 \/ k.kind \in {"createCategory", "updateCategory"}
                 \/ /\ k.kind = "saveInvestment"
                    /\ got = [row |-> First(db.positions)]
  BY DEF Refuses, CheckCategory, FindInvestment, Sent
<1>2. Told(k, status, got) /\ Answered(k, status, got)
  BY <1>1 DEF Told, Tells
<1>3. QED
  BY <1>1, <1>2 DEF Served, Tells

LEMMA ActsServed ==
    ASSUME NEW k, NEW after, Acts(k, after), k.kind \in Writes,
           k.status \in {"sent", "checked"},
           WrittenBy(k.kind) \in Tables,
           \A other \in Tables \ {WrittenBy(k.kind)} : after[other] = db[other],
           after.fixed = db.fixed,
           \/ Adds(k, WrittenBy(k.kind)) \/ Replaces(k, WrittenBy(k.kind))
           \/ Removes(k, WrittenBy(k.kind))
    PROVE  Served(k)
<1>1. Acts(k, db') /\ db' = after
  BY DEF Acts
<1>2. Wrote(k, "ok", k.got)
  BY <1>1 DEF Wrote
<1>3. QED
  BY <1>1, <1>2 DEF Served, Acts

LEMMA CreatesServed ==
    ASSUME TypeInv, NEW k \in calls, NEW table \in Tables, table = WrittenBy(k.kind),
           Acts(k, Created(db, table, k.body)), Creator(k),
           k.kind \in Writes, k.status \in {"sent", "checked"},
           k.kind \in Creating \/ (k.kind = "saveInvestment" /\ k.got.row = None),
           \A id \in Id : /\ WithId(k.body, id) \in RowsOf(table)
                          /\ WithId(k.body, id).id = id,
           table = "box" =>
               /\ k.body.type = "out" => k.body.source = "cash"
               /\ k.body \in [id: {0}, type: {"in", "out"},
                              source: {"cash", "savings"}, amount: Amounts]
    PROVE  Served(k) /\ TypeInv'
<1>1. db.born + 1 \in Id
  <2>1. IsFiniteSet(Creators) /\ Cardinality(Creators) \in Nat \ {0}
    <3>1. IsFiniteSet(Creators) /\ k \in Creators
      BY DEF TypeInv, Room, Creators
    <3>2. QED
      BY <3>1, FS_EmptySet, FS_CardinalityType
  <2>2. QED
    BY <2>1, Numbers DEF TypeInv, Room, Id
<1>2. DataTyped
  BY TypeParts
<1>3. /\ Created(db, table, k.body) \in Database
      /\ Consistent(Created(db, table, k.body))
      /\ Created(db, table, k.body).born = db.born + 1
      /\ Created(db, table, k.body)[table] =
             db[table] \cup {WithId(k.body, db.born + 1)}
      /\ \A other \in Tables \ {table} :
             Created(db, table, k.body)[other] = db[other]
      /\ Created(db, table, k.body).fixed = db.fixed
  BY <1>1, <1>2, CreatedTyped
<1>4. TypeInv'
  BY <1>3, ActsTyped
<1>5. db' = Created(db, table, k.body)
  BY DEF Acts
<1>6. Adds(k, table)
  BY <1>1, <1>3, <1>5 DEF Adds
<1>7. QED
  BY <1>3, <1>4, <1>6, ActsServed

LEMMA ServeCreateStep ==
    ASSUME TypeInv, NEW k \in calls, ServeCreate(k)
    PROVE  Served(k) /\ TypeInv'
<1>1. /\ Sends(k) /\ k.kind \in Writes /\ Creator(k) /\ k.status = "sent"
      /\ k.kind \in Creating /\ WrittenBy(k.kind) = TableOf(k.kind)
  BY TypeParts DEF CallsTyped, Typed, ServeCreate, Creator, Writes, Creating,
                   WrittenBy
<1>2. CASE k.kind = "createIncome"
  <2>1. k.body \in [id: {0}, amount: Amounts]
    BY <1>1, <1>2 DEF Sends
  <2>2. \A id \in Id : /\ WithId(k.body, id) \in RowsOf("incomes")
                       /\ WithId(k.body, id).id = id
    BY <2>1 DEF RowsOf, Income, WithId
  <2>3. /\ Acts(k, Created(db, "incomes", k.body)) /\ "incomes" \in Tables
        /\ WrittenBy(k.kind) = "incomes"
    BY <1>1, <1>2 DEF ServeCreate, TableOf, Tables, CategoryWrites
  <2>4. QED
    BY <1>1, <2>2, <2>3, CreatesServed
<1>3. CASE k.kind = "createBox"
  <2>1. /\ k.body \in [id: {0}, type: {"in", "out"}, source: {"cash", "savings"},
                       amount: Amounts]
        /\ k.body.type = "out" => k.body.source = "cash"
    BY <1>1, <1>3 DEF Sends
  <2>2. \A id \in Id : /\ WithId(k.body, id) \in RowsOf("box")
                       /\ WithId(k.body, id).id = id
    BY <2>1 DEF RowsOf, Txn, WithId
  <2>3. /\ Acts(k, Created(db, "box", k.body)) /\ "box" \in Tables
        /\ WrittenBy(k.kind) = "box"
    BY <1>1, <1>3 DEF ServeCreate, TableOf, Tables, CategoryWrites
  <2>4. QED
    BY <1>1, <2>1, <2>2, <2>3, CreatesServed
<1>4. CASE k.kind = "createAccount"
  <2>1. k.body \in [id: {0}, name: Names, base: Bases, goal: Bases]
    BY <1>1, <1>4 DEF Sends
  <2>2. \A id \in Id : /\ WithId(k.body, id) \in RowsOf("accounts")
                       /\ WithId(k.body, id).id = id
    BY <2>1 DEF RowsOf, Account, WithId
  <2>3. /\ Acts(k, Created(db, "accounts", k.body)) /\ "accounts" \in Tables
        /\ WrittenBy(k.kind) = "accounts"
    BY <1>1, <1>4 DEF ServeCreate, TableOf, Tables, CategoryWrites
  <2>4. QED
    BY <1>1, <2>2, <2>3, CreatesServed
<1>5. QED
  BY <1>2, <1>3, <1>4 DEF ServeCreate

(* A row takes the place of the one with its id.                           *)
LEMMA UpdatesServed ==
    ASSUME TypeInv, NEW k \in calls, NEW table \in Tables \ {"box"},
           table = WrittenBy(k.kind), NEW row \in RowsOf(table),
           row.id \in IdsOf(db[table]), Acts(k, Updated(db, table, row)),
           k.kind \in Writes, k.status \in {"sent", "checked"},
           k.kind \in Updating \cup {"saveInvestment"},
           k.kind = "updateAccount" => row.id = k.id /\ row.base = k.body.base,
           k.kind = "saveInvestment" =>
               /\ k.status = "checked" /\ k.got.row # None
               /\ row.id = k.got.row.id /\ row.base = k.body.base
    PROVE  Served(k) /\ TypeInv'
<1>1. DataTyped
  BY TypeParts
<1>2. /\ Updated(db, table, row) \in Database
      /\ Consistent(Updated(db, table, row))
      /\ Updated(db, table, row).born = db.born
      /\ Updated(db, table, row)[table] = Without(db[table], row.id) \cup {row}
      /\ \A other \in Tables \ {table} :
             Updated(db, table, row)[other] = db[other]
      /\ Updated(db, table, row).fixed = db.fixed
  BY <1>1, UpdatedTyped
<1>3. TypeInv'
  BY <1>2, ActsTyped
<1>4. db' = Updated(db, table, row)
  BY DEF Acts
<1>5. Replaces(k, table)
  BY <1>2, <1>4 DEF Replaces
<1>6. QED
  BY <1>2, <1>3, <1>5, ActsServed

LEMMA ServeUpdateStep ==
    ASSUME TypeInv, NEW k \in calls, ServeUpdate(k)
    PROVE  Served(k) /\ TypeInv'
<1>1. /\ Sends(k) /\ k.kind \in Writes /\ DataTyped /\ k.status = "sent"
      /\ k.kind \in Updating /\ WrittenBy(k.kind) = TableOf(k.kind)
  BY TypeParts DEF CallsTyped, Typed, ServeUpdate, Writes, Updating, WrittenBy
<1>2. CASE k.id \notin IdsOf(db[TableOf(k.kind)])
  BY <1>1, <1>2, RefusesTyped, TellsServed DEF ServeUpdate
<1>3. CASE k.kind = "updateIncome" /\ k.id \in IdsOf(db[TableOf(k.kind)])
  <2> DEFINE row == RowOf(db["incomes"], k.id)
             new == [row EXCEPT !.amount = k.body.amount]
  <2>1. TableOf(k.kind) = "incomes" /\ "incomes" \in Tables \ {"box"}
    BY <1>3 DEF TableOf, Tables, CategoryWrites
  <2>2. Acts(k, Updated(db, "incomes", new)) /\ k.id \in IdsOf(db["incomes"])
    BY <1>3, <2>1 DEF ServeUpdate
  <2>3. row \in Income /\ row.id = k.id
    BY <1>1, <2>1, <2>2, RowOfTable DEF RowsOf
  <2>4. k.body.amount \in Amounts
    BY <1>1, <1>3 DEF Sends
  <2> HIDE DEF row
  <2>5. new \in RowsOf("incomes") /\ new.id = k.id
    BY <2>3, <2>4 DEF Income, RowsOf
  <2> HIDE DEF new
  <2>6. QED
    BY <1>1, <1>3, <2>1, <2>2, <2>5, UpdatesServed
<1>4. CASE k.kind = "updateAccount" /\ k.id \in IdsOf(db[TableOf(k.kind)])
  <2> DEFINE row == RowOf(db["accounts"], k.id)
             new == [row EXCEPT !.base = k.body.base, !.goal = k.body.goal]
  <2>1. TableOf(k.kind) = "accounts" /\ "accounts" \in Tables \ {"box"}
    BY <1>4 DEF TableOf, Tables, CategoryWrites
  <2>2. Acts(k, Updated(db, "accounts", new)) /\ k.id \in IdsOf(db["accounts"])
    BY <1>4, <2>1 DEF ServeUpdate
  <2>3. row \in Account /\ row.id = k.id
    BY <1>1, <2>1, <2>2, RowOfTable DEF RowsOf
  <2>4. k.body.base \in Bases /\ k.body.goal \in Bases
    BY <1>1, <1>4 DEF Sends, Bases
  <2> HIDE DEF row
  <2>5. /\ new \in RowsOf("accounts") /\ new.id = k.id
        /\ new.base = k.body.base
    BY <2>3, <2>4 DEF Account, RowsOf
  <2> HIDE DEF new
  <2>6. QED
    BY <1>1, <1>4, <2>1, <2>2, <2>5, UpdatesServed
<1>5. QED
  BY <1>2, <1>3, <1>4 DEF ServeUpdate

LEMMA ServeDeleteStep ==
    ASSUME TypeInv, NEW k \in calls, ServeDelete(k)
    PROVE  Served(k) /\ TypeInv'
<1>1. /\ k.kind \in Writes /\ DataTyped /\ TableOf(k.kind) \in Tables
      /\ k.kind \in Removing /\ WrittenBy(k.kind) = TableOf(k.kind)
      /\ k.status = "sent"
  BY TypeParts DEF ServeDelete, Writes, TableOf, Tables, CategoryWrites, Removing,
                   WrittenBy
<1>2. CASE k.id \notin IdsOf(db[TableOf(k.kind)])
  BY <1>1, <1>2, RefusesTyped, TellsServed DEF ServeDelete
<1>3. CASE k.id \in IdsOf(db[TableOf(k.kind)])
  <2> DEFINE table == TableOf(k.kind)
             new == Removed(db, table, k.id)
  <2>1. Acts(k, new) /\ db' = new
    BY <1>3 DEF ServeDelete, Acts
  <2>2. table \in Tables /\ table = WrittenBy(k.kind)
    BY <1>1
  <2> HIDE DEF table
  <2>3. /\ new \in Database /\ Consistent(new) /\ new.born = db.born
        /\ new[table] = Without(db[table], k.id)
        /\ \A other \in Tables \ {table} : new[other] = db[other]
        /\ new.fixed = db.fixed
    BY <1>1, <2>2, RemovedTyped
  <2> HIDE DEF new
  <2>4. TypeInv'
    BY <1>1, <2>1, <2>3, ActsTyped
  <2>5. Removes(k, table)
    BY <1>1, <2>1, <2>3 DEF Removes
  <2>6. QED
    BY <1>1, <2>1, <2>2, <2>3, <2>4, <2>5, ActsServed
<1>4. QED
  BY <1>2, <1>3

(* A call that has looked something up goes on.                            *)
LEMMA CheckedTyped ==
    ASSUME TypeInv, NEW k \in calls, NEW got, Tells(k, "checked", got),
           k.status = "sent",
           \/ k.kind \in {"createCategory", "updateCategory"}
           \/ k.kind = "saveInvestment" /\ got \in [row: Position \cup {None}]
    PROVE  TypeInv'
<1> DEFINE c == Reply(k, "checked", got)
<1>1. c.status = "checked" /\ c.kind = k.kind /\ c.got = got
  BY ReplyParts DEF Statuses
<1> HIDE DEF c
<1>2. Brings(c)
  BY <1>1 DEF Brings
<1>3. Creator(c) => Creator(k)
  BY <1>1 DEF Creator
<1>4. faults' \in 0..MaxFaults
  BY TypeParts DEF CountsTyped, Tells
<1>5. QED
  BY <1>2, <1>3, <1>4, TellsTyped DEF Tells, Statuses, c

LEMMA CheckCategoryStep ==
    ASSUME TypeInv, NEW k \in calls, CheckCategory(k)
    PROVE  Served(k) /\ TypeInv'
<1>1. Tells(k, "checked", k.got) \/ Refuses(k)
  BY DEF CheckCategory
<1>2. k.status = "sent"
  BY DEF CheckCategory
<1>3. QED
  BY <1>1, <1>2, CheckedTyped, RefusesTyped, TellsServed DEF CheckCategory

LEMMA FindInvestmentStep ==
    ASSUME TypeInv, NEW k \in calls, FindInvestment(k)
    PROVE  Served(k) /\ TypeInv'
<1> DEFINE got == [row |-> First(db.positions)]
<1>1. got \in [row: Position \cup {None}]
  BY TypeParts, FirstTyped
<1>2. Tells(k, "checked", got) /\ k.kind = "saveInvestment" /\ k.status = "sent"
  BY DEF FindInvestment, Sent
<1> HIDE DEF got
<1>3. TypeInv'
  BY <1>1, <1>2, CheckedTyped
<1>4. QED
  BY <1>2, <1>3, TellsServed

LEMMA WriteCategoryStep ==
    ASSUME TypeInv, NEW k \in calls, WriteCategory(k)
    PROVE  Served(k) /\ TypeInv'
<1>1. /\ Sends(k) /\ k.kind \in Writes /\ DataTyped /\ "users" \in Tables \ {"box"}
      /\ WrittenBy(k.kind) = "users" /\ k.status = "checked"
  BY TypeParts DEF CallsTyped, Typed, WriteCategory, Writes, Tables, WrittenBy,
                   TableOf, CategoryWrites
<1>2. CASE k.kind = "createCategory"
  <2>1. k.body \in [id: {0}, name: CategoryNames]
    BY <1>1, <1>2 DEF Sends
  <2>2. \A id \in Id : /\ WithId(k.body, id) \in RowsOf("users")
                       /\ WithId(k.body, id).id = id
    BY <2>1 DEF RowsOf, User, WithId
  <2>3. Acts(k, Created(db, "users", k.body)) /\ Creator(k)
    BY <1>2 DEF WriteCategory, Creator
  <2>4. k.kind \in Creating
    BY <1>2 DEF Creating
  <2>5. QED
    BY <1>1, <2>2, <2>3, <2>4, CreatesServed
<1>3. CASE k.kind = "updateCategory" /\ k.id \in IdsOf(db.users)
  <2> DEFINE new == [id |-> k.id, name |-> k.body.name]
  <2>1. k.id \in Id /\ k.body.name \in CategoryNames
    BY <1>1, <1>3 DEF Sends
  <2>2. new \in RowsOf("users") /\ new.id \in IdsOf(db["users"])
    BY <1>3, <2>1 DEF RowsOf, User
  <2>3. Acts(k, Updated(db, "users", new))
    BY <1>3 DEF WriteCategory
  <2> HIDE DEF new
  <2>4. k.kind \in Updating
    BY <1>3 DEF Updating
  <2>5. QED
    BY <1>1, <1>3, <2>2, <2>3, <2>4, UpdatesServed
<1>4. CASE k.kind = "updateCategory" /\ k.id \notin IdsOf(db.users)
  BY <1>1, <1>4, RefusesTyped, TellsServed DEF WriteCategory
<1>5. QED
  BY <1>2, <1>3, <1>4 DEF WriteCategory

(* The position that was found is still there: positions are not deleted.  *)
LEMMA WriteInvestmentStep ==
    ASSUME TypeInv, NEW k \in calls, CallKnows(k), WriteInvestment(k)
    PROVE  Served(k) /\ TypeInv'
<1>1. /\ Sends(k) /\ k.kind = "saveInvestment" /\ k.kind \in Writes /\ DataTyped
      /\ "positions" \in Tables \ {"box"} /\ WrittenBy(k.kind) = "positions"
      /\ k.status = "checked"
  BY TypeParts DEF CallsTyped, Typed, WriteInvestment, Writes, Tables, WrittenBy
<1>2. k.body \in [id: {0}, base: Bases, rate: Rates]
  BY <1>1 DEF Sends
<1>3. \A id \in Id : /\ WithId(k.body, id) \in RowsOf("positions")
                     /\ WithId(k.body, id).id = id
  BY <1>2 DEF RowsOf, Position, WithId
<1>4. CASE k.got.row = None
  <2>1. Acts(k, Created(db, "positions", k.body)) /\ Creator(k)
    BY <1>4 DEF WriteInvestment, Creator
  <2>2. QED
    BY <1>1, <1>3, <1>4, <2>1, CreatesServed
<1>5. CASE k.got.row # None
  <2> DEFINE new == WithId(k.body, k.got.row.id)
  <2>1. db.positions # {} /\ k.got.row.id = First(db.positions).id
    BY <1>5 DEF WriteInvestment, CallKnows
  <2>2. k.got.row.id \in IdsOf(db["positions"])
    BY <1>1, <2>1, FirstTyped DEF IdsOf
  <2>3. k.got.row.id \in Id
    BY <1>1, <2>2, TableTyped DEF IdsOf
  <2>4. /\ new \in RowsOf("positions") /\ new.id \in IdsOf(db["positions"])
        /\ new.id = k.got.row.id /\ new.base = k.body.base
    BY <1>2, <1>3, <2>2, <2>3 DEF WithId
  <2>5. Acts(k, Updated(db, "positions", new))
    BY <1>5 DEF WriteInvestment, WithId
  <2> HIDE DEF new
  <2>6. QED
    BY <1>1, <1>5, <2>4, <2>5, UpdatesServed
<1>6. QED
  BY <1>4, <1>5

LEMMA ServeTyped ==
    ASSUME TypeInv, NEW k \in calls, CallKnows(k), Serve(k)
    PROVE  Served(k) /\ TypeInv'
BY ReadServed, ServeLoadTyped, ServeReadTyped, ServeCreateStep, ServeUpdateStep,
   ServeDeleteStep, CheckCategoryStep, WriteCategoryStep, FindInvestmentStep,
   WriteInvestmentStep DEF Serve

-----------------------------------------------------------------------------
(* Types: what is heard.                                                   *)

LEMMA CallParts ==
    ASSUME TypeInv, NEW k \in calls
    PROVE  /\ k.tab \in Tabs /\ Sends(k) /\ Brings(k) /\ Shaped(k)
           /\ k.kind \in Reads \cup Writes /\ k.heard \in BOOLEAN
           /\ k.id \in 0..LastId /\ k.status \in Statuses
           /\ tabs[k.tab] \in Tab /\ Asked(tabs[k.tab])
BY TypeParts DEF CallsTyped, Typed, Shaped, TabsTyped

(* The same tab again.                                                     *)
LEMMA SameTab ==
    ASSUME TypeInv, NEW t \in Tabs, UNCHANGED tabs
    PROVE  tabs' = [tabs EXCEPT ![t] = tabs[t]]
BY TypeParts DEF TabsTyped

LEMMA HearLoadTyped ==
    ASSUME TypeInv, NEW k \in calls, HearLoad(k)
    PROVE  TypeInv'
<1> DEFINE tab == tabs[k.tab]
           good == [tab EXCEPT !.status = "ready", !.fixed = k.got.fixed,
                               !.users = k.got.users, !.incomes = k.got.incomes]
           bad == [tab EXCEPT !.status = "error"]
           new == IF k.status = "ok" THEN good ELSE bad
<1>1. /\ Becomes(k.tab, new, Others(k)) /\ UNCHANGED doubt /\ Untouched
      /\ k.kind = "load"
  BY DEF HearLoad
<1>2. k.tab \in Tabs /\ tab \in Tab /\ Asked(tab)
  BY CallParts
<1>3. CASE k.status = "ok"
  <2>1. k.got \in [fixed: {Fixed}, users: SUBSET User, incomes: SUBSET Income]
    BY <1>1, <1>3, CallParts DEF Brings
  <2>2. good \in Tab /\ Asked(good)
    BY <1>2, <2>1 DEF Tab, Loading, Asked
  <2>3. QED
    BY <1>1, <1>2, <1>3, <2>2, BecomesTyped DEF Others
<1>4. CASE k.status # "ok"
  <2>1. bad \in Tab /\ Asked(bad)
    BY <1>2 DEF Tab, Loading, Asked
  <2>2. QED
    BY <1>1, <1>2, <1>4, <2>1, BecomesTyped DEF Others
<1>5. QED
  BY <1>3, <1>4

(* What a tab has of the savings changes, and a call has been heard.       *)
LEMMA TabWithSavings ==
    ASSUME NEW tab \in Tab, NEW savings \in SavingsState
    PROVE  LET new == [tab EXCEPT !.savings = savings]
           IN  /\ new \in Tab
               /\ new.sheet = tab.sheet /\ new.status = tab.status
               /\ new.fixed = tab.fixed /\ new.users = tab.users
               /\ new.incomes = tab.incomes /\ new.savings = savings
               /\ new.assetTab = tab.assetTab
BY DEF Tab

LEMMA HearSavingsTyped ==
    ASSUME TypeInv, NEW k \in calls, HearSavings(k)
    PROVE  TypeInv'
<1> DEFINE savings ==
               IF k.status = "ok"
               THEN [status |-> "ready", codes |-> k.body.codes,
                     accounts |-> k.got.accounts, position |-> k.got.position,
                     box |-> k.got.box]
               ELSE [NoSavings EXCEPT !.status = "error"]
           tab == [tabs[k.tab] EXCEPT !.savings = savings]
<1>1. /\ tabs' = [tabs EXCEPT ![k.tab] = tab]
      /\ calls' = Others(k) /\ UNCHANGED doubt /\ Untouched
      /\ k.kind = "loadSavings"
  BY DEF HearSavings
<1>2. k.tab \in Tabs /\ tabs[k.tab] \in Tab /\ Asked(tabs[k.tab])
  BY CallParts
<1>3. /\ savings \in SavingsState
      /\ savings.status = "ready" =>
             savings.codes = {SavingsCode, InvestmentCode}
  <2>1. CASE k.status = "ok"
    <3>1. /\ k.body \in [codes: {{SavingsCode, InvestmentCode}}]
          /\ k.got \in [accounts: SUBSET Account, box: SUBSET Txn,
                        position: Position \cup {None}]
      BY <1>1, <2>1, CallParts DEF Sends, Brings
    <3>2. QED
      BY <2>1, <3>1, StoreAssumption DEF SavingsState, Loading
  <2>2. CASE k.status # "ok"
    BY <2>2 DEF NoSavings, SavingsState, Loading
  <2>3. QED
    BY <2>1, <2>2
<1> HIDE DEF savings
<1>4. tab \in Tab /\ Asked(tab)
  BY <1>2, <1>3, TabWithSavings DEF Asked
<1> HIDE DEF tab
<1>5. doubt' \subseteq Tabs /\ \A c \in calls' : c \in calls
  BY <1>1, TypeParts DEF CountsTyped, Others
<1>6. QED
  BY <1>1, <1>2, <1>4, <1>5, TabStepTyped

LEMMA HearSheetWriteTyped ==
    ASSUME TypeInv, NEW k \in calls, HearSheetWrite(k)
    PROVE  TypeInv'
<1> DEFINE kind == ReloadOf(k.kind)
           body == [closes |-> SheetsOf(k.kind)]
           c == With(New(k.tab, kind), 0, body)
<1>1. /\ calls' = Others(k) \cup {c} /\ UNCHANGED tabs /\ Untouched
      /\ k.kind \in SavingsWrites
  BY DEF HearSheetWrite, Succeeded, SavingsWrites, AccountWrites, BoxWrites
<1>2. k.tab \in Tabs /\ tabs[k.tab] \in Tab /\ Asked(tabs[k.tab])
  BY CallParts
<1>3. kind \in Reloads /\ kind \in Reads \cup Writes
  BY DEF ReloadOf, Reloads, Reads
<1>4. body \in [closes: SUBSET Kinds]
  BY <1>1 DEF SheetsOf, Kinds, SavingsWrites, AccountWrites, BoxWrites,
              CategoryWrites
<1> HIDE DEF kind, body
<1>5. Shaped(c) /\ c.kind = kind /\ c.body = body /\ c.status = "sent"
  BY <1>2, <1>3, WithCall, StoreAssumption
<1> HIDE DEF c
<1>6. Sends(c) /\ Brings(c) /\ ~Creator(c)
  BY <1>3, <1>4, <1>5, NotCreator DEF Sends, Brings, Reloads
<1>7. doubt' \subseteq Tabs
  BY <1>2, TypeParts DEF CountsTyped, HearSheetWrite
<1>8. tabs' = [tabs EXCEPT ![k.tab] = tabs[k.tab]]
  BY <1>1, <1>2, SameTab
<1>9. \A x \in calls' : x \in calls \/ (Typed(x) /\ ~Creator(x))
  BY <1>1, <1>5, <1>6 DEF Others, Typed
<1>10. QED
  BY <1>1, <1>2, <1>7, <1>8, <1>9, TabStepTyped

(* What a reload leaves.                                                   *)
ReloadedSavings(k) ==
    LET savings == tabs[k.tab].savings
    IN  IF k.status # "ok" THEN savings
        ELSE IF k.kind = "readAccounts"
        THEN [savings EXCEPT !.accounts = k.got.accounts]
        ELSE IF k.kind = "readBox" THEN [savings EXCEPT !.box = k.got.box]
        ELSE [savings EXCEPT !.position = k.got.position]
ReloadedSheet(k) ==
    LET sheet == tabs[k.tab].sheet
    IN  IF sheet.kind \in k.body.closes THEN NoSheet ELSE sheet
Reloaded(k) ==
    [[tabs[k.tab] EXCEPT !.savings = ReloadedSavings(k)]
        EXCEPT !.sheet = ReloadedSheet(k)]

LEMMA ReloadTab ==
    ASSUME TypeInv, NEW k \in calls, HearReload(k)
    PROVE  tabs' = [tabs EXCEPT ![k.tab] = Reloaded(k)]
BY CallParts DEF HearReload, Reloaded, ReloadedSavings, ReloadedSheet

LEMMA HearReloadTyped ==
    ASSUME TypeInv, NEW k \in calls, HearReload(k)
    PROVE  TypeInv'
<1> DEFINE old == tabs[k.tab]
           savings == ReloadedSavings(k)
           sheet == ReloadedSheet(k)
           mid == [old EXCEPT !.savings = savings]
           tab == [mid EXCEPT !.sheet = sheet]
<1>0. k.kind \in Reloads
  BY DEF HearReload, Reloads
<1>1. k.tab \in Tabs /\ old \in Tab /\ Asked(old) /\ old.sheet \in Sheet
      /\ old.savings \in SavingsState
  BY CallParts, TabParts
<1>2. /\ tabs' = [tabs EXCEPT ![k.tab] = tab]
      /\ calls' = Others(k) /\ Untouched
  BY ReloadTab DEF HearReload, Reloaded
<1>3. /\ savings \in SavingsState
      /\ savings.status = "ready" =>
             savings.codes = {SavingsCode, InvestmentCode}
  BY <1>0, <1>1, CallParts
     DEF Brings, SavingsState, Asked, Reloads, ReloadedSavings
<1>4. sheet \in Sheet /\ (sheet.kind = "goal" => sheet.account # None)
  BY <1>1, SheetTypes DEF Asked, ReloadedSheet
<1> HIDE DEF savings, sheet, old
<1>5. tab \in Tab /\ Asked(tab)
  <2>1. /\ mid \in Tab /\ mid.savings = savings
        /\ mid.status = old.status /\ mid.fixed = old.fixed
    BY <1>1, <1>3, TabWithSavings
  <2> HIDE DEF mid
  <2>2. QED
    BY <1>1, <1>3, <1>4, <2>1, TabWithSheet DEF Asked
<1> HIDE DEF tab
<1>6. doubt' \subseteq Tabs /\ \A c \in calls' : c \in calls
  BY <1>1, <1>2, TypeParts DEF CountsTyped, Others, HearReload
<1>7. QED
  BY <1>1, <1>2, <1>5, <1>6, TabStepTyped

(* A tab's sheet changes but stays what it was about.                      *)
LEMMA SheetStepTyped ==
    ASSUME TypeInv, NEW t \in Tabs, NEW sheet \in Sheet,
           sheet.kind = tabs[t].sheet.kind, sheet.account = tabs[t].sheet.account
    PROVE  LET tab == [tabs[t] EXCEPT !.sheet = sheet]
           IN  tab \in Tab /\ Asked(tab)
<1>1. tabs[t] \in Tab /\ Asked(tabs[t])
  BY TypeParts DEF TabsTyped
<1>2. QED
  BY <1>1, TabWithSheet DEF Asked

LEMMA HearFailureTyped ==
    ASSUME TypeInv, NEW k \in calls, HearFailure(k)
    PROVE  TypeInv'
<1> DEFINE deletes == k.kind \in {"deleteAccount", "deleteCategory"}
           old == tabs[k.tab].sheet
           sheet == IF old.kind \notin SheetsOf(k.kind) THEN old
                    ELSE IF deletes THEN [old EXCEPT !.deleting = FALSE]
                    ELSE [old EXCEPT !.saving = FALSE]
           tab == [tabs[k.tab] EXCEPT !.sheet = sheet]
           deaf == {other \in calls : other.tab = k.tab /\ k.kind = "deleteIncome"
                                          /\ other.kind = "deleteIncome"}
<1>1. k.tab \in Tabs /\ tabs[k.tab] \in Tab /\ old \in Sheet
  BY CallParts, TabParts
<1>2. /\ tabs' = [tabs EXCEPT ![k.tab] = tab] /\ Untouched
      /\ doubt' \subseteq Tabs
  BY <1>1, TypeParts DEF HearFailure, CountsTyped
<1>3. sheet \in Sheet /\ sheet.kind = old.kind /\ sheet.account = old.account
  BY <1>1, SheetEdits
<1> HIDE DEF sheet
<1>4. tab \in Tab /\ Asked(tab)
  BY <1>1, <1>3, SheetStepTyped
<1>5. \A c \in calls' :
          \/ c = New(k.tab, "load")
          \/ \E x \in calls : c = Silenced(x, deaf)
  BY DEF HearFailure, Others, Silenced
<1> HIDE DEF tab, deaf
<1>6. QED
  BY <1>1, <1>2, <1>4, <1>5, SilencedTyped

(* A call has been heard of, or has ended unheard; the tab stays.          *)
LEMMA HeardTyped ==
    ASSUME TypeInv, NEW k \in calls,
           \A c \in calls' : c \in calls \/ (Typed(c) /\ ~Creator(c)),
           UNCHANGED <<tabs, doubt>>, Untouched
    PROVE  TypeInv'
<1>1. k.tab \in Tabs /\ tabs[k.tab] \in Tab /\ Asked(tabs[k.tab])
  BY CallParts
<1>2. tabs' = [tabs EXCEPT ![k.tab] = tabs[k.tab]]
  BY <1>1, SameTab
<1>3. doubt' \subseteq Tabs
  BY TypeParts DEF CountsTyped
<1>4. QED
  BY <1>1, <1>2, <1>3, TabStepTyped

(* A step of a budget as it is sent, heard where the step before was.      *)
LEMMA StepTyped ==
    ASSUME TypeInv, NEW k \in calls, NEW kind \in Reads \cup Writes,
           NEW id \in 0..LastId, NEW body,
           Sends(With(New(k.tab, kind), id, body))
    PROVE  LET c == [With(New(k.tab, kind), id, body) EXCEPT !.heard = k.heard]
           IN  /\ Typed(c) /\ c.tab = k.tab /\ c.kind = kind /\ c.id = id
               /\ c.body = body /\ c.heard = k.heard /\ c.status = "sent"
<1> DEFINE call == With(New(k.tab, kind), id, body)
           c == [call EXCEPT !.heard = k.heard]
<1>0. k.tab \in Tabs /\ k.heard \in BOOLEAN
  BY CallParts
<1>1. /\ Shaped(call) /\ call.tab = k.tab /\ call.kind = kind /\ call.id = id
      /\ call.body = body /\ call.status = "sent" /\ call.heard
  BY <1>0, WithCall
<1> HIDE DEF call
<1>2. /\ Shaped(c) /\ Like(c, call) /\ c.tab = k.tab /\ c.kind = kind
      /\ c.id = id /\ c.body = body /\ c.heard = k.heard /\ c.status = "sent"
  BY <1>0, <1>1, HeardCall DEF Like
<1>3. Typed(call)
  BY <1>1 DEF Typed, Brings, call
<1>4. Typed(c)
  <2> HIDE DEF c
  <2>1. QED
    BY <1>2, <1>3, LikeCall
<1>5. QED
  BY <1>2, <1>4 DEF call

LEMMA FinishesTyped ==
    ASSUME TypeInv, NEW k \in calls, Finishes(k)
    PROVE  TypeInv'
<1>1. k.tab \in Tabs /\ tabs[k.tab] \in Tab /\ Asked(tabs[k.tab])
  BY CallParts
<1>2. CASE ~k.heard
  <2>1. /\ \A c \in calls' : c \in calls
        /\ UNCHANGED <<tabs, doubt>> /\ Untouched
    BY <1>2 DEF Finishes, Others
  <2>2. QED
    BY <2>1, HeardTyped
<1>3. CASE k.heard
  <2> DEFINE tab == [tabs[k.tab] EXCEPT !.sheet = NoSheet, !.status = "loading"]
  <2>1. /\ tabs' = [tabs EXCEPT ![k.tab] = tab]
        /\ calls' = Loads(k.tab, Others(k)) /\ UNCHANGED doubt /\ Untouched
    BY <1>3 DEF Finishes
  <2>2. tab \in Tab /\ Asked(tab)
    BY <1>1, SheetTypes DEF Tab, Loading, Asked
  <2>3. \A c \in calls' : c \in calls \/ (Typed(c) /\ ~Creator(c))
    BY <1>1, <2>1, NewTyped DEF Loads, Others
  <2>4. doubt' \subseteq Tabs
    BY <2>1, TypeParts DEF CountsTyped
  <2> HIDE DEF tab
  <2>5. QED
    BY <1>1, <2>1, <2>2, <2>3, <2>4, TabStepTyped
<1>4. QED
  BY <1>2, <1>3

(* The first step after the rows were read: it takes the read's room.      *)
LEMMA HearRowsTyped ==
    ASSUME TypeInv, NEW k \in calls, HearRows(k)
    PROVE  TypeInv'
<1>1. /\ k.kind = "readIncomes" /\ k.status = "ok"
      /\ k.body \in [amount: Amounts] /\ k.got \in [rows: SUBSET Income]
  BY CallParts DEF HearRows, Sends, Brings
<1>2. PICK kind, id, body :
          /\ kind \in {"createIncome", "updateIncome"} /\ id \in 0..LastId
          /\ calls' = Others(k) \cup
                 {[With(New(k.tab, kind), id, body) EXCEPT !.heard = k.heard]}
          /\ kind = "createIncome" => body \in [id: {0}, amount: Amounts]
          /\ kind = "updateIncome" =>
                 id \in Id /\ body \in [amount: Amounts, surplus: SUBSET Id]
  <2> DEFINE rows == k.got.rows
             create == [id |-> 0, amount |-> k.body.amount]
             update == [amount |-> k.body.amount, surplus |-> Surplus(rows)]
  <2>1. rows \subseteq Income /\ \A row \in rows : row.id \in Nat /\ row.id \in Id
    BY <1>1 DEF Income, Id
  <2>2. create \in [id: {0}, amount: Amounts] /\ 0 \in 0..LastId
    BY <1>1, StoreAssumption
  <2>3. CASE rows = {}
    <3>1. calls' = Others(k) \cup
              {[With(New(k.tab, "createIncome"), 0, create) EXCEPT !.heard = k.heard]}
      BY <2>3 DEF HearRows, Follows
    <3> HIDE DEF create
    <3>2. QED
      BY <2>2, <3>1
  <2>4. CASE rows # {}
    <3>1. First(rows) \in rows
      <4> HIDE DEF rows
      <4>1. QED
        BY <2>1, <2>4, FirstIsLeast
    <3>2. First(rows).id \in Id /\ First(rows).id \in 0..LastId
      BY <2>1, <3>1 DEF Id
    <3>3. update \in [amount: Amounts, surplus: SUBSET Id]
      BY <1>1, <2>1 DEF Surplus, IdsOf
    <3>4. calls' = Others(k) \cup
              {[With(New(k.tab, "updateIncome"), First(rows).id, update)
                    EXCEPT !.heard = k.heard]}
      BY <2>4 DEF HearRows, Follows
    <3> HIDE DEF update, rows
    <3>5. QED
      BY <3>2, <3>3, <3>4
  <2>5. QED
    BY <2>3, <2>4
<1> DEFINE call == With(New(k.tab, kind), id, body)
           c == [call EXCEPT !.heard = k.heard]
<1>3. kind \in Reads \cup Writes /\ kind \in Writes
  BY <1>2 DEF Writes
<1>4. call.kind = kind /\ call.id = id /\ call.body = body
  BY <1>2, <1>3, CallParts, WithCall
<1> HIDE DEF call
<1>5. Sends(call)
  BY <1>2, <1>4 DEF Sends, Reloads
<1>6. Typed(c) /\ c.kind = kind
  BY <1>2, <1>3, <1>5, StepTyped DEF call
<1>7. calls' = Others(k) \cup {c} /\ UNCHANGED <<tabs, doubt>> /\ Untouched
  BY <1>2 DEF call, HearRows, Follows
<1> HIDE DEF c
<1>8. CallsTyped'
  BY <1>6, <1>7, TypeParts DEF CallsTyped, Others
<1>9. Room'
  <2>1. k \in Creators
    BY <1>1 DEF Creators, Creator
  <2>2. Creators' \subseteq (Creators \ {k}) \cup {c}
    BY <1>7 DEF Creators, Others
  <2>3. QED
    BY <1>7, <2>1, <2>2, SwapRoom DEF Untouched
<1>10. DataTyped' /\ TabsTyped' /\ CountsTyped'
  BY <1>7, TypeParts DEF DataTyped, TabsTyped, CountsTyped, Untouched
<1>11. QED
  BY <1>8, <1>9, <1>10, TypePartsNext

LEMMA HearIncomeTyped ==
    ASSUME TypeInv, NEW k \in calls, HearIncome(k)
    PROVE  TypeInv'
<1> DEFINE surplus == IF k.kind = "updateIncome" THEN k.body.surplus ELSE {}
           body == [kind |-> "deleteIncome"]
           next == {With(New(k.tab, "deleteIncome"), id, body) : id \in surplus}
<1>1. CASE Finishes(k)
  BY <1>1, FinishesTyped
<1>2. CASE Follows(k, next)
  <2>1. surplus \subseteq 0..LastId
    BY CallParts DEF Sends, Id
  <2>2. \A id \in surplus :
            LET c == [With(New(k.tab, "deleteIncome"), id, body)
                          EXCEPT !.heard = k.heard]
            IN  Typed(c) /\ ~Creator(c)
    <3> SUFFICES ASSUME NEW id \in surplus
                 PROVE  LET c == [With(New(k.tab, "deleteIncome"), id, body)
                                      EXCEPT !.heard = k.heard]
                        IN  Typed(c) /\ ~Creator(c)
      OBVIOUS
    <3> DEFINE call == With(New(k.tab, "deleteIncome"), id, body)
               c == [call EXCEPT !.heard = k.heard]
    <3>1. "deleteIncome" \in Reads \cup Writes /\ id \in 0..LastId
      BY <2>1 DEF Writes
    <3> HIDE DEF body, surplus
    <3>2. call.kind = "deleteIncome"
      BY <3>1, CallParts, WithCall
    <3> HIDE DEF call
    <3>3. Sends(call)
      BY <3>2 DEF Sends, Reloads
    <3>4. Typed(c) /\ c.kind = "deleteIncome"
      BY <3>1, <3>3, StepTyped DEF call
    <3> HIDE DEF c
    <3>5. QED
      BY <3>4, NotCreator DEF c, call
  <2>3. \A c \in calls' : c \in calls \/ (Typed(c) /\ ~Creator(c))
    <3> HIDE DEF body, surplus
    <3>1. QED
      BY <1>2, <2>2 DEF Follows, Others
  <2>4. UNCHANGED <<tabs, doubt>> /\ Untouched
    BY <1>2 DEF Follows
  <2>5. QED
    BY <2>3, <2>4, HeardTyped
<1>3. QED
  BY <1>1, <1>2 DEF HearIncome

LEMMA HearSurplusTyped ==
    ASSUME TypeInv, NEW k \in calls, HearSurplus(k)
    PROVE  TypeInv'
<1>1. CASE Finishes(k)
  BY <1>1, FinishesTyped
<1>2. CASE Follows(k, {})
  <2>1. /\ \A c \in calls' : c \in calls
        /\ UNCHANGED <<tabs, doubt>> /\ Untouched
    BY <1>2 DEF Follows, Others
  <2>2. QED
    BY <2>1, HeardTyped
<1>3. QED
  BY <1>1, <1>2 DEF HearSurplus

LEMMA HearCategoryTyped ==
    ASSUME TypeInv, NEW k \in calls, HearCategory(k)
    PROVE  TypeInv'
<1> DEFINE body == [kind |-> IF k.kind = "deleteCategory" THEN "delete" ELSE "save"]
           c == With(New(k.tab, "readCategories"), 0, body)
<1>1. /\ calls' = Others(k) \cup {c}
      /\ UNCHANGED <<tabs, doubt>> /\ Untouched
  BY DEF HearCategory
<1>2. body \in [kind: {"readCategories", "save", "delete"}]
  OBVIOUS
<1> HIDE DEF body
<1>3. /\ Shaped(c) /\ c.kind = "readCategories" /\ c.body = body
      /\ c.status = "sent"
  BY CallParts, CallSets, WithCall, StoreAssumption
<1> HIDE DEF c
<1>4. Sends(c) /\ Brings(c) /\ ~Creator(c)
  BY <1>2, <1>3, NotCreator DEF Sends, Brings, Reloads
<1>5. \A x \in calls' : x \in calls \/ (Typed(x) /\ ~Creator(x))
  BY <1>1, <1>3, <1>4 DEF Others, Typed
<1>6. QED
  BY <1>1, <1>5, HeardTyped

LEMMA HearListTyped ==
    ASSUME TypeInv, NEW k \in calls, HearList(k)
    PROVE  TypeInv'
<1> DEFINE old == tabs[k.tab].sheet
           list == IF k.status = "ok" THEN k.got.users ELSE old.list
           after == [old EXCEPT !.list = list]
           sheet == IF k.body.kind = "save"
                    THEN [after EXCEPT !.dirty = TRUE, !.saving = FALSE]
                    ELSE IF k.body.kind = "delete"
                    THEN [after EXCEPT !.dirty = TRUE, !.deleting = FALSE]
                    ELSE after
           tab == [tabs[k.tab] EXCEPT !.sheet = sheet]
<1>1. k.tab \in Tabs /\ tabs[k.tab] \in Tab /\ old \in Sheet
  BY CallParts, TabParts
<1>2. /\ tabs' = [tabs EXCEPT ![k.tab] = tab]
      /\ calls' = Others(k) /\ UNCHANGED doubt /\ Untouched
  BY <1>1 DEF HearList
<1>3. list \in SUBSET User
  BY <1>1, CallParts DEF HearList, Brings, Sheet
<1> HIDE DEF list
<1>4. after \in Sheet /\ after.kind = old.kind /\ after.account = old.account
  BY <1>1, <1>3, SheetEdits
<1> HIDE DEF after
<1>5. sheet \in Sheet /\ sheet.kind = old.kind /\ sheet.account = old.account
  BY <1>4 DEF Sheet
<1> HIDE DEF sheet
<1>6. tab \in Tab /\ Asked(tab)
  BY <1>1, <1>5, SheetStepTyped
<1> HIDE DEF tab
<1>7. doubt' \subseteq Tabs /\ \A c \in calls' : c \in calls
  BY <1>2, TypeParts DEF CountsTyped, Others
<1>8. QED
  BY <1>1, <1>2, <1>6, <1>7, TabStepTyped

LEMMA HearTyped ==
    ASSUME TypeInv, NEW k \in calls, Hear(k)
    PROVE  TypeInv'
<1>1. CASE EndUnheard(k)
  <2>1. /\ \A c \in calls' : c \in calls
        /\ UNCHANGED <<tabs, doubt>> /\ Untouched
    BY <1>1 DEF EndUnheard, Others
  <2>2. QED
    BY <2>1, HeardTyped
<1>2. QED
  BY <1>1, HearLoadTyped, HearSavingsTyped, HearSheetWriteTyped, HearReloadTyped,
     HearFailureTyped, HearRowsTyped, HearIncomeTyped, HearSurplusTyped,
     HearCategoryTyped, HearListTyped DEF Hear

-----------------------------------------------------------------------------
(* Types: the start, and every step.                                       *)

LEMMA InitTyped == Init => TypeInv
<1> SUFFICES ASSUME Init PROVE TypeInv
  OBVIOUS
<1>1. DataTyped /\ db.born + MaxSaves <= LastId /\ db.born \in Nat
  BY PageAssumption DEF Init, DataTyped, Database
<1>2. \A k \in calls : Typed(k) /\ ~Creator(k)
  BY NewTyped DEF Init
<1>3. TabsTyped
  BY NewTab DEF Init, TabsTyped
<1>4. CountsTyped
  BY PageAssumption DEF Init, CountsTyped
<1>5. Room
  <2>1. Creators = {}
    BY <1>2 DEF Creators
  <2>2. IsFiniteSet(Creators) /\ Cardinality(Creators) = 0
    BY <2>1, FS_EmptySet
  <2>3. QED
    BY <1>1, <2>2, PageAssumption, StoreAssumption DEF Init, Room
<1>6. QED
  BY <1>1, <1>2, <1>3, <1>4, <1>5, TypeParts DEF CallsTyped

LEMMA StutterTyped ==
    ASSUME TypeInv, UNCHANGED vars
    PROVE  TypeInv'
<1>1. DataTyped' /\ CallsTyped' /\ TabsTyped' /\ CountsTyped'
  BY TypeParts DEF DataTyped, CallsTyped, TabsTyped, CountsTyped, vars
<1>2. Room'
  BY StillRoom DEF Creators, vars
<1>3. QED
  BY <1>1, <1>2, TypePartsNext

LEMMA NextTyped ==
    ASSUME TypeInv, \A k \in calls : CallKnows(k), [Next]_vars
    PROVE  TypeInv'
<1>1. CASE UNCHANGED vars
  BY <1>1, StutterTyped
<1>2. ASSUME NEW t \in Tabs, Navigate(t) \/ Edit(t)
      PROVE  TypeInv'
  BY <1>2, UserTyped
<1>3. ASSUME NEW k \in calls, Serve(k) \/ Hear(k) \/ Fail(k) \/ LoseAnswer(k)
      PROVE  TypeInv'
  BY <1>3, ServeTyped, HearTyped, FailTyped
<1>4. QED
  BY <1>1, <1>2, <1>3 DEF Next

-----------------------------------------------------------------------------
(* What a step does to the calls, where nothing is written.                *)

(* Calls go on, or are sent by tab t, of the given kinds.                  *)
Keeps(t, kinds) ==
    \A c \in calls' :
        \/ \E k \in calls : Like(c, k)
        \/ c.status = "sent" /\ c.tab = t /\ c.kind \in kinds

LEMMA LikeSelf ==
    ASSUME NEW k
    PROVE  Like(k, k)
BY DEF Like

LEMMA SilencedLike ==
    ASSUME TypeInv, NEW k \in calls, NEW deaf
    PROVE  /\ Like(Silenced(k, deaf), k) /\ Shaped(Silenced(k, deaf))
           /\ Silenced(k, deaf).heard = (k.heard /\ k \notin deaf)
<1> DEFINE heard == k.heard /\ k \notin deaf
<1>1. Shaped(k) /\ heard \in BOOLEAN
  BY CallParts
<1> HIDE DEF heard
<1>2. LET c == [k EXCEPT !.heard = heard]
      IN  Shaped(c) /\ Like(c, k) /\ c.heard = heard
  <2>1. LET c == [k EXCEPT !.heard = heard]
        IN  /\ Shaped(c)
            /\ c.tab = k.tab /\ c.kind = k.kind /\ c.id = k.id
            /\ c.body = k.body /\ c.status = k.status /\ c.got = k.got
            /\ c.heard = heard
    BY <1>1, HeardCall
  <2>2. QED
    BY <2>1 DEF Like, heard
<1>3. QED
  BY <1>2 DEF Silenced, heard

LEMMA NewKept ==
    ASSUME NEW t \in Tabs, NEW kind \in Reads \cup Writes, NEW id \in 0..LastId,
           NEW body
    PROVE  /\ LET c == New(t, kind)
              IN  c.status = "sent" /\ c.tab = t /\ c.kind = kind
           /\ LET c == With(New(t, kind), id, body)
              IN  c.status = "sent" /\ c.tab = t /\ c.kind = kind
<1>1. LET c == New(t, kind)
      IN  c.status = "sent" /\ c.tab = t /\ c.kind = kind
  BY DEF New
<1>2. LET c == With(New(t, kind), id, body)
      IN  c.status = "sent" /\ c.tab = t /\ c.kind = kind
  BY WithCall
<1>3. QED
  BY <1>1, <1>2

Quiet == {"load", "loadSavings", "readCategories"} \cup Reloads

LEMMA BecomesKept ==
    ASSUME NEW t \in Tabs, NEW tab, NEW others, others \subseteq calls,
           Becomes(t, tab, others)
    PROVE  Keeps(t, Quiet)
<1> DEFINE body == [codes |-> tab.fixed \cap {SavingsCode, InvestmentCode}]
           c == With(New(t, "loadSavings"), 0, body)
<1>1. c.status = "sent" /\ c.tab = t /\ c.kind = "loadSavings"
  BY CallSets, NewKept, StoreAssumption
<1>2. calls' \subseteq calls \cup {c}
  BY DEF Becomes
<1> HIDE DEF c
<1>3. QED
  BY <1>1, <1>2, LikeSelf DEF Keeps, Quiet

LEMMA NavigateKept ==
    ASSUME TypeInv, NEW t \in Tabs, Navigate(t)
    PROVE  Keeps(t, Quiet) /\ Untouched
<1>0. ASSUME NEW kind \in {"load", "readCategories"}
      PROVE  New(t, kind).status = "sent" /\ New(t, kind).tab = t
             /\ New(t, kind).kind = kind
  BY DEF New
<1>1. CASE Enter(t)
  <2>1. \A c \in calls' :
            \/ c = New(t, "load")
            \/ \E k \in calls : c = Silenced(k, CallsOf(t))
    BY <1>1, CallParts DEF Enter, Loads, Silenced, CallsOf
  <2>2. QED
    BY <1>0, <1>1, <2>1, SilencedLike DEF Keeps, Quiet, Enter
<1>2. CASE \E assetTab \in {"budget", "savings"} : HandleAssetTab(t, assetTab)
  BY <1>2, BecomesKept DEF HandleAssetTab
<1>3. CASE HandleClose(t)
  <2> DEFINE pending == {k \in CallsOf(t) : k.kind \in CategoryWrites /\ k.heard}
  <2>1. \A c \in calls' :
            \/ c = New(t, "load")
            \/ \E k \in calls : c = Silenced(k, pending)
    <3> HIDE DEF pending
    <3>1. QED
      BY <1>3 DEF HandleClose, Loads, pending, Silenced
  <2> HIDE DEF pending
  <2>2. QED
    BY <1>0, <1>3, <2>1, SilencedLike DEF Keeps, Quiet, HandleClose
<1>4. CASE OnClose(t)
  BY <1>4, LikeSelf DEF OnClose, Keeps
<1>5. CASE \E sheet, others : /\ Opens(t, sheet, others)
                              /\ others \in {calls, calls \cup {New(t, "readCategories")}}
  BY <1>0, <1>5, LikeSelf DEF Opens, Keeps, Quiet
<1>6. QED
  BY <1>1, <1>2, <1>3, <1>4, <1>5 DEF Navigate, OpenBudget, OpenCategories,
     OpenBox, OnAddAccount, OnEditAccountGoal, OnEditReturn

(* The kinds of call that a user's save sends.                             *)
Edits == {"readIncomes"} \cup BoxWrites \cup AccountWrites
             \cup {"saveInvestment"} \cup CategoryWrites

LEMMA SavesKept ==
    ASSUME NEW t \in Tabs, NEW sheet, NEW kind \in Edits, NEW id \in 0..LastId,
           NEW body, Saves(t, sheet, With(New(t, kind), id, body))
    PROVE  /\ Keeps(t, Edits) /\ UNCHANGED <<db, doubt>>
           /\ LET c == With(New(t, kind), id, body)
              IN  /\ calls' = calls \cup {c} /\ c.tab = t /\ c.kind = kind
                  /\ c.id = id /\ c.body = body /\ c.heard /\ c.status = "sent"
<1>1. kind \in Reads \cup Writes
  BY DEF Edits, BoxWrites, AccountWrites, CategoryWrites, Reads, Writes
<1> DEFINE c == With(New(t, kind), id, body)
<1>2. /\ c.tab = t /\ c.kind = kind /\ c.id = id /\ c.body = body
      /\ c.status = "sent" /\ c.heard
  BY <1>1, WithCall
<1>3. calls' = calls \cup {c} /\ UNCHANGED <<db, doubt>>
  BY DEF Saves
<1> HIDE DEF c
<1>4. QED
  BY <1>2, <1>3, LikeSelf DEF Keeps, c

(* The call that a user's save sends, and the sheet after it.              *)
EditedAs(t, kind, id, body, sheet) ==
    /\ kind \in Edits /\ id \in 0..LastId
    /\ sheet \in {tabs[t].sheet, Saving(t), Deleting(t)}
    /\ Saves(t, sheet, With(New(t, kind), id, body))
    /\ kind \in SavingsWrites => tabs[t].sheet.kind \in SavingsSheets
    /\ kind = "updateAccount" =>
           /\ tabs[t].sheet.kind = "goal"
           /\ id = tabs[t].sheet.account.id
           /\ body.base = tabs[t].sheet.account.base
    /\ kind = "saveInvestment" =>
           /\ tabs[t].sheet.kind = "return"
           /\ body.base = BaseOf(tabs[t].savings.position)
    /\ kind = "readIncomes" => In(t, "budget") /\ sheet = Saving(t)
    /\ kind \in CategoryWrites => tabs[t].sheet.kind = "category"
Edited(t) == \E kind, id, body, sheet : EditedAs(t, kind, id, body, sheet)

LEMMA EditedBy ==
    ASSUME NEW t, NEW kind \in Edits, NEW id \in 0..LastId, NEW body,
           NEW sheet \in {tabs[t].sheet, Saving(t), Deleting(t)},
           Saves(t, sheet, With(New(t, kind), id, body)),
           kind \in SavingsWrites => tabs[t].sheet.kind \in SavingsSheets,
           kind = "updateAccount" =>
               /\ tabs[t].sheet.kind = "goal"
               /\ id = tabs[t].sheet.account.id
               /\ body.base = tabs[t].sheet.account.base,
           kind = "saveInvestment" =>
               /\ tabs[t].sheet.kind = "return"
               /\ body.base = BaseOf(tabs[t].savings.position),
           kind = "readIncomes" => In(t, "budget") /\ sheet = Saving(t),
           kind \in CategoryWrites => tabs[t].sheet.kind = "category"
    PROVE  Edited(t)
<1>1. EditedAs(t, kind, id, body, sheet)
  BY DEF EditedAs
<1>2. QED
  BY <1>1 DEF Edited

LEMMA EditSends ==
    ASSUME TypeInv, NEW t \in Tabs, Edit(t)
    PROVE  Edited(t)
<1> DEFINE kind == tabs[t].sheet.kind
<1>1. /\ 0 \in 0..LastId
      /\ Edits = {"readIncomes", "createBox", "deleteBox", "createAccount",
                  "updateAccount", "deleteAccount", "saveInvestment",
                  "createCategory", "updateCategory", "deleteCategory"}
      /\ SavingsWrites = {"createBox", "deleteBox", "createAccount",
                          "updateAccount", "deleteAccount", "saveInvestment"}
      /\ SavingsSheets = {"boxIn", "boxOut", "boxDetail", "addAccount", "goal",
                          "return"}
      /\ CategoryWrites = {"createCategory", "updateCategory", "deleteCategory"}
  BY StoreAssumption DEF Edits, BoxWrites, AccountWrites, CategoryWrites,
                         SavingsWrites, SavingsSheets
<1>2. ASSUME NEW amount \in Amounts, SaveBudget(t, amount)
      PROVE  Edited(t)
  <2> DEFINE body == [amount |-> amount]
  <2>1. Saves(t, Saving(t), With(New(t, "readIncomes"), 0, body)) /\ In(t, "budget")
    BY <1>2 DEF SaveBudget
  <2> HIDE DEF body
  <2>2. QED
    BY <1>1, <2>1, EditedBy
<1>3. ASSUME NEW source, NEW amount, SaveBox(t, source, amount)
      PROVE  Edited(t)
  <2> DEFINE body == [id |-> 0, type |-> IF In(t, "boxIn") THEN "in" ELSE "out",
                      source |-> source, amount |-> amount]
  <2>1. /\ Saves(t, Saving(t), With(New(t, "createBox"), 0, body))
        /\ kind \in {"boxIn", "boxOut"}
    BY <1>3 DEF SaveBox, In
  <2> HIDE DEF body
  <2>2. QED
    BY <1>1, <2>1, EditedBy
<1>4. ASSUME NEW x \in tabs[t].savings.box, DeleteBox(t, x)
      PROVE  Edited(t)
  <2> DEFINE body == [kind |-> "deleteBox"]
  <2>1. /\ Saves(t, tabs[t].sheet, With(New(t, "deleteBox"), x.id, body))
        /\ kind = "boxDetail"
    BY <1>4 DEF DeleteBox, In
  <2>2. x.id \in 0..LastId
    BY TypeParts, TabParts DEF TabsTyped, Txn, Id
  <2> HIDE DEF body
  <2>3. QED
    BY <1>1, <2>1, <2>2, EditedBy
<1>5. ASSUME NEW name, NEW base, AddAccount(t, name, base)
      PROVE  Edited(t)
  <2> DEFINE body == [id |-> 0, name |-> name, base |-> base, goal |-> 0]
  <2>1. /\ Saves(t, Saving(t), With(New(t, "createAccount"), 0, body))
        /\ kind = "addAccount"
    BY <1>5 DEF AddAccount, In
  <2> HIDE DEF body
  <2>2. QED
    BY <1>1, <2>1, EditedBy
<1>6. ASSUME NEW goal, SaveGoal(t, goal)
      PROVE  Edited(t)
  <2> DEFINE account == tabs[t].sheet.account
             body == [base |-> account.base, goal |-> goal]
  <2>1. /\ Saves(t, Saving(t), With(New(t, "updateAccount"), account.id, body))
        /\ kind = "goal"
    BY <1>6 DEF SaveGoal, In
  <2>2. account.id \in 0..LastId
    BY <2>1, GoalAccount DEF Id
  <2>3. body.base = account.base
    OBVIOUS
  <2> HIDE DEF body
  <2>4. QED
    BY <1>1, <2>1, <2>2, <2>3, EditedBy
<1>7. ASSUME DeleteAccount(t)
      PROVE  Edited(t)
  <2> DEFINE body == [kind |-> "deleteAccount"]
             id == tabs[t].sheet.account.id
  <2>1. /\ Saves(t, Deleting(t), With(New(t, "deleteAccount"), id, body))
        /\ kind = "goal"
    BY <1>7 DEF DeleteAccount, In
  <2>2. id \in 0..LastId
    BY <2>1, GoalAccount DEF Id
  <2> HIDE DEF body, id
  <2>3. QED
    BY <1>1, <2>1, <2>2, EditedBy
<1>8. ASSUME NEW rate, SaveReturn(t, rate)
      PROVE  Edited(t)
  <2> DEFINE base == BaseOf(tabs[t].savings.position)
             body == [id |-> 0, base |-> base, rate |-> rate]
  <2>1. /\ Saves(t, Saving(t), With(New(t, "saveInvestment"), 0, body))
        /\ kind = "return" /\ body.base = base
    BY <1>8 DEF SaveReturn, In
  <2> HIDE DEF body
  <2>2. QED
    BY <1>1, <2>1, EditedBy
<1>9. ASSUME NEW name, SaveCategory(t, name)
      PROVE  Edited(t)
  <2> DEFINE body == [id |-> 0, name |-> name]
  <2>1. /\ Saves(t, Saving(t), With(New(t, "createCategory"), 0, body))
        /\ kind = "category"
    BY <1>9 DEF SaveCategory, In
  <2> HIDE DEF body
  <2>2. QED
    BY <1>1, <2>1, EditedBy
<1>10. ASSUME NEW row \in tabs[t].sheet.list, NEW name, RenameCategory(t, row, name)
       PROVE  Edited(t)
  <2> DEFINE body == [name |-> name]
  <2>1. /\ Saves(t, Saving(t), With(New(t, "updateCategory"), row.id, body))
        /\ kind = "category"
    BY <1>10 DEF RenameCategory, In
  <2> HIDE DEF body
  <2>2. QED
    BY <1>1, <2>1, ListedId, EditedBy
<1>11. ASSUME NEW row \in tabs[t].sheet.list, DeleteCategory(t, row)
       PROVE  Edited(t)
  <2> DEFINE body == [kind |-> "deleteCategory"]
  <2>1. /\ Saves(t, Deleting(t), With(New(t, "deleteCategory"), row.id, body))
        /\ kind = "category"
    BY <1>11 DEF DeleteCategory, In
  <2> HIDE DEF body
  <2>2. QED
    BY <1>1, <2>1, ListedId, EditedBy
<1>12. QED
  BY <1>2, <1>3, <1>4, <1>5, <1>6, <1>7, <1>8, <1>9, <1>10, <1>11 DEF Edit

LEMMA HearKept ==
    ASSUME TypeInv, NEW k \in calls, Hear(k)
    PROVE  /\ UNCHANGED <<db, saves, faults>>
           /\ HearRows(k) \/ HearIncome(k) \/ Keeps(k.tab, Quiet)
<1>0. /\ k.tab \in Tabs /\ 0 \in 0..LastId
      /\ New(k.tab, "load").status = "sent" /\ New(k.tab, "load").tab = k.tab
      /\ New(k.tab, "load").kind = "load"
  BY CallParts, StoreAssumption DEF New
<1>1. CASE HearLoad(k)
  BY <1>0, <1>1, BecomesKept DEF HearLoad, Untouched, Others
<1>2. CASE HearSavings(k) \/ EndUnheard(k)
  BY <1>2, LikeSelf DEF HearSavings, EndUnheard, Untouched, Others, Keeps
<1>3. CASE HearReload(k) \/ HearList(k)
  BY <1>3, LikeSelf DEF HearReload, HearList, Untouched, Others, Keeps
<1>4. CASE HearSheetWrite(k)
  <2> DEFINE body == [closes |-> SheetsOf(k.kind)]
             c == With(New(k.tab, ReloadOf(k.kind)), 0, body)
  <2>1. calls' = Others(k) \cup {c} /\ Untouched
    BY <1>4 DEF HearSheetWrite
  <2>2. ReloadOf(k.kind) \in Reloads /\ ReloadOf(k.kind) \in Reads \cup Writes
    BY DEF ReloadOf, Reloads, Reads
  <2> HIDE DEF body
  <2>3. c.status = "sent" /\ c.tab = k.tab /\ c.kind \in Reloads
    BY <1>0, <2>2, NewKept
  <2> HIDE DEF c
  <2>4. QED
    BY <2>1, <2>3, LikeSelf DEF Keeps, Quiet, Others, Untouched
<1>5. CASE HearFailure(k)
  <2> DEFINE deaf == {other \in calls : other.tab = k.tab /\ k.kind = "deleteIncome"
                                            /\ other.kind = "deleteIncome"}
  <2>1. \A c \in calls' : \E x \in calls : c = Silenced(x, deaf)
    BY <1>5 DEF HearFailure, Others, Silenced
  <2> HIDE DEF deaf
  <2>2. QED
    BY <1>5, <2>1, SilencedLike DEF Keeps, HearFailure, Untouched
<1>6. CASE HearSurplus(k)
  <2>1. CASE Finishes(k)
    BY <1>0, <2>1, LikeSelf DEF Finishes, Loads, Others, Untouched, Keeps, Quiet
  <2>2. CASE Follows(k, {})
    BY <2>2, LikeSelf DEF Follows, Others, Untouched, Keeps
  <2>3. QED
    BY <1>6, <2>1, <2>2 DEF HearSurplus
<1>7. CASE HearCategory(k)
  <2> DEFINE body == [kind |-> IF k.kind = "deleteCategory" THEN "delete" ELSE "save"]
             c == With(New(k.tab, "readCategories"), 0, body)
  <2>1. calls' = Others(k) \cup {c} /\ Untouched
    BY <1>7 DEF HearCategory
  <2> HIDE DEF body
  <2>2. c.status = "sent" /\ c.tab = k.tab /\ c.kind = "readCategories"
    BY <1>0, CallSets, NewKept
  <2> HIDE DEF c
  <2>3. QED
    BY <2>1, <2>2, LikeSelf DEF Keeps, Quiet, Others, Untouched
<1>8. CASE HearRows(k) \/ HearIncome(k)
  BY <1>8 DEF HearRows, HearIncome, Follows, Finishes, Untouched
<1>9. QED
  BY <1>1, <1>2, <1>3, <1>4, <1>5, <1>6, <1>7, <1>8 DEF Hear

(* A call is answered: the calls after.                                    *)
LEMMA AnsweredKept ==
    ASSUME TypeInv, NEW k \in calls, NEW status \in Statuses, NEW got,
           Answered(k, status, got)
    PROVE  LET c == Reply(k, status, got)
           IN  /\ calls' = (calls \ {k}) \cup {c}
               /\ c.tab = k.tab /\ c.kind = k.kind /\ c.id = k.id
               /\ c.body = k.body /\ c.heard = k.heard
               /\ c.status = status /\ c.got = got
BY ReplyParts DEF Answered, Reply

-----------------------------------------------------------------------------
(* The budget.                                                             *)

LEMMA IncomeIds ==
    ASSUME TypeInv
    PROVE  \A row \in db.incomes : row.id \in Nat
BY TypeParts DEF DataTyped, Database, Income, Id

LEMMA BelowKept ==
    ASSUME TypeInv, BudgetInv, NEW k \in calls, Served(k)
    PROVE  /\ \A id \in 0..LastId : Below(id) => Below(id)'
           /\ db.incomes # {} => db'.incomes # {}
<1> USE DEF Below
<1>0. \A row \in db.incomes : row.id \in Nat
  BY IncomeIds
<1>1. PICK status, got : Told(k, status, got) \/ Wrote(k, status, got)
  BY DEF Served
<1>2. CASE UNCHANGED db.incomes
  BY <1>2
<1>3. CASE Wrote(k, status, got) /\ WrittenBy(k.kind) = "incomes"
  <2>1. Adds(k, "incomes") \/ Replaces(k, "incomes") \/ Removes(k, "incomes")
    BY <1>3 DEF Wrote
  <2>2. CASE Adds(k, "incomes")
    BY <2>2 DEF Adds
  <2>3. CASE Replaces(k, "incomes")
    <3>1. PICK row : /\ row.id \in IdsOf(db.incomes)
                     /\ db'.incomes = Without(db.incomes, row.id) \cup {row}
      BY <2>3 DEF Replaces
    <3>2. \A r \in db.incomes : \E n \in db'.incomes : n.id = r.id
      BY <3>1 DEF Without
    <3>3. QED
      BY <3>2
  <2>4. CASE Removes(k, "incomes")
    <3>1. k.kind = "deleteIncome" /\ db'.incomes = Without(db.incomes, k.id)
      BY <1>3, <2>4 DEF Removes, Removing, WrittenBy, TableOf, CategoryWrites
    <3>2. PICK less \in db.incomes : less.id < k.id
      BY <3>1 DEF BudgetInv, Spares
    <3>3. k.id \in Nat /\ less.id \in Nat /\ less \in db'.incomes
      BY <1>0, <3>1, <3>2, CallParts DEF Without
    <3>4. ASSUME NEW id \in 0..LastId, NEW row \in db.incomes, row.id < id
          PROVE  Below(id)'
      <4>1. CASE row.id = k.id
        <5>1. less.id < id
          BY <1>0, <3>2, <3>3, <3>4, <4>1
        <5>2. QED
          BY <3>3, <5>1
      <4>2. CASE row.id # k.id
        BY <3>1, <3>4, <4>2 DEF Without
      <4>3. QED
        BY <4>1, <4>2
    <3>5. QED
      BY <3>3, <3>4
  <2>5. QED
    BY <2>1, <2>2, <2>3, <2>4
<1>4. QED
  BY <1>1, <1>2, <1>3 DEF Told, Wrote, Tables

LEMMA SparesLike ==
    ASSUME NEW c, NEW k, c.kind = k.kind, c.id = k.id, c.body = k.body,
           \/ c.status = k.status /\ c.got = k.got
           \/ ~(c.kind = "readIncomes" /\ c.status = "ok"),
           Spares(k)
    PROVE  Spares(c)
BY DEF Spares

LEMMA SparesNew ==
    ASSUME NEW c, c.kind \notin {"deleteIncome", "updateIncome"},
           c.kind # "readIncomes" \/ c.status # "ok"
    PROVE  Spares(c)
BY DEF Spares

(* What is spared before the step is spared after it.                      *)
LEMMA SparesStill ==
    ASSUME TypeInv, TypeInv', \A id \in 0..LastId : Below(id) => Below(id)',
           \A c \in calls' : Spares(c)
    PROVE  BudgetInv'
<1> SUFFICES ASSUME NEW c \in calls'
             PROVE  Spares(c)'
  BY DEF BudgetInv
<1>1. Spares(c) /\ Sends(c) /\ Brings(c) /\ c.id \in 0..LastId
  BY DEF TypeInv, Shaped
<1>2. c.kind = "deleteIncome" => Below(c.id)'
  BY <1>1 DEF Spares
<1>3. c.kind = "updateIncome" => \A id \in c.body.surplus : Below(id)'
  BY <1>1 DEF Spares, Sends, Id
<1>4. c.kind = "readIncomes" /\ c.status = "ok" =>
          \A id \in Surplus(c.got.rows) : Below(id)'
  BY <1>1 DEF Spares, Brings, Surplus, IdsOf, Income, Id
<1>5. QED
  BY <1>2, <1>3, <1>4 DEF Spares

LEMMA KeptSpared ==
    ASSUME TypeInv, TypeInv', BudgetInv, NEW t, NEW kinds, Keeps(t, kinds),
           UNCHANGED db, kinds \cap {"deleteIncome", "updateIncome"} = {}
    PROVE  BudgetInv'
<1>1. \A c \in calls' : Spares(c)
  BY SparesLike, SparesNew DEF Keeps, Like, BudgetInv
<1>2. \A id \in 0..LastId : Below(id) => Below(id)'
  BY DEF Below
<1>3. QED
  BY <1>1, <1>2, SparesStill

(* The steps of a budget as they follow.                                   *)
Step(k, kind, id, body) == [With(New(k.tab, kind), id, body) EXCEPT !.heard = k.heard]

LEMMA StepParts ==
    ASSUME NEW k, NEW kind, NEW id, NEW body
    PROVE  LET c == Step(k, kind, id, body)
           IN  /\ c.tab = k.tab /\ c.kind = kind /\ c.id = id /\ c.body = body
               /\ c.heard = k.heard /\ c.status = "sent"
BY DEF Step, With, New

LEMMA RowsSends ==
    ASSUME TypeInv, NEW k \in calls, HearRows(k)
    PROVE  \E c : /\ calls' = Others(k) \cup {c}
                  /\ c.tab = k.tab /\ c.heard = k.heard /\ c.status = "sent"
                  /\ \/ c.kind = "createIncome"
                     \/ /\ c.kind = "updateIncome"
                        /\ c.body.surplus = Surplus(k.got.rows)
<1> DEFINE rows == k.got.rows
           create == [id |-> 0, amount |-> k.body.amount]
           update == [amount |-> k.body.amount, surplus |-> Surplus(rows)]
<1>1. CASE rows = {}
  <2>1. calls' = Others(k) \cup {Step(k, "createIncome", 0, create)}
    BY <1>1 DEF HearRows, Follows, Step
  <2> HIDE DEF create
  <2>2. QED
    BY <2>1, StepParts
<1>2. CASE rows # {}
  <2>1. calls' = Others(k) \cup {Step(k, "updateIncome", First(rows).id, update)}
    BY <1>2 DEF HearRows, Follows, Step
  <2>2. update.surplus = Surplus(rows)
    OBVIOUS
  <2> HIDE DEF update
  <2>3. QED
    BY <2>1, <2>2, StepParts
<1>3. QED
  BY <1>1, <1>2

LEMMA IncomeSends ==
    ASSUME TypeInv, NEW k \in calls, HearIncome(k), ~Finishes(k)
    PROVE  /\ k.kind = "updateIncome"
           /\ \A c \in calls' :
                  \/ c \in Others(k)
                  \/ /\ c.tab = k.tab /\ c.heard = k.heard /\ c.status = "sent"
                     /\ c.kind = "deleteIncome" /\ c.id \in k.body.surplus
           /\ Others(k) \subseteq calls'
           /\ \E c \in calls' :
                  c.tab = k.tab /\ c.heard = k.heard /\ c.kind = "deleteIncome"
<1> DEFINE body == [kind |-> "deleteIncome"]
<1>1. /\ k.kind = "updateIncome" /\ k.body.surplus # {}
      /\ calls' = Others(k) \cup
                      {Step(k, "deleteIncome", id, body) : id \in k.body.surplus}
  BY DEF HearIncome, Follows, Step
<1> HIDE DEF body
<1>2. QED
  BY <1>1, StepParts

LEMMA BudgetStep ==
    ASSUME TypeInv, TypeInv', BudgetInv, \A k \in calls : CallKnows(k), [Next]_vars
    PROVE  BudgetInv' /\ (db.incomes # {} => db'.incomes # {})
<1>1. CASE UNCHANGED vars
  <2>1. \A c \in calls' : Spares(c)
    BY <1>1 DEF BudgetInv, vars
  <2>2. QED
    BY <1>1, <2>1, SparesStill DEF vars, Below
<1>2. ASSUME NEW t \in Tabs, Navigate(t)
      PROVE  BudgetInv' /\ UNCHANGED db
  BY <1>2, NavigateKept, KeptSpared DEF Untouched, Quiet, Reloads
<1>3. ASSUME NEW t \in Tabs, Edit(t)
      PROVE  BudgetInv' /\ UNCHANGED db
  <2>1. PICK kind, id, body, sheet : EditedAs(t, kind, id, body, sheet)
    BY <1>3, EditSends DEF Edited
  <2>2. Keeps(t, Edits) /\ UNCHANGED db
    BY <2>1, SavesKept DEF EditedAs
  <2>3. QED
    BY <2>2, KeptSpared
       DEF Edits, BoxWrites, AccountWrites, CategoryWrites
<1>4. ASSUME NEW k \in calls, Serve(k)
      PROVE  BudgetInv' /\ (db.incomes # {} => db'.incomes # {})
  <2>1. Served(k)
    BY <1>4, ServeTyped
  <2>2. PICK status, got :
            /\ status \in {"ok", "refused", "checked"}
            /\ Answered(k, status, got)
            /\ k.status \in {"sent", "checked"}
            /\ Told(k, status, got) \/ Wrote(k, status, got)
    BY <2>1 DEF Served
  <2> DEFINE c == Reply(k, status, got)
  <2>3. /\ calls' = (calls \ {k}) \cup {c}
        /\ c.kind = k.kind /\ c.id = k.id /\ c.body = k.body
        /\ c.status = status /\ c.got = got
    BY <2>2, AnsweredKept DEF Statuses
  <2> HIDE DEF c
  <2>4. Spares(k)
    BY DEF BudgetInv
  <2>5. Spares(c)
    <3>1. CASE k.kind = "readIncomes" /\ status = "ok"
      <4>1. got.rows = db.incomes
        BY <2>2, <3>1, CallSets DEF Told, Wrote, Reports, Writes
      <4>2. \A row \in db.incomes : row.id \in Nat
        BY IncomeIds
      <4>3. db.incomes # {} =>
                /\ First(db.incomes) \in db.incomes
                /\ \A row \in db.incomes : First(db.incomes).id <= row.id
        BY <4>2, FirstIsLeast
      <4>4. \A id \in Surplus(db.incomes) : Below(id)
        BY <4>2, <4>3 DEF Surplus, IdsOf, Below
      <4>5. QED
        BY <2>3, <3>1, <4>1, <4>4 DEF Spares
    <3>2. CASE ~(k.kind = "readIncomes" /\ status = "ok")
      BY <2>3, <2>4, <3>2, SparesLike
    <3>3. QED
      BY <3>1, <3>2
  <2>6. \A x \in calls' : Spares(x)
    BY <2>3, <2>5 DEF BudgetInv
  <2>7. QED
    BY <2>1, <2>6, BelowKept, SparesStill
<1>5. ASSUME NEW k \in calls, Fail(k) \/ LoseAnswer(k)
      PROVE  BudgetInv' /\ UNCHANGED db
  <2> DEFINE c == Reply(k, "failed", k.got)
  <2>1. Answered(k, "failed", k.got) /\ UNCHANGED db
    BY <1>5 DEF Fail, LoseAnswer
  <2>2. /\ calls' = (calls \ {k}) \cup {c}
        /\ c.kind = k.kind /\ c.id = k.id /\ c.body = k.body
        /\ c.status = "failed"
    BY <2>1, AnsweredKept DEF Statuses
  <2> HIDE DEF c
  <2>3. Spares(c)
    BY <2>2, SparesLike DEF BudgetInv
  <2>4. \A x \in calls' : Spares(x)
    BY <2>2, <2>3 DEF BudgetInv
  <2>5. QED
    BY <2>1, <2>4, SparesStill DEF Below
<1>6. ASSUME NEW k \in calls, Hear(k)
      PROVE  BudgetInv' /\ UNCHANGED db
  <2>1. UNCHANGED db
    BY <1>6, HearKept
  <2>2. CASE Keeps(k.tab, Quiet)
    BY <2>1, <2>2, KeptSpared DEF Quiet, Reloads
  <2>3. CASE HearRows(k)
    <3>1. PICK c : /\ calls' = Others(k) \cup {c} /\ c.status = "sent"
                   /\ \/ c.kind = "createIncome"
                      \/ /\ c.kind = "updateIncome"
                         /\ c.body.surplus = Surplus(k.got.rows)
      BY <2>3, RowsSends
    <3>2. \A id \in Surplus(k.got.rows) : Below(id)
      BY <2>3 DEF BudgetInv, Spares, HearRows
    <3>3. \A x \in calls' : Spares(x)
      BY <3>1, <3>2 DEF BudgetInv, Spares, Others
    <3>4. QED
      BY <2>1, <3>3, SparesStill DEF Below
  <2>4. CASE HearIncome(k)
    <3>1. CASE Finishes(k)
      <4>1. Keeps(k.tab, {"load"})
        BY <3>1, LikeSelf DEF Finishes, Loads, Others, Keeps, New
      <4>2. QED
        BY <2>1, <4>1, KeptSpared
    <3>2. CASE ~Finishes(k)
      <4>1. \A id \in k.body.surplus : k.kind = "updateIncome" => Below(id)
        BY DEF BudgetInv, Spares
      <4>2. \A x \in calls' : Spares(x)
        BY <2>4, <3>2, <4>1, IncomeSends DEF BudgetInv, Spares, Others
      <4>3. QED
        BY <2>1, <4>2, SparesStill DEF Below
    <3>3. QED
      BY <3>1, <3>2
  <2>5. QED
    BY <1>6, <2>1, <2>2, <2>3, <2>4, HearKept
<1>7. QED
  BY <1>1, <1>2, <1>3, <1>4, <1>5, <1>6 DEF Next, vars

-----------------------------------------------------------------------------
(* What a tab does leaves the others alone.                                *)

Moves(t) ==
    /\ \A u \in Tabs \ {t} : tabs'[u] = tabs[u] /\ (u \in doubt' <=> u \in doubt)
    /\ \A u \in Tabs \ {t} : CallsOf(u)' = CallsOf(u)
    /\ UNCHANGED <<db, saves, faults>>

LEMMA MovesBy ==
    ASSUME TypeInv, NEW t \in Tabs, NEW tab, tabs' = [tabs EXCEPT ![t] = tab],
           \A c \in calls' : c \in calls \/ c.tab = t,
           \A c \in calls : c \in calls' \/ c.tab = t,
           doubt' \ {t} = doubt \ {t}, Untouched
    PROVE  Moves(t)
<1>1. \A u \in Tabs \ {t} : tabs'[u] = tabs[u]
  BY TabChange
<1>2. \A u \in Tabs \ {t} : u \in doubt' <=> u \in doubt
  OBVIOUS
<1>3. \A u \in Tabs \ {t} : CallsOf(u)' = CallsOf(u)
  BY DEF CallsOf
<1>4. QED
  BY <1>1, <1>2, <1>3 DEF Moves, Untouched

(* A call that is heard of is not silenced by a set it is not in.          *)
LEMMA NotSilenced ==
    ASSUME TypeInv, NEW k \in calls, NEW deaf, k \notin deaf
    PROVE  Silenced(k, deaf) = k
<1>1. Shaped(k)
  BY CallParts
<1>2. QED
  BY <1>1 DEF Silenced, Shaped

LEMMA SilencedMoves ==
    ASSUME TypeInv, NEW t \in Tabs, NEW tab, tabs' = [tabs EXCEPT ![t] = tab],
           NEW deaf, \A k \in deaf : k.tab = t,
           \A c \in calls' : c.tab = t \/ \E k \in calls : c = Silenced(k, deaf),
           \A k \in calls : k.tab = t \/ Silenced(k, deaf) \in calls',
           doubt' \ {t} = doubt \ {t}, Untouched
    PROVE  Moves(t)
<1>1. \A c \in calls' : c \in calls \/ c.tab = t
  <2> SUFFICES ASSUME NEW c \in calls', c.tab # t
               PROVE  c \in calls
    OBVIOUS
  <2>1. PICK k \in calls : c = Silenced(k, deaf)
    OBVIOUS
  <2>2. c.tab = k.tab
    BY <2>1, SilencedLike DEF Like
  <2>3. QED
    BY <2>1, <2>2, NotSilenced
<1>2. \A c \in calls : c \in calls' \/ c.tab = t
  BY NotSilenced
<1>3. QED
  BY <1>1, <1>2, MovesBy

LEMMA NewTabOf ==
    ASSUME NEW t, NEW kind, NEW id, NEW body
    PROVE  New(t, kind).tab = t /\ With(New(t, kind), id, body).tab = t
BY DEF New, With

LEMMA BecomesMoves ==
    ASSUME TypeInv, NEW t \in Tabs, NEW tab, NEW others, others \subseteq calls,
           \A c \in calls : c \in others \/ c.tab = t,
           Becomes(t, tab, others), UNCHANGED doubt, Untouched
    PROVE  Moves(t)
<1>1. \E new : tabs' = [tabs EXCEPT ![t] = new]
  BY DEF Becomes
<1>2. others \subseteq calls' /\ \A c \in calls' : c \in others \/ c.tab = t
  BY NewTabOf DEF Becomes
<1>3. QED
  BY <1>1, <1>2, MovesBy

LEMMA NavigateMoves ==
    ASSUME TypeInv, NEW t \in Tabs, Navigate(t)
    PROVE  Moves(t)
<1>1. CASE Enter(t)
  <2> DEFINE deaf == CallsOf(t)
  <2>1. \A k \in deaf : k.tab = t
    BY DEF CallsOf
  <2>2. /\ \A c \in calls' : c.tab = t \/ \E k \in calls : c = Silenced(k, deaf)
        /\ \A k \in calls : k.tab = t \/ Silenced(k, deaf) \in calls'
    <3>1. \A k \in calls : [k EXCEPT !.heard = @ /\ k.tab # t] = Silenced(k, deaf)
      BY DEF Silenced, CallsOf
    <3>2. \A k \in calls : Silenced(k, deaf).tab = k.tab
      BY SilencedLike DEF Like
    <3> HIDE DEF deaf
    <3>3. QED
      BY <1>1, <3>1, <3>2, NewTabOf DEF Enter, Loads
  <2>3. doubt' \ {t} = doubt \ {t} /\ Untouched /\ tabs' = [tabs EXCEPT ![t] = Mounted]
    BY <1>1 DEF Enter
  <2> HIDE DEF deaf
  <2>4. QED
    BY <2>1, <2>2, <2>3, SilencedMoves
<1>2. CASE \E assetTab \in {"budget", "savings"} : HandleAssetTab(t, assetTab)
  BY <1>2, BecomesMoves DEF HandleAssetTab
<1>3. CASE HandleClose(t)
  <2> DEFINE deaf == {k \in CallsOf(t) : k.kind \in CategoryWrites /\ k.heard}
  <2>1. \A k \in deaf : k.tab = t
    BY DEF CallsOf
  <2>2. /\ \A c \in calls' : c.tab = t \/ \E k \in calls : c = Silenced(k, deaf)
        /\ \A k \in calls : k.tab = t \/ Silenced(k, deaf) \in calls'
    <3>1. \A k \in calls : Silenced(k, deaf).tab = k.tab
      BY SilencedLike DEF Like
    <3> DEFINE reads == {k \in CallsOf(t) : k.kind = "readCategories"}
               left == {Silenced(k, deaf) : k \in calls \ reads}
    <3>2. calls' = Loads(t, left) \/ calls' = left
      BY <1>3 DEF HandleClose, Silenced
    <3>3. \A k \in reads : k.tab = t
      BY DEF CallsOf
    <3> HIDE DEF deaf, reads
    <3>4. QED
      BY <3>1, <3>2, <3>3, NewTabOf DEF Loads
  <2>3. /\ doubt' \ {t} = doubt \ {t} /\ Untouched
        /\ \E tab : tabs' = [tabs EXCEPT ![t] = tab]
    BY <1>3 DEF HandleClose
  <2> HIDE DEF deaf
  <2>4. QED
    BY <2>1, <2>2, <2>3, SilencedMoves
<1>4. CASE OnClose(t)
  BY <1>4, MovesBy DEF OnClose
<1>5. CASE \E sheet, others : /\ Opens(t, sheet, others)
                              /\ others \in {calls, calls \cup {New(t, "readCategories")}}
  <2>1. \E tab : tabs' = [tabs EXCEPT ![t] = tab]
    BY <1>5 DEF Opens
  <2>2. /\ \A c \in calls' : c \in calls \/ c.tab = t
        /\ calls \subseteq calls' /\ UNCHANGED doubt /\ Untouched
    BY <1>5, NewTabOf DEF Opens
  <2>3. QED
    BY <2>1, <2>2, MovesBy
<1>6. QED
  BY <1>1, <1>2, <1>3, <1>4, <1>5 DEF Navigate, OpenBudget, OpenCategories,
     OpenBox, OnAddAccount, OnEditAccountGoal, OnEditReturn

LEMMA HearMoves ==
    ASSUME TypeInv, NEW k \in calls, Hear(k)
    PROVE  Moves(k.tab)
<1> DEFINE t == k.tab
<1>0. t \in Tabs /\ tabs = [tabs EXCEPT ![t] = tabs[t]]
  BY CallParts, TypeParts DEF TabsTyped
<1>1. CASE HearLoad(k)
  BY <1>0, <1>1, BecomesMoves DEF HearLoad, Others
<1>2. CASE HearFailure(k)
  <2> DEFINE deaf == {other \in calls : other.tab = k.tab /\ k.kind = "deleteIncome"
                                            /\ other.kind = "deleteIncome"}
  <2>1. \A x \in deaf : x.tab = t
    OBVIOUS
  <2>2. /\ \A c \in calls' : c.tab = t \/ \E x \in calls : c = Silenced(x, deaf)
        /\ \A x \in calls : x.tab = t \/ Silenced(x, deaf) \in calls'
    <3>1. calls' = {Silenced(x, deaf) : x \in Others(k)}
      BY <1>2 DEF HearFailure, Others, Silenced
    <3> HIDE DEF deaf
    <3>2. QED
      BY <3>1 DEF Others
  <2>3. doubt' \ {t} = doubt \ {t} /\ Untouched
        /\ \E tab : tabs' = [tabs EXCEPT ![t] = tab]
    BY <1>2 DEF HearFailure
  <2> HIDE DEF deaf, t
  <2>4. QED
    BY <1>0, <2>1, <2>2, <2>3, SilencedMoves DEF t
<1>3. ASSUME \E tab : tabs' = [tabs EXCEPT ![t] = tab],
             \A c \in calls' : c \in calls \/ c.tab = t,
             \A c \in calls : c \in calls' \/ c.tab = t,
             doubt' \ {t} = doubt \ {t}, Untouched
      PROVE  Moves(t)
  BY <1>0, <1>3, MovesBy
<1>4. CASE HearSavings(k) \/ EndUnheard(k) \/ HearList(k)
  BY <1>0, <1>3, <1>4 DEF HearSavings, EndUnheard, HearList, Others
<1>5. CASE HearReload(k)
  <2>1. \E tab : tabs' = [tabs EXCEPT ![t] = tab]
    BY <1>5, ReloadTab
  <2>2. doubt' \ {t} = doubt \ {t} /\ Untouched /\ calls' = Others(k)
    BY <1>5 DEF HearReload
  <2>3. QED
    BY <1>3, <2>1, <2>2 DEF Others
<1>6. CASE HearSheetWrite(k)
  <2>1. doubt' \ {t} = doubt \ {t} /\ Untouched /\ UNCHANGED tabs
    BY <1>6 DEF HearSheetWrite
  <2>2. \E c : calls' = Others(k) \cup {c} /\ c.tab = t
    BY <1>6, NewTabOf DEF HearSheetWrite
  <2>3. QED
    BY <1>0, <1>3, <2>1, <2>2 DEF Others
<1>7. CASE HearCategory(k)
  <2>1. UNCHANGED doubt /\ Untouched /\ UNCHANGED tabs
    BY <1>7 DEF HearCategory
  <2>2. \E c : calls' = Others(k) \cup {c} /\ c.tab = t
    BY <1>7, NewTabOf DEF HearCategory
  <2>3. QED
    BY <1>0, <1>3, <2>1, <2>2 DEF Others
<1>8. CASE Finishes(k)
  <2>1. /\ UNCHANGED doubt /\ Untouched
        /\ \E tab : tabs' = [tabs EXCEPT ![t] = tab]
    BY <1>0, <1>8 DEF Finishes
  <2>2. /\ \A c \in calls' : c \in calls \/ c.tab = t
        /\ \A c \in calls : c \in calls' \/ c.tab = t
    BY <1>8, NewTabOf DEF Finishes, Loads, Others
  <2>3. QED
    BY <1>3, <2>1, <2>2
<1>9. CASE HearRows(k)
  <2>1. UNCHANGED doubt /\ Untouched /\ UNCHANGED tabs
    BY <1>9 DEF HearRows, Follows
  <2>2. \E c : calls' = Others(k) \cup {c} /\ c.tab = t
    BY <1>9, RowsSends
  <2>3. QED
    BY <1>0, <1>3, <2>1, <2>2 DEF Others
<1>10. CASE HearIncome(k) /\ ~Finishes(k)
  <2>1. UNCHANGED doubt /\ Untouched /\ UNCHANGED tabs
    BY <1>10 DEF HearIncome, Follows
  <2>2. /\ \A c \in calls' : c \in calls \/ c.tab = t
        /\ \A c \in calls : c \in calls' \/ c.tab = t
    BY <1>10, IncomeSends DEF Others
  <2>3. QED
    BY <1>0, <1>3, <2>1, <2>2
<1>11. CASE HearSurplus(k) /\ ~Finishes(k)
  <2>1. UNCHANGED doubt /\ Untouched /\ UNCHANGED tabs /\ calls' = Others(k)
    BY <1>11 DEF HearSurplus, Follows
  <2>2. QED
    BY <1>0, <1>3, <2>1 DEF Others
<1>12. QED
  BY <1>1, <1>2, <1>4, <1>5, <1>6, <1>7, <1>8, <1>9, <1>10, <1>11 DEF Hear

LEMMA EditMoves ==
    ASSUME TypeInv, NEW t \in Tabs, Edit(t)
    PROVE  \A u \in Tabs \ {t} :
               /\ tabs'[u] = tabs[u] /\ (u \in doubt' <=> u \in doubt)
               /\ CallsOf(u)' = CallsOf(u)
<1>1. PICK kind, id, body, sheet : EditedAs(t, kind, id, body, sheet)
  BY EditSends DEF Edited
<1>2. /\ \E c : calls' = calls \cup {c} /\ c.tab = t
      /\ tabs' = [tabs EXCEPT ![t] = [tabs[t] EXCEPT !.sheet = sheet]]
      /\ UNCHANGED doubt
  BY <1>1, NewTabOf DEF EditedAs, Saves
<1>3. \A u \in Tabs \ {t} : tabs'[u] = tabs[u]
  BY <1>2, TabChange
<1>4. QED
  BY <1>2, <1>3 DEF CallsOf

-----------------------------------------------------------------------------
(* The savings tab and what is on the way for it.                          *)

Ready(t) == tabs[t].savings.status = "ready"
SavingsKinds == SavingsWrites \cup Reloads \cup {"loadSavings"}

LEMMA OpenedFrame ==
    ASSUME NEW t, Opened(t), tabs'[t] = tabs[t], CallsOf(t)' = CallsOf(t)
    PROVE  Opened(t)'
BY DEF Opened

(* What moving about on the page comes to.                                 *)

(* The page's own parts stay.                                              *)
SamePage(t) ==
    /\ tabs'[t].status = tabs[t].status /\ tabs'[t].users = tabs[t].users
    /\ tabs'[t].incomes = tabs[t].incomes

SameSavings(t) ==
    /\ tabs'[t].savings.accounts = tabs[t].savings.accounts
    /\ tabs'[t].savings.box = tabs[t].savings.box
    /\ tabs'[t].savings.position = tabs[t].savings.position
    /\ tabs'[t].savings.status = "ready" <=> Ready(t)
Fresh(c, t, kind) == c.tab = t /\ c.kind = kind /\ c.status = "sent" /\ c.heard

Entered(t) ==
    /\ tabs'[t] = Mounted
    /\ \A c \in CallsOf(t)' :
           \/ Fresh(c, t, "load")
           \/ ~c.heard /\ c.kind \notin PageReads /\ \E k \in calls : Like(c, k)

(* The tab of the page after Becomes, where only the savings may load.     *)
Turns(t, tab) ==
    /\ tabs'[t].status = tab.status /\ tabs'[t].users = tab.users
    /\ tabs'[t].incomes = tab.incomes /\ tabs'[t].sheet = tab.sheet
    /\ tabs'[t].savings.accounts = tab.savings.accounts
    /\ tabs'[t].savings.box = tab.savings.box
    /\ tabs'[t].savings.position = tab.savings.position
    /\ tabs'[t].savings.status = "ready" <=> tab.savings.status = "ready"

Switched(t) ==
    /\ SamePage(t) /\ SameSavings(t) /\ tabs'[t].sheet = tabs[t].sheet
    /\ UNCHANGED doubt /\ calls \subseteq calls'
    /\ \A c \in calls' : c \in calls \/ Fresh(c, t, "loadSavings")

OpenedSheet(t) ==
    LET sheet == tabs'[t].sheet
        savings == tabs[t].savings
    IN  /\ SamePage(t) /\ tabs'[t].savings = savings
        /\ tabs[t].sheet = NoSheet
        /\ UNCHANGED doubt /\ calls \subseteq calls'
        /\ \A c \in calls' :
               \/ c \in calls
               \/ Fresh(c, t, "readCategories") /\ sheet.kind = "category"
        /\ sheet.kind = "goal" => Ready(t) /\ sheet.account \in savings.accounts
        /\ sheet.kind = "return" =>
               savings.position = None \/ Readable(savings.position)

ClosedSheet(t) ==
    LET sheet == tabs[t].sheet
    IN  /\ SamePage(t) /\ tabs'[t].savings = tabs[t].savings
        /\ sheet.kind # "category" /\ (sheet.kind = "budget" => ~sheet.saving)
        /\ tabs'[t].sheet = NoSheet
        /\ UNCHANGED <<calls, doubt>>

ClosedManager(t, deaf) ==
    LET sheet == tabs[t].sheet
    IN  /\ tabs'[t].savings = tabs[t].savings
        /\ sheet.kind = "category" /\ tabs'[t].sheet = NoSheet
        /\ IF sheet.dirty THEN tabs'[t].status = "loading" ELSE SamePage(t)
        /\ \A c \in CallsOf(t)' :
               \/ Fresh(c, t, "load") /\ sheet.dirty
               \/ \E k \in CallsOf(t) :
                      /\ c = Silenced(k, deaf) /\ k.kind # "readCategories"
                      /\ c.heard => c.kind \notin CategoryWrites
                      /\ sheet.dirty => c.kind # "load"
        /\ \A k \in CallsOf(t) :
               k.kind \notin {"load", "readCategories"} =>
                   Silenced(k, deaf) \in CallsOf(t)'
        /\ \A k \in deaf : k.kind \in CategoryWrites
        /\ t \notin doubt' =>
               /\ t \notin doubt /\ deaf = {}
               /\ \A k \in CallsOf(t) : k.heard => k.kind \notin CategoryWrites
               /\ sheet.dirty \/ \A k \in CallsOf(t) :
                      k.kind = "readCategories" => k.body.kind = "readCategories"

Navigated(t) ==
    \/ Entered(t)
    \/ Switched(t)
    \/ OpenedSheet(t)
    \/ ClosedSheet(t)
    \/ \E deaf : ClosedManager(t, deaf)

LEMMA NewSent ==
    ASSUME NEW t, NEW kind, NEW id, NEW body
    PROVE  Fresh(New(t, kind), t, kind) /\ Fresh(With(New(t, kind), id, body), t, kind)
BY DEF New, With, Fresh

LEMMA BecomesShown ==
    ASSUME TypeInv, NEW t \in Tabs, NEW tab \in Tab, NEW others,
           Becomes(t, tab, others)
    PROVE  /\ Turns(t, tab)
           /\ others \subseteq calls'
           /\ \A c \in calls' : c \in others \/ Fresh(c, t, "loadSavings")
<1> DEFINE body == [codes |-> tab.fixed \cap {SavingsCode, InvestmentCode}]
           load == With(New(t, "loadSavings"), 0, body)
           new == [tab EXCEPT !.savings.status = "loading"]
<1>1. CASE WantsSavings(tab)
  <2>1. /\ tabs' = [tabs EXCEPT ![t] = new] /\ calls' = others \cup {load}
        /\ tab.savings.status = "idle"
    BY <1>1 DEF Becomes, WantsSavings
  <2>2. /\ new.savings.status = "loading" /\ new.sheet = tab.sheet
        /\ new.status = tab.status /\ new.users = tab.users
        /\ new.incomes = tab.incomes
        /\ new.savings.accounts = tab.savings.accounts
        /\ new.savings.box = tab.savings.box
        /\ new.savings.position = tab.savings.position
    BY DEF Tab, SavingsState
  <2> HIDE DEF new
  <2>3. tabs'[t] = new
    BY <2>1, TabChange
  <2>4. Fresh(load, t, "loadSavings")
    BY NewSent
  <2> HIDE DEF load
  <2>5. QED
    BY <2>1, <2>2, <2>3, <2>4 DEF Turns
<1>2. CASE ~WantsSavings(tab)
  BY <1>2, TabChange DEF Becomes, Turns
<1>3. QED
  BY <1>1, <1>2

LEMMA EnterCalls ==
    ASSUME TypeInv, NEW t \in Tabs, Enter(t)
    PROVE  Entered(t)
<1>1. tabs'[t] = Mounted
  BY TabChange DEF Enter
<1>2. \A k \in calls : [k EXCEPT !.heard = @ /\ k.tab # t] = Silenced(k, CallsOf(t))
  BY DEF Silenced, CallsOf
<1>3. \A c \in calls' :
          \/ c = New(t, "load")
          \/ \E k \in calls : /\ k.tab # t \/ k.kind \notin PageReads
                              /\ c = Silenced(k, CallsOf(t))
  BY <1>2 DEF Enter, Loads
<1>4. ASSUME NEW c \in CallsOf(t)', c # New(t, "load")
      PROVE  ~c.heard /\ c.kind \notin PageReads /\ \E k \in calls : Like(c, k)
  <2>1. c \in calls' /\ c.tab = t
    BY <1>4 DEF CallsOf
  <2>2. PICK k \in calls : /\ k.tab # t \/ k.kind \notin PageReads
                           /\ c = Silenced(k, CallsOf(t))
    BY <1>3, <1>4, <2>1
  <2>3. Like(c, k) /\ c.heard = (k.heard /\ k \notin CallsOf(t))
    BY <2>2, SilencedLike
  <2>4. k.tab = t /\ k \in CallsOf(t)
    BY <2>1, <2>3 DEF Like, CallsOf
  <2>5. QED
    BY <2>2, <2>3, <2>4 DEF Like
<1>5. QED
  BY <1>1, <1>4, NewSent DEF Entered

LEMMA SwitchParts ==
    ASSUME TypeInv, NEW t \in Tabs, NEW assetTab \in {"budget", "savings"},
           HandleAssetTab(t, assetTab)
    PROVE  Switched(t)
<1> DEFINE failed == assetTab = "savings" /\ tabs[t].savings.status = "error"
           tab == [tabs[t] EXCEPT !.assetTab = assetTab,
                                  !.savings.status = IF failed THEN "idle" ELSE @]
<1>0. tabs[t] \in Tab
  BY TypeParts, TabParts DEF TabsTyped
<1>1. Becomes(t, tab, calls) /\ UNCHANGED doubt
  BY DEF HandleAssetTab
<1>2. /\ tab \in Tab /\ tab.sheet = tabs[t].sheet /\ tab.status = tabs[t].status
      /\ tab.users = tabs[t].users /\ tab.incomes = tabs[t].incomes
      /\ tab.savings.accounts = tabs[t].savings.accounts
      /\ tab.savings.box = tabs[t].savings.box
      /\ tab.savings.position = tabs[t].savings.position
      /\ tab.savings.status = "ready" <=> Ready(t)
  BY <1>0 DEF Tab, SavingsState, Loading, Ready
<1> HIDE DEF tab
<1>3. /\ Turns(t, tab) /\ calls \subseteq calls'
      /\ \A c \in calls' : c \in calls \/ Fresh(c, t, "loadSavings")
  BY <1>1, <1>2, BecomesShown
<1>4. QED
  BY <1>1, <1>2, <1>3 DEF Switched, Turns, SamePage, SameSavings

LEMMA OpensParts ==
    ASSUME TypeInv, NEW t \in Tabs, NEW sheet, NEW others,
           Opens(t, sheet, others), sheet \in Sheet,
           \/ others = calls
           \/ others = calls \cup {New(t, "readCategories")} /\ sheet.kind = "category",
           sheet.kind = "goal" =>
               Ready(t) /\ sheet.account \in tabs[t].savings.accounts,
           sheet.kind = "return" =>
               LET position == tabs[t].savings.position
               IN  position = None \/ Readable(position)
    PROVE  OpenedSheet(t)
<1> DEFINE tab == [tabs[t] EXCEPT !.sheet = sheet]
<1>1. /\ tab.savings = tabs[t].savings /\ tab.sheet = sheet
      /\ tab.status = tabs[t].status /\ tab.users = tabs[t].users
      /\ tab.incomes = tabs[t].incomes
  BY TypeParts, TabWithSheet DEF TabsTyped
<1>2. /\ tabs' = [tabs EXCEPT ![t] = tab] /\ tabs[t].sheet = NoSheet
      /\ calls' = others /\ UNCHANGED doubt
  BY DEF Opens
<1> HIDE DEF tab
<1>3. tabs'[t] = tab
  BY <1>2, TabChange
<1>4. Fresh(New(t, "readCategories"), t, "readCategories")
  BY NewSent
<1>5. QED
  BY <1>1, <1>2, <1>3, <1>4 DEF OpenedSheet, SamePage

LEMMA TabClosed ==
    ASSUME NEW tab \in Tab
    PROVE  LET new == [tab EXCEPT !.sheet = NoSheet]
           IN  /\ new \in Tab /\ new.sheet = NoSheet
               /\ new.status = tab.status /\ new.users = tab.users
               /\ new.incomes = tab.incomes /\ new.savings = tab.savings
<1>1. NoSheet \in Sheet
  BY SheetTypes
<1> HIDE DEF NoSheet
<1>2. QED
  BY <1>1, TabWithSheet

LEMMA ClosesParts ==
    ASSUME TypeInv, NEW t \in Tabs, OnClose(t)
    PROVE  ClosedSheet(t)
<1> DEFINE closed == [tabs[t] EXCEPT !.sheet = NoSheet]
<1>1. /\ tabs' = [tabs EXCEPT ![t] = closed] /\ UNCHANGED <<calls, doubt>>
      /\ tabs[t].sheet.kind # "category"
      /\ tabs[t].sheet.kind = "budget" => ~tabs[t].sheet.saving
  BY DEF OnClose
<1>2. /\ closed.savings = tabs[t].savings /\ closed.sheet = NoSheet
      /\ closed.status = tabs[t].status /\ closed.users = tabs[t].users
      /\ closed.incomes = tabs[t].incomes
  BY TypeParts, TabClosed DEF TabsTyped
<1> HIDE DEF closed
<1>3. tabs'[t] = closed
  BY <1>1, TabChange
<1>4. QED
  BY <1>1, <1>2, <1>3 DEF ClosedSheet, SamePage

LEMMA ManagerParts ==
    ASSUME TypeInv, NEW t \in Tabs, HandleClose(t)
    PROVE  \E deaf : ClosedManager(t, deaf)
<1> DEFINE sheet == tabs[t].sheet
           deaf == {k \in CallsOf(t) : k.kind \in CategoryWrites /\ k.heard}
           reads == {k \in CallsOf(t) : k.kind = "readCategories"}
           left == {Silenced(k, deaf) : k \in calls \ reads}
           closed == [tabs[t] EXCEPT !.sheet = NoSheet]
           loading == [closed EXCEPT !.status = "loading"]
<1>0. tabs[t] \in Tab
  BY TypeParts DEF TabsTyped
<1>1. /\ closed.savings = tabs[t].savings /\ closed.sheet = NoSheet
      /\ closed.status = tabs[t].status /\ closed.users = tabs[t].users
      /\ closed.incomes = tabs[t].incomes /\ closed \in Tab
  BY <1>0, TabClosed
<1>2. loading = [tabs[t] EXCEPT !.sheet = NoSheet, !.status = "loading"]
  BY <1>0 DEF Tab
<1>3. IF sheet.dirty
      THEN tabs' = [tabs EXCEPT ![t] = loading] /\ calls' = Loads(t, left)
      ELSE tabs' = [tabs EXCEPT ![t] = closed] /\ calls' = left
  BY <1>2 DEF HandleClose, Silenced
<1>4. /\ sheet.kind = "category"
      /\ t \notin doubt' =>
             /\ t \notin doubt /\ deaf = {}
             /\ sheet.dirty \/ \A k \in reads : k.body.kind = "readCategories"
  BY DEF HandleClose
<1> HIDE DEF closed
<1>5. /\ loading.savings = closed.savings /\ loading.sheet = closed.sheet
      /\ loading.status = "loading"
  BY <1>1 DEF Tab
<1> HIDE DEF loading
<1>6. /\ tabs'[t].savings = tabs[t].savings /\ tabs'[t].sheet = NoSheet
      /\ IF sheet.dirty THEN tabs'[t].status = "loading" ELSE SamePage(t)
  BY <1>1, <1>3, <1>5, TabChange DEF SamePage
<1>7. /\ \A k \in deaf : k.kind \in CategoryWrites
      /\ \A k \in CallsOf(t) : k.heard /\ k.kind \in CategoryWrites => k \in deaf
      /\ \A k \in reads : k \in CallsOf(t) /\ k.kind = "readCategories"
      /\ \A k \in CallsOf(t) : k.kind = "readCategories" => k \in reads
      /\ deaf \subseteq CallsOf(t)
  OBVIOUS
<1> HIDE DEF deaf, reads
<1>8. ASSUME NEW k \in calls
      PROVE  /\ Silenced(k, deaf).tab = k.tab /\ Silenced(k, deaf).kind = k.kind
             /\ Silenced(k, deaf).heard = (k.heard /\ k \notin deaf)
  BY <1>8, SilencedLike DEF Like
<1>9. ASSUME NEW c \in CallsOf(t)'
      PROVE  \/ Fresh(c, t, "load") /\ sheet.dirty
             \/ \E k \in CallsOf(t) :
                    /\ c = Silenced(k, deaf) /\ k.kind # "readCategories"
                    /\ c.heard => c.kind \notin CategoryWrites
                    /\ sheet.dirty => c.kind # "load"
  <2>1. c \in calls' /\ c.tab = t
    BY <1>9 DEF CallsOf
  <2>2. CASE c = New(t, "load") /\ sheet.dirty
    BY <2>2, NewSent
  <2>3. CASE ~(c = New(t, "load") /\ sheet.dirty)
    <3>1. c \in left /\ (sheet.dirty => c.kind # "load")
      BY <1>3, <2>1, <2>3 DEF Loads
    <3>2. PICK k \in calls \ reads : c = Silenced(k, deaf)
      BY <3>1
    <3>3. k \in CallsOf(t) /\ c.kind = k.kind /\ c.heard = (k.heard /\ k \notin deaf)
      BY <1>8, <2>1, <3>2 DEF CallsOf
    <3>4. QED
      BY <1>7, <3>1, <3>2, <3>3
  <2>4. QED
    BY <2>2, <2>3
<1>10. ASSUME NEW k \in CallsOf(t), k.kind \notin {"load", "readCategories"}
       PROVE  Silenced(k, deaf) \in CallsOf(t)'
  <2>1. k \in calls \ reads /\ k.tab = t
    BY <1>7, <1>10 DEF CallsOf
  <2>2. Silenced(k, deaf) \in left /\ Silenced(k, deaf).tab = t
        /\ Silenced(k, deaf).kind # "load"
    BY <1>8, <1>10, <2>1
  <2>3. Silenced(k, deaf) \in calls'
    BY <1>3, <2>2 DEF Loads
  <2>4. QED
    BY <2>2, <2>3 DEF CallsOf
<1>11. ClosedManager(t, deaf)
  BY <1>4, <1>6, <1>7, <1>9, <1>10 DEF ClosedManager
<1>12. QED
  BY <1>11

LEMMA NavigateParts ==
    ASSUME TypeInv, NEW t \in Tabs, Navigate(t)
    PROVE  Navigated(t)
<1>1. CASE Enter(t)
  BY <1>1, EnterCalls DEF Navigated
<1>2. ASSUME NEW assetTab \in {"budget", "savings"}, HandleAssetTab(t, assetTab)
      PROVE  Navigated(t)
  BY <1>2, SwitchParts DEF Navigated
<1>3. CASE OnClose(t)
  BY <1>3, ClosesParts DEF Navigated
<1>4. CASE HandleClose(t)
  BY <1>4, ManagerParts DEF Navigated
<1>5. ASSUME NEW kind \in Kinds \ {"none", "goal"}, NEW others,
             Opens(t, [NoSheet EXCEPT !.kind = kind], others),
             \/ others = calls
             \/ others = calls \cup {New(t, "readCategories")} /\ kind = "category",
             kind = "return" =>
                 LET position == tabs[t].savings.position
                 IN  position = None \/ Readable(position)
      PROVE  Navigated(t)
  <2> DEFINE sheet == [NoSheet EXCEPT !.kind = kind]
  <2>1. sheet \in Sheet /\ sheet.kind = kind
    BY SheetTypes
  <2>2. Opens(t, sheet, others)
    BY <1>5
  <2> HIDE DEF sheet
  <2>3. QED
    BY <1>5, <2>1, <2>2, OpensParts DEF Navigated
<1>6. CASE OpenBudget(t)
  BY <1>5, <1>6 DEF OpenBudget, Kinds
<1>7. CASE OpenCategories(t)
  BY <1>5, <1>7 DEF OpenCategories, Kinds
<1>8. ASSUME NEW kind \in Kinds, OpenBox(t, kind)
      PROVE  Navigated(t)
  BY <1>5, <1>8 DEF OpenBox
<1>9. CASE OnAddAccount(t)
  BY <1>5, <1>9 DEF OnAddAccount, Kinds
<1>10. CASE OnEditReturn(t)
  BY <1>5, <1>10 DEF OnEditReturn, Kinds
<1>11. ASSUME NEW name, OnEditAccountGoal(t, name)
       PROVE  Navigated(t)
  <2>1. PICK a \in tabs[t].savings.accounts :
            Opens(t, [NoSheet EXCEPT !.kind = "goal", !.account = a], calls)
    BY <1>11, OnEditAccountGoalTyped
  <2>2. a \in Account
    BY TypeParts, TabParts DEF TabsTyped
  <2> DEFINE sheet == [NoSheet EXCEPT !.kind = "goal", !.account = a]
  <2>3. sheet \in Sheet /\ sheet.kind = "goal" /\ sheet.account = a
    BY <2>2, SheetTypes
  <2>4. Opens(t, sheet, calls) /\ Ready(t)
    BY <1>11, <2>1 DEF OnEditAccountGoal, OnSavings, Ready
  <2> HIDE DEF sheet
  <2>5. QED
    BY <2>3, <2>4, OpensParts DEF Navigated
<1>12. QED
  BY <1>1, <1>2, <1>3, <1>4, <1>6, <1>7, <1>8, <1>9, <1>10, <1>11 DEF Navigate

(* The status of the savings stays, and so do the calls that are about     *)
(* them; new ones come only where the savings are ready.                   *)
LEMMA OpenedSame ==
    ASSUME TypeInv, NEW t \in Tabs, Opened(t), NEW deaf,
           tabs'[t].savings.status = tabs[t].savings.status,
           tabs'[t].sheet.kind \in SavingsSheets => Ready(t),
           \A c \in calls' : c.tab = t =>
               \/ \E k \in calls : c = Silenced(k, deaf)
               \/ c.kind \notin SavingsKinds
               \/ Ready(t) /\ c.kind # "loadSavings"
    PROVE  Opened(t)'
<1>1. \A c \in CallsOf(t)' :
          \/ \E k \in CallsOf(t) : c = Silenced(k, deaf) /\ Like(c, k)
          \/ c.kind \notin SavingsKinds
          \/ Ready(t) /\ c.kind # "loadSavings"
  BY SilencedLike DEF CallsOf, Like
<1>2. \A c \in CallsOf(t)' :
          /\ c.kind \in SavingsWrites /\ c.heard => Ready(t)
          /\ c.kind \in Reloads => Ready(t)
          /\ c.kind = "loadSavings" => tabs[t].savings.status = "loading"
  BY <1>1 DEF Opened, Ready, Like, SavingsKinds
<1>3. \A c, other \in CallsOf(t)' :
          c.kind = "loadSavings" /\ other.kind = "loadSavings" => c = other
  <2> SUFFICES ASSUME NEW c \in CallsOf(t)', NEW other \in CallsOf(t)',
                      c.kind = "loadSavings", other.kind = "loadSavings"
               PROVE  c = other
    OBVIOUS
  <2>1. PICK k \in CallsOf(t) : c = Silenced(k, deaf) /\ Like(c, k)
    BY <1>1 DEF SavingsKinds
  <2>2. PICK l \in CallsOf(t) : other = Silenced(l, deaf) /\ Like(other, l)
    BY <1>1 DEF SavingsKinds
  <2>3. k = l
    BY <2>1, <2>2 DEF Like, Opened
  <2>4. QED
    BY <2>1, <2>2, <2>3
<1>4. QED
  BY <1>2, <1>3 DEF Opened, Ready

(* No call is silenced.                                                    *)
LEMMA NobodySilenced ==
    ASSUME TypeInv
    PROVE  \A k \in calls : k = Silenced(k, {})
BY NotSilenced

LEMMA OpenedStill ==
    ASSUME TypeInv, NEW t \in Tabs, Opened(t),
           tabs'[t].savings.status = tabs[t].savings.status,
           tabs'[t].sheet.kind \in SavingsSheets => Ready(t),
           \A c \in calls' : c.tab = t =>
               \/ c \in calls
               \/ c.kind \notin SavingsKinds
               \/ Ready(t) /\ c.kind # "loadSavings"
    PROVE  Opened(t)'
<1>1. \A c \in calls' : c.tab = t =>
          \/ \E k \in calls : c = Silenced(k, {})
          \/ c.kind \notin SavingsKinds
          \/ Ready(t) /\ c.kind # "loadSavings"
  BY NobodySilenced
<1>2. QED
  BY <1>1, OpenedSame

(* Nothing is on the way for savings that are neither loading nor ready.   *)
LEMMA IdleSavings ==
    ASSUME NEW t, Opened(t), tabs[t].savings.status \notin {"ready", "loading"}
    PROVE  /\ tabs[t].sheet.kind \notin SavingsSheets
           /\ \A k \in CallsOf(t) :
                  /\ k.kind \in SavingsWrites => ~k.heard
                  /\ k.kind \notin Reloads \cup {"loadSavings"}
BY DEF Opened

LEMMA BecomesOpened ==
    ASSUME TypeInv, NEW t \in Tabs, Opened(t), NEW tab, NEW others,
           others \subseteq calls, Becomes(t, tab, others), tab \in Tab,
           tab.sheet = tabs[t].sheet,
           \/ tab.savings.status = tabs[t].savings.status
           \/ tab.savings.status = "idle" /\ tabs[t].savings.status = "error"
    PROVE  Opened(t)'
<1> DEFINE body == [codes |-> tab.fixed \cap {SavingsCode, InvestmentCode}]
           load == With(New(t, "loadSavings"), 0, body)
           new == [tab EXCEPT !.savings.status = "loading"]
<1>1. CASE WantsSavings(tab)
  <2>1. /\ tabs' = [tabs EXCEPT ![t] = new] /\ calls' = others \cup {load}
        /\ tab.savings.status = "idle"
    BY <1>1 DEF Becomes, WantsSavings
  <2>2. new.savings.status = "loading" /\ new.sheet = tab.sheet
    BY DEF Tab, SavingsState
  <2> HIDE DEF new
  <2>3. tabs'[t] = new
    BY <2>1, TabChange
  <2>4. /\ tabs[t].sheet.kind \notin SavingsSheets
        /\ \A k \in CallsOf(t) :
               /\ k.kind \in SavingsWrites => ~k.heard
               /\ k.kind \notin Reloads \cup {"loadSavings"}
    BY <2>1, IdleSavings
  <2>5. load.kind = "loadSavings" /\ load.tab = t
    BY DEF With, New
  <2> HIDE DEF load
  <2>6. \A c \in CallsOf(t)' :
            \/ c = load
            \/ /\ c.kind \in SavingsWrites => ~c.heard
               /\ c.kind \notin Reloads \cup {"loadSavings"}
    BY <2>1, <2>4 DEF CallsOf
  <2>7. load.kind \notin SavingsWrites \cup Reloads
    BY <2>5 DEF SavingsWrites, AccountWrites, BoxWrites, Reloads
  <2>8. QED
    BY <2>2, <2>3, <2>4, <2>5, <2>6, <2>7 DEF Opened
<1>2. CASE ~WantsSavings(tab)
  <2>1. tabs' = [tabs EXCEPT ![t] = tab] /\ calls' = others
    BY <1>2 DEF Becomes
  <2>2. tabs'[t] = tab
    BY <2>1, TabChange
  <2>3. CASE tab.savings.status = tabs[t].savings.status
    <3>1. tabs'[t].savings.status = tabs[t].savings.status
      BY <2>2, <2>3
    <3>2. tabs'[t].sheet.kind \in SavingsSheets => Ready(t)
      BY <2>2 DEF Opened, Ready
    <3>3. calls' \subseteq calls
      BY <2>1
    <3>4. QED
      BY <3>1, <3>2, <3>3, OpenedStill
  <2>4. CASE tab.savings.status = "idle" /\ tabs[t].savings.status = "error"
    <3>1. /\ tabs[t].sheet.kind \notin SavingsSheets
          /\ \A k \in CallsOf(t)' :
                 /\ k.kind \in SavingsWrites => ~k.heard
                 /\ k.kind \notin Reloads \cup {"loadSavings"}
      BY <2>1, <2>4, IdleSavings DEF CallsOf
    <3>2. QED
      BY <2>2, <3>1 DEF Opened
  <2>5. QED
    BY <2>3, <2>4
<1>3. QED
  BY <1>1, <1>2

LEMMA ReadKinds ==
    /\ "load" \notin SavingsKinds /\ "readCategories" \notin SavingsKinds
    /\ "readIncomes" \notin SavingsKinds
    /\ SavingsKinds \cap BudgetWrites = {}
    /\ SavingsKinds \cap CategoryWrites = {}
    /\ "none" \notin SavingsSheets /\ "category" \notin SavingsSheets
    /\ "budget" \notin SavingsSheets
    /\ "loadSavings" \notin SavingsWrites
BY DEF SavingsKinds, SavingsWrites, AccountWrites, BoxWrites, Reloads, BudgetWrites,
       CategoryWrites, SavingsSheets

LEMMA EnterOpened ==
    ASSUME TypeInv, NEW t \in Tabs, Enter(t)
    PROVE  Opened(t)'
<1>1. Entered(t)
  BY EnterCalls
<1>2. \A c \in CallsOf(t)' :
          c.kind \notin Reloads \cup {"loadSavings"} /\ (c.kind \in SavingsWrites => ~c.heard)
  BY <1>1, ReadKinds DEF Entered, Fresh, PageReads, Reads, Reloads, SavingsKinds
<1>3. QED
  BY <1>1, <1>2, NewTab, ReadKinds DEF Opened, Entered

LEMMA NavigateOpened ==
    ASSUME TypeInv, NEW t \in Tabs, Opened(t), Navigate(t)
    PROVE  Opened(t)'
<1>0. tabs[t] \in Tab /\ tabs[t].sheet \in Sheet
  BY TypeParts, TabParts DEF TabsTyped
<1>1. CASE Enter(t)
  BY <1>1, EnterOpened
<1>2. ASSUME NEW assetTab \in {"budget", "savings"}, HandleAssetTab(t, assetTab)
      PROVE  Opened(t)'
  <2> DEFINE failed == assetTab = "savings" /\ tabs[t].savings.status = "error"
             tab == [tabs[t] EXCEPT !.assetTab = assetTab,
                                    !.savings.status = IF failed THEN "idle" ELSE @]
  <2>1. Becomes(t, tab, calls)
    BY <1>2 DEF HandleAssetTab
  <2>2. /\ tab \in Tab /\ tab.sheet = tabs[t].sheet
        /\ \/ tab.savings.status = tabs[t].savings.status
           \/ tab.savings.status = "idle" /\ tabs[t].savings.status = "error"
    BY <1>0 DEF Tab, SavingsState, Loading
  <2> HIDE DEF tab
  <2>3. QED
    BY <2>1, <2>2, BecomesOpened
<1>3. CASE OnClose(t)
  <2> DEFINE closed == [tabs[t] EXCEPT !.sheet = NoSheet]
  <2>1. tabs' = [tabs EXCEPT ![t] = closed] /\ calls' = calls
    BY <1>3 DEF OnClose
  <2>2. closed.savings = tabs[t].savings /\ closed.sheet.kind = "none"
    BY <1>0, SheetClosed
  <2> HIDE DEF closed
  <2>3. tabs'[t] = closed
    BY <2>1, TabChange
  <2>4. QED
    BY <2>1, <2>2, <2>3, ReadKinds, OpenedStill
<1>4. CASE HandleClose(t)
  <2> DEFINE deaf == {k \in CallsOf(t) : k.kind \in CategoryWrites /\ k.heard}
             closed == [tabs[t] EXCEPT !.sheet = NoSheet]
             loading == [tabs[t] EXCEPT !.sheet = NoSheet, !.status = "loading"]
  <2>1. tabs' = [tabs EXCEPT ![t] = closed] \/ tabs' = [tabs EXCEPT ![t] = loading]
    BY <1>4 DEF HandleClose
  <2>2. \A tab \in {closed, loading} :
            tab.savings.status = tabs[t].savings.status /\ tab.sheet.kind = "none"
    <3>1. /\ closed.savings = tabs[t].savings /\ closed.sheet.kind = "none"
          /\ closed \in Tab
      BY <1>0, SheetClosed
    <3>2. loading = [closed EXCEPT !.status = "loading"]
      BY <1>0 DEF Tab
    <3> HIDE DEF closed, loading
    <3>3. loading.savings = closed.savings /\ loading.sheet = closed.sheet
      BY <3>1, <3>2 DEF Tab
    <3>4. QED
      BY <3>1, <3>3
  <2> HIDE DEF closed, loading
  <2>3. /\ tabs'[t].savings.status = tabs[t].savings.status
        /\ tabs'[t].sheet.kind = "none"
    BY <2>1, <2>2, TabChange
  <2>4. \A c \in calls' : c = New(t, "load") \/ \E k \in calls : c = Silenced(k, deaf)
    <3> HIDE DEF deaf
    <3>1. QED
      BY <1>4 DEF HandleClose, Loads, deaf, Silenced
  <2>5. New(t, "load").kind = "load"
    BY DEF New
  <2> HIDE DEF deaf
  <2>6. QED
    BY <2>3, <2>4, <2>5, ReadKinds, OpenedSame
<1>5. ASSUME NEW sheet, NEW others, Opens(t, sheet, others),
             others \in {calls, calls \cup {New(t, "readCategories")}},
             sheet.kind \in SavingsSheets => Ready(t)
      PROVE  Opened(t)'
  <2> DEFINE tab == [tabs[t] EXCEPT !.sheet = sheet]
  <2>0. tab.savings = tabs[t].savings /\ tab.sheet = sheet
    BY <1>0 DEF Tab
  <2>1. tabs' = [tabs EXCEPT ![t] = tab]
    BY <1>5 DEF Opens
  <2> HIDE DEF tab
  <2>2. tabs'[t].savings = tabs[t].savings /\ tabs'[t].sheet = sheet
    BY <2>0, <2>1, TabChange
  <2>3. New(t, "readCategories").kind = "readCategories"
    BY DEF New
  <2>4. \A c \in calls' : c \in calls \/ c.kind \notin SavingsKinds
    BY <1>5, <2>3, ReadKinds DEF Opens
  <2>5. QED
    BY <1>5, <2>2, <2>4, NobodySilenced, OpenedSame
<1>6. CASE OpenBudget(t) \/ OpenCategories(t)
  <2>1. \E kind, others :
            /\ kind \in {"budget", "category"}
            /\ Opens(t, [NoSheet EXCEPT !.kind = kind], others)
            /\ others \in {calls, calls \cup {New(t, "readCategories")}}
    BY <1>6 DEF OpenBudget, OpenCategories
  <2>2. \A kind \in {"budget", "category"} :
            [NoSheet EXCEPT !.kind = kind].kind \notin SavingsSheets
    BY ReadKinds DEF NoSheet
  <2>3. QED
    BY <1>5, <2>1, <2>2
<1>7. ASSUME NEW kind \in Kinds, OpenBox(t, kind)
      PROVE  Opened(t)'
  BY <1>5, <1>7, SheetTypes DEF OpenBox, OnSavings, Ready
<1>8. CASE OnAddAccount(t) \/ OnEditReturn(t)
  BY <1>5, <1>8 DEF OnAddAccount, OnEditReturn, OnSavings, Ready
<1>9. ASSUME NEW name, OnEditAccountGoal(t, name)
      PROVE  Opened(t)'
  BY <1>5, <1>9 DEF OnEditAccountGoal, OnSavings, Ready
<1>10. QED
  BY <1>1, <1>2, <1>3, <1>4, <1>6, <1>7, <1>8, <1>9 DEF Navigate

LEMMA EditedTab ==
    ASSUME TypeInv, NEW t \in Tabs, NEW kind, NEW id, NEW body, NEW sheet,
           EditedAs(t, kind, id, body, sheet)
    PROVE  /\ tabs'[t].savings = tabs[t].savings /\ tabs'[t].status = tabs[t].status
           /\ tabs'[t].users = tabs[t].users /\ tabs'[t].incomes = tabs[t].incomes
           /\ tabs'[t].sheet.kind = tabs[t].sheet.kind
           /\ tabs'[t].sheet.account = tabs[t].sheet.account
           /\ tabs'[t].sheet.dirty = tabs[t].sheet.dirty
           /\ tabs[t].sheet.saving \/ kind = "readIncomes" => tabs'[t].sheet.saving
<1>1. tabs[t] \in Tab /\ tabs[t].sheet \in Sheet
  BY TypeParts, TabParts DEF TabsTyped
<1>2. /\ sheet \in Sheet /\ sheet.kind = tabs[t].sheet.kind
      /\ sheet.account = tabs[t].sheet.account /\ sheet.dirty = tabs[t].sheet.dirty
  <2>1. CASE sheet = tabs[t].sheet
    BY <1>1, <2>1
  <2>2. CASE sheet = Saving(t)
    BY <1>1, <2>2, SheetEdits DEF Saving
  <2>3. CASE sheet = Deleting(t)
    BY <1>1, <2>3, SheetEdits DEF Deleting
  <2>4. QED
    BY <2>1, <2>2, <2>3 DEF EditedAs
<1>3. tabs' = [tabs EXCEPT ![t] = [tabs[t] EXCEPT !.sheet = sheet]]
  BY DEF EditedAs, Saves
<1>4. tabs[t].sheet.saving \/ kind = "readIncomes" => sheet.saving
  BY <1>1 DEF Saving, Deleting, EditedAs, Sheet
<1> DEFINE tab == [tabs[t] EXCEPT !.sheet = sheet]
<1>5. /\ tab.sheet = sheet /\ tab.savings = tabs[t].savings
      /\ tab.status = tabs[t].status /\ tab.users = tabs[t].users
      /\ tab.incomes = tabs[t].incomes
  BY <1>1, <1>2, TabWithSheet
<1> HIDE DEF tab
<1>6. tabs'[t] = tab
  BY <1>3, TabChange DEF tab
<1>7. QED
  BY <1>2, <1>4, <1>5, <1>6

LEMMA EditOpened ==
    ASSUME TypeInv, NEW t \in Tabs, Opened(t), Edit(t)
    PROVE  Opened(t)'
<1>1. PICK kind, id, body, sheet : EditedAs(t, kind, id, body, sheet)
  BY EditSends DEF Edited
<1>2. /\ tabs'[t].savings = tabs[t].savings
      /\ tabs'[t].sheet.kind = tabs[t].sheet.kind
  BY <1>1, EditedTab
<1> DEFINE c == With(New(t, kind), id, body)
<1>3. calls' = calls \cup {c} /\ c.kind = kind
  BY <1>1, SavesKept DEF EditedAs
<1>4. kind \in SavingsWrites => Ready(t)
  BY <1>1 DEF EditedAs, Opened, Ready
<1>5. kind \notin Reloads \cup {"loadSavings"}
  BY <1>1 DEF EditedAs, Edits, Reloads, AccountWrites, BoxWrites, CategoryWrites
<1> HIDE DEF c
<1>6. QED
  <2>1. tabs'[t].savings.status = tabs[t].savings.status
    BY <1>2
  <2>2. tabs'[t].sheet.kind \in SavingsSheets => Ready(t)
    BY <1>2 DEF Opened, Ready
  <2>3. \A k \in calls' :
            \/ k \in calls
            \/ k.kind \notin SavingsKinds
            \/ Ready(t) /\ k.kind # "loadSavings"
    BY <1>3, <1>4, <1>5 DEF SavingsKinds
  <2>4. QED
    BY <2>1, <2>2, <2>3, OpenedStill

(* What the page is after a call has been heard of.                        *)

LEMMA HearLoadTab ==
    ASSUME TypeInv, NEW k \in calls, HearLoad(k)
    PROVE  \E tab \in Tab :
               /\ Becomes(k.tab, tab, Others(k))
               /\ tab.sheet = tabs[k.tab].sheet /\ tab.savings = tabs[k.tab].savings
               /\ k.status = "ok" =>
                      /\ tab.users = k.got.users /\ tab.incomes = k.got.incomes
               /\ tab.status = "ready" => k.status = "ok"
<1> DEFINE tab == tabs[k.tab]
           good == [tab EXCEPT !.status = "ready", !.fixed = k.got.fixed,
                               !.users = k.got.users, !.incomes = k.got.incomes]
           bad == [tab EXCEPT !.status = "error"]
<1>1. tab \in Tab
  BY CallParts
<1>2. CASE k.status = "ok"
  <2>1. k.got \in [fixed: {Fixed}, users: SUBSET User, incomes: SUBSET Income]
    BY <1>2, CallParts DEF Brings, HearLoad
  <2>2. /\ good \in Tab /\ good.sheet = tab.sheet /\ good.savings = tab.savings
        /\ good.users = k.got.users /\ good.incomes = k.got.incomes
    BY <1>1, <2>1 DEF Tab, Loading
  <2>3. Becomes(k.tab, good, Others(k))
    BY <1>2 DEF HearLoad
  <2> HIDE DEF good
  <2>4. QED
    BY <1>2, <2>2, <2>3
<1>3. CASE k.status # "ok"
  <2>1. /\ bad \in Tab /\ bad.sheet = tab.sheet /\ bad.savings = tab.savings
        /\ bad.status = "error"
    BY <1>1 DEF Tab, Loading
  <2>2. Becomes(k.tab, bad, Others(k))
    BY <1>3 DEF HearLoad
  <2> HIDE DEF bad
  <2>3. QED
    BY <1>3, <2>1, <2>2
<1>4. QED
  BY <1>2, <1>3

LEMMA HearSavingsTab ==
    ASSUME TypeInv, NEW k \in calls, HearSavings(k)
    PROVE  /\ SamePage(k.tab) /\ tabs'[k.tab].sheet = tabs[k.tab].sheet
           /\ k.status = "ok" =>
                  /\ tabs'[k.tab].savings.status = "ready"
                  /\ tabs'[k.tab].savings.accounts = k.got.accounts
                  /\ tabs'[k.tab].savings.position = k.got.position
                  /\ tabs'[k.tab].savings.box = k.got.box
           /\ k.status # "ok" => tabs'[k.tab].savings.status = "error"
<1> DEFINE good == [status |-> "ready", codes |-> k.body.codes,
                    accounts |-> k.got.accounts, position |-> k.got.position,
                    box |-> k.got.box]
           bad == [NoSavings EXCEPT !.status = "error"]
           savings == IF k.status = "ok" THEN good ELSE bad
           tab == [tabs[k.tab] EXCEPT !.savings = savings]
<1>1. tabs' = [tabs EXCEPT ![k.tab] = tab] /\ k.tab \in Tabs /\ tabs[k.tab] \in Tab
  BY CallParts DEF HearSavings
<1>2. bad.status = "error"
  BY DEF NoSavings
<1>3. /\ good.status = "ready" /\ good.accounts = k.got.accounts
      /\ good.position = k.got.position /\ good.box = k.got.box
  OBVIOUS
<1> HIDE DEF good, bad
<1>4. /\ tab.savings = savings /\ tab.sheet = tabs[k.tab].sheet
      /\ tab.status = tabs[k.tab].status /\ tab.users = tabs[k.tab].users
      /\ tab.incomes = tabs[k.tab].incomes
  BY <1>1 DEF Tab
<1> HIDE DEF tab
<1>5. tabs'[k.tab] = tab
  BY <1>1, TabChange
<1>6. QED
  BY <1>2, <1>3, <1>4, <1>5 DEF SamePage

LEMMA HearReloadTab ==
    ASSUME TypeInv, NEW k \in calls, HearReload(k)
    PROVE  /\ SamePage(k.tab)
           /\ tabs'[k.tab].savings = ReloadedSavings(k)
           /\ tabs'[k.tab].sheet = ReloadedSheet(k)
           /\ ReloadedSavings(k).status = tabs[k.tab].savings.status
           /\ ReloadedSheet(k) \in {NoSheet, tabs[k.tab].sheet}
<1>1. tabs' = [tabs EXCEPT ![k.tab] = Reloaded(k)] /\ k.tab \in Tabs
  BY ReloadTab, CallParts
<1>2. tabs[k.tab] \in Tab /\ tabs[k.tab].savings \in SavingsState
  BY CallParts, TabParts
<1>3. /\ Reloaded(k).status = tabs[k.tab].status
      /\ Reloaded(k).users = tabs[k.tab].users
      /\ Reloaded(k).incomes = tabs[k.tab].incomes
      /\ Reloaded(k).savings = ReloadedSavings(k)
      /\ Reloaded(k).sheet = ReloadedSheet(k)
  BY <1>2 DEF Reloaded, Tab
<1>4. tabs'[k.tab] = Reloaded(k)
  BY <1>1, TabChange
<1>5. ReloadedSavings(k).status = tabs[k.tab].savings.status
  BY <1>2 DEF ReloadedSavings, SavingsState
<1>6. QED
  BY <1>3, <1>4, <1>5 DEF SamePage, ReloadedSheet

LEMMA HearFailureTab ==
    ASSUME TypeInv, NEW k \in calls, HearFailure(k)
    PROVE  /\ SamePage(k.tab) /\ tabs'[k.tab].savings = tabs[k.tab].savings
           /\ tabs'[k.tab].sheet.kind = tabs[k.tab].sheet.kind
           /\ tabs'[k.tab].sheet.account = tabs[k.tab].sheet.account
           /\ tabs'[k.tab].sheet.dirty = tabs[k.tab].sheet.dirty
           /\ tabs[k.tab].sheet.kind \notin SheetsOf(k.kind) =>
                  tabs'[k.tab].sheet = tabs[k.tab].sheet
<1> DEFINE deletes == k.kind \in {"deleteAccount", "deleteCategory"}
           old == tabs[k.tab].sheet
           sheet == IF old.kind \notin SheetsOf(k.kind) THEN old
                    ELSE IF deletes THEN [old EXCEPT !.deleting = FALSE]
                    ELSE [old EXCEPT !.saving = FALSE]
           tab == [tabs[k.tab] EXCEPT !.sheet = sheet]
<1>1. k.tab \in Tabs /\ tabs[k.tab] \in Tab /\ old \in Sheet
  BY CallParts, TabParts
<1>2. tabs' = [tabs EXCEPT ![k.tab] = tab]
  BY <1>1 DEF HearFailure
<1>3. /\ sheet \in Sheet /\ sheet.kind = old.kind /\ sheet.account = old.account
      /\ sheet.dirty = old.dirty /\ (old.kind \notin SheetsOf(k.kind) => sheet = old)
  BY <1>1, SheetEdits
<1> HIDE DEF sheet
<1>4. /\ tab.sheet = sheet /\ tab.savings = tabs[k.tab].savings
      /\ tab.status = tabs[k.tab].status /\ tab.users = tabs[k.tab].users
      /\ tab.incomes = tabs[k.tab].incomes
  BY <1>1, <1>3, TabWithSheet
<1> HIDE DEF tab
<1>5. tabs'[k.tab] = tab
  BY <1>1, <1>2, TabChange
<1>6. QED
  BY <1>3, <1>4, <1>5 DEF SamePage

LEMMA HearListTab ==
    ASSUME TypeInv, NEW k \in calls, HearList(k)
    PROVE  /\ SamePage(k.tab) /\ tabs'[k.tab].savings = tabs[k.tab].savings
           /\ tabs'[k.tab].sheet.kind = tabs[k.tab].sheet.kind
           /\ tabs'[k.tab].sheet.account = tabs[k.tab].sheet.account
           /\ tabs'[k.tab].sheet.dirty =
                  (tabs[k.tab].sheet.dirty \/ k.body.kind # "readCategories")
<1> DEFINE old == tabs[k.tab].sheet
           list == IF k.status = "ok" THEN k.got.users ELSE old.list
           after == [old EXCEPT !.list = list]
           sheet == IF k.body.kind = "save"
                    THEN [after EXCEPT !.dirty = TRUE, !.saving = FALSE]
                    ELSE IF k.body.kind = "delete"
                    THEN [after EXCEPT !.dirty = TRUE, !.deleting = FALSE]
                    ELSE after
           tab == [tabs[k.tab] EXCEPT !.sheet = sheet]
<1>1. k.tab \in Tabs /\ tabs[k.tab] \in Tab /\ old \in Sheet
  BY CallParts, TabParts
<1>2. tabs' = [tabs EXCEPT ![k.tab] = tab]
  BY <1>1 DEF HearList
<1>3. list \in SUBSET User /\ k.body.kind \in {"readCategories", "save", "delete"}
  BY <1>1, CallParts DEF HearList, Brings, Sends, Sheet
<1> HIDE DEF list
<1>4. /\ after \in Sheet /\ after.kind = old.kind /\ after.account = old.account
      /\ after.dirty = old.dirty
  BY <1>1, <1>3, SheetEdits
<1> HIDE DEF after
<1>5. /\ sheet \in Sheet /\ sheet.kind = old.kind /\ sheet.account = old.account
      /\ sheet.dirty = (old.dirty \/ k.body.kind # "readCategories")
  BY <1>1, <1>3, <1>4 DEF Sheet
<1> HIDE DEF sheet
<1>6. /\ tab.sheet = sheet /\ tab.savings = tabs[k.tab].savings
      /\ tab.status = tabs[k.tab].status /\ tab.users = tabs[k.tab].users
      /\ tab.incomes = tabs[k.tab].incomes
  BY <1>1, <1>5, TabWithSheet
<1> HIDE DEF tab
<1>7. tabs'[k.tab] = tab
  BY <1>1, <1>2, TabChange
<1>8. QED
  BY <1>5, <1>6, <1>7 DEF SamePage

LEMMA FinishesTab ==
    ASSUME TypeInv, NEW k \in calls, Finishes(k)
    PROVE  /\ k.heard =>
                  /\ tabs'[k.tab].savings = tabs[k.tab].savings
                  /\ tabs'[k.tab].sheet = NoSheet
                  /\ tabs'[k.tab].status = "loading"
                  /\ calls' = Loads(k.tab, Others(k))
           /\ ~k.heard => UNCHANGED tabs /\ calls' = Others(k)
<1>1. CASE k.heard
  <2> DEFINE tab == [tabs[k.tab] EXCEPT !.sheet = NoSheet, !.status = "loading"]
  <2>1. /\ tabs' = [tabs EXCEPT ![k.tab] = tab] /\ k.tab \in Tabs
        /\ tabs[k.tab] \in Tab
    BY <1>1, CallParts DEF Finishes
  <2>2. /\ tab.savings = tabs[k.tab].savings /\ tab.sheet = NoSheet
        /\ tab.status = "loading"
    BY <2>1 DEF Tab
  <2> HIDE DEF tab
  <2>3. QED
    BY <1>1, <2>1, <2>2, TabChange DEF Finishes
<1>2. CASE ~k.heard
  BY <1>2 DEF Finishes
<1>3. QED
  BY <1>1, <1>2

LEMMA HearOpened ==
    ASSUME TypeInv, NEW k \in calls, Opened(k.tab), Hear(k)
    PROVE  Opened(k.tab)'
<1> DEFINE t == k.tab
<1>0. /\ t \in Tabs /\ tabs[t] \in Tab /\ k \in CallsOf(t)
      /\ \A x \in calls : x = Silenced(x, {})
      /\ tabs[t].sheet.kind \in SavingsSheets => Ready(t)
  BY CallParts, NobodySilenced DEF CallsOf, Opened, Ready
<1>1. CASE HearLoad(k)
  <2>1. PICK tab \in Tab : /\ Becomes(t, tab, Others(k))
                           /\ tab.sheet = tabs[t].sheet
                           /\ tab.savings = tabs[t].savings
    BY <1>1, HearLoadTab
  <2>2. QED
    BY <1>0, <2>1, BecomesOpened DEF Others
<1>2. CASE HearSavings(k)
  <2>1. tabs[t].savings.status = "loading" /\ k.kind = "loadSavings"
    BY <1>0, <1>2 DEF HearSavings, Opened
  <2>2. /\ tabs[t].sheet.kind \notin SavingsSheets
        /\ \A c \in CallsOf(t) :
               /\ c.kind \in SavingsWrites => ~c.heard
               /\ c.kind \notin Reloads
               /\ c.kind = "loadSavings" => c = k
    BY <1>0, <2>1 DEF Opened
  <2>3. CallsOf(t)' = CallsOf(t) \ {k} /\ tabs'[t].sheet = tabs[t].sheet
    BY <1>2, HearSavingsTab DEF HearSavings, CallsOf, Others
  <2>4. QED
    BY <2>2, <2>3 DEF Opened
<1>3. ASSUME tabs'[t].savings.status = tabs[t].savings.status,
             tabs'[t].sheet.kind \in {tabs[t].sheet.kind, "none"},
             \A c \in calls' :
                 \/ c \in Others(k)
                 \/ c.kind \notin SavingsKinds
                 \/ Ready(t) /\ c.kind # "loadSavings"
      PROVE  Opened(t)'
  <2>1. tabs'[t].sheet.kind \in SavingsSheets => Ready(t)
    BY <1>0, <1>3, ReadKinds
  <2>2. \A c \in calls' : c.tab = t =>
            \/ \E x \in calls : c = Silenced(x, {})
            \/ c.kind \notin SavingsKinds
            \/ Ready(t) /\ c.kind # "loadSavings"
    BY <1>0, <1>3 DEF Others
  <2>3. QED
    BY <1>0, <1>3, <2>1, <2>2, OpenedSame
<1>4. CASE HearSheetWrite(k)
  <2>1. UNCHANGED tabs /\ Ready(t)
    BY <1>0, <1>4 DEF HearSheetWrite, Succeeded, Opened, Ready, SavingsWrites,
       AccountWrites, BoxWrites
  <2> DEFINE body == [closes |-> SheetsOf(k.kind)]
             c == With(New(t, ReloadOf(k.kind)), 0, body)
  <2>2. calls' = Others(k) \cup {c}
    BY <1>4 DEF HearSheetWrite
  <2>3. c.kind \in Reloads
    BY DEF With, New, ReloadOf, Reloads
  <2> HIDE DEF c
  <2>4. QED
    BY <1>3, <2>1, <2>2, <2>3 DEF Reloads
<1>5. CASE HearReload(k)
  <2>1. calls' = Others(k)
    BY <1>5 DEF HearReload
  <2>2. QED
    BY <1>3, <1>5, <2>1, HearReloadTab, SheetTypes
<1>6. CASE HearFailure(k)
  <2> DEFINE deaf == {other \in calls : other.tab = k.tab /\ k.kind = "deleteIncome"
                                            /\ other.kind = "deleteIncome"}
  <2>1. \A c \in calls' : \E x \in calls : c = Silenced(x, deaf)
    BY <1>6 DEF HearFailure, Others, Silenced
  <2>2. /\ tabs'[t].savings.status = tabs[t].savings.status
        /\ tabs'[t].sheet.kind = tabs[t].sheet.kind
    BY <1>6, HearFailureTab
  <2> HIDE DEF deaf
  <2>3. QED
    BY <1>0, <2>1, <2>2, OpenedSame
<1>7. CASE EndUnheard(k)
  BY <1>3, <1>7 DEF EndUnheard
<1>8. CASE HearList(k)
  BY <1>3, <1>8, HearListTab DEF HearList
<1>9. CASE Finishes(k)
  <2>1. tabs'[t].savings = tabs[t].savings /\ tabs'[t].sheet.kind \in {tabs[t].sheet.kind, "none"}
    BY <1>9, FinishesTab, SheetTypes
  <2>2. New(t, "load").kind = "load"
    BY DEF New
  <2>3. \A c \in calls' : c \in Others(k) \/ c.kind = "load"
    BY <1>9, <2>2 DEF Finishes, Loads
  <2>4. QED
    BY <1>3, <2>1, <2>3, ReadKinds
<1>10. CASE HearRows(k)
  <2>1. UNCHANGED tabs
    BY <1>10 DEF HearRows, Follows
  <2>2. \A c \in calls' : c \in Others(k) \/ c.kind \in BudgetWrites
    BY <1>10, RowsSends DEF BudgetWrites
  <2>3. QED
    BY <1>3, <2>1, <2>2, ReadKinds
<1>11. CASE HearIncome(k) /\ ~Finishes(k)
  <2>1. UNCHANGED tabs
    BY <1>11 DEF HearIncome, Follows
  <2>2. \A c \in calls' : c \in Others(k) \/ c.kind \in BudgetWrites
    BY <1>11, IncomeSends DEF BudgetWrites
  <2>3. QED
    BY <1>3, <2>1, <2>2, ReadKinds
<1>12. CASE HearSurplus(k) /\ ~Finishes(k)
  BY <1>3, <1>12 DEF HearSurplus, Follows
<1>13. CASE HearCategory(k)
  <2> DEFINE body == [kind |-> IF k.kind = "deleteCategory" THEN "delete" ELSE "save"]
             c == With(New(t, "readCategories"), 0, body)
  <2>1. calls' = Others(k) \cup {c} /\ UNCHANGED tabs
    BY <1>13 DEF HearCategory
  <2>2. c.kind = "readCategories"
    BY DEF With, New
  <2> HIDE DEF c
  <2>3. QED
    BY <1>3, <2>1, <2>2, ReadKinds
<1>14. QED
  BY <1>1, <1>2, <1>4, <1>5, <1>6, <1>7, <1>8, <1>9, <1>10, <1>11, <1>12, <1>13
     DEF Hear, HearIncome, HearSurplus

LEMMA AnsweredOpened ==
    ASSUME NEW t, Opened(t), UNCHANGED tabs, NEW k \in calls, NEW c,
           calls' = (calls \ {k}) \cup {c},
           c.tab = k.tab, c.kind = k.kind, c.heard = k.heard
    PROVE  Opened(t)'
<1>1. \A x \in CallsOf(t)' :
          \/ x \in CallsOf(t) /\ x # k
          \/ x = c /\ k \in CallsOf(t)
  BY DEF CallsOf
<1>2. QED
  BY <1>1 DEF Opened

LEMMA TabStep ==
    ASSUME TypeInv, TabInv, \A k \in calls : CallKnows(k), [Next]_vars
    PROVE  TabInv'
<1>1. SUFFICES ASSUME NEW t \in Tabs
               PROVE  Opened(t)'
  BY DEF TabInv
<1>2. Opened(t)
  BY DEF TabInv
<1>3. ASSUME NEW u \in Tabs, Navigate(u) \/ Edit(u)
      PROVE  Opened(t)'
  <2>1. CASE t = u
    BY <1>2, <1>3, <2>1, NavigateOpened, EditOpened
  <2>2. CASE t # u
    <3>1. tabs'[t] = tabs[t] /\ CallsOf(t)' = CallsOf(t)
      BY <1>3, <2>2, NavigateMoves, EditMoves DEF Moves
    <3>2. QED
      BY <1>2, <3>1, OpenedFrame
  <2>3. QED
    BY <2>1, <2>2
<1>4. ASSUME NEW k \in calls, Hear(k)
      PROVE  Opened(t)'
  <2>1. CASE t = k.tab
    BY <1>2, <1>4, <2>1, HearOpened
  <2>2. CASE t # k.tab
    <3>1. tabs'[t] = tabs[t] /\ CallsOf(t)' = CallsOf(t)
      BY <1>4, <2>2, HearMoves DEF Moves
    <3>2. QED
      BY <1>2, <3>1, OpenedFrame
  <2>3. QED
    BY <2>1, <2>2
<1>5. ASSUME NEW k \in calls, NEW status \in Statuses, NEW got,
             Answered(k, status, got), UNCHANGED tabs
      PROVE  Opened(t)'
  <2> DEFINE c == Reply(k, status, got)
  <2>1. /\ calls' = (calls \ {k}) \cup {c}
        /\ c.tab = k.tab /\ c.kind = k.kind /\ c.heard = k.heard
    BY <1>5, AnsweredKept
  <2> HIDE DEF c
  <2>2. QED
    BY <1>2, <1>5, <2>1, AnsweredOpened
<1>6. ASSUME NEW k \in calls, Serve(k)
      PROVE  Opened(t)'
  <2>1. PICK status, got :
            /\ status \in {"ok", "refused", "checked"}
            /\ Answered(k, status, got) /\ UNCHANGED tabs
    BY <1>6, ServeTyped DEF Served
  <2>2. QED
    BY <1>5, <2>1 DEF Statuses
<1>7. ASSUME NEW k \in calls, Fail(k) \/ LoseAnswer(k)
      PROVE  Opened(t)'
  BY <1>5, <1>7 DEF Fail, LoseAnswer, Statuses
<1>8. CASE UNCHANGED vars
  BY <1>2, <1>8 DEF vars, Opened, CallsOf
<1>9. QED
  BY <1>3, <1>4, <1>6, <1>7, <1>8 DEF Next

LEMMA InitTab == Init => TabInv
<1>1. SUFFICES ASSUME Init, NEW t \in Tabs
               PROVE  Opened(t)
  BY DEF TabInv
<1>2. tabs[t] = Mounted /\ \A k \in CallsOf(t) : k.kind = "load"
  BY <1>1 DEF Init, CallsOf, New
<1>3. QED
  BY <1>2, NewTab, ReadKinds DEF Opened, SavingsKinds

-----------------------------------------------------------------------------
(* The sheets and the calls that come from them.                           *)

Calm(k) ==
    /\ ~Stepping(k) /\ k.kind # "readCategories"
    /\ k.heard => k.kind \notin CategoryWrites

LEMMA CalmFits ==
    ASSUME NEW k, NEW sheet, Fits(k, sheet), NEW new
    PROVE  /\ Calm(k) => Fits(k, new)
           /\ sheet.kind \notin {"budget", "category"} => Calm(k)
           /\ sheet.kind = "budget" /\ (~sheet.saving \/ ~Stepping(k)) => Calm(k)
           /\ /\ new.kind = sheet.kind
              /\ sheet.kind = "budget" /\ sheet.saving => new.saving
              => Fits(k, new)
BY DEF Fits, Calm

LEMMA FreshFits ==
    ASSUME NEW c, NEW t, NEW kind, Fresh(c, t, kind), NEW sheet
    PROVE  /\ kind \in {"load", "loadSavings"} => Fits(c, sheet) /\ ~Stepping(c)
           /\ kind = "readCategories" /\ sheet.kind = "category" =>
                  Fits(c, sheet) /\ ~Stepping(c)
           /\ kind \in Reloads /\ c.body.closes \subseteq SavingsSheets =>
                  Fits(c, sheet) /\ ~Stepping(c)
BY DEF Fresh, Fits, Stepping, BudgetCalls, BudgetWrites, CategoryWrites, Reloads

LEMMA LikeFits ==
    ASSUME NEW c, NEW k, Like(c, k), NEW sheet, Fits(k, sheet),
           c.kind \in PageReads => c.heard
    PROVE  Fits(c, sheet)
BY DEF Like, Fits, Stepping

LEMMA ModalFrame ==
    ASSUME NEW t, Modal(t), tabs'[t].sheet = tabs[t].sheet, CallsOf(t)' = CallsOf(t)
    PROVE  Modal(t)'
BY DEF Modal

(* No new step is taken.                                                   *)
LEMMA ModalCalls ==
    ASSUME NEW t, Modal(t),
           \A c \in CallsOf(t)' :
               Fits(c, tabs'[t].sheet) /\ (c \in CallsOf(t) \/ ~Stepping(c))
    PROVE  Modal(t)'
BY DEF Modal

(* Others go on, below the same sheet.                                     *)
LEMMA ModalSame ==
    ASSUME NEW t, Modal(t), tabs'[t].sheet.kind = tabs[t].sheet.kind,
           tabs[t].sheet.kind = "budget" =>
               tabs'[t].sheet.saving = tabs[t].sheet.saving,
           \A c \in CallsOf(t)' :
               \/ c \in CallsOf(t)
               \/ Fits(c, tabs'[t].sheet) /\ ~Stepping(c)
    PROVE  Modal(t)'
<1>1. \A c \in CallsOf(t) : Fits(c, tabs'[t].sheet)
  BY CalmFits DEF Modal
<1>2. QED
  BY <1>1, ModalCalls

LEMMA NavigateModal ==
    ASSUME TypeInv, NEW t \in Tabs, Modal(t), Navigate(t)
    PROVE  Modal(t)'
<1>0. Navigated(t)
  BY NavigateParts
<1>1. CASE Entered(t)
  <2>1. ASSUME NEW c \in CallsOf(t)'
        PROVE  Fits(c, tabs'[t].sheet) /\ ~Stepping(c)
    <3>1. CASE Fresh(c, t, "load")
      BY <3>1, FreshFits
    <3>2. CASE ~c.heard /\ c.kind \notin PageReads
      BY <3>2 DEF Fits, Stepping, PageReads, Reads, Reloads
    <3>3. QED
      BY <1>1, <3>1, <3>2 DEF Entered
  <2>2. QED
    BY <2>1, ModalCalls
<1>2. CASE Switched(t)
  <2>1. \A c \in CallsOf(t)' : c \in CallsOf(t) \/ Fresh(c, t, "loadSavings")
    BY <1>2 DEF Switched, CallsOf
  <2>2. QED
    BY <1>2, <2>1, FreshFits, ModalSame DEF Switched
<1>3. CASE OpenedSheet(t)
  <2>1. \A c \in CallsOf(t) : Calm(c)
    BY <1>3, CalmFits, SheetTypes DEF Modal, OpenedSheet
  <2>2. \A c \in CallsOf(t)' :
            \/ c \in CallsOf(t)
            \/ Fresh(c, t, "readCategories") /\ tabs'[t].sheet.kind = "category"
    BY <1>3 DEF OpenedSheet, CallsOf
  <2>3. QED
    BY <2>1, <2>2, FreshFits, CalmFits, ModalCalls DEF Modal
<1>4. CASE ClosedSheet(t)
  <2>1. \A c \in CallsOf(t) : Calm(c)
    BY <1>4, CalmFits DEF Modal, ClosedSheet
  <2>2. CallsOf(t)' = CallsOf(t)
    BY <1>4 DEF ClosedSheet, CallsOf
  <2>3. QED
    BY <2>1, <2>2, CalmFits, ModalCalls DEF Modal
<1>5. ASSUME NEW deaf, ClosedManager(t, deaf)
      PROVE  Modal(t)'
  <2>1. ASSUME NEW c \in CallsOf(t)'
        PROVE  Fits(c, tabs'[t].sheet) /\ ~Stepping(c)
    <3>1. CASE Fresh(c, t, "load")
      BY <3>1, FreshFits
    <3>2. CASE ~Fresh(c, t, "load")
      <4>1. PICK k \in CallsOf(t) :
                /\ c = Silenced(k, deaf) /\ k.kind # "readCategories"
                /\ c.heard => c.kind \notin CategoryWrites
        BY <1>5, <3>2 DEF ClosedManager
      <4>2. Like(c, k) /\ c.heard = (k.heard /\ k \notin deaf)
        BY <4>1, SilencedLike DEF CallsOf
      <4>3. Fits(k, tabs[t].sheet) /\ tabs[t].sheet.kind = "category"
        BY <1>5 DEF Modal, ClosedManager
      <4>4. c.kind \in PageReads => c.heard
        BY <1>5, <4>2, <4>3 DEF Fits, Like, ClosedManager, PageReads, Reads, CategoryWrites
      <4>5. Fits(c, tabs[t].sheet)
        BY <4>2, <4>3, <4>4, LikeFits
      <4>6. Calm(c)
        BY <4>1, <4>2, <4>3, <4>5 DEF Calm, Fits, Like
      <4>7. QED
        BY <4>5, <4>6, CalmFits DEF Calm
    <3>3. QED
      BY <3>1, <3>2
  <2>2. QED
    BY <2>1, ModalCalls
<1>6. QED
  BY <1>0, <1>1, <1>2, <1>3, <1>4, <1>5 DEF Navigated

LEMMA EditModal ==
    ASSUME TypeInv, NEW t \in Tabs, Modal(t), Edit(t)
    PROVE  Modal(t)'
<1>1. PICK kind, id, body, sheet : EditedAs(t, kind, id, body, sheet)
  BY EditSends DEF Edited
<1>2. /\ tabs'[t].sheet.kind = tabs[t].sheet.kind
      /\ tabs[t].sheet.saving \/ kind = "readIncomes" => tabs'[t].sheet.saving
  BY <1>1, EditedTab
<1> DEFINE c == With(New(t, kind), id, body)
<1>3. calls' = calls \cup {c} /\ Fresh(c, t, kind)
  BY <1>1, NewSent, SavesKept DEF EditedAs
<1> HIDE DEF c
<1>4. CallsOf(t)' = CallsOf(t) \cup {c}
  BY <1>3 DEF CallsOf, Fresh
<1>5. \A k \in CallsOf(t) : Fits(k, tabs'[t].sheet)
  BY <1>2, CalmFits DEF Modal
<1>6. kind \in Edits
  BY <1>1 DEF EditedAs
<1>7. /\ kind = "readIncomes" => tabs[t].sheet.kind = "budget" /\ ~tabs[t].sheet.saving
      /\ kind \in CategoryWrites => tabs[t].sheet.kind = "category"
  BY <1>1 DEF EditedAs, In
<1>8. Fits(c, tabs'[t].sheet)
  BY <1>2, <1>3, <1>6, <1>7 DEF Fits, Fresh, Stepping, BudgetCalls, BudgetWrites, Edits,
     CategoryWrites, Reloads, PageReads, Reads, BoxWrites, AccountWrites
<1>9. Stepping(c) => \A k \in CallsOf(t) : ~Stepping(k)
  BY <1>3, <1>6, <1>7 DEF Modal, Fits, Fresh, Stepping, BudgetCalls, BudgetWrites, Edits,
     CategoryWrites, BoxWrites, AccountWrites
<1>10. QED
  BY <1>4, <1>5, <1>8, <1>9 DEF Modal

LEMMA AnsweredModal ==
    ASSUME NEW t, Modal(t), UNCHANGED tabs, NEW k \in calls, NEW c,
           calls' = (calls \ {k}) \cup {c},
           c.tab = k.tab, c.kind = k.kind, c.heard = k.heard, c.body = k.body
    PROVE  Modal(t)'
<1>1. \A x \in CallsOf(t)' :
          \/ x \in CallsOf(t) /\ x # k
          \/ x = c /\ k \in CallsOf(t)
  BY DEF CallsOf
<1>2. (Stepping(c) <=> Stepping(k)) /\ \A sheet : Fits(k, sheet) => Fits(c, sheet)
  BY DEF Fits, Stepping
<1>3. QED
  BY <1>1, <1>2 DEF Modal

(* The last step has been heard of: nothing of the budget goes on.         *)
LEMMA LastStep ==
    ASSUME NEW t, Modal(t), NEW k \in CallsOf(t), Stepping(k),
           \/ k.kind # "deleteIncome"
           \/ \A other \in CallsOf(t) \ {k} :
                  other.kind = "deleteIncome" => ~other.heard
    PROVE  /\ tabs[t].sheet.kind = "budget"
           /\ \A c \in CallsOf(t) \ {k} : Calm(c)
<1>1. tabs[t].sheet.kind = "budget"
  BY DEF Modal, Fits
<1>2. \A c \in CallsOf(t) \ {k} : ~Stepping(c)
  BY DEF Modal, Stepping
<1>3. QED
  BY <1>1, <1>2, CalmFits DEF Modal

LEMMA FinishesModal ==
    ASSUME TypeInv, NEW k \in calls, Modal(k.tab), Finishes(k),
           HearIncome(k) \/ HearSurplus(k)
    PROVE  Modal(k.tab)'
<1> DEFINE t == k.tab
<1>1. CASE ~k.heard
  <2>1. UNCHANGED tabs /\ calls' = Others(k)
    BY <1>1, FinishesTab
  <2>2. CallsOf(t)' \subseteq CallsOf(t)
    BY <2>1 DEF CallsOf, Others
  <2>3. QED
    BY <2>1, <2>2, ModalSame
<1>2. CASE k.heard
  <2>1. calls' = Loads(t, Others(k))
    BY <1>2, FinishesTab
  <2>2. k \in CallsOf(t) /\ Stepping(k)
    BY <1>2 DEF CallsOf, Stepping, BudgetCalls, BudgetWrites, HearIncome, HearSurplus
  <2>3. \/ k.kind # "deleteIncome"
        \/ \A other \in CallsOf(t) \ {k} :
               other.kind = "deleteIncome" => ~other.heard
    <3>1. CASE HearIncome(k)
      BY <3>1 DEF HearIncome
    <3>2. CASE HearSurplus(k)
      <4>1. CASE \E other \in Others(k) :
                     other.tab = k.tab /\ other.kind = "deleteIncome" /\ other.heard
        <5>1. Follows(k, {})
          BY <3>2, <4>1 DEF HearSurplus
        <5>2. calls' = Others(k)
          BY <5>1 DEF Follows
        <5>3. UNCHANGED tabs /\ tabs'[t].status = "loading" /\ tabs'[t].sheet = NoSheet
          BY <1>2, <5>1, FinishesTab DEF Follows
        <5>4. tabs[t].sheet.kind = "budget"
          BY <2>2 DEF Modal, Fits
        <5>5. QED
          BY <5>3, <5>4, SheetTypes
      <4>2. CASE ~\E other \in Others(k) :
                     other.tab = k.tab /\ other.kind = "deleteIncome" /\ other.heard
        BY <4>2 DEF CallsOf, Others
      <4>3. QED
        BY <4>1, <4>2
    <3>3. QED
      BY <3>1, <3>2
  <2>4. \A c \in CallsOf(t) \ {k} : Calm(c)
    BY <2>2, <2>3, LastStep
  <2>5. \A c \in CallsOf(t)' : Fresh(c, t, "load") \/ c \in CallsOf(t) \ {k}
    BY <2>1, NewSent DEF Loads, CallsOf, Others
  <2>6. QED
    BY <2>4, <2>5, FreshFits, CalmFits, ModalCalls DEF Modal, Calm
<1>3. QED
  BY <1>1, <1>2

LEMMA HearModal ==
    ASSUME TypeInv, NEW k \in calls, Modal(k.tab), Hear(k)
    PROVE  Modal(k.tab)'
<1> DEFINE t == k.tab
<1>0. t \in Tabs /\ k \in CallsOf(t) /\ Fits(k, tabs[t].sheet)
  BY CallParts DEF CallsOf, Modal
<1>1. ASSUME tabs'[t].sheet = tabs[t].sheet,
             \A c \in calls' :
                 c \in Others(k) \/ (Fits(c, tabs[t].sheet) /\ ~Stepping(c))
      PROVE  Modal(t)'
  <2>1. \A c \in CallsOf(t)' :
            c \in CallsOf(t) \/ (Fits(c, tabs[t].sheet) /\ ~Stepping(c))
    BY <1>1 DEF CallsOf, Others
  <2>2. QED
    BY <1>1, <2>1, ModalSame
<1>2. CASE HearLoad(k)
  <2>1. PICK tab \in Tab : /\ Becomes(t, tab, Others(k))
                           /\ tab.sheet = tabs[t].sheet
    BY <1>2, HearLoadTab
  <2>2. /\ tabs'[t].sheet = tabs[t].sheet
        /\ \A c \in calls' : c \in Others(k) \/ Fresh(c, t, "loadSavings")
    BY <1>0, <2>1, BecomesShown DEF Turns
  <2>3. QED
    BY <1>1, <2>2, FreshFits
<1>3. CASE HearSavings(k)
  BY <1>1, <1>3, HearSavingsTab DEF HearSavings
<1>4. CASE HearSheetWrite(k)
  <2> DEFINE body == [closes |-> SheetsOf(k.kind)]
             c == With(New(t, ReloadOf(k.kind)), 0, body)
  <2>1. calls' = Others(k) \cup {c} /\ UNCHANGED tabs
    BY <1>4 DEF HearSheetWrite
  <2>2. ReloadOf(k.kind) \in Reloads
    BY DEF ReloadOf, Reloads
  <2>3. Fresh(c, t, ReloadOf(k.kind)) /\ c.body = body
    BY NewSent DEF With, New
  <2>4. body.closes \subseteq SavingsSheets
    BY <1>4 DEF HearSheetWrite, Succeeded, SheetsOf, SavingsSheets, CategoryWrites
  <2> HIDE DEF c, body
  <2>5. QED
    BY <1>1, <2>1, <2>2, <2>3, <2>4, FreshFits
<1>5. CASE HearReload(k)
  <2>1. /\ calls' = Others(k) /\ tabs'[t].sheet = ReloadedSheet(k)
        /\ k.kind \in Reloads
    BY <1>5, HearReloadTab DEF HearReload, Reloads
  <2>2. CASE tabs[t].sheet.kind \notin k.body.closes
    BY <1>1, <2>1, <2>2 DEF ReloadedSheet
  <2>3. CASE tabs[t].sheet.kind \in k.body.closes
    <3>1. tabs[t].sheet.kind \notin {"budget", "category"}
      BY <1>0, <2>1, <2>3, ReadKinds DEF Fits
    <3>2. \A c \in CallsOf(t) : Calm(c)
      BY <3>1, CalmFits DEF Modal
    <3>3. CallsOf(t)' \subseteq CallsOf(t)
      BY <2>1 DEF CallsOf, Others
    <3>4. QED
      BY <3>2, <3>3, CalmFits, ModalCalls DEF Modal
  <2>4. QED
    BY <2>2, <2>3
<1>6. CASE HearFailure(k)
  <2>0. /\ tabs'[t].sheet.kind = tabs[t].sheet.kind
        /\ tabs[t].sheet.kind \notin SheetsOf(k.kind) =>
               tabs'[t].sheet = tabs[t].sheet
        /\ k.heard /\ k.kind \in Writes \cup {"readIncomes"}
    BY <1>6, HearFailureTab DEF HearFailure, Done
  <2>1. CASE k.kind \notin BudgetCalls
    <3>1. "budget" \notin SheetsOf(k.kind) /\ k.kind # "deleteIncome"
      BY <2>0, <2>1 DEF SheetsOf, BudgetCalls, BudgetWrites, Writes, CategoryWrites
    <3>2. calls' = {[other EXCEPT !.heard = @ /\ ~(other.tab = k.tab /\ FALSE)] :
                        other \in Others(k)}
      BY <1>6, <3>1 DEF HearFailure
    <3>3. \A other \in Others(k) : other = Silenced(other, {})
      BY NobodySilenced DEF Others
    <3>4. CallsOf(t)' \subseteq CallsOf(t)
      BY <3>2, <3>3 DEF Silenced, CallsOf, Others
    <3>5. QED
      BY <2>0, <3>1, <3>4, ModalSame
  <2>2. CASE k.kind \in BudgetCalls
    <3>1. Stepping(k) /\ tabs[t].sheet.kind = "budget"
      BY <1>0, <2>0, <2>2 DEF Stepping, Fits
    <3> DEFINE deaf == {other \in calls : other.tab = k.tab /\ k.kind = "deleteIncome"
                                              /\ other.kind = "deleteIncome"}
    <3>2. calls' = {Silenced(x, deaf) : x \in Others(k)}
      BY <1>6 DEF HearFailure, Others, Silenced
    <3>3. ASSUME NEW c \in CallsOf(t)'
          PROVE  Fits(c, tabs'[t].sheet) /\ ~Stepping(c)
      <4>0. \A x \in deaf : x.kind = "deleteIncome" /\ k.kind = "deleteIncome"
        OBVIOUS
      <4>1. \A x \in CallsOf(t) : k.kind = "deleteIncome" /\ x.kind = "deleteIncome" =>
                                      x \in deaf
        BY DEF CallsOf
      <4> HIDE DEF deaf
      <4>2. PICK x \in Others(k) : c = Silenced(x, deaf)
        BY <3>2, <3>3 DEF CallsOf
      <4>3. x \in calls /\ x # k
        BY <4>2 DEF Others
      <4>4. Like(c, x) /\ c.heard = (x.heard /\ x \notin deaf)
        BY <4>2, <4>3, SilencedLike
      <4>5. x \in CallsOf(t)
        BY <3>3, <4>3, <4>4 DEF CallsOf, Like
      <4>6. ~Stepping(c)
        <5>1. Stepping(c) => Stepping(x) /\ x \notin deaf
          BY <4>4 DEF Stepping, Like
        <5>2. Stepping(x) => x.kind = "deleteIncome" /\ k.kind = "deleteIncome"
          BY <1>0, <3>1, <4>3, <4>5 DEF Modal
        <5>3. QED
          BY <4>1, <4>5, <5>1, <5>2
      <4>7. c.kind \in PageReads => c.heard
        BY <4>0, <4>4, <4>5 DEF Modal, Fits, Like, PageReads, Reads
      <4>8. Fits(c, tabs[t].sheet)
        BY <4>4, <4>5, <4>7, LikeFits DEF Modal
      <4>9. Calm(c)
        BY <3>1, <4>6, <4>8, CalmFits
      <4>10. QED
        BY <4>6, <4>8, <4>9, CalmFits
    <3>4. QED
      BY <3>3, ModalCalls
  <2>3. QED
    BY <2>1, <2>2
<1>7. CASE EndUnheard(k)
  BY <1>1, <1>7 DEF EndUnheard
<1>8. CASE HearList(k)
  <2>1. tabs[t].sheet.kind = "category"
    BY <1>0, <1>8 DEF HearList, Fits
  <2>2. tabs'[t].sheet.kind = tabs[t].sheet.kind /\ calls' = Others(k)
    BY <1>8, HearListTab DEF HearList
  <2>3. CallsOf(t)' \subseteq CallsOf(t)
    BY <2>2 DEF CallsOf, Others
  <2>4. QED
    BY <2>1, <2>2, <2>3, ModalSame
<1>9. CASE Finishes(k) /\ (HearIncome(k) \/ HearSurplus(k))
  BY <1>9, FinishesModal
<1>10. CASE HearRows(k)
  <2>1. UNCHANGED tabs /\ k.kind = "readIncomes"
    BY <1>10 DEF HearRows, Follows
  <2>2. PICK c : /\ calls' = Others(k) \cup {c}
                 /\ c.tab = k.tab /\ c.heard = k.heard
                 /\ c.kind \in {"createIncome", "updateIncome"}
    BY <1>10, RowsSends
  <2>3. CallsOf(t)' = (CallsOf(t) \ {k}) \cup {c}
    BY <2>2 DEF CallsOf, Others
  <2>4. /\ Stepping(c) <=> Stepping(k)
        /\ c.kind \notin CategoryWrites \cup Reloads \cup PageReads
        /\ c.kind # "readCategories"
    BY <2>1, <2>2 DEF Stepping, BudgetCalls, BudgetWrites, CategoryWrites, Reloads,
                      PageReads, Reads
  <2>5. Fits(c, tabs[t].sheet)
    BY <1>0, <2>4 DEF Fits
  <2>6. Stepping(c) => \A x \in CallsOf(t) \ {k} : ~Stepping(x)
    BY <1>0, <2>1, <2>4 DEF Modal
  <2>7. QED
    BY <2>1, <2>3, <2>5, <2>6 DEF Modal
<1>11. CASE HearIncome(k) /\ ~Finishes(k)
  <2>1. UNCHANGED tabs /\ k.kind = "updateIncome"
    BY <1>11, IncomeSends DEF HearIncome, Follows
  <2>2. \A c \in CallsOf(t)' :
            \/ c \in CallsOf(t) \ {k}
            \/ c.heard = k.heard /\ c.kind = "deleteIncome"
    BY <1>11, IncomeSends DEF CallsOf, Others
  <2>3. \A c \in CallsOf(t)' : Fits(c, tabs[t].sheet)
    BY <1>0, <2>1, <2>2 DEF Modal, Fits, Stepping, BudgetCalls, BudgetWrites,
       CategoryWrites, Reloads, PageReads, Reads
  <2>4. \A c \in CallsOf(t)' : Stepping(c) => c.kind = "deleteIncome" \/ ~Stepping(k)
    BY <1>0, <2>1, <2>2 DEF Modal
  <2>5. ~Stepping(k) => \A c \in CallsOf(t)' : Stepping(c) => c \in CallsOf(t)
    BY <2>1, <2>2 DEF Stepping, BudgetCalls, BudgetWrites
  <2>6. QED
    BY <2>1, <2>3, <2>4, <2>5 DEF Modal
<1>12. CASE HearSurplus(k) /\ ~Finishes(k)
  BY <1>1, <1>12 DEF HearSurplus, Follows
<1>13. CASE HearCategory(k)
  <2> DEFINE body == [kind |-> IF k.kind = "deleteCategory" THEN "delete" ELSE "save"]
             c == With(New(t, "readCategories"), 0, body)
  <2>1. calls' = Others(k) \cup {c} /\ UNCHANGED tabs
    BY <1>13 DEF HearCategory
  <2>2. Fresh(c, t, "readCategories")
    BY NewSent
  <2> HIDE DEF c
  <2>3. tabs[t].sheet.kind = "category"
    BY <1>0, <1>13 DEF HearCategory, Succeeded, Fits
  <2>4. QED
    BY <1>1, <2>1, <2>2, <2>3, FreshFits
<1>14. QED
  BY <1>2, <1>3, <1>4, <1>5, <1>6, <1>7, <1>8, <1>9, <1>10, <1>11, <1>12, <1>13
     DEF Hear

LEMMA SheetStep ==
    ASSUME TypeInv, SheetInv, \A k \in calls : CallKnows(k), [Next]_vars
    PROVE  SheetInv'
<1>1. SUFFICES ASSUME NEW t \in Tabs
               PROVE  Modal(t)'
  BY DEF SheetInv
<1>2. Modal(t)
  BY DEF SheetInv
<1>3. ASSUME NEW u \in Tabs, Navigate(u) \/ Edit(u)
      PROVE  Modal(t)'
  <2>1. CASE t = u
    BY <1>2, <1>3, <2>1, NavigateModal, EditModal
  <2>2. CASE t # u
    <3>1. tabs'[t] = tabs[t] /\ CallsOf(t)' = CallsOf(t)
      BY <1>3, <2>2, NavigateMoves, EditMoves DEF Moves
    <3>2. QED
      BY <1>2, <3>1, ModalFrame
  <2>3. QED
    BY <2>1, <2>2
<1>4. ASSUME NEW k \in calls, Hear(k)
      PROVE  Modal(t)'
  <2>1. CASE t = k.tab
    BY <1>2, <1>4, <2>1, HearModal
  <2>2. CASE t # k.tab
    <3>1. tabs'[t] = tabs[t] /\ CallsOf(t)' = CallsOf(t)
      BY <1>4, <2>2, HearMoves DEF Moves
    <3>2. QED
      BY <1>2, <3>1, ModalFrame
  <2>3. QED
    BY <2>1, <2>2
<1>5. ASSUME NEW k \in calls, NEW status \in Statuses, NEW got,
             Answered(k, status, got), UNCHANGED tabs
      PROVE  Modal(t)'
  <2> DEFINE c == Reply(k, status, got)
  <2>1. /\ calls' = (calls \ {k}) \cup {c}
        /\ c.tab = k.tab /\ c.kind = k.kind /\ c.heard = k.heard /\ c.body = k.body
    BY <1>5, AnsweredKept
  <2> HIDE DEF c
  <2>2. QED
    BY <1>2, <1>5, <2>1, AnsweredModal
<1>6. ASSUME NEW k \in calls, Serve(k)
      PROVE  Modal(t)'
  <2>1. PICK status, got :
            /\ status \in {"ok", "refused", "checked"}
            /\ Answered(k, status, got) /\ UNCHANGED tabs
    BY <1>6, ServeTyped DEF Served
  <2>2. QED
    BY <1>5, <2>1 DEF Statuses
<1>7. ASSUME NEW k \in calls, Fail(k) \/ LoseAnswer(k)
      PROVE  Modal(t)'
  BY <1>5, <1>7 DEF Fail, LoseAnswer, Statuses
<1>8. CASE UNCHANGED vars
  BY <1>2, <1>8 DEF vars, Modal, CallsOf
<1>9. QED
  BY <1>3, <1>4, <1>6, <1>7, <1>8 DEF Next

LEMMA InitSheet == Init => SheetInv
<1>1. SUFFICES ASSUME Init, NEW t \in Tabs
               PROVE  Modal(t)
  BY DEF SheetInv
<1>2. ASSUME NEW k \in CallsOf(t)
      PROVE  Fresh(k, t, "load")
  <2>1. PICK u \in Tabs : k = New(u, "load")
    BY <1>1, <1>2 DEF Init, CallsOf
  <2>2. Fresh(k, u, "load")
    BY <2>1, NewSent
  <2>3. QED
    BY <1>2, <2>2 DEF Fresh, CallsOf
<1>3. QED
  BY <1>2, FreshFits DEF Modal

-----------------------------------------------------------------------------
(* The fixed categories that a page knows.                                 *)

LEMMA FixedStep ==
    ASSUME TypeInv, FixedInv, \A k \in calls : CallKnows(k), [Next]_vars
    PROVE  FixedInv'
<1>1. ASSUME UNCHANGED db,
             \A c \in calls' : c.status = "sent" \/ \E k \in calls : Like(c, k),
             \A t \in Tabs : tabs'[t].status = "ready" =>
                 \/ tabs[t].status = "ready"
                 \/ \E k \in calls : k.kind = "load" /\ k.status = "ok"
      PROVE  FixedInv'
  BY <1>1 DEF FixedInv, Like
<1>2. ASSUME NEW t \in Tabs, Navigate(t)
      PROVE  FixedInv'
  <2>1. tabs'[t].status \in {tabs[t].status, "loading"}
    BY <1>2, NavigateParts, NewTab DEF Navigated, Entered, Switched, OpenedSheet,
       ClosedSheet, ClosedManager, SamePage
  <2>2. /\ \A u \in Tabs \ {t} : tabs'[u] = tabs[u]
        /\ \A c \in calls' : c.status = "sent" \/ \E k \in calls : Like(c, k)
        /\ UNCHANGED db
    BY <1>2, NavigateMoves, NavigateKept DEF Moves, Keeps
  <2>3. QED
    BY <1>1, <2>1, <2>2
<1>3. ASSUME NEW t \in Tabs, Edit(t)
      PROVE  FixedInv'
  <2>1. PICK kind, id, body, sheet : EditedAs(t, kind, id, body, sheet)
    BY <1>3, EditSends DEF Edited
  <2>2. tabs'[t].status = tabs[t].status
    BY <2>1, EditedTab
  <2>3. \A c \in calls' : c.status = "sent" \/ \E k \in calls : Like(c, k)
    BY <2>1, SavesKept DEF EditedAs, Keeps
  <2>4. UNCHANGED db /\ \A u \in Tabs \ {t} : tabs'[u] = tabs[u]
    BY <1>3, <2>1, EditMoves DEF EditedAs, Saves
  <2>5. QED
    BY <1>1, <2>2, <2>3, <2>4
<1>4. ASSUME NEW k \in calls, Hear(k)
      PROVE  FixedInv'
  <2>1. /\ \A u \in Tabs \ {k.tab} : tabs'[u] = tabs[u]
        /\ UNCHANGED db /\ k.tab \in Tabs
    BY <1>4, HearMoves, CallParts DEF Moves
  <2>2. \A c \in calls' : c.status = "sent" \/ \E x \in calls : Like(c, x)
    <3>1. CASE HearRows(k)
      BY <3>1, RowsSends, LikeSelf DEF Others
    <3>2. CASE HearIncome(k) /\ ~Finishes(k)
      BY <3>2, IncomeSends, LikeSelf DEF Others
    <3>3. CASE Finishes(k)
      BY <3>3, NewSent, LikeSelf DEF Finishes, Loads, Others, Fresh
    <3>4. CASE Keeps(k.tab, Quiet)
      BY <3>4 DEF Keeps
    <3>5. QED
      BY <1>4, <3>1, <3>2, <3>3, <3>4, HearKept
  <2>3. tabs'[k.tab].status = "ready" =>
            \/ tabs[k.tab].status = "ready"
            \/ k.kind = "load" /\ k.status = "ok"
    <3>1. CASE HearLoad(k)
      <4>1. PICK tab \in Tab : /\ Becomes(k.tab, tab, Others(k))
                               /\ tab.status = "ready" => k.status = "ok"
        BY <3>1, HearLoadTab
      <4>2. tabs'[k.tab].status = tab.status
        BY <2>1, <4>1, BecomesShown DEF Turns
      <4>3. QED
        BY <3>1, <4>1, <4>2 DEF HearLoad
    <3>2. CASE SamePage(k.tab)
      BY <3>2 DEF SamePage
    <3>3. CASE Finishes(k)
      BY <3>3, FinishesTab
    <3>4. CASE UNCHANGED tabs
      BY <3>4
    <3>5. QED
      BY <1>4, <3>1, <3>2, <3>3, <3>4, HearSavingsTab, HearReloadTab, HearFailureTab,
         HearListTab DEF Hear, HearSheetWrite, EndUnheard, HearRows, HearIncome,
         HearSurplus, HearCategory, Follows
  <2>4. QED
    BY <1>1, <2>1, <2>2, <2>3
<1>5. ASSUME NEW k \in calls, NEW status \in Statuses, NEW got,
             Answered(k, status, got), UNCHANGED tabs,
             db.fixed = Fixed => db'.fixed = Fixed,
             \/ k.kind = "load" /\ status = "ok" => db'.fixed = Fixed
             \/ status = k.status /\ got = k.got
      PROVE  FixedInv'
  <2> DEFINE c == Reply(k, status, got)
  <2>1. /\ calls' = (calls \ {k}) \cup {c}
        /\ c.kind = k.kind /\ c.status = status /\ c.got = got
    BY <1>5, AnsweredKept
  <2> HIDE DEF c
  <2>2. QED
    BY <1>5, <2>1 DEF FixedInv
<1>6. ASSUME NEW k \in calls, Serve(k)
      PROVE  FixedInv'
  <2>1. PICK status, got :
            /\ status \in {"ok", "refused", "checked"}
            /\ Answered(k, status, got) /\ UNCHANGED tabs
            /\ Told(k, status, got) \/ Wrote(k, status, got)
    BY <1>6, ServeTyped DEF Served
  <2>2. /\ db.fixed = Fixed => db'.fixed = Fixed
        /\ k.kind = "load" => db'.fixed = Fixed
    <3>1. CASE Told(k, status, got)
      BY <3>1 DEF Told
    <3>2. CASE Wrote(k, status, got)
      BY <3>2 DEF Wrote, Writes
    <3>3. QED
      BY <2>1, <3>1, <3>2
  <2>3. QED
    BY <1>5, <2>1, <2>2 DEF Statuses
<1>7. ASSUME NEW k \in calls, Fail(k) \/ LoseAnswer(k)
      PROVE  FixedInv'
  BY <1>5, <1>7 DEF Fail, LoseAnswer, Statuses
<1>8. CASE UNCHANGED vars
  BY <1>8 DEF vars, FixedInv
<1>9. QED
  BY <1>2, <1>3, <1>4, <1>6, <1>7, <1>8 DEF Next

LEMMA InitFixed == Init => FixedInv
<1>1. SUFFICES ASSUME Init
               PROVE  FixedInv
  OBVIOUS
<1>2. \A t \in Tabs : tabs[t].status = "loading"
  BY <1>1, NewTab DEF Init
<1>3. \A k \in calls : k.status = "sent"
  BY <1>1, NewSent DEF Init, Fresh
<1>4. QED
  BY <1>2, <1>3 DEF FixedInv

-----------------------------------------------------------------------------
(* What is shown.                                                          *)

LEMMA ShownFrame ==
    ASSUME NEW t, ShownAt(t), tabs'[t] = tabs[t], CallsOf(t)' = CallsOf(t),
           \A table \in Tables : db'[table] = db[table]
    PROVE  ShownAt(t)'
<1>1. /\ db'.users = db.users /\ db'.incomes = db.incomes
      /\ db'.accounts = db.accounts /\ db'.box = db.box
      /\ db'.positions = db.positions
  BY DEF Tables
<1>2. IncomesShown(t)' /\ UsersShown(t)'
  BY <1>1 DEF ShownAt, IncomesShown, UsersShown, Shows, Listing, Writing
<1>3. \A f \in SavingsFields : Saved(f[1])' = Saved(f[1])
  BY <1>1 DEF SavingsFields, Saved
<1>4. \A f \in SavingsFields : SavingsShown(t, f[1], f[2], f[3])'
  BY <1>3 DEF ShownAt, SavingsShown, Writing, Reading
<1>5. QED
  BY <1>2, <1>4 DEF ShownAt

(* The calls of a tab but for k and for some reads go on, and what comes   *)
(* has only been sent.                                                     *)
Onwards(t, k) ==
    /\ \A c \in CallsOf(t)' : c \in CallsOf(t) \/ c.status = "sent"
    /\ \A x \in CallsOf(t) :
           x \in CallsOf(t)' \/ x = k \/ x.kind \in {"load", "readCategories"}

(* The lists that follow a write of the manager are still to come.         *)
ListsOn(t) ==
    \A x \in CallsOf(t) :
        x.kind = "readCategories" /\ x.body.kind # "readCategories" =>
            x \in CallsOf(t)'

LEMMA ShowsOn ==
    ASSUME NEW t, NEW k, NEW field, Shows(t, field), Onwards(t, k), UNCHANGED db,
           tabs'[t].status = "ready" =>
               tabs[t].status = "ready" /\ tabs'[t][field] = tabs[t][field]
    PROVE  Shows(t, field)'
BY DEF Shows, Onwards

LEMMA IncomesOn ==
    ASSUME NEW t, NEW k, IncomesShown(t), Onwards(t, k), UNCHANGED db,
           k.heard => k.kind \notin BudgetWrites,
           tabs'[t].status = "ready" =>
               tabs[t].status = "ready" /\ tabs'[t].incomes = tabs[t].incomes
    PROVE  IncomesShown(t)'
<1>1. Writing(t, BudgetWrites) => Writing(t, BudgetWrites)'
  BY DEF Writing, Onwards, BudgetWrites
<1>2. Shows(t, "incomes") => Shows(t, "incomes")'
  BY ShowsOn
<1>3. QED
  BY <1>1, <1>2 DEF IncomesShown

LEMMA UsersOn ==
    ASSUME NEW t, NEW k, UsersShown(t), Onwards(t, k), UNCHANGED db,
           k.heard => k.kind \notin CategoryWrites,
           ListsOn(t),
           tabs[t].sheet.kind = "category" /\ tabs[t].sheet.dirty =>
               tabs'[t].sheet.kind = "category" /\ tabs'[t].sheet.dirty,
           tabs'[t].status = "ready" =>
               tabs[t].status = "ready" /\ tabs'[t].users = tabs[t].users
    PROVE  UsersShown(t)'
<1>1. Listing(t) => Listing(t)'
  BY DEF Listing, Writing, Onwards, ListsOn, CategoryWrites
<1>2. Shows(t, "users") => Shows(t, "users")'
  BY ShowsOn
<1>3. QED
  BY <1>1, <1>2 DEF UsersShown

LEMMA FieldParts ==
    \A f \in SavingsFields :
        /\ f[1] \in {"accounts", "box", "position"}
        /\ f[2] \in Reloads
        /\ f[3] \subseteq SavingsWrites
BY DEF SavingsFields, Reloads, SavingsWrites, AccountWrites, BoxWrites

LEMMA SavingsOn ==
    ASSUME NEW t, NEW k, NEW f \in SavingsFields,
           SavingsShown(t, f[1], f[2], f[3]), Onwards(t, k), UNCHANGED db,
           k.heard => k.kind \notin f[3],
           k.kind # f[2] \/ (tabs'[t].savings.status = "ready" =>
                                 tabs'[t].savings[f[1]] = Saved(f[1])),
           tabs'[t].savings.status = "ready" =>
               \/ /\ tabs[t].savings.status = "ready"
                  /\ tabs'[t].savings[f[1]] = tabs[t].savings[f[1]]
               \/ tabs'[t].savings[f[1]] = Saved(f[1])
    PROVE  SavingsShown(t, f[1], f[2], f[3])'
<1>0. /\ f[2] \notin {"load", "readCategories"}
      /\ "load" \notin f[3] /\ "readCategories" \notin f[3]
      /\ Saved(f[1])' = Saved(f[1])
  BY FieldParts DEF Reloads, SavingsWrites, AccountWrites, BoxWrites, Saved
<1>1. Writing(t, f[3]) => Writing(t, f[3])'
  BY <1>0 DEF Writing, Onwards
<1>2. Reading(t, f[2]) => Reading(t, f[2])' \/ k.kind = f[2]
  BY <1>0 DEF Reading, Onwards
<1>3. ASSUME NEW c \in CallsOf(t)', c.kind \in {"loadSavings", f[2]}, c.status = "ok"
      PROVE  c \in CallsOf(t)
  BY <1>3 DEF Onwards
<1>4. QED
  BY <1>0, <1>1, <1>2, <1>3 DEF SavingsShown

(* Everything stays as it is.                                              *)
LEMMA ShownOn ==
    ASSUME NEW t, NEW k, ShownAt(t), Onwards(t, k), UNCHANGED db,
           SamePage(t), SameSavings(t),
           tabs[t].sheet.kind = "category" /\ tabs[t].sheet.dirty =>
               tabs'[t].sheet.kind = "category" /\ tabs'[t].sheet.dirty,
           k.heard => k.kind \notin Writes,
           k.kind \notin Reloads, ListsOn(t)
    PROVE  ShownAt(t)'
<1>1. IncomesShown(t)' /\ UsersShown(t)'
  BY IncomesOn, UsersOn DEF ShownAt, SamePage, Writes, BudgetWrites, CategoryWrites
<1>2. ASSUME NEW f \in SavingsFields
      PROVE  SavingsShown(t, f[1], f[2], f[3])'
  <2>1. k.heard => k.kind \notin f[3]
    BY FieldParts DEF SavingsWrites, AccountWrites, BoxWrites, Writes
  <2>2. tabs'[t].savings.status = "ready" =>
            /\ tabs[t].savings.status = "ready"
            /\ tabs'[t].savings[f[1]] = tabs[t].savings[f[1]]
    BY FieldParts DEF SameSavings, Ready
  <2>3. k.kind # f[2]
    BY FieldParts
  <2>4. QED
    BY <2>1, <2>2, <2>3, SavingsOn DEF ShownAt
<1>3. QED
  BY <1>1, <1>2 DEF ShownAt

LEMMA NavigateShown ==
    ASSUME TypeInv, NEW t \in Tabs, t \notin doubt => ShownAt(t), t \notin doubt',
           Navigate(t)
    PROVE  ShownAt(t)'
<1>0. Navigated(t) /\ UNCHANGED db
  BY NavigateParts, NavigateMoves DEF Moves
<1> DEFINE none == New(t, "load")
<1>1. none.kind = "load"
  BY DEF New
<1>2. none.kind \notin Writes \cup Reloads
  BY <1>1 DEF Writes, Reloads
<1> HIDE DEF none
<1>3. CASE Entered(t)
  <2>1. /\ tabs'[t].status = "loading" /\ tabs'[t].savings.status = "idle"
        /\ \A c \in CallsOf(t)' :
               c.kind \in {"load", "loadSavings"} \cup Reloads => c.status = "sent"
    BY <1>3, NewTab DEF Entered, Fresh, PageReads, Reads, Reloads
  <2>2. Shows(t, "incomes")' /\ Shows(t, "users")'
    BY <2>1 DEF Shows
  <2>3. \A f \in SavingsFields : SavingsShown(t, f[1], f[2], f[3])'
    BY <2>1, FieldParts DEF SavingsShown
  <2>4. QED
    BY <2>2, <2>3 DEF ShownAt, IncomesShown, UsersShown
<1>4. CASE Switched(t)
  <2>1. Onwards(t, none) /\ ListsOn(t)
    BY <1>4 DEF Switched, Onwards, ListsOn, CallsOf, Fresh
  <2>2. t \notin doubt
    BY <1>4 DEF Switched
  <2>3. QED
    BY <1>0, <1>2, <1>4, <2>1, <2>2, ShownOn DEF Switched
<1>5. CASE OpenedSheet(t)
  <2>1. Onwards(t, none) /\ ListsOn(t)
    BY <1>5 DEF OpenedSheet, Onwards, ListsOn, CallsOf, Fresh
  <2>2. t \notin doubt /\ SameSavings(t) /\ ~tabs[t].sheet.dirty
    BY <1>5, SheetTypes DEF OpenedSheet, SameSavings, Ready
  <2>3. QED
    BY <1>0, <1>2, <1>5, <2>1, <2>2, ShownOn DEF OpenedSheet
<1>6. CASE ClosedSheet(t)
  <2>1. Onwards(t, none) /\ ListsOn(t)
    BY <1>6 DEF ClosedSheet, Onwards, ListsOn, CallsOf
  <2>2. t \notin doubt /\ SameSavings(t) /\ tabs[t].sheet.kind # "category"
    BY <1>6 DEF ClosedSheet, SameSavings, Ready
  <2>3. QED
    BY <1>0, <1>2, <1>6, <2>1, <2>2, ShownOn DEF ClosedSheet
<1>7. ASSUME NEW deaf, ClosedManager(t, deaf)
      PROVE  ShownAt(t)'
  <2>1. t \notin doubt /\ deaf = {} /\ SameSavings(t)
    BY <1>7 DEF ClosedManager, SameSavings, Ready
  <2>2. \A k \in CallsOf(t) : Silenced(k, deaf) = k
    BY <2>1, NobodySilenced DEF CallsOf
  <2>3. /\ \A c \in CallsOf(t)' : c \in CallsOf(t) \/ Fresh(c, t, "load")
        /\ \A k \in CallsOf(t) :
               k.kind \notin {"load", "readCategories"} => k \in CallsOf(t)'
    BY <1>7, <2>2 DEF ClosedManager
  <2>4. Onwards(t, none)
    BY <2>3 DEF Onwards, Fresh
  <2>5. CASE tabs[t].sheet.dirty
    <3>1. /\ tabs'[t].status = "loading"
          /\ \A c \in CallsOf(t)' : c.kind = "load" => c.status = "sent"
      BY <1>7, <2>5 DEF ClosedManager, Fresh
    <3>2. Shows(t, "incomes")' /\ Shows(t, "users")'
      BY <3>1 DEF Shows
    <3>3. ASSUME NEW f \in SavingsFields
          PROVE  SavingsShown(t, f[1], f[2], f[3])'
      <4>1. none.kind \notin f[3] /\ none.kind # f[2]
        BY <1>2, FieldParts DEF SavingsWrites, AccountWrites, BoxWrites, Writes
      <4>2. tabs'[t].savings = tabs[t].savings
        BY <1>7 DEF ClosedManager
      <4>3. SavingsShown(t, f[1], f[2], f[3])
        BY <2>1 DEF ShownAt
      <4>4. QED
        BY <1>0, <2>4, <4>1, <4>2, <4>3, SavingsOn
    <3>4. QED
      BY <3>2, <3>3 DEF ShownAt, IncomesShown, UsersShown
  <2>6. CASE ~tabs[t].sheet.dirty
    <3>1. SamePage(t) /\ ListsOn(t)
      BY <1>7, <2>6 DEF ClosedManager, ListsOn
    <3>2. QED
      BY <1>0, <1>2, <2>1, <2>4, <2>6, <3>1, ShownOn
  <2>7. QED
    BY <2>5, <2>6
<1>8. QED
  BY <1>0, <1>3, <1>4, <1>5, <1>6, <1>7 DEF Navigated

LEMMA EditShown ==
    ASSUME TypeInv, NEW t \in Tabs, ShownAt(t), Edit(t)
    PROVE  ShownAt(t)'
<1>1. PICK kind, id, body, sheet : EditedAs(t, kind, id, body, sheet)
  BY EditSends DEF Edited
<1>2. /\ SamePage(t) /\ SameSavings(t) /\ tabs'[t].sheet.kind = tabs[t].sheet.kind
      /\ tabs'[t].sheet.dirty = tabs[t].sheet.dirty
  BY <1>1, EditedTab DEF SamePage, SameSavings, Ready
<1> DEFINE c == With(New(t, kind), id, body)
           none == New(t, "load")
<1>3. calls' = calls \cup {c} /\ c.status = "sent" /\ UNCHANGED db
  BY <1>1, SavesKept DEF EditedAs
<1> HIDE DEF c
<1>4. Onwards(t, none) /\ ListsOn(t)
  BY <1>3 DEF Onwards, ListsOn, CallsOf
<1>5. none.kind \notin Writes \cup Reloads
  BY DEF New, Writes, Reloads
<1> HIDE DEF none
<1>6. QED
  BY <1>2, <1>3, <1>4, <1>5, ShownOn

(* A call that is heard of leaves a page, outside doubt, that shows what   *)
(* is saved.                                                               *)

LEMMA SavingsStay ==
    ASSUME NEW t, NEW k, ShownAt(t), Onwards(t, k), UNCHANGED db,
           k.heard => k.kind \notin SavingsWrites,
           k.kind \notin Reloads, tabs'[t].savings = tabs[t].savings
    PROVE  \A f \in SavingsFields : SavingsShown(t, f[1], f[2], f[3])'
<1>1. SUFFICES ASSUME NEW f \in SavingsFields
               PROVE  SavingsShown(t, f[1], f[2], f[3])'
  OBVIOUS
<1>2. /\ k.heard => k.kind \notin f[3]
      /\ k.kind # f[2]
  BY FieldParts
<1>3. SavingsShown(t, f[1], f[2], f[3])
  BY DEF ShownAt
<1>4. QED
  BY <1>2, <1>3, SavingsOn

LEMMA HearLoadShown ==
    ASSUME TypeInv, NEW k \in calls, ShownAt(k.tab), HearLoad(k)
    PROVE  ShownAt(k.tab)'
<1> DEFINE t == k.tab
<1>1. PICK tab \in Tab : /\ Becomes(t, tab, Others(k))
                         /\ tab.sheet = tabs[t].sheet
                         /\ tab.savings = tabs[t].savings
                         /\ k.status = "ok" => /\ tab.users = k.got.users
                                               /\ tab.incomes = k.got.incomes
                         /\ tab.status = "ready" => k.status = "ok"
  BY HearLoadTab
<1>2. /\ Turns(t, tab) /\ Others(k) \subseteq calls'
      /\ \A c \in calls' : c \in Others(k) \/ Fresh(c, t, "loadSavings")
  BY <1>1, CallParts, BecomesShown
<1>3. UNCHANGED db /\ k.kind = "load" /\ k \in CallsOf(t)
  BY DEF HearLoad, Untouched, CallsOf
<1>4. Onwards(t, k) /\ ListsOn(t)
  BY <1>2, <1>3 DEF Onwards, ListsOn, CallsOf, Others, Fresh
<1>5. ASSUME NEW field \in {"users", "incomes"}, Shows(t, field)
      PROVE  Shows(t, field)'
  <2>1. k.status = "ok" => tab[field] = k.got[field] /\ k.got[field] = db[field]
    BY <1>1, <1>3, <1>5 DEF Shows
  <2>2. tabs'[t].status = "ready" => tabs'[t][field] = db'[field]
    BY <1>1, <1>2, <1>3, <2>1 DEF Turns
  <2>3. QED
    BY <1>3, <1>4, <1>5, <2>2 DEF Shows, Onwards
<1>6. IncomesShown(t)'
  <2>1. Writing(t, BudgetWrites) => Writing(t, BudgetWrites)'
    BY <1>3, <1>4 DEF Writing, Onwards, BudgetWrites
  <2>2. QED
    BY <1>5, <2>1 DEF ShownAt, IncomesShown
<1>7. UsersShown(t)'
  <2>1. Listing(t) => Listing(t)'
    BY <1>1, <1>2, <1>3, <1>4 DEF Listing, Writing, Onwards, ListsOn, CategoryWrites, Turns
  <2>2. QED
    BY <1>5, <2>1 DEF ShownAt, UsersShown
<1>8. ASSUME NEW f \in SavingsFields
      PROVE  SavingsShown(t, f[1], f[2], f[3])'
  <2>1. k.kind \notin f[3] /\ k.kind # f[2]
    BY <1>3, FieldParts DEF SavingsWrites, AccountWrites, BoxWrites, Reloads
  <2>2. tabs'[t].savings.status = "ready" =>
            /\ tabs[t].savings.status = "ready"
            /\ tabs'[t].savings[f[1]] = tabs[t].savings[f[1]]
    BY <1>1, <1>2, FieldParts DEF Turns
  <2>3. SavingsShown(t, f[1], f[2], f[3])
    BY DEF ShownAt
  <2>4. QED
    BY <1>3, <1>4, <2>1, <2>2, <2>3, SavingsOn
<1>9. QED
  BY <1>6, <1>7, <1>8 DEF ShownAt

LEMMA HearSavingsShown ==
    ASSUME TypeInv, NEW k \in calls, ShownAt(k.tab), HearSavings(k)
    PROVE  ShownAt(k.tab)'
<1> DEFINE t == k.tab
<1>1. /\ UNCHANGED db /\ k.kind = "loadSavings" /\ k \in CallsOf(t)
      /\ calls' = Others(k)
  BY DEF HearSavings, Untouched, CallsOf
<1>2. Onwards(t, k) /\ ListsOn(t)
  BY <1>1 DEF Onwards, ListsOn, CallsOf, Others
<1>3. SamePage(t) /\ tabs'[t].sheet = tabs[t].sheet
  BY HearSavingsTab
<1>4. IncomesShown(t)' /\ UsersShown(t)'
  BY <1>1, <1>2, <1>3, IncomesOn, UsersOn
     DEF ShownAt, SamePage, BudgetWrites, CategoryWrites
<1>5. ASSUME NEW f \in SavingsFields
      PROVE  SavingsShown(t, f[1], f[2], f[3])'
  <2>1. /\ k.kind \notin f[3] /\ k.kind # f[2]
        /\ f[1] \in {"accounts", "box", "position"}
    BY <1>1, FieldParts DEF SavingsWrites, AccountWrites, BoxWrites, Reloads
  <2>2. SavingsShown(t, f[1], f[2], f[3])
    BY DEF ShownAt
  <2>3. CASE k.status = "ok"
    <3>1. tabs'[t].savings[f[1]] = k.got[f[1]]
      BY <2>1, <2>3, HearSavingsTab
    <3>2. Writing(t, f[3]) => Writing(t, f[3])'
      BY <1>1, <2>1 DEF Writing, CallsOf, Others
    <3>3. ~Writing(t, f[3]) => tabs'[t].savings[f[1]] = Saved(f[1])
      BY <1>1, <2>2, <2>3, <3>1 DEF SavingsShown
    <3>4. ~Writing(t, f[3]) => SavingsShown(t, f[1], f[2], f[3])'
      BY <1>1, <1>2, <2>1, <2>2, <3>3, SavingsOn
    <3>5. QED
      BY <3>2, <3>4 DEF SavingsShown
  <2>4. CASE k.status # "ok"
    <3>1. tabs'[t].savings.status = "error"
      BY <2>4, HearSavingsTab
    <3>2. QED
      BY <1>1, <1>2, <2>1, <2>2, <3>1, SavingsOn
  <2>5. QED
    BY <2>3, <2>4
<1>6. QED
  BY <1>4, <1>5 DEF ShownAt

LEMMA OwnReload ==
    ASSUME NEW kind \in SavingsWrites
    PROVE  /\ ReloadOf(kind) \in Reloads
           /\ \A f \in SavingsFields : kind \in f[3] => f[2] = ReloadOf(kind)
BY DEF SavingsWrites, AccountWrites, BoxWrites, ReloadOf, Reloads, SavingsFields

LEMMA HearSheetWriteShown ==
    ASSUME TypeInv, NEW k \in calls, ShownAt(k.tab), Opened(k.tab), Modal(k.tab),
           HearSheetWrite(k), k.tab \notin doubt'
    PROVE  ShownAt(k.tab)'
<1> DEFINE t == k.tab
           reload == ReloadOf(k.kind)
           body == [closes |-> SheetsOf(k.kind)]
           c == With(New(t, reload), 0, body)
<1>1. /\ UNCHANGED <<db, tabs>> /\ k \in CallsOf(t) /\ k.heard
      /\ k.kind \in SavingsWrites /\ calls' = Others(k) \cup {c}
  BY DEF HearSheetWrite, Untouched, CallsOf, Succeeded, SavingsWrites, AccountWrites,
         BoxWrites
<1>2. Fresh(c, t, reload) /\ reload \in Reloads
  BY <1>1, NewSent, OwnReload
<1>3. New(t, reload).kind = reload
  BY DEF New
<1>4. \A x \in CallsOf(t) : x.kind # reload /\ x.kind # "loadSavings"
  <2>1. ~\E other \in CallsOf(t) : other.kind = reload
    BY <1>3 DEF HearSheetWrite
  <2>2. tabs[t].savings.status = "ready"
    BY <1>1 DEF Opened
  <2>3. QED
    BY <2>1, <2>2 DEF Opened
<1> HIDE DEF c, body
<1>5. Onwards(t, k) /\ ListsOn(t)
  BY <1>1, <1>2 DEF Onwards, ListsOn, CallsOf, Others, Fresh, SavingsWrites,
     AccountWrites, BoxWrites
<1>6. k.kind \notin BudgetWrites \cup CategoryWrites \cup Reloads
  BY <1>1 DEF SavingsWrites, AccountWrites, BoxWrites, BudgetWrites, CategoryWrites,
     Reloads
<1>7. IncomesShown(t)' /\ UsersShown(t)'
  BY <1>1, <1>5, <1>6, IncomesOn, UsersOn DEF ShownAt
<1>8. ASSUME NEW f \in SavingsFields
      PROVE  SavingsShown(t, f[1], f[2], f[3])'
  <2>1. CASE k.kind \in f[3]
    <3>1. f[2] = reload
      BY <1>1, <2>1, OwnReload
    <3>2. c \in CallsOf(t)' /\ Reading(t, f[2])'
      BY <1>1, <1>2, <3>1 DEF Reading, CallsOf, Fresh
    <3>3. \A x \in CallsOf(t)' :
              x.kind \in {"loadSavings", f[2]} => x.status = "sent"
      BY <1>1, <1>2, <1>4, <3>1 DEF CallsOf, Others, Fresh
    <3>4. QED
      BY <3>2, <3>3 DEF SavingsShown
  <2>2. CASE k.kind \notin f[3]
    <3>1. SavingsShown(t, f[1], f[2], f[3]) /\ k.kind # f[2]
      BY <1>6, FieldParts DEF ShownAt
    <3>2. QED
      BY <1>1, <1>5, <2>2, <3>1, SavingsOn
  <2>3. QED
    BY <2>1, <2>2
<1>9. QED
  BY <1>7, <1>8 DEF ShownAt

LEMMA HearReloadShown ==
    ASSUME TypeInv, NEW k \in calls, ShownAt(k.tab), Modal(k.tab), HearReload(k),
           k.tab \notin doubt'
    PROVE  ShownAt(k.tab)'
<1> DEFINE t == k.tab
<1>1. /\ UNCHANGED db /\ k \in CallsOf(t) /\ k.kind \in Reloads
      /\ calls' = Others(k) /\ k.status = "ok"
  BY DEF HearReload, Untouched, CallsOf, Reloads
<1>2. Onwards(t, k) /\ ListsOn(t)
  BY <1>1 DEF Onwards, ListsOn, CallsOf, Others, Reloads
<1>3. /\ SamePage(t) /\ tabs'[t].savings = ReloadedSavings(k)
      /\ tabs'[t].sheet = ReloadedSheet(k)
      /\ ReloadedSavings(k).status = tabs[t].savings.status
  BY HearReloadTab
<1>4. tabs[t].sheet.kind = "category" => tabs'[t].sheet = tabs[t].sheet
  BY <1>1, <1>3, ReadKinds DEF Modal, Fits, ReloadedSheet
<1>5. k.kind \notin BudgetWrites \cup CategoryWrites \cup SavingsWrites
  BY <1>1 DEF Reloads, BudgetWrites, CategoryWrites, SavingsWrites, AccountWrites,
     BoxWrites
<1>6. IncomesShown(t)' /\ UsersShown(t)'
  BY <1>1, <1>2, <1>3, <1>4, <1>5, IncomesOn, UsersOn DEF ShownAt, SamePage
<1>7. ASSUME NEW f \in SavingsFields
      PROVE  SavingsShown(t, f[1], f[2], f[3])'
  <2>1. SavingsShown(t, f[1], f[2], f[3]) /\ k.kind \notin f[3]
    BY <1>5, FieldParts DEF ShownAt
  <2>2. tabs[t].savings \in SavingsState
    BY CallParts, TabParts
  <2>3. CASE k.kind = f[2]
    <3>1. ReloadedSavings(k)[f[1]] = k.got[f[1]]
      BY <1>1, <2>2, <2>3 DEF ReloadedSavings, SavingsFields, SavingsState
    <3>2. Writing(t, f[3]) => Writing(t, f[3])'
      BY <1>1, <2>1 DEF Writing, CallsOf, Others
    <3>3. ~Writing(t, f[3]) => tabs'[t].savings[f[1]] = Saved(f[1])
      BY <1>1, <1>3, <2>1, <2>3, <3>1 DEF SavingsShown
    <3>4. ~Writing(t, f[3]) => SavingsShown(t, f[1], f[2], f[3])'
      BY <1>1, <1>2, <2>1, <3>3, SavingsOn
    <3>5. QED
      BY <3>2, <3>4 DEF SavingsShown
  <2>4. CASE k.kind # f[2]
    <3>1. ReloadedSavings(k)[f[1]] = tabs[t].savings[f[1]]
      BY <1>1, <2>2, <2>4 DEF ReloadedSavings, SavingsFields, SavingsState, Reloads
    <3>2. QED
      BY <1>1, <1>2, <1>3, <2>1, <2>4, <3>1, SavingsOn
  <2>5. QED
    BY <2>3, <2>4
<1>8. QED
  BY <1>6, <1>7 DEF ShownAt

LEMMA HearFailureShown ==
    ASSUME TypeInv, NEW k \in calls, ShownAt(k.tab), HearFailure(k),
           k.tab \notin doubt'
    PROVE  ShownAt(k.tab)'
<1> DEFINE t == k.tab
<1>1. UNCHANGED db /\ k.kind = "readIncomes"
  BY DEF HearFailure, Untouched
<1>2. k.kind \notin Writes \cup Reloads
  BY <1>1 DEF Writes, Reloads
<1>3. calls' = {[other EXCEPT !.heard = @ /\ ~(other.tab = k.tab /\ FALSE)] :
                    other \in Others(k)}
  BY <1>1 DEF HearFailure
<1>4. \A other \in Others(k) :
          [other EXCEPT !.heard = @ /\ ~(other.tab = k.tab /\ FALSE)]
              = Silenced(other, {})
  BY DEF Silenced
<1>5. \A other \in Others(k) : other = Silenced(other, {})
  BY NobodySilenced DEF Others
<1>6. calls' = Others(k)
  BY <1>3, <1>4, <1>5
<1>7. Onwards(t, k) /\ ListsOn(t)
  BY <1>1, <1>6 DEF Onwards, ListsOn, CallsOf, Others
<1>8. /\ SamePage(t) /\ SameSavings(t)
      /\ tabs'[t].sheet.kind = tabs[t].sheet.kind
      /\ tabs'[t].sheet.dirty = tabs[t].sheet.dirty
  BY HearFailureTab DEF SameSavings, Ready
<1>9. QED
  BY <1>1, <1>2, <1>7, <1>8, ShownOn

(* The steps of a budget.                                                  *)
LEMMA FinishesShown ==
    ASSUME TypeInv, NEW k \in calls, ShownAt(k.tab), Finishes(k),
           k.kind \in BudgetWrites
    PROVE  ShownAt(k.tab)'
<1> DEFINE t == k.tab
<1>1. /\ UNCHANGED db /\ k \in CallsOf(t)
      /\ k.kind \notin Reloads \cup SavingsWrites \cup {"readCategories"}
  BY DEF Finishes, Untouched, CallsOf, BudgetWrites, Reloads, SavingsWrites,
         AccountWrites, BoxWrites
<1>2. CASE ~k.heard
  <2>1. UNCHANGED tabs /\ calls' = Others(k)
    BY <1>2, FinishesTab
  <2>2. Onwards(t, k) /\ ListsOn(t)
    BY <1>1, <2>1 DEF Onwards, ListsOn, CallsOf, Others
  <2>3. SamePage(t) /\ SameSavings(t)
    BY <2>1 DEF SamePage, SameSavings, Ready
  <2>4. QED
    BY <1>1, <1>2, <2>1, <2>2, <2>3, ShownOn
<1>3. CASE k.heard
  <2>1. /\ tabs'[t].savings = tabs[t].savings /\ tabs'[t].status = "loading"
        /\ calls' = Loads(t, Others(k))
    BY <1>3, FinishesTab
  <2>2. /\ \A c \in CallsOf(t)' :
               \/ Fresh(c, t, "load")
               \/ c \in CallsOf(t) /\ c.kind # "load"
        /\ \A x \in CallsOf(t) : x \in CallsOf(t)' \/ x = k \/ x.kind = "load"
    BY <2>1, NewSent DEF Loads, CallsOf, Others
  <2>3. Onwards(t, k)
    BY <2>2 DEF Onwards, Fresh
  <2>4. Shows(t, "incomes")' /\ Shows(t, "users")'
    BY <2>1, <2>2 DEF Shows, Fresh
  <2>5. \A f \in SavingsFields : SavingsShown(t, f[1], f[2], f[3])'
    BY <1>1, <2>1, <2>3, SavingsStay
  <2>6. QED
    BY <2>4, <2>5 DEF ShownAt, IncomesShown, UsersShown
<1>4. QED
  BY <1>2, <1>3

LEMMA StepsShown ==
    ASSUME TypeInv, NEW k \in calls, ShownAt(k.tab), ~Finishes(k),
           HearIncome(k) \/ HearSurplus(k)
    PROVE  ShownAt(k.tab)'
<1> DEFINE t == k.tab
<1>1. /\ UNCHANGED <<db, tabs>> /\ k \in CallsOf(t) /\ k.kind \in BudgetWrites
      /\ k.kind \notin Reloads \cup SavingsWrites \cup {"readCategories"}
      /\ k.kind \notin CategoryWrites
  BY DEF HearIncome, HearSurplus, Follows, Untouched, CallsOf, BudgetWrites, Reloads,
         SavingsWrites, AccountWrites, BoxWrites, CategoryWrites
<1>2. /\ \A c \in calls' : c \in Others(k) \/ c.status = "sent"
      /\ Others(k) \subseteq calls'
      /\ \/ ~k.heard
         \/ \E c \in CallsOf(t)' : c.heard /\ c.kind = "deleteIncome"
  <2>1. CASE HearIncome(k)
    BY <2>1, IncomeSends DEF CallsOf
  <2>2. CASE HearSurplus(k)
    <3>1. /\ Follows(k, {})
          /\ \E other \in Others(k) :
                 other.tab = k.tab /\ other.kind = "deleteIncome" /\ other.heard
      BY <2>2 DEF HearSurplus
    <3>2. calls' = Others(k)
      BY <3>1 DEF Follows
    <3>3. QED
      BY <3>1, <3>2 DEF CallsOf
  <2>3. QED
    BY <2>1, <2>2
<1>3. Onwards(t, k) /\ ListsOn(t)
  BY <1>1, <1>2 DEF Onwards, ListsOn, CallsOf, Others
<1>4. CASE ~k.heard
  <2>1. SamePage(t) /\ SameSavings(t)
    BY <1>1 DEF SamePage, SameSavings, Ready
  <2>2. QED
    BY <1>1, <1>3, <1>4, <2>1, ShownOn
<1>5. CASE \E c \in CallsOf(t)' : c.heard /\ c.kind = "deleteIncome"
  <2>1. IncomesShown(t)'
    BY <1>5 DEF IncomesShown, Writing, BudgetWrites
  <2>2. UsersShown(t)'
    BY <1>1, <1>3, UsersOn DEF ShownAt
  <2>3. \A f \in SavingsFields : SavingsShown(t, f[1], f[2], f[3])'
    BY <1>1, <1>3, SavingsStay
  <2>4. QED
    BY <2>1, <2>2, <2>3 DEF ShownAt
<1>6. QED
  BY <1>2, <1>4, <1>5

(* The manager of categories.                                              *)
LEMMA HearCategoryShown ==
    ASSUME TypeInv, NEW k \in calls, ShownAt(k.tab), HearCategory(k)
    PROVE  ShownAt(k.tab)'
<1> DEFINE t == k.tab
           kind == IF k.kind = "deleteCategory" THEN "delete" ELSE "save"
           body == [kind |-> kind]
           c == With(New(t, "readCategories"), 0, body)
<1>1. /\ UNCHANGED <<db, tabs>> /\ calls' = Others(k) \cup {c}
      /\ k.kind \in CategoryWrites
  BY DEF HearCategory, Untouched, Succeeded
<1>2. c.body = body /\ body.kind # "readCategories"
  BY DEF With
<1>3. Fresh(c, t, "readCategories")
  BY NewSent
<1> HIDE DEF c, body
<1>4. k.kind \notin Reloads \cup SavingsWrites \cup BudgetWrites \cup {"readCategories"}
  BY <1>1 DEF CategoryWrites, BudgetWrites, Reloads, SavingsWrites, AccountWrites,
     BoxWrites
<1>5. Onwards(t, k)
  BY <1>1, <1>3 DEF Onwards, CallsOf, Others, Fresh
<1>6. UsersShown(t)'
  BY <1>1, <1>2, <1>3 DEF UsersShown, Listing, CallsOf, Fresh
<1>7. IncomesShown(t)'
  BY <1>1, <1>4, <1>5, IncomesOn DEF ShownAt
<1>8. \A f \in SavingsFields : SavingsShown(t, f[1], f[2], f[3])'
  BY <1>1, <1>4, <1>5, SavingsStay
<1>9. QED
  BY <1>6, <1>7, <1>8 DEF ShownAt

LEMMA HearListShown ==
    ASSUME TypeInv, NEW k \in calls, ShownAt(k.tab), Modal(k.tab), HearList(k)
    PROVE  ShownAt(k.tab)'
<1> DEFINE t == k.tab
<1>1. /\ UNCHANGED db /\ calls' = Others(k) /\ k.kind = "readCategories"
      /\ k \in CallsOf(t)
  BY DEF HearList, Untouched, CallsOf
<1>2. k.kind \notin Reloads \cup SavingsWrites \cup BudgetWrites \cup CategoryWrites
  BY <1>1 DEF CategoryWrites, BudgetWrites, Reloads, SavingsWrites, AccountWrites,
     BoxWrites
<1>3. /\ SamePage(t) /\ tabs'[t].savings = tabs[t].savings
      /\ tabs'[t].sheet.kind = tabs[t].sheet.kind
      /\ tabs'[t].sheet.dirty =
             (tabs[t].sheet.dirty \/ k.body.kind # "readCategories")
  BY HearListTab
<1>4. tabs[t].sheet.kind = "category"
  BY <1>1 DEF Modal, Fits
<1>5. Onwards(t, k)
  BY <1>1 DEF Onwards, CallsOf, Others
<1>6. Writing(t, CategoryWrites) => Writing(t, CategoryWrites)'
  BY <1>1, <1>2 DEF Writing, CallsOf, Others
<1>7. Listing(t) => Listing(t)'
  <2>1. CASE k.body.kind # "readCategories"
    BY <1>3, <1>4, <2>1 DEF Listing
  <2>2. CASE k.body.kind = "readCategories"
    <3>1. ListsOn(t)
      BY <1>1, <2>2 DEF ListsOn, CallsOf, Others
    <3>2. QED
      BY <1>3, <1>6, <3>1 DEF Listing, ListsOn
  <2>3. QED
    BY <2>1, <2>2
<1>8. Shows(t, "users") => Shows(t, "users")'
  BY <1>1, <1>3, <1>5, ShowsOn DEF SamePage
<1>9. IncomesShown(t)'
  BY <1>1, <1>2, <1>3, <1>5, IncomesOn DEF ShownAt, SamePage
<1>10. \A f \in SavingsFields : SavingsShown(t, f[1], f[2], f[3])'
  BY <1>1, <1>2, <1>3, <1>5, SavingsStay
<1>11. QED
  BY <1>7, <1>8, <1>9, <1>10 DEF ShownAt, UsersShown

LEMMA HearShown ==
    ASSUME TypeInv, NEW k \in calls, ShownAt(k.tab), Opened(k.tab), Modal(k.tab),
           Hear(k), k.tab \notin doubt'
    PROVE  ShownAt(k.tab)'
<1> DEFINE t == k.tab
<1>1. ASSUME UNCHANGED <<db, tabs>>, Others(k) \subseteq calls',
             \A c \in calls' : c \in Others(k) \/ c.status = "sent",
             k.kind \notin Reloads \cup {"readCategories"},
             k.heard => k.kind \notin Writes
      PROVE  ShownAt(t)'
  <2>1. Onwards(t, k) /\ ListsOn(t)
    BY <1>1 DEF Onwards, ListsOn, CallsOf, Others
  <2>2. SamePage(t) /\ SameSavings(t)
    BY <1>1 DEF SamePage, SameSavings, Ready
  <2>3. QED
    BY <1>1, <2>1, <2>2, ShownOn
<1>2. CASE EndUnheard(k)
  <2>1. ~k.heard /\ UNCHANGED <<db, tabs>> /\ calls' = Others(k)
    BY <1>2 DEF EndUnheard, Untouched
  <2>2. k.kind \notin PageReads
    BY <2>1 DEF Modal, Fits, CallsOf
  <2>3. k.kind \notin Reloads \cup {"readCategories"}
    BY <2>2 DEF PageReads, Reads, Reloads
  <2>4. QED
    BY <1>1, <2>1, <2>3
<1>3. CASE HearRows(k)
  <2>1. UNCHANGED <<db, tabs>> /\ k.kind = "readIncomes"
    BY <1>3 DEF HearRows, Follows, Untouched
  <2>2. PICK c : calls' = Others(k) \cup {c} /\ c.status = "sent"
    BY <1>3, RowsSends
  <2>3. QED
    BY <1>1, <2>1, <2>2 DEF Reloads, Writes
<1>4. CASE HearIncome(k) \/ HearSurplus(k)
  <2>1. k.kind \in BudgetWrites
    BY <1>4 DEF HearIncome, HearSurplus, BudgetWrites
  <2>2. QED
    BY <1>4, <2>1, FinishesShown, StepsShown
<1>5. QED
  BY <1>2, <1>3, <1>4, HearLoadShown, HearSavingsShown, HearSheetWriteShown,
     HearReloadShown, HearFailureShown, HearCategoryShown, HearListShown DEF Hear

(* A call is answered: what it wrote is read again by who waits for it.    *)
LEMMA AnsweredShown ==
    ASSUME NEW t, ShownAt(t), UNCHANGED tabs, NEW k \in calls, NEW c,
           calls' = (calls \ {k}) \cup {c},
           c.tab = k.tab, c.kind = k.kind, c.heard = k.heard, c.body = k.body,
           c.status = "ok" /\ k.kind \in Reads => Reports(k, c.got),
           db'.incomes = db.incomes \/ Writing(t, BudgetWrites)',
           db'.users = db.users \/ Listing(t)',
           \A f \in SavingsFields : Saved(f[1])' = Saved(f[1]) \/ Writing(t, f[3])'
    PROVE  ShownAt(t)'
<1>1. /\ \A x \in CallsOf(t)' : x \in CallsOf(t) \/ (x = c /\ k \in CallsOf(t))
      /\ \A x \in CallsOf(t) : x \in CallsOf(t)' \/ (x = k /\ c \in CallsOf(t)')
  BY DEF CallsOf
<1>2. \A kinds : Writing(t, kinds) => Writing(t, kinds)'
  BY <1>1 DEF Writing
<1>3. \A kind : Reading(t, kind) => Reading(t, kind)'
  BY <1>1 DEF Reading
<1>4. Listing(t) => Listing(t)'
  BY <1>1, <1>2 DEF Listing
<1>5. ASSUME c.status = "ok"
      PROVE  /\ k.kind = "load" =>
                    c.got.incomes = db.incomes /\ c.got.users = db.users
             /\ \A f \in SavingsFields : k.kind \in {"loadSavings", f[2]} =>
                    c.got[f[1]] = Saved(f[1])
  <2>1. k.kind = "load" => c.got.incomes = db.incomes /\ c.got.users = db.users
    BY <1>5 DEF Reports, Reads
  <2>2. ASSUME NEW f \in SavingsFields, k.kind \in {"loadSavings", f[2]}
        PROVE  c.got[f[1]] = Saved(f[1])
    <3>1. k.kind \in Reads
      BY <2>2, FieldParts DEF Reads, Reloads
    <3>2. Reports(k, c.got)
      BY <1>5, <3>1
    <3>3. QED
      BY <2>2, <3>2 DEF Reports, SavingsFields, Saved
  <2>3. QED
    BY <2>1, <2>2
<1>6. IncomesShown(t)'
  BY <1>1, <1>2, <1>5 DEF ShownAt, IncomesShown, Shows
<1>7. UsersShown(t)'
  BY <1>1, <1>4, <1>5 DEF ShownAt, UsersShown, Shows
<1>8. ASSUME NEW f \in SavingsFields
      PROVE  SavingsShown(t, f[1], f[2], f[3])'
  <2>1. SavingsShown(t, f[1], f[2], f[3])
    BY DEF ShownAt
  <2>2. CASE Writing(t, f[3])'
    BY <2>2 DEF SavingsShown
  <2>3. CASE Saved(f[1])' = Saved(f[1]) /\ ~Writing(t, f[3])
    BY <1>1, <1>3, <1>5, <2>1, <2>3 DEF SavingsShown
  <2>4. QED
    BY <1>2, <2>2, <2>3
<1>9. QED
  BY <1>6, <1>7, <1>8 DEF ShownAt

LEMMA ToldShown ==
    ASSUME TypeInv, NEW t, ShownAt(t), UNCHANGED tabs, NEW k \in calls,
           NEW status \in Statuses, NEW got, Answered(k, status, got),
           \A table \in Tables : db'[table] = db[table],
           status = "ok" /\ k.kind \in Reads => Reports(k, got)
    PROVE  ShownAt(t)'
<1> DEFINE c == Reply(k, status, got)
<1>1. /\ calls' = (calls \ {k}) \cup {c}
      /\ c.tab = k.tab /\ c.kind = k.kind /\ c.heard = k.heard /\ c.body = k.body
      /\ c.status = status /\ c.got = got
  BY AnsweredKept
<1> HIDE DEF c
<1>2. /\ db'.users = db.users /\ db'.incomes = db.incomes
      /\ db'.accounts = db.accounts /\ db'.box = db.box
      /\ db'.positions = db.positions
  BY DEF Tables
<1>3. \A f \in SavingsFields : Saved(f[1])' = Saved(f[1])
  BY <1>2 DEF SavingsFields, Saved
<1>4. QED
  BY <1>1, <1>2, <1>3, AnsweredShown

LEMMA WroteShown ==
    ASSUME TypeInv, NEW t \in Tabs \ doubt', ShownAt(t), UNCHANGED tabs,
           NEW k \in calls, NEW status, NEW got, Answered(k, status, got),
           Wrote(k, status, got)
    PROVE  ShownAt(t)'
<1> DEFINE c == Reply(k, status, got)
           table == WrittenBy(k.kind)
<1>1. /\ status \in Statuses /\ k.kind \in Writes /\ t = k.tab /\ k.heard
      /\ \A other \in Tables \ {table} : db'[other] = db[other]
  BY CallParts DEF Wrote, Acts, Statuses
<1>0. status \in Statuses
  BY <1>1
<1>2. /\ calls' = (calls \ {k}) \cup {c}
      /\ c.tab = k.tab /\ c.kind = k.kind /\ c.heard = k.heard /\ c.body = k.body
  BY <1>0, AnsweredKept
<1> HIDE DEF c
<1>3. \A kinds : k.kind \in kinds => Writing(t, kinds)'
  BY <1>1, <1>2 DEF Writing, CallsOf
<1>4. k.kind \notin Reads
  BY <1>1 DEF Writes, Reads
<1>5. db'.incomes = db.incomes \/ k.kind \in BudgetWrites
  BY <1>1 DEF Writes, BudgetWrites, WrittenBy, TableOf, Tables, CategoryWrites
<1>6. db'.users = db.users \/ k.kind \in CategoryWrites
  BY <1>1 DEF Writes, WrittenBy, TableOf, Tables, CategoryWrites
<1>7. \A f \in SavingsFields : Saved(f[1])' = Saved(f[1]) \/ k.kind \in f[3]
  <2>1. db'.accounts = db.accounts \/ k.kind \in AccountWrites
    BY <1>1 DEF Writes, AccountWrites, WrittenBy, TableOf, Tables, CategoryWrites
  <2>2. db'.box = db.box \/ k.kind \in BoxWrites
    BY <1>1 DEF Writes, BoxWrites, WrittenBy, TableOf, Tables, CategoryWrites
  <2>3. db'.positions = db.positions \/ k.kind = "saveInvestment"
    BY <1>1 DEF Writes, WrittenBy, TableOf, Tables, CategoryWrites
  <2>4. QED
    BY <2>1, <2>2, <2>3 DEF SavingsFields, Saved
<1>8. /\ db'.incomes = db.incomes \/ Writing(t, BudgetWrites)'
      /\ db'.users = db.users \/ Listing(t)'
      /\ \A f \in SavingsFields : Saved(f[1])' = Saved(f[1]) \/ Writing(t, f[3])'
  BY <1>3, <1>5, <1>6, <1>7 DEF Listing
<1>9. QED
  BY <1>2, <1>4, <1>8, AnsweredShown

LEMMA ShownStep ==
    ASSUME TypeInv, TabInv, SheetInv, ShownInv, \A k \in calls : CallKnows(k),
           [Next]_vars
    PROVE  ShownInv'
<1>1. SUFFICES ASSUME NEW t \in Tabs \ doubt'
               PROVE  ShownAt(t)'
  BY DEF ShownInv
<1>2. Opened(t) /\ Modal(t) /\ (t \notin doubt => ShownAt(t))
  BY DEF TabInv, SheetInv, ShownInv
<1>3. ASSUME NEW u \in Tabs \ {t}, Moves(u)
      PROVE  ShownAt(t)'
  <2>1. /\ tabs'[t] = tabs[t] /\ CallsOf(t)' = CallsOf(t) /\ t \notin doubt
        /\ UNCHANGED db
    BY <1>3 DEF Moves
  <2>2. QED
    BY <1>2, <2>1, ShownFrame
<1>4. ASSUME NEW u \in Tabs, Navigate(u) \/ Edit(u)
      PROVE  ShownAt(t)'
  <2>1. CASE t = u
    <3>1. Edit(u) => t \notin doubt
      BY <2>1, EditSends DEF Edited, EditedAs, Saves
    <3>2. QED
      BY <1>2, <1>4, <2>1, <3>1, NavigateShown, EditShown
  <2>2. CASE t # u
    <3>1. CASE Navigate(u)
      BY <1>3, <2>2, <3>1, NavigateMoves
    <3>2. CASE Edit(u)
      <4>1. tabs'[t] = tabs[t] /\ CallsOf(t)' = CallsOf(t) /\ t \notin doubt
        BY <2>2, <3>2, EditMoves
      <4>2. UNCHANGED db
        BY <3>2, EditSends DEF Edited, EditedAs, Saves
      <4>3. QED
        BY <1>2, <4>1, <4>2, ShownFrame
    <3>3. QED
      BY <1>4, <3>1, <3>2
  <2>3. QED
    BY <2>1, <2>2
<1>5. ASSUME NEW k \in calls, Hear(k)
      PROVE  ShownAt(t)'
  <2>1. CASE t = k.tab
    <3>1. t \notin doubt
      BY <1>5, <2>1 DEF Hear, HearLoad, HearSavings, HearSheetWrite, HearReload,
         HearFailure, EndUnheard, HearRows, HearIncome, HearSurplus, HearCategory,
         HearList, Follows, Finishes
    <3>2. QED
      BY <1>2, <1>5, <2>1, <3>1, HearShown
  <2>2. CASE t # k.tab
    BY <1>3, <1>5, <2>2, HearMoves, CallParts
  <2>3. QED
    BY <2>1, <2>2
<1>6. ASSUME NEW k \in calls, Serve(k)
      PROVE  ShownAt(t)'
  <2>1. PICK status, got :
            /\ status \in {"ok", "refused", "checked"}
            /\ Answered(k, status, got) /\ UNCHANGED tabs
            /\ Told(k, status, got) \/ Wrote(k, status, got)
    BY <1>6, ServeTyped DEF Served
  <2>2. CASE Told(k, status, got)
    <3>1. /\ \A table \in Tables : db'[table] = db[table]
          /\ t \notin doubt
          /\ status = "ok" => Reports(k, got)
      BY <2>1, <2>2 DEF Told
    <3>2. QED
      BY <1>2, <2>1, <3>1, ToldShown DEF Statuses
  <2>3. CASE Wrote(k, status, got)
    <3>1. t \notin doubt
      BY <2>3 DEF Wrote, Acts
    <3>2. QED
      BY <1>2, <2>1, <2>3, <3>1, WroteShown
  <2>4. QED
    BY <2>1, <2>2, <2>3
<1>7. ASSUME NEW k \in calls, Fail(k) \/ LoseAnswer(k)
      PROVE  ShownAt(t)'
  <2>1. /\ Answered(k, "failed", k.got) /\ UNCHANGED <<db, tabs, doubt>>
        /\ "failed" \in Statuses
    BY <1>7 DEF Fail, LoseAnswer, Statuses
  <2>2. QED
    BY <1>2, <2>1, ToldShown
<1>8. CASE UNCHANGED vars
  <2>1. UNCHANGED <<db, tabs, calls, doubt>>
    BY <1>8 DEF vars
  <2>2. QED
    BY <1>2, <2>1, ShownFrame DEF CallsOf
<1>9. QED
  BY <1>4, <1>5, <1>6, <1>7, <1>8 DEF Next

LEMMA InitShown == Init => ShownInv
<1>1. SUFFICES ASSUME Init, NEW t \in Tabs
               PROVE  ShownAt(t)
  BY DEF ShownInv
<1>2. tabs[t].status = "loading" /\ tabs[t].savings.status = "idle"
  BY <1>1, NewTab DEF Init
<1>3. \A k \in CallsOf(t) : k.status = "sent"
  BY <1>1, NewSent DEF Init, Fresh, CallsOf
<1>4. Shows(t, "incomes") /\ Shows(t, "users")
  BY <1>2, <1>3 DEF Shows
<1>5. \A f \in SavingsFields : SavingsShown(t, f[1], f[2], f[3])
  BY <1>2, <1>3 DEF SavingsShown
<1>6. QED
  BY <1>4, <1>5 DEF ShownAt, IncomesShown, UsersShown

-----------------------------------------------------------------------------
(* Bases.                                                                  *)

(* What is known of a base is still true, and the first position stays.    *)
Remembers ==
    /\ \A a : KnownAccount(a) => KnownAccount(a)'
    /\ \A base : KnownBase(base) => KnownBase(base)'
    /\ \A id : db.positions # {} /\ id = First(db.positions).id =>
           db'.positions # {} /\ id = First(db'.positions).id
SameBases ==
    \A table \in {"accounts", "positions"} :
        \A row \in db[table], after \in db'[table] :
            row.id = after.id => row.base = after.base

LEMMA TabRemembers ==
    ASSUME Remembers, NEW tab, TabKnows(tab)
    PROVE  TabKnows(tab)'
BY DEF Remembers, TabKnows, KnownPosition

LEMMA CallRemembers ==
    ASSUME Remembers, NEW k, CallKnows(k)
    PROVE  CallKnows(k)'
BY DEF Remembers, CallKnows, KnownPosition

LEMMA BothTables ==
    ASSUME TypeInv
    PROVE  /\ db.born \in Nat
           /\ \A row \in db.accounts : row.id \in Nat /\ row.id <= db.born
           /\ \A row \in db.positions : row.id \in Nat /\ row.id <= db.born
           /\ Keyed(db.accounts) /\ Keyed(db.positions)
           /\ db.positions = {} => First(db.positions) = None
           /\ db.positions # {} =>
                  /\ First(db.positions) \in db.positions
                  /\ First(db.positions) # None
                  /\ \A row \in db.positions : First(db.positions).id <= row.id
BY TypeParts, Numbers, TableTyped, FirstTyped DEF Tables

LEMMA StillRemembers ==
    ASSUME TypeInv, db'.accounts = db.accounts, db'.positions = db.positions,
           db'.born \in {db.born, db.born + 1}
    PROVE  Remembers /\ SameBases
<1>1. \A a : KnownAccount(a) => KnownAccount(a)'
  BY BothTables DEF KnownAccount
<1>2. \A base : KnownBase(base) => KnownBase(base)'
  BY DEF KnownBase
<1>3. SameBases
  BY BothTables DEF SameBases, Keyed
<1>4. QED
  BY <1>1, <1>2, <1>3 DEF Remembers

LEMMA AccountsRemember ==
    ASSUME TypeInv, NEW k \in calls, CallKnows(k), NEW status, NEW got,
           Wrote(k, status, got), WrittenBy(k.kind) = "accounts"
    PROVE  Remembers /\ SameBases
<1>1. /\ db'.positions = db.positions
      /\ k.kind \in AccountWrites
      /\ \/ Adds(k, "accounts") \/ Replaces(k, "accounts")
         \/ Removes(k, "accounts")
  BY DEF Wrote, Tables, WrittenBy, TableOf, AccountWrites, CategoryWrites, Writes
<1>2. /\ db.born \in Nat /\ Keyed(db.accounts)
      /\ \A row \in db.accounts : row.id \in Nat /\ row.id <= db.born
  BY BothTables
<1>3. \A base : KnownBase(base) => KnownBase(base)'
  BY <1>1 DEF KnownBase
<1>4. ASSUME NEW row \in db.accounts, NEW after \in db'.accounts, row.id = after.id
      PROVE  row.base = after.base
  <2>1. CASE Adds(k, "accounts")
    BY <1>2, <1>4, <2>1 DEF Adds, Keyed
  <2>2. CASE Removes(k, "accounts")
    BY <1>2, <1>4, <2>2 DEF Removes, Without, Keyed
  <2>3. CASE Replaces(k, "accounts")
    <3>1. k.kind = "updateAccount"
      BY <1>1, <2>3 DEF Replaces, AccountWrites, Updating
    <3>2. PICK new : /\ db'.accounts = Without(db.accounts, new.id) \cup {new}
                     /\ new.id = k.id /\ new.base = k.body.base
      BY <2>3, <3>1 DEF Replaces
    <3>3. \A old \in db.accounts : old.id = k.id => old.base = k.body.base
      BY <3>1 DEF CallKnows, KnownAccount
    <3>4. QED
      BY <1>2, <1>4, <3>2, <3>3 DEF Without, Keyed
  <2>4. QED
    BY <1>1, <2>1, <2>2, <2>3
<1>5. ASSUME NEW a, KnownAccount(a)
      PROVE  KnownAccount(a)'
  <2>1. a.id \in 0..db.born /\ db'.born \in {db.born, db.born + 1}
    BY <1>1, <1>5 DEF KnownAccount, Adds, Replaces, Removes
  <2>2. ASSUME NEW after \in db'.accounts, after.id = a.id
        PROVE  after.base = a.base
    <3>1. \E row \in db.accounts : row.id = after.id
      <4>1. CASE Adds(k, "accounts")
        BY <1>2, <2>1, <2>2, <4>1 DEF Adds
      <4>2. CASE Removes(k, "accounts")
        BY <2>2, <4>2 DEF Removes, Without
      <4>3. CASE Replaces(k, "accounts")
        BY <2>2, <4>3 DEF Replaces, Without, IdsOf
      <4>4. QED
        BY <1>1, <4>1, <4>2, <4>3
    <3>2. QED
      BY <1>4, <1>5, <2>2, <3>1 DEF KnownAccount
  <2>3. QED
    BY <1>2, <2>1, <2>2 DEF KnownAccount
<1>6. SameBases
  <2>1. \A row \in db.positions, after \in db'.positions :
            row.id = after.id => row.base = after.base
    BY <1>1, BothTables DEF Keyed
  <2>2. QED
    BY <1>4, <2>1 DEF SameBases
<1>7. QED
  BY <1>1, <1>3, <1>5, <1>6 DEF Remembers

LEMMA PositionsRemember ==
    ASSUME TypeInv, NEW k \in calls, CallKnows(k), NEW status, NEW got,
           Wrote(k, status, got), WrittenBy(k.kind) = "positions"
    PROVE  Remembers /\ SameBases
<1> DEFINE first == First(db.positions)
<1>1. /\ db'.accounts = db.accounts /\ k.kind = "saveInvestment"
      /\ Adds(k, "positions") \/ Replaces(k, "positions")
  BY DEF Wrote, Tables, WrittenBy, TableOf, CategoryWrites, Writes, Removes, Removing
<1>2. /\ db.born \in Nat /\ Keyed(db.positions)
      /\ \A row \in db.positions : row.id \in Nat /\ row.id <= db.born
      /\ db.positions # {} =>
             /\ first \in db.positions
             /\ \A row \in db.positions : first.id <= row.id
  BY BothTables
<1>3. /\ k.body \in [id: {0}, base: Bases, rate: Rates]
      /\ KnownBase(k.body.base)
  BY <1>1, CallParts DEF Sends, CallKnows
<1>4. db'.born \in {db.born, db.born + 1}
  BY <1>1 DEF Adds, Replaces
<1>5. \A a : KnownAccount(a) => KnownAccount(a)'
  BY <1>1, <1>2, <1>4 DEF KnownAccount
<1>6. CASE Adds(k, "positions")
  <2> DEFINE new == WithId(k.body, db.born + 1)
  <2>1. new.id = db.born + 1 /\ new.base = k.body.base
    BY <1>3 DEF WithId
  <2>2. db'.positions = db.positions \cup {new}
    BY <1>6 DEF Adds
  <2> HIDE DEF new
  <2>3. Keyed(db'.positions) /\ \A row \in db'.positions : row.id \in Nat
    BY <1>2, <2>1, <2>2 DEF Keyed
  <2>4. db.positions # {} => First(db'.positions) = first
    <3>1. SUFFICES ASSUME db.positions # {}
                   PROVE  First(db'.positions) = first
      OBVIOUS
    <3>2. first \in db'.positions /\ \A row \in db'.positions : first.id <= row.id
      BY <1>2, <2>1, <2>2, <3>1
    <3> HIDE DEF first
    <3>3. QED
      BY <2>3, <3>2, FirstIs
  <2>5. db.positions = {} => First(db'.positions) = new /\ new.base = 0
    <3>1. SUFFICES ASSUME db.positions = {}
                   PROVE  First(db'.positions) = new /\ new.base = 0
      OBVIOUS
    <3>2. db'.positions = {new} /\ new.id <= new.id
      BY <1>2, <2>1, <2>2, <3>1
    <3>3. new.base = 0
      BY <1>3, <2>1, <3>1 DEF KnownBase
    <3>4. QED
      BY <2>3, <3>2, <3>3, FirstIs
  <2>6. \A base : KnownBase(base) => KnownBase(base)'
    BY <2>2, <2>4, <2>5 DEF KnownBase
  <2>7. \A row \in db.positions, after \in db'.positions :
            row.id = after.id => row.base = after.base
    BY <1>2, <2>1, <2>2 DEF Keyed
  <2>8. SameBases
    BY <1>1, <2>7, BothTables DEF SameBases, Keyed
  <2>9. QED
    BY <1>5, <2>2, <2>4, <2>6, <2>8 DEF Remembers
<1>7. CASE Replaces(k, "positions")
  <2>1. PICK new :
            /\ new.id \in IdsOf(db.positions)
            /\ db'.positions = Without(db.positions, new.id) \cup {new}
            /\ new.id = k.got.row.id /\ new.base = k.body.base
    BY <1>1, <1>7 DEF Replaces
  <2>2. db.positions # {} /\ k.status = "checked" /\ k.got.row # None
    BY <1>1, <1>7, <2>1 DEF Replaces, IdsOf
  <2>3. new.id = first.id /\ new.base = first.base
    BY <1>1, <1>3, <2>1, <2>2 DEF CallKnows, KnownBase
  <2>4. \A row \in db.positions : row.id = new.id => row = first
    BY <1>2, <2>2, <2>3 DEF Keyed
  <2>5. Keyed(db'.positions) /\ \A row \in db'.positions : row.id \in Nat
    <3>1. new.id \in Nat
      BY <1>2, <2>2, <2>3
    <3>2. QED
      BY <1>2, <2>1, <3>1 DEF Keyed, Without
  <2>6. First(db'.positions) = new
    <3>1. new \in db'.positions /\ \A row \in db'.positions : new.id <= row.id
      BY <1>2, <2>1, <2>2, <2>3 DEF Without
    <3>2. QED
      BY <2>5, <3>1, FirstIs
  <2> HIDE DEF first
  <2>7. /\ \A base : KnownBase(base) => KnownBase(base)'
        /\ db'.positions # {}
    BY <2>1, <2>2, <2>3, <2>6 DEF KnownBase, first
  <2>8. \A row \in db.positions, after \in db'.positions :
            row.id = after.id => row.base = after.base
    BY <1>2, <2>1, <2>3, <2>4 DEF Keyed, Without
  <2>9. SameBases
    BY <1>1, <2>8, BothTables DEF SameBases, Keyed
  <2>10. QED
    BY <1>5, <2>3, <2>6, <2>7, <2>9 DEF Remembers, first
<1>8. QED
  BY <1>1, <1>6, <1>7

LEMMA ServeRemembers ==
    ASSUME TypeInv, NEW k \in calls, CallKnows(k), NEW status, NEW got,
           Told(k, status, got) \/ Wrote(k, status, got)
    PROVE  Remembers /\ SameBases
<1>1. CASE Told(k, status, got)
  BY <1>1, StillRemembers DEF Told, Tables
<1>2. CASE Wrote(k, status, got)
  <2>1. CASE WrittenBy(k.kind) \notin {"accounts", "positions"}
    <3>1. db'.accounts = db.accounts /\ db'.positions = db.positions
      BY <1>2, <2>1 DEF Wrote, Tables
    <3>2. db'.born \in {db.born, db.born + 1}
      BY <1>2 DEF Wrote, Adds, Replaces, Removes
    <3>3. QED
      BY <3>1, <3>2, StillRemembers
  <2>2. QED
    BY <1>2, <2>1, AccountsRemember, PositionsRemember
<1>3. QED
  BY <1>1, <1>2

(* An answer brings what is known of the rows that are there.              *)
LEMMA RowsKnown ==
    ASSUME TypeInv
    PROVE  /\ \A row \in db.accounts : KnownAccount(row)
           /\ KnownPosition(First(db.positions))
<1>1. \A row \in db.accounts : KnownAccount(row)
  BY BothTables DEF KnownAccount, Keyed
<1>2. KnownPosition(First(db.positions))
  BY BothTables DEF KnownPosition, KnownBase
<1>3. QED
  BY <1>1, <1>2

LEMMA ReplyKnows ==
    ASSUME TypeInv, NEW k, CallKnows(k), Remembers, NEW c,
           c.kind = k.kind, c.id = k.id, c.body = k.body,
           c.status = "ok" /\ k.kind \in Reads => Reports(k, c.got),
           c.status = "checked" /\ k.kind = "saveInvestment" =>
               c.got = [row |-> First(db.positions)]
    PROVE  CallKnows(c)'
<1>1. CallKnows(c)
  <2>1. c.status = "ok" /\ c.kind \in {"loadSavings", "readAccounts"} =>
            \A a \in c.got.accounts : KnownAccount(a)
    BY RowsKnown DEF Reports, Reads
  <2>2. c.status = "ok" /\ c.kind \in {"loadSavings", "readInvestment"} =>
            KnownPosition(c.got.position)
    BY RowsKnown DEF Reports, Reads
  <2>3. c.kind = "saveInvestment" /\ c.status = "checked" =>
            \/ c.got.row = None
            \/ db.positions # {} /\ c.got.row.id = First(db.positions).id
    BY BothTables
  <2>4. /\ c.kind = "updateAccount" =>
               KnownAccount([id |-> c.id, base |-> c.body.base])
        /\ c.kind = "saveInvestment" => KnownBase(c.body.base)
    BY DEF CallKnows
  <2>5. QED
    BY <2>1, <2>2, <2>3, <2>4 DEF CallKnows
<1>2. QED
  BY <1>1, CallRemembers

LEMMA TabThere ==
    ASSUME NEW t, NEW tab, tab = tabs'[t], TabKnows(tab)'
    PROVE  TabKnows(tabs[t])'
BY DEF TabKnows, KnownPosition, KnownBase, KnownAccount

LEMMA AnsweredBases ==
    ASSUME TypeInv, BasesInv, Remembers, UNCHANGED tabs, NEW k \in calls,
           NEW status \in Statuses, NEW got, Answered(k, status, got),
           status = "ok" /\ k.kind \in Reads => Reports(k, got),
           status = "checked" /\ k.kind = "saveInvestment" =>
               got = [row |-> First(db.positions)]
    PROVE  BasesInv'
<1> DEFINE c == Reply(k, status, got)
<1>1. /\ calls' = (calls \ {k}) \cup {c}
      /\ c.kind = k.kind /\ c.id = k.id /\ c.body = k.body
      /\ c.status = status /\ c.got = got
  BY AnsweredKept
<1> HIDE DEF c
<1>2. CallKnows(c)'
  BY <1>1, ReplyKnows DEF BasesInv
<1>3. \A x \in calls' : CallKnows(x)'
  BY <1>1, <1>2, CallRemembers DEF BasesInv
<1>4. ASSUME NEW t \in Tabs
      PROVE  TabKnows(tabs[t])'
  <2>1. PICK tab : tab = tabs[t]
    OBVIOUS
  <2>2. TabKnows(tab)
    BY <2>1 DEF BasesInv
  <2>3. QED
    BY <2>1, <2>2, TabRemembers, TabThere
<1>5. QED
  BY <1>3, <1>4 DEF BasesInv

(* What a tab knows where its savings and the row in its sheet stay.       *)
LEMMA TabKnowsOn ==
    ASSUME NEW t, TabKnows(tabs[t]), UNCHANGED db,
           tabs'[t].savings.status = "ready" => Ready(t) /\ SameSavings(t),
           tabs'[t].sheet.kind = "goal" =>
               /\ tabs[t].sheet.kind = "goal"
               /\ tabs'[t].sheet.account = tabs[t].sheet.account,
           tabs'[t].sheet.kind = "return" =>
               tabs[t].sheet.kind = "return" /\ SameSavings(t)
    PROVE  TabKnows(tabs[t])'
<1>1. tabs'[t].savings.status = "ready" =>
          /\ tabs[t].savings.status = "ready"
          /\ tabs'[t].savings.accounts = tabs[t].savings.accounts
          /\ tabs'[t].savings.position = tabs[t].savings.position
  BY DEF SameSavings, Ready
<1>2. tabs'[t].sheet.kind = "return" =>
          tabs'[t].savings.position = tabs[t].savings.position
  BY DEF SameSavings
<1>3. QED
  BY <1>1, <1>2 DEF TabKnows, KnownPosition, KnownBase, KnownAccount

LEMMA NavigateKnows ==
    ASSUME TypeInv, NEW t \in Tabs, TabKnows(tabs[t]), Navigate(t)
    PROVE  TabKnows(tabs[t])'
<1>0. Navigated(t) /\ UNCHANGED db
  BY NavigateParts, NavigateMoves DEF Moves
<1>1. CASE Entered(t)
  <2>1. tabs'[t].savings.status = "idle" /\ tabs'[t].sheet.kind = "none"
    BY <1>1, NewTab DEF Entered
  <2>2. QED
    BY <2>1 DEF TabKnows
<1>2. CASE Switched(t)
  BY <1>0, <1>2, TabKnowsOn DEF Switched, SameSavings
<1>3. CASE OpenedSheet(t)
  <2>1. tabs'[t].savings = tabs[t].savings
    BY <1>3 DEF OpenedSheet
  <2>2. tabs'[t].sheet.kind = "goal" =>
            /\ tabs[t].savings.status = "ready"
            /\ tabs'[t].sheet.account \in tabs[t].savings.accounts
    BY <1>3 DEF OpenedSheet, Ready
  <2>3. tabs'[t].sheet.kind = "return" =>
            tabs[t].savings.position = None \/ Readable(tabs[t].savings.position)
    BY <1>3 DEF OpenedSheet
  <2>4. QED
    BY <1>0, <2>1, <2>2, <2>3 DEF TabKnows, KnownPosition, KnownBase, KnownAccount
<1>4. ASSUME tabs'[t].savings = tabs[t].savings, tabs'[t].sheet = NoSheet
      PROVE  TabKnows(tabs[t])'
  <2>1. SameSavings(t) /\ (tabs'[t].savings.status = "ready" => Ready(t))
    BY <1>4 DEF SameSavings, Ready
  <2>2. QED
    BY <1>0, <1>4, <2>1, SheetTypes, TabKnowsOn
<1>5. QED
  BY <1>0, <1>1, <1>2, <1>3, <1>4 DEF Navigated, ClosedSheet, ClosedManager

LEMMA EditKnows ==
    ASSUME TypeInv, NEW t \in Tabs, TabKnows(tabs[t]), Opened(t), Edit(t)
    PROVE  /\ TabKnows(tabs[t])'
           /\ \A c \in calls' : c \in calls \/ CallKnows(c)'
<1>1. PICK kind, id, body, sheet : EditedAs(t, kind, id, body, sheet)
  BY EditSends DEF Edited
<1>2. /\ tabs'[t].savings = tabs[t].savings
      /\ tabs'[t].sheet.kind = tabs[t].sheet.kind
      /\ tabs'[t].sheet.account = tabs[t].sheet.account
  BY <1>1, EditedTab
<1> DEFINE c == With(New(t, kind), id, body)
<1>3. /\ calls' = calls \cup {c} /\ c.status = "sent" /\ c.kind = kind
      /\ c.id = id /\ c.body = body /\ UNCHANGED db
  BY <1>1, SavesKept DEF EditedAs
<1> HIDE DEF c
<1>4. TabKnows(tabs[t])'
  BY <1>2, <1>3, TabKnowsOn DEF SameSavings, Ready
<1>5. kind = "updateAccount" =>
          /\ id = tabs[t].sheet.account.id
          /\ body.base = tabs[t].sheet.account.base
          /\ KnownAccount(tabs[t].sheet.account)
  BY <1>1 DEF EditedAs, TabKnows
<1>6. kind = "updateAccount" => KnownAccount([id |-> c.id, base |-> c.body.base])
  BY <1>3, <1>5 DEF KnownAccount
<1>7. kind = "saveInvestment" => KnownBase(c.body.base)
  <2>1. SUFFICES ASSUME kind = "saveInvestment"
                 PROVE  KnownBase(c.body.base)
    OBVIOUS
  <2>2. /\ tabs[t].sheet.kind = "return"
        /\ c.body.base = BaseOf(tabs[t].savings.position)
    BY <1>1, <1>3, <2>1 DEF EditedAs
  <2>3. tabs[t].savings.status = "ready"
    BY <2>2 DEF Opened, SavingsSheets
  <2>4. /\ KnownPosition(tabs[t].savings.position)
        /\ tabs[t].savings.position = None \/ Readable(tabs[t].savings.position)
    BY <2>2, <2>3 DEF TabKnows
  <2>5. QED
    BY <2>2, <2>4 DEF KnownPosition, BaseOf, Readable
<1>8. CallKnows(c)
  BY <1>3, <1>6, <1>7 DEF CallKnows
<1>9. Remembers
  BY <1>3, StillRemembers, BothTables
<1>10. QED
  BY <1>3, <1>4, <1>8, <1>9, CallRemembers

LEMMA LikeKnows ==
    ASSUME NEW c, NEW k, Like(c, k), CallKnows(k)
    PROVE  CallKnows(c)
BY DEF Like, CallKnows

LEMMA SentKnows ==
    ASSUME NEW c, c.status = "sent", c.kind \notin {"updateAccount", "saveInvestment"}
    PROVE  CallKnows(c)
BY DEF CallKnows

(* Two that know the first position agree on whether it can be read.       *)
LEMMA ReadableKnown ==
    ASSUME NEW p, NEW q, KnownPosition(p), KnownPosition(q), p = None \/ Readable(p)
    PROVE  q = None \/ Readable(q)
<1>1. 0 # Corrupt
  BY NoneAssumption DEF Bases
<1>2. QED
  BY <1>1 DEF KnownPosition, KnownBase, Readable

LEMMA HearKnows ==
    ASSUME TypeInv, NEW k \in calls, CallKnows(k), TabKnows(tabs[k.tab]),
           Opened(k.tab), Hear(k)
    PROVE  TabKnows(tabs[k.tab])'
<1> DEFINE t == k.tab
<1>0. k \in CallsOf(t) /\ UNCHANGED db /\ t \in Tabs
  BY HearKept, CallParts DEF CallsOf
<1>1. ASSUME SameSavings(t),
             \/ /\ tabs'[t].sheet.kind = tabs[t].sheet.kind
                /\ tabs'[t].sheet.account = tabs[t].sheet.account
             \/ tabs'[t].sheet = NoSheet
      PROVE  TabKnows(tabs[t])'
  <2>1. tabs'[t].savings.status = "ready" => Ready(t)
    BY <1>1 DEF SameSavings
  <2>2. QED
    BY <1>0, <1>1, <2>1, SheetTypes, TabKnowsOn
<1>2. CASE HearLoad(k)
  <2>1. PICK tab \in Tab : /\ Becomes(t, tab, Others(k))
                           /\ tab.sheet = tabs[t].sheet
                           /\ tab.savings = tabs[t].savings
    BY <1>2, HearLoadTab
  <2>2. Turns(t, tab)
    BY <1>0, <2>1, BecomesShown
  <2>3. SameSavings(t) /\ tabs'[t].sheet = tabs[t].sheet
    BY <2>1, <2>2 DEF Turns, SameSavings, Ready
  <2>4. QED
    BY <1>1, <2>3
<1>3. CASE HearSavings(k)
  <2>1. k.kind = "loadSavings" /\ tabs'[t].sheet = tabs[t].sheet
    BY <1>3, HearSavingsTab DEF HearSavings
  <2>2. tabs[t].sheet.kind \notin SavingsSheets
    BY <1>0, <2>1 DEF Opened
  <2>3. tabs'[t].sheet.kind \notin {"goal", "return"}
    BY <2>1, <2>2 DEF SavingsSheets
  <2>4. CASE k.status = "ok"
    <3>1. /\ tabs'[t].savings.accounts = k.got.accounts
          /\ tabs'[t].savings.position = k.got.position
      BY <1>3, <2>4, HearSavingsTab
    <3>2. /\ \A a \in k.got.accounts : KnownAccount(a)
          /\ KnownPosition(k.got.position)
      BY <2>1, <2>4 DEF CallKnows
    <3>3. QED
      BY <1>0, <2>3, <3>1, <3>2 DEF TabKnows, KnownPosition, KnownBase, KnownAccount
  <2>5. CASE k.status # "ok"
    <3>1. tabs'[t].savings.status = "error"
      BY <1>3, <2>5, HearSavingsTab
    <3>2. QED
      BY <2>3, <3>1 DEF TabKnows
  <2>6. QED
    BY <2>4, <2>5
<1>4. CASE HearReload(k)
  <2>1. /\ tabs'[t].savings = ReloadedSavings(k) /\ tabs'[t].sheet = ReloadedSheet(k)
        /\ ReloadedSavings(k).status = tabs[t].savings.status
        /\ ReloadedSheet(k) \in {NoSheet, tabs[t].sheet} /\ k.kind \in Reloads
    BY <1>4, HearReloadTab DEF HearReload, Reloads
  <2>2. tabs[t].savings \in SavingsState /\ tabs[t].savings.status = "ready"
    BY <1>0, <2>1, CallParts, TabParts DEF Opened
  <2>3. /\ \A a \in tabs[t].savings.accounts : KnownAccount(a)
        /\ KnownPosition(tabs[t].savings.position)
    BY <2>2 DEF TabKnows
  <2>4. \A a \in ReloadedSavings(k).accounts : KnownAccount(a)
    <3>1. ReloadedSavings(k).accounts =
              IF k.status = "ok" /\ k.kind = "readAccounts" THEN k.got.accounts
              ELSE tabs[t].savings.accounts
      BY <2>1, <2>2 DEF ReloadedSavings, SavingsState, Reloads
    <3>2. QED
      BY <2>3, <3>1 DEF CallKnows
  <2>5. /\ ReloadedSavings(k).position =
               IF k.status = "ok" /\ k.kind = "readInvestment" THEN k.got.position
               ELSE tabs[t].savings.position
        /\ KnownPosition(ReloadedSavings(k).position)
    <3>1. ReloadedSavings(k).position =
              IF k.status = "ok" /\ k.kind = "readInvestment" THEN k.got.position
              ELSE tabs[t].savings.position
      BY <2>1, <2>2 DEF ReloadedSavings, SavingsState, Reloads
    <3>2. QED
      BY <2>3, <3>1 DEF CallKnows
  <2>6. /\ tabs'[t].sheet.kind \in {"goal", "return"} => tabs'[t].sheet = tabs[t].sheet
    BY <2>1, SheetTypes
  <2>7. tabs'[t].sheet.kind = "return" =>
            \/ ReloadedSavings(k).position = None
            \/ Readable(ReloadedSavings(k).position)
    <3>1. SUFFICES ASSUME tabs'[t].sheet.kind = "return"
                   PROVE  \/ ReloadedSavings(k).position = None
                          \/ Readable(ReloadedSavings(k).position)
      OBVIOUS
    <3>2. tabs[t].savings.position = None \/ Readable(tabs[t].savings.position)
      BY <2>6, <3>1 DEF TabKnows
    <3>3. QED
      BY <2>3, <2>5, <3>2, ReadableKnown
  <2>8. tabs'[t].sheet.kind = "goal" => KnownAccount(tabs[t].sheet.account)
    BY <2>6 DEF TabKnows
  <2>9. QED
    BY <1>0, <2>1, <2>4, <2>5, <2>6, <2>7, <2>8
       DEF TabKnows, KnownPosition, KnownBase, KnownAccount
<1>5. CASE HearFailure(k)
  BY <1>1, <1>5, HearFailureTab DEF SameSavings, Ready
<1>6. CASE HearList(k)
  BY <1>1, <1>6, HearListTab DEF SameSavings, Ready
<1>7. CASE Finishes(k)
  BY <1>1, <1>7, FinishesTab DEF SameSavings, Ready
<1>8. CASE UNCHANGED tabs
  BY <1>1, <1>8 DEF SameSavings, Ready
<1>9. QED
  BY <1>2, <1>3, <1>4, <1>5, <1>6, <1>7, <1>8 DEF Hear, HearSheetWrite, EndUnheard,
     HearRows, HearIncome, HearSurplus, HearCategory, Follows

(* Users and answers leave the tables alone.                               *)
LEMMA QuietBases ==
    ASSUME TypeInv, BasesInv, UNCHANGED db, NEW t \in Tabs, TabKnows(tabs[t])',
           \A u \in Tabs \ {t} : tabs'[u] = tabs[u],
           \A c \in calls' : \/ CallKnows(c)'
                             \/ \E k \in calls : Like(c, k)
                             \/ /\ c.status = "sent"
                                /\ c.kind \notin {"updateAccount", "saveInvestment"}
    PROVE  BasesInv'
<1>1. Remembers
  BY StillRemembers, BothTables
<1>2. \A c \in calls' : CallKnows(c)'
  BY <1>1, LikeKnows, SentKnows, CallRemembers DEF BasesInv
<1>3. ASSUME NEW u \in Tabs
      PROVE  TabKnows(tabs[u])'
  <2>1. CASE u = t
    BY <2>1
  <2>2. CASE u # t
    <3>1. PICK tab : tab = tabs[u] /\ tab = tabs'[u]
      BY <2>2
    <3>2. TabKnows(tab)
      BY <3>1 DEF BasesInv
    <3>3. QED
      BY <1>1, <3>1, <3>2, TabRemembers, TabThere
  <2>3. QED
    BY <2>1, <2>2
<1>4. QED
  BY <1>2, <1>3 DEF BasesInv

LEMMA BasesStep ==
    ASSUME TypeInv, TabInv, BasesInv, [Next]_vars
    PROVE  BasesInv' /\ Remembers /\ SameBases
<1>1. \A t \in Tabs : TabKnows(tabs[t]) /\ Opened(t)
  BY DEF BasesInv, TabInv
<1>2. \A k \in calls : CallKnows(k)
  BY DEF BasesInv
<1>3. UNCHANGED db => Remembers /\ SameBases
  BY StillRemembers, BothTables
<1>4. ASSUME NEW t \in Tabs, Navigate(t)
      PROVE  BasesInv' /\ Remembers /\ SameBases
  <2>1. TabKnows(tabs[t])'
    BY <1>1, <1>4, NavigateKnows
  <2>2. UNCHANGED db /\ \A u \in Tabs \ {t} : tabs'[u] = tabs[u]
    BY <1>4, NavigateMoves DEF Moves
  <2>3. \A c \in calls' :
            \/ \E k \in calls : Like(c, k)
            \/ /\ c.status = "sent"
               /\ c.kind \notin {"updateAccount", "saveInvestment"}
    BY <1>4, NavigateKept DEF Keeps, Quiet, Reloads
  <2>4. QED
    BY <1>3, <2>1, <2>2, <2>3, QuietBases
<1>5. ASSUME NEW t \in Tabs, Edit(t)
      PROVE  BasesInv' /\ Remembers /\ SameBases
  <2>1. /\ TabKnows(tabs[t])'
        /\ \A c \in calls' : c \in calls \/ CallKnows(c)'
    BY <1>1, <1>5, EditKnows
  <2>2. UNCHANGED db /\ \A u \in Tabs \ {t} : tabs'[u] = tabs[u]
    BY <1>5, EditMoves, EditSends DEF Edited, EditedAs, Saves
  <2>3. QED
    BY <1>3, <2>1, <2>2, LikeSelf, QuietBases
<1>6. ASSUME NEW k \in calls, Hear(k)
      PROVE  BasesInv' /\ Remembers /\ SameBases
  <2>1. k.tab \in Tabs
    BY CallParts
  <2>2. TabKnows(tabs[k.tab])'
    BY <1>1, <1>2, <1>6, <2>1, HearKnows
  <2>3. UNCHANGED db /\ \A u \in Tabs \ {k.tab} : tabs'[u] = tabs[u]
    BY <1>6, HearMoves DEF Moves
  <2>4. \A c \in calls' :
            \/ \E x \in calls : Like(c, x)
            \/ /\ c.status = "sent"
               /\ c.kind \notin {"updateAccount", "saveInvestment"}
    <3>1. CASE HearRows(k)
      BY <3>1, RowsSends, LikeSelf DEF Others
    <3>2. CASE HearIncome(k) /\ ~Finishes(k)
      BY <3>2, IncomeSends, LikeSelf DEF Others
    <3>3. CASE Finishes(k)
      BY <3>3, NewSent, LikeSelf DEF Finishes, Loads, Others, Fresh
    <3>4. CASE Keeps(k.tab, Quiet)
      BY <3>4 DEF Keeps, Quiet, Reloads
    <3>5. QED
      BY <1>6, <3>1, <3>2, <3>3, <3>4, HearKept
  <2>5. QED
    BY <1>3, <2>1, <2>2, <2>3, <2>4, QuietBases
<1>7. ASSUME NEW k \in calls, Serve(k)
      PROVE  BasesInv' /\ Remembers /\ SameBases
  <2>1. PICK status, got :
            /\ status \in {"ok", "refused", "checked"}
            /\ Answered(k, status, got) /\ UNCHANGED tabs
            /\ Told(k, status, got) \/ Wrote(k, status, got)
    BY <1>2, <1>7, ServeTyped DEF Served
  <2>2. Remembers /\ SameBases
    BY <1>2, <2>1, ServeRemembers
  <2>3. /\ status = "ok" /\ k.kind \in Reads => Reports(k, got)
        /\ status = "checked" /\ k.kind = "saveInvestment" =>
               got = [row |-> First(db.positions)]
    <3>1. CASE Told(k, status, got)
      BY <3>1 DEF Told
    <3>2. CASE Wrote(k, status, got)
      BY <3>2, CallSets DEF Wrote
    <3>3. QED
      BY <2>1, <3>1, <3>2
  <2>4. QED
    BY <2>1, <2>2, <2>3, AnsweredBases DEF Statuses
<1>8. ASSUME NEW k \in calls, Fail(k) \/ LoseAnswer(k)
      PROVE  BasesInv' /\ Remembers /\ SameBases
  <2>1. /\ Answered(k, "failed", k.got) /\ UNCHANGED <<db, tabs>>
        /\ "failed" \in Statuses
    BY <1>8 DEF Fail, LoseAnswer, Statuses
  <2>2. Remembers
    BY <2>1, StillRemembers, BothTables
  <2>3. QED
    BY <1>3, <2>1, <2>2, AnsweredBases
<1>9. CASE UNCHANGED vars
  <2>1. UNCHANGED <<db, tabs, calls>>
    BY <1>9 DEF vars
  <2>2. BasesInv'
    BY <2>1 DEF BasesInv, TabKnows, CallKnows, KnownPosition, KnownBase, KnownAccount
  <2>3. QED
    BY <1>3, <2>1, <2>2
<1>10. QED
  BY <1>4, <1>5, <1>6, <1>7, <1>8, <1>9 DEF Next

LEMMA InitBases == Init => BasesInv
<1>1. SUFFICES ASSUME Init
               PROVE  BasesInv
  OBVIOUS
<1>2. \A t \in Tabs : tabs[t].savings.status = "idle" /\ tabs[t].sheet.kind = "none"
  BY <1>1, NewTab DEF Init
<1>3. \A k \in calls : k.status = "sent" /\ k.kind = "load"
  BY <1>1, NewSent DEF Init, Fresh
<1>4. QED
  BY <1>2, <1>3, SentKnows DEF BasesInv, TabKnows

-----------------------------------------------------------------------------
(* The sums of the savings tab.                                            *)

LEMMA KeyedFinite ==
    ASSUME NEW rows, Keyed(rows), \A row \in rows : row.id \in Id
    PROVE  IsFiniteSet(rows)
<1> DEFINE ids == [row \in rows |-> row.id]
<1>1. ids \in Injection(rows, Id)
  BY DEF Keyed, Injection, IsInjective
<1>2. IsFiniteSet(Id)
  BY StoreAssumption, FS_Interval DEF Id
<1>3. QED
  BY <1>1, <1>2, FS_Injection

LEMMA BasesAreNumbers == Bases \subseteq Int
BY StoreAssumption DEF Bases

(* Contributions to accounts by their names, and what contributions sum to. *)
PutUnder(names) == {c \in Contributions : c.code = SavingsCode /\ c.item \in names}
AmountOf(rows) == SumFunctionOnSet([c \in rows |-> c.amount], rows)

LEMMA ContributionTyped ==
    ASSUME NEW c \in Contributions
    PROVE  c.amount \in Int
<1>1. c \in [code: {SavingsCode, InvestmentCode}, item: Names, amount: Amounts]
  BY StoreAssumption
<1>2. c.amount \in Amounts
  BY <1>1
<1>3. Amounts \subseteq Nat
  BY StoreAssumption
<1>4. c.amount \in Nat
  BY <1>2, <1>3
<1>5. QED
  BY <1>4

LEMMA ContributionSums ==
    ASSUME NEW rows \in SUBSET Contributions
    PROVE  IsFiniteSet(rows) /\ AmountOf(rows) \in Int
<1>1. IsFiniteSet(rows)
  BY StoreAssumption, FS_Subset
<1>2. \A c \in rows : c.amount \in Int
  BY ContributionTyped
<1>3. QED
  BY <1>1, <1>2, SumSteps DEF AmountOf

LEMMA ContributionsJoin ==
    ASSUME NEW rows \in SUBSET Contributions, NEW others \in SUBSET Contributions,
           rows \cap others = {}
    PROVE  AmountOf(rows \cup others) = AmountOf(rows) + AmountOf(others)
<1> DEFINE f == [c \in Contributions |-> c.amount]
<1>1. IsFiniteSet(Contributions) /\ \A c \in Contributions : f[c] \in Int
  BY StoreAssumption, ContributionTyped
<1>2. ASSUME NEW some \in SUBSET Contributions
      PROVE  SumFunctionOnSet(f, some) = AmountOf(some)
  <2>1. IsFiniteSet(some)
    BY ContributionSums
  <2> DEFINE g == [c \in some |-> c.amount]
  <2>2. \A c \in some : g[c] \in Int /\ f[c] = g[c]
    BY <1>1
  <2> HIDE DEF f, g
  <2>3. SumFunctionOnSet(f, some) = SumFunctionOnSet(g, some)
    BY <2>1, <2>2, SumAgrees
  <2>4. QED
    BY <2>3 DEF AmountOf, g
<1> HIDE DEF f
<1>3. SumFunctionOnSet(f, rows \cup others) =
          SumFunctionOnSet(f, rows) + SumFunctionOnSet(f, others)
  BY <1>1, SumUnion
<1>4. QED
  BY <1>2, <1>3

(* What the accounts were given is what was put in under their names, if   *)
(* no two of them share one.                                               *)
LEMMA GivenIsPutIn ==
    ASSUME NEW accounts, IsFiniteSet(accounts), UniquelyNamed(accounts)
    PROVE  LET given == [a \in accounts |-> AmountOf(PutUnder({a.name}))]
           IN  SumFunctionOnSet(given, accounts) =
                   AmountOf(PutUnder({a.name : a \in accounts}))
<1> DEFINE given == [a \in accounts |-> AmountOf(PutUnder({a.name}))]
           Named(T) == {a.name : a \in T}
           Good == {T \in SUBSET accounts :
                       SumFunctionOnSet(given, T) = AmountOf(PutUnder(Named(T)))}
<1>1. \A names : PutUnder(names) \in SUBSET Contributions
  BY DEF PutUnder
<1>2. \A a \in accounts : given[a] \in Int
  BY <1>1, ContributionSums
<1>3. {} \in Good
  <2>1. PutUnder(Named({})) = {}
    BY DEF PutUnder
  <2>2. SumFunctionOnSet(given, {}) = 0
    <3> HIDE DEF given
    <3>1. QED
      BY <1>2, SumTyped
  <2>3. AmountOf({}) = 0
    BY SumSteps, FS_EmptySet DEF AmountOf
  <2>4. QED
    BY <2>1, <2>2, <2>3
<1>4. ASSUME NEW T \in SUBSET accounts, NEW a \in T, T \ {a} \in Good
      PROVE  T \in Good
  <2>1. SumFunctionOnSet(given, T) = given[a] + SumFunctionOnSet(given, T \ {a})
    <3> HIDE DEF given
    <3>1. QED
      BY <1>2, SumTyped
  <2>2. PutUnder(Named(T)) =
            PutUnder({a.name}) \cup PutUnder(Named(T \ {a}))
    BY DEF PutUnder
  <2>3. PutUnder({a.name}) \cap PutUnder(Named(T \ {a})) = {}
    BY DEF PutUnder, UniquelyNamed
  <2>4. AmountOf(PutUnder(Named(T))) =
            AmountOf(PutUnder({a.name})) + AmountOf(PutUnder(Named(T \ {a})))
    <3> HIDE DEF Named
    <3>1. QED
      BY <1>1, <2>2, <2>3, ContributionsJoin
  <2>5. SumFunctionOnSet(given, T \ {a}) = AmountOf(PutUnder(Named(T \ {a})))
    BY <1>4
  <2>6. given[a] = AmountOf(PutUnder({a.name}))
    OBVIOUS
  <2>7. QED
    BY <2>1, <2>4, <2>5, <2>6
<1>5. accounts \in Good
  <2> HIDE DEF Good
  <2>1. QED
    BY <1>3, <1>4, SubsetInduction
<1>6. QED
  BY <1>5

(* What is saved: the bases and what was put in, each once.                *)
LEMMA SavedIs ==
    ASSUME NEW accounts \in SUBSET Account, Keyed(accounts), UniquelyNamed(accounts),
           NEW codes, SavingsCode \in codes
    PROVE  LET bases == Total(LAMBDA a : a.base, accounts)
               given == PutIn({a.name : a \in accounts})
           IN  /\ bases \in Int /\ given \in Int
               /\ SavedTotal(accounts, codes) = bases + given
<1> DEFINE base == [a \in accounts |-> a.base]
           given == [a \in accounts |-> AmountOf(PutUnder({a.name}))]
           both == [a \in accounts |-> a.base + ContributedTo(a.name, codes)]
           names == {a.name : a \in accounts}
<1>1. IsFiniteSet(accounts)
  <2>1. \A a \in accounts : a.id \in Id
    BY DEF Account
  <2>2. QED
    BY <2>1, KeyedFinite
<1>2. \A some : PutUnder(some) \in SUBSET Contributions
  BY DEF PutUnder
<1>3. \A name : ContributedTo(name, codes) = AmountOf(PutUnder({name}))
  <2>1. TAKE name
  <2>2. {c \in Contributions : c.code = SavingsCode /\ c.item = name} =
            PutUnder({name})
    BY DEF PutUnder
  <2>3. QED
    BY <2>2 DEF ContributedTo, Total, AmountOf
<1>4. PutIn(names) = AmountOf(PutUnder(names))
  BY DEF PutIn, Total, AmountOf, PutUnder
<1>5. \A a \in accounts : base[a] \in Int /\ given[a] \in Int
                         /\ both[a] = base[a] + given[a]
  <2>1. TAKE a \in accounts
  <2>2. a.base \in Int
    <3>1. a.base \in Bases
      BY DEF Account
    <3>2. QED
      BY <3>1, BasesAreNumbers
  <2>3. AmountOf(PutUnder({a.name})) \in Int
    BY <1>2, ContributionSums
  <2>4. QED
    BY <1>3, <2>2, <2>3
<1>6. SumFunctionOnSet(both, accounts) =
          SumFunctionOnSet(base, accounts) + SumFunctionOnSet(given, accounts)
  <2> HIDE DEF base, given, both
  <2>1. QED
    BY <1>1, <1>5, SumPlus
<1>7. SumFunctionOnSet(given, accounts) = PutIn(names)
  BY <1>1, <1>4, GivenIsPutIn
<1>8. SumFunctionOnSet(base, accounts) \in Int /\ PutIn(names) \in Int
  <2>1. PutIn(names) \in Int
    BY <1>2, <1>4, ContributionSums
  <2> HIDE DEF base
  <2>2. QED
    BY <1>1, <1>5, <2>1, SumSteps
<1>9. SavedTotal(accounts, codes) = SumFunctionOnSet(both, accounts)
  BY DEF SavedTotal, Total
<1>10. Total(LAMBDA a : a.base, accounts) = SumFunctionOnSet(base, accounts)
  BY DEF Total
<1>11. QED
  BY <1>6, <1>7, <1>8, <1>9, <1>10

(* The investment is worth the same whatever else the page asked for.      *)
LEMMA ValueIs ==
    ASSUME NEW position \in Position \cup {None},
           NEW codes, InvestmentCode \in codes, NEW others, InvestmentCode \in others
    PROVE  /\ InvestmentValue(position, codes) \in Int
           /\ InvestmentValue(position, codes) = InvestmentValue(position, others)
<1> DEFINE put == Contributed(InvestmentCode, codes)
<1>1. put = Contributed(InvestmentCode, others)
  BY DEF Contributed
<1>2. put \in Int
  <2> DEFINE rows == {c \in Contributions : c.code = InvestmentCode}
  <2>1. AmountOf(rows) \in Int
    BY ContributionSums
  <2>2. put = AmountOf(rows)
    BY DEF Contributed, Total, AmountOf
  <2>3. QED
    BY <2>1, <2>2
<1>3. BaseOf(position) \in Int
  BY BaseTyped, BasesAreNumbers
<1> HIDE DEF put
<1> DEFINE principal == BaseOf(position) + put
<1>4. principal \in Int
  BY <1>2, <1>3
<1>5. Readable(position) /\ position.rate # None => position.rate \in {0, 1}
  BY DEF Readable, Position, Rates
<1>6. InvestmentValue(position, codes) =
          IF Readable(position) /\ position.rate # None
          THEN principal * (1 + position.rate) ELSE principal
  BY DEF InvestmentValue, put
<1>7. InvestmentValue(position, others) = InvestmentValue(position, codes)
  BY <1>1, <1>6 DEF InvestmentValue, put
<1> HIDE DEF principal
<1>8. CASE Readable(position) /\ position.rate # None
  <2>1. principal * (1 + position.rate) \in Int
    BY <1>4, <1>5, <1>8
  <2>2. QED
    BY <1>6, <1>7, <1>8, <2>1
<1>9. CASE ~(Readable(position) /\ position.rate # None)
  BY <1>4, <1>6, <1>7, <1>9
<1>10. QED
  BY <1>8, <1>9

(* What was moved into the box and the cash that went in make up all that  *)
(* went in.                                                                *)
LEMMA InIs ==
    ASSUME NEW box \in SUBSET Txn, Keyed(box)
    PROVE  LET cash == Total(LAMBDA x : x.amount,
                             {x \in box : x.type = "in" /\ x.source = "cash"})
           IN  /\ cash \in Int /\ FromSavings(box) \in Int
               /\ InTotal(box) = FromSavings(box) + cash
               /\ OutTotal(box) \in Int
<1> DEFINE f == [x \in box |-> x.amount]
           moved == {x \in box : x.type = "in" /\ x.source = "savings"}
           brought == {x \in box : x.type = "in" /\ x.source = "cash"}
           in == {x \in box : x.type = "in"}
           out == {x \in box : x.type = "out"}
<1>1. IsFiniteSet(box)
  <2>1. \A x \in box : x.id \in Id
    BY DEF Txn
  <2>2. QED
    BY <2>1, KeyedFinite
<1>2. \A x \in box : f[x] \in Int
  <2>1. \A x \in box : x.amount \in Amounts
    BY DEF Txn
  <2>2. Amounts \subseteq Int
    BY StoreAssumption
  <2>3. QED
    BY <2>1, <2>2
<1>3. ASSUME NEW rows \in SUBSET box
      PROVE  /\ Total(LAMBDA x : x.amount, rows) = SumFunctionOnSet(f, rows)
             /\ SumFunctionOnSet(f, rows) \in Int
  <2> DEFINE g == [x \in rows |-> x.amount]
  <2>1. IsFiniteSet(rows) /\ \A x \in rows : f[x] \in Int /\ g[x] = f[x]
    BY <1>1, <1>2, FS_Subset
  <2>2. Total(LAMBDA x : x.amount, rows) = SumFunctionOnSet(g, rows)
    BY DEF Total
  <2> HIDE DEF f, g
  <2>3. SumFunctionOnSet(g, rows) = SumFunctionOnSet(f, rows)
    BY <2>1, SumAgrees
  <2>4. SumFunctionOnSet(f, rows) \in Int
    BY <2>1, SumSteps
  <2>5. QED
    BY <2>2, <2>3, <2>4
<1>4. in = moved \cup brought /\ moved \cap brought = {}
  BY DEF Txn
<1>5. SumFunctionOnSet(f, in) = SumFunctionOnSet(f, moved) + SumFunctionOnSet(f, brought)
  <2>1. moved \in SUBSET box /\ brought \in SUBSET box
    OBVIOUS
  <2> HIDE DEF f, moved, brought, in
  <2>2. QED
    BY <1>1, <1>2, <1>4, <2>1, SumUnion
<1>6. /\ InTotal(box) = SumFunctionOnSet(f, in)
      /\ OutTotal(box) = SumFunctionOnSet(f, out)
      /\ FromSavings(box) = SumFunctionOnSet(f, moved)
      /\ Total(LAMBDA x : x.amount, brought) = SumFunctionOnSet(f, brought)
  <2> HIDE DEF f
  <2>1. QED
    BY <1>3 DEF InTotal, OutTotal, FromSavings
<1>7. /\ SumFunctionOnSet(f, moved) \in Int /\ SumFunctionOnSet(f, brought) \in Int
      /\ SumFunctionOnSet(f, out) \in Int
  <2> HIDE DEF f
  <2>1. QED
    BY <1>3
<1>8. QED
  BY <1>5, <1>6, <1>7

-----------------------------------------------------------------------------
(* The theorems.                                                           *)

Inv ==
    /\ TypeInv
    /\ BudgetInv
    /\ TabInv
    /\ SheetInv
    /\ BasesInv
    /\ FixedInv
    /\ ShownInv

LEMMA InitInv == Init => Inv
<1>1. SUFFICES ASSUME Init
               PROVE  Inv
  OBVIOUS
<1>2. BudgetInv
  <2>1. \A k \in calls : k.kind = "load"
    BY <1>1, NewSent DEF Init, Fresh
  <2>2. QED
    BY <2>1 DEF BudgetInv, Spares
<1>3. QED
  BY <1>1, <1>2, InitTyped, InitTab, InitSheet, InitBases, InitFixed, InitShown DEF Inv

LEMMA NextInv ==
    ASSUME Inv, [Next]_vars
    PROVE  /\ Inv' /\ SameBases
           /\ db.incomes # {} => db'.incomes # {}
           /\ db.positions # {} =>
                  First(db'.positions).id = First(db.positions).id
<1>1. \A k \in calls : CallKnows(k)
  BY DEF Inv, BasesInv
<1>2. TypeInv /\ TypeInv'
  BY <1>1, NextTyped DEF Inv
<1>3. BudgetInv' /\ (db.incomes # {} => db'.incomes # {})
  BY <1>1, <1>2, BudgetStep DEF Inv
<1>4. TabInv' /\ SheetInv' /\ FixedInv' /\ ShownInv'
  BY <1>1, <1>2, TabStep, SheetStep, FixedStep, ShownStep DEF Inv
<1>5. BasesInv' /\ Remembers /\ SameBases
  BY <1>2, BasesStep DEF Inv
<1>6. QED
  BY <1>2, <1>3, <1>4, <1>5 DEF Inv, Remembers

LEMMA Invariance == Spec => []Inv
<1>1. Inv /\ [Next]_vars => Inv'
  BY NextInv
<1>2. QED
  BY <1>1, InitInv, PTL DEF Spec

(* The tables, the tabs and the calls keep their types, ids stay keys, and *)
(* what is taken out of the box has no source but cash.                    *)
THEOREM TypeCorrect == Spec => []TypeOK
<1>1. Inv => TypeOK
  BY DEF Inv, TypeInv
<1>2. QED
  BY <1>1, Invariance, PTL

LEMMA ShownFollows == Inv => ShownIsSaved
<1>1. SUFFICES ASSUME Inv, NEW t \in Tabs, Settled(t)
               PROVE  LET tab == tabs[t]
                      IN  /\ tab.status = "ready" /\ tab.sheet.kind # "category" =>
                                 /\ tab.users = db.users
                                 /\ tab.fixed = db.fixed
                                 /\ tab.incomes = db.incomes
                          /\ tab.savings.status = "ready" =>
                                 /\ tab.savings.accounts = db.accounts
                                 /\ tab.savings.box = db.box
                                 /\ tab.savings.position = First(db.positions)
  BY DEF ShownIsSaved
<1>2. CallsOf(t) = {} /\ ShownAt(t)
  BY <1>1 DEF Settled, Inv, ShownInv
<1>3. /\ \A kinds : ~Writing(t, kinds)
      /\ \A kind : ~Reading(t, kind)
      /\ tabs[t].sheet.kind # "category" => ~Listing(t)
  BY <1>2 DEF Writing, Reading, Listing
<1>4. tabs[t].status = "ready" => tabs[t].incomes = db.incomes
  BY <1>2, <1>3 DEF ShownAt, IncomesShown, Shows
<1>5. tabs[t].status = "ready" /\ tabs[t].sheet.kind # "category" =>
          tabs[t].users = db.users
  BY <1>2, <1>3 DEF ShownAt, UsersShown, Shows
<1>6. tabs[t].status = "ready" => tabs[t].fixed = db.fixed
  BY <1>1 DEF Inv, TypeInv, Asked, FixedInv
<1>7. \A f \in SavingsFields : tabs[t].savings.status = "ready" =>
          tabs[t].savings[f[1]] = Saved(f[1])
  BY <1>2, <1>3 DEF ShownAt, SavingsShown
<1>8. tabs[t].savings.status = "ready" =>
          /\ tabs[t].savings.accounts = db.accounts
          /\ tabs[t].savings.box = db.box
          /\ tabs[t].savings.position = First(db.positions)
  BY <1>7 DEF SavingsFields, Saved
<1>9. QED
  BY <1>4, <1>5, <1>6, <1>8

(* However the saves, their reloads and the navigation of a user come      *)
(* after each other, a page that has come to rest, that was told of no     *)
(* failure and behind whose back nothing was written shows what is saved.  *)
THEOREM RestsOnTheSaved == Spec => []ShownIsSaved
BY Invariance, ShownFollows, PTL

(* No save of a goal or of a return changes a base, not even one made from *)
(* a page that another tab's saves have left behind.                       *)
THEOREM BasesStay == Spec => BasesKept
<1>1. Inv /\ [Next]_vars =>
          [\A table \in {"accounts", "positions"} :
               \A row \in db[table], after \in db'[table] :
                   row.id = after.id => row.base = after.base]_vars
  BY NextInv DEF SameBases
<1>2. QED
  BY <1>1, Invariance, PTL DEF Spec, BasesKept

(* However many saves of a return find no position and create one, the     *)
(* position that is read stays the first of theirs.                        *)
THEOREM FirstPositionStays == Spec => PositionStays
<1>1. Inv /\ [Next]_vars =>
          [db.positions # {} =>
               First(db'.positions).id = First(db.positions).id]_vars
  BY NextInv
<1>2. QED
  BY <1>1, Invariance, PTL DEF Spec, PositionStays

(* The steps of a budget that is saved again never leave it gone, whoever  *)
(* else takes theirs and whichever of them fails.                          *)
THEOREM BudgetStays == Spec => BudgetNotLost
<1>1. Inv /\ [Next]_vars => [db.incomes # {} => db'.incomes # {}]_vars
  BY NextInv
<1>2. QED
  BY <1>1, Invariance, PTL DEF Spec, BudgetNotLost

LEMMA WorthFollows == Inv => WorthIsKept
<1>1. SUFFICES ASSUME Inv, NEW t \in Tabs, Settled(t), OnSavings(t),
                      UniquelyNamed(db.accounts)
               PROVE  NetWorth(tabs[t].savings) = Worth
  BY DEF WorthIsKept
<1> DEFINE savings == tabs[t].savings
           position == First(db.positions)
<1>2. savings.status = "ready"
  BY <1>1 DEF OnSavings
<1>3. /\ savings.accounts = db.accounts
      /\ savings.box = db.box
      /\ savings.position = position
  BY <1>1, <1>2, ShownFollows DEF ShownIsSaved
<1>4. savings.codes = {SavingsCode, InvestmentCode}
  BY <1>1, <1>2 DEF Inv, TypeInv, Asked
<1>5. /\ db.accounts \in SUBSET Account /\ Keyed(db.accounts)
      /\ db.box \in SUBSET Txn /\ Keyed(db.box)
      /\ position \in Position \cup {None}
  <2>1. DataTyped
    BY <1>1 DEF Inv, TypeInv, TypeOK, DataTyped
  <2>2. QED
    BY <2>1, TableTyped, FirstTyped DEF Tables, RowsOf
<1> DEFINE given == PutIn({a.name : a \in db.accounts})
<1>6. /\ Bases0 \in Int /\ given \in Int
      /\ SavedTotal(db.accounts, savings.codes) = Bases0 + given
  BY <1>1, <1>4, <1>5, SavedIs DEF Bases0
<1>7. /\ Cash \in Int /\ FromSavings(db.box) \in Int
      /\ InTotal(db.box) = FromSavings(db.box) + Cash
      /\ OutTotal(db.box) \in Int
  BY <1>5, InIs DEF Cash
<1>8. /\ InvestmentValue(position, savings.codes) \in Int
      /\ InvestmentValue(position, savings.codes) = InvestmentValue(position, Fixed)
  <2>1. InvestmentCode \in Fixed /\ InvestmentCode \in savings.codes
    BY <1>4, StoreAssumption
  <2>2. QED
    BY <1>5, <2>1, ValueIs
<1>9. NetWorth(savings) =
          (SavedTotal(db.accounts, savings.codes) - FromSavings(db.box))
              + InvestmentValue(position, savings.codes)
              + (InTotal(db.box) - OutTotal(db.box))
  BY <1>3 DEF NetWorth, DisplayedSaved, Balance
<1> HIDE DEF savings, position, given
<1>10. Worth = Bases0 + given + InvestmentValue(position, Fixed) + Cash
                   - OutTotal(db.box)
  BY DEF Worth, given, position
<1>11. QED
  BY <1>6, <1>7, <1>8, <1>9, <1>10 DEF savings

(* Whatever users save and however their saves, reloads and failures come  *)
(* after each other: the net worth on a page at rest is the money there    *)
(* is, each account, contribution and movement of cash counted once.       *)
THEOREM WorthStays == Spec => []WorthIsKept
BY Invariance, WorthFollows, PTL
=============================================================================
