------------------------- MODULE VaultClientProofs --------------------------
(***************************************************************************)
(* Proofs about the pages of the vault, for any number of tabs, calls in   *)
(* flight, passwords and sites, and for fields and titles of any sort.     *)
(***************************************************************************)
EXTENDS VaultClientProperties, SequenceTheorems, FiniteSetTheorems,
        WellFoundedInduction, TLAPS

-----------------------------------------------------------------------------
(* The least of a set of numbers.                                          *)

LEMMA Least ==
    ASSUME NEW S, S \subseteq Nat, S # {}
    PROVE  \E n \in S : \A m \in S : n <= m
<1>1. PICK k \in S : TRUE
  OBVIOUS
<1> DEFINE Sets == {0..n : n \in {m \in S : m <= k}}
           A == 0..k
<1>2. IsFiniteSet(A)
  BY FS_Interval
<1>3. Sets \subseteq SUBSET A /\ Sets # {}
  OBVIOUS
<1>4. PICK x \in Sets : \A y \in Sets : y \subseteq x => y = x
  <2>1. IsWellFoundedOn(StrictSubsetOrdering(A), SUBSET A)
    BY <1>2, FS_StrictSubsetOrderingWellFounded, FS_FiniteSubsetsOfFinite
  <2> HIDE DEF Sets, A
  <2>2. PICK x \in Sets :
            \A y \in Sets : <<y, x>> \notin StrictSubsetOrdering(A)
    BY <1>3, <2>1, WFMin
  <2>3. QED
    BY <1>3, <2>2 DEF StrictSubsetOrdering
<1>5. PICK n \in S : n <= k /\ x = 0..n
  OBVIOUS
<1>6. ASSUME NEW m \in S, m < n
      PROVE  FALSE
  <2>1. 0..m \in Sets /\ 0..m \subseteq x
    BY <1>5, <1>6
  <2> HIDE DEF Sets
  <2>2. 0..m = 0..n
    BY <1>4, <1>5, <2>1
  <2>3. n \in 0..m
    BY <1>5, <2>2
  <2>4. QED
    BY <1>6, <2>3
<1>7. QED
  BY <1>6

-----------------------------------------------------------------------------
(* Names and rows.  What is said of the rows up to the i-th is true of the *)
(* first i for which it would not be only if it is of i - 1.               *)

LEMMA Lists ==
    ASSUME NEW S
    PROVE  ListsOf(S) = {seq \in Seq(S) : Len(seq) <= MaxFields}
<1>1. ASSUME NEW seq \in ListsOf(S)
      PROVE  seq \in Seq(S) /\ Len(seq) <= MaxFields
  BY <1>1, ClientAssumption DEF ListsOf
<1>2. ASSUME NEW seq \in Seq(S), Len(seq) <= MaxFields
      PROVE  seq \in ListsOf(S)
  BY <1>2, ClientAssumption DEF ListsOf
<1>3. QED
  BY <1>1, <1>2

(* The rows that NamedUpTo is made of, one after the other.                *)
Counts(upTo, rows, n) ==
    upTo = [i \in 0..n |->
               IF i = 0 THEN <<>>
               ELSE IF rows[i] = None THEN upTo[i - 1]
               ELSE Append(upTo[i - 1], rows[i])]

LEMMA CountsOne ==
    ASSUME NEW upTo, NEW rows, NEW n, Counts(upTo, rows, n), NEW i \in 0..n
    PROVE  upTo[i] = IF i = 0 THEN <<>>
                     ELSE IF rows[i] = None THEN upTo[i - 1]
                     ELSE Append(upTo[i - 1], rows[i])
<1> DEFINE line(j) == IF j = 0 THEN <<>>
                      ELSE IF rows[j] = None THEN upTo[j - 1]
                      ELSE Append(upTo[j - 1], rows[j])
<1>1. upTo = [j \in 0..n |-> line(j)]
  BY DEF Counts
<1>2. upTo[i] = line(i)
  <2> HIDE DEF line
  <2>1. QED
    BY <1>1
<1>3. QED
  BY <1>2

LEMMA NamedExists ==
    ASSUME NEW S, NEW rows \in Seq(S \cup {None})
    PROVE  \E upTo : Counts(upTo, rows, Len(rows))
<1> DEFINE Bad == {n \in 0..Len(rows) : ~\E upTo : Counts(upTo, rows, n)}
<1>1. SUFFICES ASSUME Bad # {} PROVE FALSE
  OBVIOUS
<1>2. PICK n \in Bad : \A m \in Bad : n <= m
  <2> HIDE DEF Bad
  <2>1. Bad \subseteq Nat
    BY DEF Bad
  <2>2. QED
    BY <1>1, <2>1, Least
<1>3. n \in 0..Len(rows) /\ n \in Nat /\ ~\E upTo : Counts(upTo, rows, n)
  OBVIOUS
<1>4. n # 0
  <2>1. Counts([i \in 0..0 |-> <<>>], rows, 0)
    BY DEF Counts
  <2>2. QED
    BY <1>3, <2>1
<1>5. PICK upTo : Counts(upTo, rows, n - 1)
  <2>1. n - 1 \in 0..Len(rows) /\ ~(n <= n - 1)
    BY <1>3, <1>4
  <2>2. n - 1 \notin Bad
    BY <1>2, <2>1
  <2>3. QED
    BY <2>1, <2>2
<1> DEFINE more == [i \in 0..n |->
                       IF i < n THEN upTo[i]
                       ELSE IF rows[n] = None THEN upTo[n - 1]
                       ELSE Append(upTo[n - 1], rows[n])]
           next == [i \in 0..n |->
                       IF i = 0 THEN <<>>
                       ELSE IF rows[i] = None THEN more[i - 1]
                       ELSE Append(more[i - 1], rows[i])]
<1>6. ASSUME NEW i \in 0..n PROVE more[i] = next[i]
  <2>1. CASE i = n
    BY <1>3, <1>4, <2>1
  <2>2. CASE i < n
    <3>1. upTo[i] = IF i = 0 THEN <<>>
                    ELSE IF rows[i] = None THEN upTo[i - 1]
                    ELSE Append(upTo[i - 1], rows[i])
      <4>1. i \in 0..(n - 1)
        BY <1>3, <1>4, <2>2
      <4>2. QED
        BY <1>5, <4>1, CountsOne
    <3>2. i # 0 => more[i - 1] = upTo[i - 1]
      BY <1>3, <2>2
    <3>3. QED
      BY <1>3, <2>2, <3>1, <3>2
  <2>3. QED
    BY <1>3, <2>1, <2>2
<1>7. Counts(more, rows, n)
  BY <1>6 DEF Counts
<1> HIDE DEF more
<1>8. QED
  BY <1>3, <1>7

LEMMA NamedCounts ==
    ASSUME NEW S, NEW rows \in Seq(S \cup {None})
    PROVE  Counts(NamedUpTo(rows), rows, Len(rows))
<1>1. PICK upTo : Counts(upTo, rows, Len(rows))
  BY NamedExists
<1>2. NamedUpTo(rows) = CHOOSE f : Counts(f, rows, Len(rows))
  BY DEF NamedUpTo, Counts
<1>3. QED
  BY <1>1, <1>2

LEMMA NamedType ==
    ASSUME NEW S, None \notin S, NEW rows \in Seq(S \cup {None})
    PROVE  Named(rows) \in Seq(S) /\ Len(Named(rows)) <= Len(rows)
<1> DEFINE upTo == NamedUpTo(rows)
           Good(n) == upTo[n] \in Seq(S) /\ Len(upTo[n]) <= n
           Bad == {n \in 0..Len(rows) : ~Good(n)}
<1>1. ASSUME NEW i \in 0..Len(rows)
      PROVE  upTo[i] = IF i = 0 THEN <<>>
                       ELSE IF rows[i] = None THEN upTo[i - 1]
                       ELSE Append(upTo[i - 1], rows[i])
  <2>1. Counts(NamedUpTo(rows), rows, Len(rows))
    BY NamedCounts
  <2>2. QED
    BY <2>1, CountsOne
<1> HIDE DEF upTo
<1>2. SUFFICES Bad = {}
  <2>1. Len(rows) \in 0..Len(rows)
    OBVIOUS
  <2>2. Bad = {} => Good(Len(rows))
    BY <2>1
  <2>3. QED
    BY <2>2 DEF Named, upTo
<1>3. SUFFICES ASSUME Bad # {} PROVE FALSE
  OBVIOUS
<1>4. PICK n \in Bad : \A m \in Bad : n <= m
  <2> HIDE DEF Bad
  <2>1. Bad \subseteq Nat
    BY DEF Bad
  <2>2. QED
    BY <1>3, <2>1, Least
<1>5. n \in 0..Len(rows) /\ n \in Nat /\ ~Good(n)
  OBVIOUS
<1>6. n # 0
  <2>1. upTo[0] = <<>>
    BY <1>1, <1>5
  <2>2. <<>> \in Seq(S) /\ Len(<<>>) = 0
    OBVIOUS
  <2>3. Good(0)
    BY <2>1, <2>2
  <2>4. QED
    BY <1>5, <2>3
<1>7. Good(n - 1)
  <2>1. n - 1 \in 0..Len(rows) /\ ~(n <= n - 1)
    BY <1>5, <1>6
  <2>2. n - 1 \notin Bad
    BY <1>4, <2>1
  <2>3. QED
    BY <2>1, <2>2
<1>8. /\ upTo[n - 1] \in Seq(S)
      /\ Len(upTo[n - 1]) <= n - 1
  BY <1>7
<1>9. rows[n] \in S \cup {None}
  BY <1>5, <1>6
<1>10. upTo[n] = IF rows[n] = None THEN upTo[n - 1]
                 ELSE Append(upTo[n - 1], rows[n])
  BY <1>1, <1>5, <1>6
<1>11. Good(n)
  <2>1. CASE rows[n] = None
    BY <1>5, <1>8, <1>10, <2>1
  <2>2. CASE rows[n] # None
    <3>1. rows[n] \in S
      BY <1>9, <2>2
    <3>2. QED
      BY <1>5, <1>8, <1>10, <2>2, <3>1, AppendProperties
  <2>3. QED
    BY <2>1, <2>2
<1>12. QED
  BY <1>5, <1>11

(* The content that a form writes.                                         *)
Content(draft) == [title |-> draft.title, fields |-> Named(draft.rows)]

LEMMA NamedList ==
    ASSUME NEW rows \in ListsOf(Fields \cup {None})
    PROVE  Named(rows) \in ListsOf(Fields)
<1>1. rows \in Seq(Fields \cup {None}) /\ Len(rows) <= MaxFields
  BY Lists
<1>2. None \notin Fields
  BY ClientAssumption
<1>3. Named(rows) \in Seq(Fields) /\ Len(Named(rows)) <= Len(rows)
  BY <1>1, <1>2, NamedType
<1>4. Len(Named(rows)) \in Nat /\ Len(rows) \in Nat /\ MaxFields \in Nat
  BY <1>1, <1>3, ClientAssumption
<1>5. Len(Named(rows)) <= MaxFields
  BY <1>1, <1>3, <1>4
<1>6. QED
  BY <1>3, <1>5, Lists

LEMMA ContentType ==
    ASSUME NEW draft \in Drafts, draft.title # None,
           Distinct(Named(draft.rows))
    PROVE  Content(draft) \in Contents
<1>1. draft.title \in Titles /\ draft.rows \in ListsOf(Fields \cup {None})
  BY DEF Drafts
<1>2. QED
  BY <1>1, NamedList DEF Content, Contents

(* What the form does to its rows.                                         *)
LEMMA OneRow == <<None>> \in ListsOf(Fields \cup {None})
<1>1. <<None>> \in Seq(Fields \cup {None}) /\ Len(<<None>>) = 1
  OBVIOUS
<1>2. 1 <= MaxFields
  BY ClientAssumption
<1>3. QED
  BY <1>1, <1>2, Lists, Zenon

LEMMA FieldsAsRows ==
    ASSUME NEW seq \in ListsOf(Fields)
    PROVE  seq \in ListsOf(Fields \cup {None})
<1>1. seq \in Seq(Fields) /\ Len(seq) <= MaxFields
  BY Lists
<1>2. seq \in Seq(Fields \cup {None})
  BY <1>1
<1>3. QED
  BY <1>1, <1>2, Lists

LEMMA AppendList ==
    ASSUME NEW S, NEW seq \in ListsOf(S), NEW e \in S, Len(seq) < MaxFields
    PROVE  Append(seq, e) \in ListsOf(S)
<1>1. seq \in Seq(S)
  BY Lists
<1>2. Append(seq, e) \in Seq(S) /\ Len(Append(seq, e)) = Len(seq) + 1
  BY <1>1, AppendProperties
<1>3. Len(seq) \in Nat /\ MaxFields \in Nat
  BY <1>1, ClientAssumption
<1>4. Len(Append(seq, e)) <= MaxFields
  BY <1>2, <1>3
<1>5. QED
  BY <1>2, <1>4, Lists

LEMMA UpdateList ==
    ASSUME NEW S, NEW seq \in ListsOf(S), NEW i, NEW e \in S
    PROVE  [seq EXCEPT ![i] = e] \in ListsOf(S)
<1>1. PICK n \in 0..MaxFields : seq \in [1..n -> S]
  BY DEF ListsOf
<1>2. [seq EXCEPT ![i] = e] \in [1..n -> S]
  BY <1>1
<1>3. QED
  BY <1>2 DEF ListsOf

LEMMA RemoveAtList ==
    ASSUME NEW S, NEW seq \in ListsOf(S), NEW i \in DOMAIN seq
    PROVE  /\ RemoveAt(seq, i) \in ListsOf(S)
           /\ Distinct(seq) => Distinct(RemoveAt(seq, i))
<1>1. seq \in Seq(S) /\ Len(seq) <= MaxFields /\ MaxFields \in Nat
  BY Lists, ClientAssumption
<1>2. i \in 1..Len(seq) /\ Len(seq) \in Nat
  BY <1>1
<1> DEFINE before == SubSeq(seq, 1, i - 1)
           after == SubSeq(seq, i + 1, Len(seq))
<1>3. before \in Seq(S) /\ Len(before) = i - 1
  BY <1>1, <1>2
<1>4. after \in Seq(S) /\ Len(after) = Len(seq) - i
  BY <1>1, <1>2
<1>5. \A j \in 1..(i - 1) : before[j] = seq[j]
  BY <1>1, <1>2
<1>6. \A j \in 1..(Len(seq) - i) : after[j] = seq[j + i]
  BY <1>1, <1>2
<1> DEFINE left == before \o after
<1> HIDE DEF before, after
<1>7. left \in Seq(S) /\ Len(left) = Len(seq) - 1
  BY <1>1, <1>2, <1>3, <1>4
<1>8. \A j \in 1..Len(left) : left[j] = seq[IF j < i THEN j ELSE j + 1]
  <2>1. SUFFICES ASSUME NEW j \in 1..Len(left)
                 PROVE  left[j] = seq[IF j < i THEN j ELSE j + 1]
    OBVIOUS
  <2>2. CASE j < i
    <3>1. j \in 1..Len(before)
      BY <1>2, <1>3, <1>7, <2>1, <2>2
    <3>2. left[j] = before[j]
      BY <1>3, <1>4, <3>1, ConcatProperties
    <3>3. QED
      BY <1>2, <1>3, <1>5, <2>2, <3>1, <3>2
  <2>3. CASE ~(j < i)
    <3>1. j \in 1..(Len(before) + Len(after)) /\ ~(j <= Len(before))
      BY <1>2, <1>3, <1>4, <1>7, <2>1, <2>3
    <3>2. left[j] = after[j - Len(before)]
      BY <1>3, <1>4, <3>1
    <3>3. j - Len(before) \in 1..(Len(seq) - i) /\ j - Len(before) + i = j + 1
      <4>1. j \in Nat /\ i <= j /\ j <= Len(seq) - 1
        BY <1>2, <1>7, <2>1, <2>3
      <4>2. QED
        BY <1>2, <1>3, <4>1
    <3>4. after[j - Len(before)] = seq[j + 1]
      BY <1>6, <3>3
    <3>5. QED
      BY <2>3, <3>2, <3>4
  <2>4. QED
    BY <2>2, <2>3
<1>9. RemoveAt(seq, i) = left
  BY DEF RemoveAt, before, after
<1> HIDE DEF left
<1>10. left \in ListsOf(S)
  BY <1>1, <1>2, <1>7, Lists
<1>11. ASSUME Distinct(seq), NEW j \in DOMAIN left, NEW k \in DOMAIN left, j # k
       PROVE  left[j] # left[k]
  <2>1. DOMAIN left = 1..Len(left) /\ DOMAIN seq = 1..Len(seq)
    BY <1>1, <1>7
  <2> DEFINE a == IF j < i THEN j ELSE j + 1
             b == IF k < i THEN k ELSE k + 1
  <2>2. a \in DOMAIN seq /\ b \in DOMAIN seq /\ a # b
    BY <1>1, <1>2, <1>7, <1>11, <2>1
  <2>3. left[j] = seq[a] /\ left[k] = seq[b]
    BY <1>8, <2>1
  <2> HIDE DEF a, b
  <2>4. QED
    BY <1>11, <2>2, <2>3 DEF Distinct
<1>12. QED
  BY <1>9, <1>10, <1>11 DEF Distinct

-----------------------------------------------------------------------------
(* The inductive invariant behind the types: what a page has in memory     *)
(* when it shows or edits a password, what each call carries, what its     *)
(* answer brings, and which page a write belongs to.                       *)

FormPage(tab) ==
    \/ tab.page = "new" /\ tab.hook \in Sites
    \/ tab.page = "detail"

TabFits(tab) ==
    /\ tab.page = "detail" => tab.view.id \in Secrets
    /\ tab.view.status # "idle" => tab.page = "detail"
    /\ tab.view.status = "loaded" => tab.view.body \in Bodies
    /\ tab.list.status = "loaded" => tab.page = "list" /\ tab.hook \in Sites
    /\ tab.form.step # "closed" => FormPage(tab)
    /\ tab.form.step = "review" => Content(tab.form.draft) \in Bodies

Edits == {"saveSecret", "deleteField", "deleteSecret"}

(* A call whose page is there is of that page; what a page reads is heard  *)
(* by it or by nobody.                                                     *)
AtHome(k, tab) ==
    /\ k.kind \in PageReads => k.live
    /\ k.live =>
        /\ k.kind = "createSecret" => tab.page = "new" /\ tab.hook \in Sites
        /\ k.kind \in Edits => tab.page = "detail"
        /\ k.kind = "import" => tab.page = "backup"
        /\ k.kind \in {"listSecrets", "search"} =>
               tab.page = "list" /\ tab.hook \in Sites
        /\ k.kind = "detail" => tab.page = "detail"

Carries(k) ==
    /\ k.kind = "detail" => k.secret \in Secrets
    /\ k.kind = "createSecret" => k.site \in Sites
    /\ k.kind \in {"createSecret", "saveSecret", "deleteField"} =>
           k.body \in Bodies
    /\ k.kind = "import" => k.file \in File /\ k.mode \in Modes

Succeeded(k) == k.answer # None /\ k.answer.status = "ok"

Brings(table, k) ==
    Succeeded(k) =>
        /\ k.kind \in SiteCalls => k.answer.ids \subseteq Ids(table)
        /\ k.kind \in {"listSecrets", "search"} =>
               k.answer.ids \subseteq Secrets
        /\ k.kind = "detail" => k.answer.row \in SecretRow
        /\ k.kind = "export" => k.answer.file \in File

CallFits(table, k, tab) ==
    /\ k \in Call
    /\ AtHome(k, tab)
    /\ Carries(k)
    /\ Brings(table, k)

TypeInv ==
    /\ TypeOK
    /\ \A t \in Tabs : TabFits(tabs[t])
    /\ \A k \in calls : CallFits(sites, k, tabs[k.tab])

-----------------------------------------------------------------------------
(* Calls.                                                                  *)

(* A call that has just been made.                                         *)
Asked(k, t, kind) ==
    /\ k \in Call
    /\ k.tab = t
    /\ k.kind = kind
    /\ k.live
    /\ k.answer = None

LEMMA NewCall ==
    ASSUME NEW t \in Tabs, NEW kind \in Kinds
    PROVE  Asked(New(t, kind), t, kind)
BY DEF New, Asked, Call

LEMMA SiteCall ==
    ASSUME NEW t \in Tabs, NEW kind \in Kinds, NEW s \in Sites \cup {None}
    PROVE  /\ Asked([New(t, kind) EXCEPT !.site = s], t, kind)
           /\ [New(t, kind) EXCEPT !.site = s].site = s
BY DEF New, Asked, Call

LEMMA TermCall ==
    ASSUME NEW t \in Tabs, NEW kind \in Kinds, NEW term \in Terms \cup {None}
    PROVE  /\ Asked([New(t, kind) EXCEPT !.term = term], t, kind)
           /\ [New(t, kind) EXCEPT !.term = term].term = term
BY DEF New, Asked, Call

LEMMA SecretCall ==
    ASSUME NEW t \in Tabs, NEW kind \in Kinds, NEW x \in Secrets \cup {None}
    PROVE  /\ Asked([New(t, kind) EXCEPT !.secret = x], t, kind)
           /\ [New(t, kind) EXCEPT !.secret = x].secret = x
BY DEF New, Asked, Call

LEMMA BodyCall ==
    ASSUME NEW k, NEW t, NEW kind, Asked(k, t, kind), NEW body \in Bodies
    PROVE  /\ Asked([k EXCEPT !.body = body], t, kind)
           /\ [k EXCEPT !.body = body].body = body
           /\ [k EXCEPT !.body = body].site = k.site
           /\ [k EXCEPT !.body = body].secret = k.secret
BY DEF Asked, Call

LEMMA LoadIsCall ==
    ASSUME NEW t \in Tabs, NEW s \in Sites, NEW query \in Terms \cup {None}
    PROVE  Asked(LoadCall(t, s, query), t,
                 IF query = None THEN "listSecrets" ELSE "search")
BY SiteCall, TermCall DEF LoadCall, Kinds, Writes

(* A call with an answer, and one whose page has gone, is else the same.   *)
SameCall(j, k) ==
    /\ j.tab = k.tab
    /\ j.kind = k.kind
    /\ j.site = k.site
    /\ j.secret = k.secret
    /\ j.term = k.term
    /\ j.body = k.body
    /\ j.file = k.file
    /\ j.mode = k.mode

LEMMA AnsweredCall ==
    ASSUME NEW k \in Call, NEW answer \in Answer \cup {None}
    PROVE  LET j == [k EXCEPT !.answer = answer]
           IN  /\ j \in Call
               /\ SameCall(j, k)
               /\ j.live = k.live
               /\ j.answer = answer
BY DEF Call, SameCall

LEMMA LeftCall ==
    ASSUME NEW k \in Call, NEW still \in BOOLEAN
    PROVE  LET j == [k EXCEPT !.live = still]
           IN  /\ j \in Call
               /\ SameCall(j, k)
               /\ j.live = still
               /\ j.answer = k.answer
BY DEF Call, SameCall

LEMMA CallFields ==
    ASSUME NEW k \in Call
    PROVE  /\ k.tab \in Tabs
           /\ k.kind \in Kinds
           /\ k.live \in BOOLEAN
           /\ k.site \in Sites \cup {None}
           /\ k.secret \in Secrets \cup {None}
           /\ k.term \in Terms \cup {None}
           /\ k.body \in Bodies \cup {None}
           /\ k.file \in File \cup {None}
           /\ k.mode \in Modes \cup {None}
           /\ k.answer \in Answer \cup {None}
BY DEF Call

(* A call fits in a tab that stays on its page and with its site.          *)
Follows(old, new) ==
    /\ new.page = old.page
    /\ old.hook \in Sites => new.hook = old.hook

LEMMA FollowsFits ==
    ASSUME NEW table, NEW old, NEW new, Follows(old, new),
           NEW k, CallFits(table, k, old)
    PROVE  CallFits(table, k, new)
BY DEF CallFits, AtHome, Follows

LEMMA NewFits ==
    ASSUME NEW table, NEW tab, NEW k, NEW t, NEW kind, Asked(k, t, kind),
           Carries(k), AtHome(k, tab)
    PROVE  CallFits(table, k, tab)
BY DEF CallFits, Asked, Brings, Succeeded

-----------------------------------------------------------------------------
(* What a step changes in a tab.                                           *)

WithForm(tab, form) == [tab EXCEPT !.form = form]
WithView(tab, view) == [tab EXCEPT !.view = view]
WithList(tab, list) == [tab EXCEPT !.list = list]
WithPanel(tab, panel) == [tab EXCEPT !.panel = panel]
WithSite(tab, hook, cache) == [tab EXCEPT !.hook = hook, !.cache = cache]

SamePage(new, old) ==
    /\ new.page = old.page
    /\ new.hook = old.hook
    /\ new.cache = old.cache

LEMMA FormSet ==
    ASSUME NEW tab \in Tab, NEW form \in Form
    PROVE  LET new == WithForm(tab, form)
           IN  /\ new \in Tab
               /\ SamePage(new, tab)
               /\ new.form = form
               /\ new.view = tab.view
               /\ new.list = tab.list
               /\ new.panel = tab.panel
BY DEF Tab, WithForm, SamePage

LEMMA ViewSet ==
    ASSUME NEW tab \in Tab, NEW view \in View
    PROVE  LET new == WithView(tab, view)
           IN  /\ new \in Tab
               /\ SamePage(new, tab)
               /\ new.form = tab.form
               /\ new.view = view
               /\ new.list = tab.list
               /\ new.panel = tab.panel
BY DEF Tab, WithView, SamePage

LEMMA ListSet ==
    ASSUME NEW tab \in Tab, NEW list \in List
    PROVE  LET new == WithList(tab, list)
           IN  /\ new \in Tab
               /\ SamePage(new, tab)
               /\ new.form = tab.form
               /\ new.view = tab.view
               /\ new.list = list
               /\ new.panel = tab.panel
BY DEF Tab, WithList, SamePage

LEMMA PanelSet ==
    ASSUME NEW tab \in Tab, NEW panel \in Panel
    PROVE  LET new == WithPanel(tab, panel)
           IN  /\ new \in Tab
               /\ SamePage(new, tab)
               /\ new.form = tab.form
               /\ new.view = tab.view
               /\ new.list = tab.list
               /\ new.panel = panel
BY DEF Tab, WithPanel, SamePage

LEMMA SiteSet ==
    ASSUME NEW tab \in Tab,
           NEW hook \in Sites \cup {"off", "loading", "error"},
           NEW cache \in Sites \cup {None, "pending"}
    PROVE  LET new == WithSite(tab, hook, cache)
           IN  /\ new \in Tab
               /\ new.page = tab.page
               /\ new.hook = hook
               /\ new.cache = cache
               /\ new.form = tab.form
               /\ new.view = tab.view
               /\ new.list = tab.list
               /\ new.panel = tab.panel
BY DEF Tab, WithSite

LEMMA DraftSet ==
    ASSUME NEW form \in Form, NEW draft \in Drafts
    PROVE  LET new == [form EXCEPT !.draft = draft]
           IN  /\ new \in Form
               /\ new.step = form.step
               /\ new.draft = draft
               /\ new.submitting = form.submitting
BY DEF Form

LEMMA FormFields ==
    ASSUME NEW form \in Form
    PROVE  /\ form.step \in {"closed", "edit", "review"}
           /\ form.draft \in Drafts
           /\ form.submitting \in BOOLEAN
           /\ \A step \in {"closed", "edit", "review"} :
                  /\ [form EXCEPT !.step = step] \in Form
                  /\ [form EXCEPT !.step = step].step = step
                  /\ [form EXCEPT !.step = step].draft = form.draft
                  /\ [form EXCEPT !.step = step].submitting = form.submitting
BY DEF Form

LEMMA TabFields ==
    ASSUME NEW tab \in Tab
    PROVE  /\ tab.page \in Pages
           /\ tab.cache \in Sites \cup {None, "pending"}
           /\ tab.hook \in Sites \cup {"off", "loading", "error"}
           /\ tab.list \in List
           /\ tab.view \in View
           /\ tab.form \in Form
           /\ tab.panel \in Panel
BY DEF Tab

LEMMA ViewFields ==
    ASSUME NEW view \in View
    PROVE  /\ view.id \in Secrets \cup {None}
           /\ view.status \in Loading
           /\ view.body \in Bodies \cup {None}
           /\ view.mode \in {"view", "edit"}
           /\ view.deleting \in BOOLEAN
           /\ view.fieldBusy \in BOOLEAN
BY DEF View

SameShown(new, old) ==
    /\ new.id = old.id
    /\ new.status = old.status
    /\ new.body = old.body

LEMMA ModeSet ==
    ASSUME NEW view \in View, NEW mode \in {"view", "edit"}
    PROVE  LET new == [view EXCEPT !.mode = mode]
           IN  /\ new \in View
               /\ SameShown(new, view)
               /\ new.mode = mode
               /\ new.deleting = view.deleting
               /\ new.fieldBusy = view.fieldBusy
BY DEF View, SameShown

LEMMA DeletingSet ==
    ASSUME NEW view \in View, NEW b \in BOOLEAN
    PROVE  LET new == [view EXCEPT !.deleting = b]
           IN  /\ new \in View
               /\ SameShown(new, view)
               /\ new.mode = view.mode
               /\ new.deleting = b
               /\ new.fieldBusy = view.fieldBusy
BY DEF View, SameShown

LEMMA FieldBusySet ==
    ASSUME NEW view \in View, NEW b \in BOOLEAN
    PROVE  LET new == [view EXCEPT !.fieldBusy = b]
           IN  /\ new \in View
               /\ SameShown(new, view)
               /\ new.mode = view.mode
               /\ new.deleting = view.deleting
               /\ new.fieldBusy = b
BY DEF View, SameShown

LEMMA StatusSet ==
    ASSUME NEW view \in View, NEW status \in Loading
    PROVE  LET new == [view EXCEPT !.status = status]
           IN  /\ new \in View
               /\ new.id = view.id
               /\ new.status = status
               /\ new.body = view.body
               /\ new.mode = view.mode
               /\ new.deleting = view.deleting
               /\ new.fieldBusy = view.fieldBusy
BY DEF View, SameShown

-----------------------------------------------------------------------------
(* The types are kept by a step of one tab that stays on its page.         *)

Moves(t, tab, more) ==
    /\ tabs' = [tabs EXCEPT ![t] = tab]
    /\ calls' \subseteq calls \cup more
    /\ UNCHANGED <<sites, secrets>>
    /\ exported' \in File \cup {None}
    /\ doubt' \subseteq Tabs

LEMMA TabStep ==
    ASSUME TypeInv, NEW t \in Tabs, NEW tab \in Tab,
           TabFits(tab), Follows(tabs[t], tab),
           NEW more, \A k \in more : CallFits(sites, k, tab) /\ k.tab = t,
           Moves(t, tab, more)
    PROVE  TypeInv'
<1> USE DEF Moves
<1>1. tabs \in [Tabs -> Tab] /\ calls \subseteq Call
  BY DEF TypeInv, TypeOK
<1>2. tabs' \in [Tabs -> Tab] /\ tabs'[t] = tab
  BY <1>1
<1>3. \A u \in Tabs : u # t => tabs'[u] = tabs[u]
  BY <1>1
<1>4. ASSUME NEW u \in Tabs PROVE TabFits(tabs'[u])
  BY <1>2, <1>3 DEF TypeInv
<1>5. ASSUME NEW k \in calls' PROVE CallFits(sites', k, tabs'[k.tab])
  <2>1. CASE k \in more
    BY <1>2, <2>1
  <2>2. CASE k \in calls
    <3>1. CallFits(sites, k, tabs[k.tab]) /\ k.tab \in Tabs
      BY <1>1, <2>2, CallFields DEF TypeInv
    <3>2. CASE k.tab = t
      BY <1>2, <3>1, <3>2, FollowsFits
    <3>3. CASE k.tab # t
      BY <1>3, <3>1, <3>3
    <3>4. QED
      BY <3>2, <3>3
  <2>3. QED
    BY <2>1, <2>2
<1>6. calls' \subseteq Call
  BY <1>5 DEF CallFits
<1>7. TypeOK'
  BY <1>2, <1>6 DEF TypeInv, TypeOK
<1>8. QED
  BY <1>4, <1>5, <1>7 DEF TypeInv

(* A step that types into a form or turns its page.                        *)
Types(t) ==
    /\ tabs[t].form.step # "closed"
    /\ ~Writing(t)
    /\ \E form \in Form :
           /\ form.step # "closed"
           /\ form.step = "review" => Content(form.draft) \in Bodies
           /\ form.submitting = tabs[t].form.submitting
           /\ Shows(t, form)

LEMMA DraftTyped ==
    ASSUME TypeInv, NEW t \in Tabs, Editing(t), NEW draft \in Drafts,
           Draws(t, draft)
    PROVE  Types(t)
<1>1. tabs[t].form \in Form
  BY TabFields DEF TypeInv, TypeOK
<1>2. tabs[t].form.step = "edit" /\ ~Writing(t)
  BY DEF Editing
<1> DEFINE form == [tabs[t].form EXCEPT !.draft = draft]
<1>3. form \in Form /\ form.step = "edit"
      /\ form.submitting = tabs[t].form.submitting
  BY <1>1, <1>2, DraftSet
<1>4. Shows(t, form)
  BY DEF Draws
<1> HIDE DEF form
<1>5. QED
  BY <1>2, <1>3, <1>4 DEF Types

LEMMA DraftFields ==
    ASSUME NEW draft \in Drafts
    PROVE  /\ draft.title \in Titles \cup {None}
           /\ draft.rows \in ListsOf(Fields \cup {None})
           /\ \A title \in Titles \cup {None} :
                  [draft EXCEPT !.title = title] \in Drafts
           /\ \A rows \in ListsOf(Fields \cup {None}) :
                  [draft EXCEPT !.rows = rows] \in Drafts
BY DEF Drafts

FormStep(t) ==
    \/ \E name \in Titles \cup {None} : ChangeLabel(t, name)
    \/ \E name \in Fields \cup {None} : AddRow(t, name)
    \/ \E i \in 1..MaxFields, name \in Fields \cup {None} :
           UpdateRow(t, i, name)
    \/ \E i, target \in 1..MaxFields : RemoveRow(t, i) \/ MoveRow(t, i, target)
    \/ GoReview(t) \/ BackToEdit(t)

LEMMA FormSteps ==
    ASSUME TypeInv, NEW t \in Tabs, FormStep(t)
    PROVE  Types(t)
<1> DEFINE draft == tabs[t].form.draft
<1>1. /\ tabs[t].form \in Form
      /\ draft \in Drafts
      /\ draft.rows \in ListsOf(Fields \cup {None})
  BY TabFields, FormFields, DraftFields DEF TypeInv, TypeOK
<1>2. Draft(t) = draft
  BY DEF Draft
<1>3. ASSUME NEW rows \in ListsOf(Fields \cup {None}), Editing(t),
             Draws(t, [draft EXCEPT !.rows = rows])
      PROVE  Types(t)
  BY <1>1, <1>3, DraftFields, DraftTyped
<1> HIDE DEF draft
<1>4. ASSUME NEW name \in Titles \cup {None}, ChangeLabel(t, name)
      PROVE  Types(t)
  BY <1>1, <1>2, <1>4, DraftFields, DraftTyped DEF ChangeLabel
<1>5. ASSUME NEW name \in Fields \cup {None}, AddRow(t, name)
      PROVE  Types(t)
  BY <1>1, <1>2, <1>3, <1>5, AppendList DEF AddRow
<1>6. ASSUME NEW i \in 1..MaxFields, NEW name \in Fields \cup {None},
             UpdateRow(t, i, name)
      PROVE  Types(t)
  <2>1. [draft.rows EXCEPT ![i] = name] \in ListsOf(Fields \cup {None})
    BY <1>1, <1>6, UpdateList
  <2>2. Draws(t, [draft EXCEPT !.rows = [draft.rows EXCEPT ![i] = name]])
    BY <1>1, <1>2, <1>6 DEF UpdateRow, Drafts
  <2>3. Editing(t)
    BY <1>6 DEF UpdateRow
  <2>4. QED
    BY <1>3, <2>1, <2>2, <2>3
<1>7. ASSUME NEW i, RemoveRow(t, i) PROVE Types(t)
  <2>1. i \in DOMAIN draft.rows /\ Editing(t)
        /\ Draws(t, [draft EXCEPT !.rows = RemoveAt(draft.rows, i)])
    BY <1>2, <1>7 DEF RemoveRow
  <2>2. QED
    BY <1>1, <1>3, <2>1, RemoveAtList
<1>8. ASSUME NEW i, NEW target, MoveRow(t, i, target) PROVE Types(t)
  <2> DEFINE one == [draft.rows EXCEPT ![i] = draft.rows[target]]
             both == [draft.rows EXCEPT ![i] = draft.rows[target],
                                        ![target] = draft.rows[i]]
  <2>1. /\ i \in DOMAIN draft.rows
        /\ target \in DOMAIN draft.rows
        /\ Editing(t)
        /\ Draws(t, [draft EXCEPT !.rows = both])
    BY <1>2, <1>8 DEF MoveRow
  <2>2. PICK n \in 0..MaxFields : draft.rows \in [1..n -> Fields \cup {None}]
    BY <1>1 DEF ListsOf
  <2>3. both \in [1..n -> Fields \cup {None}]
    BY <2>1, <2>2
  <2>4. both \in ListsOf(Fields \cup {None})
    BY <2>3 DEF ListsOf
  <2> HIDE DEF both
  <2>5. QED
    BY <1>3, <2>1, <2>4
<1>9. ASSUME GoReview(t) PROVE Types(t)
  <2> DEFINE form == [tabs[t].form EXCEPT !.step = "review"]
  <2>1. form \in Form /\ form.step = "review" /\ form.draft = draft
        /\ form.submitting = tabs[t].form.submitting
    BY <1>1, FormFields DEF draft
  <2>2. Content(draft) \in Bodies
    BY <1>1, <1>2, <1>9, ContentType, ClientAssumption DEF GoReview
  <2>3. Shows(t, form) /\ ~Writing(t) /\ tabs[t].form.step = "edit"
    BY <1>9 DEF GoReview, Editing
  <2> HIDE DEF form
  <2>4. QED
    BY <2>1, <2>2, <2>3 DEF Types
<1>10. ASSUME BackToEdit(t) PROVE Types(t)
  <2> DEFINE form == [tabs[t].form EXCEPT !.step = "edit"]
  <2>1. form \in Form /\ form.step = "edit"
        /\ form.submitting = tabs[t].form.submitting
    BY <1>1, FormFields
  <2>2. Shows(t, form) /\ ~Writing(t) /\ tabs[t].form.step = "review"
    BY <1>10 DEF BackToEdit
  <2> HIDE DEF form
  <2>3. QED
    BY <2>1, <2>2 DEF Types
<1>11. QED
  BY <1>4, <1>5, <1>6, <1>7, <1>8, <1>9, <1>10 DEF FormStep

LEMMA TypesKeepsTypes ==
    ASSUME TypeInv, NEW t \in Tabs, Types(t)
    PROVE  TypeInv'
<1>1. PICK form \in Form :
          /\ form.step # "closed"
          /\ form.step = "review" => Content(form.draft) \in Bodies
          /\ Shows(t, form)
  BY DEF Types
<1>2. tabs[t] \in Tab /\ TabFits(tabs[t]) /\ tabs[t].form.step # "closed"
  BY DEF Types, TypeInv, TypeOK
<1> DEFINE tab == WithForm(tabs[t], form)
<1>3. tabs' = [tabs EXCEPT ![t] = tab]
  BY <1>1 DEF Shows, WithForm
<1>4. /\ tab \in Tab
      /\ SamePage(tab, tabs[t])
      /\ tab.form = form
      /\ tab.view = tabs[t].view
      /\ tab.list = tabs[t].list
  BY <1>2, FormSet
<1> HIDE DEF tab
<1>5. TabFits(tab) /\ Follows(tabs[t], tab)
  BY <1>1, <1>2, <1>4 DEF TabFits, FormPage, SamePage, Follows
<1>6. UNCHANGED <<sites, secrets, calls, exported, doubt>>
  BY <1>1 DEF Shows, tables
<1>7. Moves(t, tab, {})
  BY <1>3, <1>6 DEF Moves, TypeInv, TypeOK
<1>8. QED
  BY <1>4, <1>5, <1>7, TabStep

(* The other steps of a user: what becomes of the tab.                     *)

LEMMA ListFields ==
    ASSUME NEW list \in List
    PROVE  /\ list.query \in Terms \cup {None}
           /\ list.status \in Loading
           /\ list.items \in SUBSET Secrets
BY DEF List

LEMMA SearchTab ==
    ASSUME TypeInv, NEW t \in Tabs, NEW query \in Terms \cup {None},
           Search(t, query)
    PROVE  \E list \in List :
               /\ list.query = query
               /\ list.status # "loaded"
               /\ tabs' = [tabs EXCEPT ![t] = WithList(tabs[t], list)]
<1>1. tabs[t] \in Tab /\ TabFits(tabs[t]) /\ tabs \in [Tabs -> Tab]
  BY DEF TypeInv, TypeOK
<1>2. tabs[t].list \in List
  BY <1>1, TabFields
<1>3. CASE tabs[t].hook = "loading"
           /\ tabs' = [tabs EXCEPT ![t].list.query = query]
  <2> DEFINE list == [tabs[t].list EXCEPT !.query = query]
  <2>1. list \in List /\ list.query = query
        /\ list.status = tabs[t].list.status
    BY <1>2 DEF List
  <2>2. tabs[t].hook \notin Sites
    BY <1>3, ClientAssumption
  <2>3. list.status # "loaded"
    BY <1>1, <2>1, <2>2 DEF TabFits
  <2>4. tabs' = [tabs EXCEPT ![t] = WithList(tabs[t], list)]
    BY <1>1, <1>3 DEF WithList
  <2> HIDE DEF list
  <2>5. QED
    BY <2>1, <2>3, <2>4
<1>4. CASE tabs' = [tabs EXCEPT ![t].list.query = query,
                                ![t].list.status = "loading"]
  <2> DEFINE list == [tabs[t].list EXCEPT !.query = query,
                                          !.status = "loading"]
  <2>1. list \in List /\ list.query = query /\ list.status = "loading"
    BY <1>2 DEF List, Loading
  <2>2. tabs' = [tabs EXCEPT ![t] = WithList(tabs[t], list)]
    BY <1>1, <1>4 DEF WithList
  <2> HIDE DEF list
  <2>3. QED
    BY <2>1, <2>2
<1>5. QED
  BY <1>3, <1>4 DEF Search

LEMMA SearchTypes ==
    ASSUME TypeInv, NEW t \in Tabs, NEW query \in Terms \cup {None},
           Search(t, query)
    PROVE  TypeInv'
<1>1. PICK list \in List :
          /\ list.status # "loaded"
          /\ tabs' = [tabs EXCEPT ![t] = WithList(tabs[t], list)]
  BY SearchTab
<1>2. tabs[t] \in Tab /\ TabFits(tabs[t])
  BY DEF TypeInv, TypeOK
<1> DEFINE tab == WithList(tabs[t], list)
           load == LoadCall(t, tabs[t].hook, query)
           more == IF tabs[t].hook \in Sites THEN {load} ELSE {}
<1>3. /\ tab \in Tab
      /\ SamePage(tab, tabs[t])
      /\ tab.form = tabs[t].form
      /\ tab.view = tabs[t].view
      /\ tab.list = list
  BY <1>2, ListSet
<1> HIDE DEF tab
<1>4. TabFits(tab) /\ Follows(tabs[t], tab)
  BY <1>1, <1>2, <1>3 DEF TabFits, FormPage, SamePage, Follows
<1>5. ASSUME tabs[t].hook \in Sites
      PROVE  CallFits(sites, load, tab) /\ load.tab = t
  <2>1. PICK kind \in {"listSecrets", "search"} : Asked(load, t, kind)
    BY <1>5, LoadIsCall
  <2> HIDE DEF load
  <2>2. tab.page = "list" /\ tab.hook \in Sites
    BY <1>3, <1>5 DEF Search, OnList, SamePage
  <2>3. Carries(load) /\ AtHome(load, tab)
    BY <2>1, <2>2 DEF Asked, Carries, AtHome, Edits, PageReads
  <2>4. QED
    BY <2>1, <2>3, NewFits DEF Asked
<1>6. \A k \in more : CallFits(sites, k, tab) /\ k.tab = t
  BY <1>5
<1>7. calls' \subseteq calls \cup more
  BY DEF Search, Dropped
<1>8. UNCHANGED <<sites, secrets, exported, doubt>>
  BY DEF Search, tables
<1> HIDE DEF more
<1>9. Moves(t, tab, more)
  BY <1>1, <1>7, <1>8 DEF Moves, TypeInv, TypeOK, tab
<1>10. QED
  BY <1>3, <1>4, <1>6, <1>9, TabStep

LEMMA ClosedForm == Closed0 \in Form /\ EmptyForm \in Form
<1>1. <<None>> \in ListsOf(Fields \cup {None})
  BY OneRow
<1>2. QED
  BY <1>1 DEF Closed0, EmptyForm, Form, EmptyDraft, Drafts

LEMMA CancelTab ==
    ASSUME TypeInv, NEW t \in Tabs, CancelEdit(t)
    PROVE  LET view == [tabs[t].view EXCEPT !.mode = "view"]
               tab == WithForm(WithView(tabs[t], view), Closed0)
           IN  /\ tabs' = [tabs EXCEPT ![t] = tab]
               /\ tab \in Tab
               /\ SamePage(tab, tabs[t])
               /\ tab.form = Closed0
               /\ tab.view = view
               /\ tab.list = tabs[t].list
               /\ tab.panel = tabs[t].panel
<1> DEFINE view == [tabs[t].view EXCEPT !.mode = "view"]
           half == WithView(tabs[t], view)
           tab == WithForm(half, Closed0)
<1>1. tabs[t] \in Tab /\ tabs \in [Tabs -> Tab]
  BY DEF TypeInv, TypeOK
<1>2. tabs' = [tabs EXCEPT ![t] = tab]
  BY <1>1 DEF CancelEdit, WithForm, WithView
<1>3. view \in View
  BY <1>1, TabFields, ModeSet
<1> HIDE DEF view
<1>4. /\ half \in Tab
      /\ SamePage(half, tabs[t])
      /\ half.view = view
      /\ half.list = tabs[t].list
      /\ half.panel = tabs[t].panel
  BY <1>1, <1>3, ViewSet
<1> HIDE DEF half
<1>5. /\ tab \in Tab
      /\ SamePage(tab, half)
      /\ tab.form = Closed0
      /\ tab.view = half.view
      /\ tab.list = half.list
      /\ tab.panel = half.panel
  BY <1>4, ClosedForm, FormSet
<1> HIDE DEF tab
<1>6. SamePage(tab, tabs[t])
  BY <1>4, <1>5 DEF SamePage
<1>7. QED
  BY <1>2, <1>4, <1>5, <1>6 DEF tab, half, view

LEMMA CancelTypes ==
    ASSUME TypeInv, NEW t \in Tabs, CancelEdit(t)
    PROVE  TypeInv'
<1> DEFINE view == [tabs[t].view EXCEPT !.mode = "view"]
           tab == WithForm(WithView(tabs[t], view), Closed0)
<1>1. /\ tabs' = [tabs EXCEPT ![t] = tab]
      /\ tab \in Tab
      /\ SamePage(tab, tabs[t])
      /\ tab.form = Closed0
      /\ tab.view = view
      /\ tab.list = tabs[t].list
  BY CancelTab
<1>2. tabs[t] \in Tab /\ TabFits(tabs[t])
  BY DEF TypeInv, TypeOK
<1>3. SameShown(view, tabs[t].view)
  BY <1>2, TabFields, ModeSet
<1> HIDE DEF tab, view
<1>4. TabFits(tab) /\ Follows(tabs[t], tab)
  BY <1>1, <1>2, <1>3
     DEF TabFits, FormPage, SamePage, SameShown, Follows, Closed0
<1>5. UNCHANGED <<sites, secrets, calls, exported, doubt>>
  BY DEF CancelEdit, tables
<1>6. Moves(t, tab, {})
  BY <1>1, <1>5 DEF Moves, TypeInv, TypeOK
<1>7. QED
  BY <1>1, <1>4, <1>6, TabStep

(* The call of a form that is saved.                                       *)
SaveCall(t) ==
    [IF tabs[t].page = "new"
     THEN [New(t, "createSecret") EXCEPT !.site = tabs[t].hook]
     ELSE [New(t, "saveSecret") EXCEPT !.secret = tabs[t].view.id]
     EXCEPT !.body = Content(tabs[t].form.draft)]

LEMMA SaveIsCall ==
    ASSUME TypeInv, NEW t \in Tabs, tabs[t].form.step = "review"
    PROVE  LET k == SaveCall(t)
           IN  /\ Asked(k, t, IF tabs[t].page = "new" THEN "createSecret"
                              ELSE "saveSecret")
               /\ k.body = Content(tabs[t].form.draft)
               /\ k.body \in Bodies
               /\ tabs[t].page = "new" =>
                      tabs[t].hook \in Sites /\ k.site = tabs[t].hook
               /\ tabs[t].page # "new" =>
                      tabs[t].page = "detail" /\ k.secret = tabs[t].view.id
<1> DEFINE body == Content(tabs[t].form.draft)
           create == [New(t, "createSecret") EXCEPT !.site = tabs[t].hook]
           save == [New(t, "saveSecret") EXCEPT !.secret = tabs[t].view.id]
<1>1. tabs[t] \in Tab /\ TabFits(tabs[t])
  BY DEF TypeInv, TypeOK
<1>2. body \in Bodies /\ FormPage(tabs[t])
  BY <1>1 DEF TabFits
<1> HIDE DEF body
<1>3. CASE tabs[t].page = "new"
  <2>1. tabs[t].hook \in Sites
    BY <1>2, <1>3 DEF FormPage
  <2>2. Asked(create, t, "createSecret") /\ create.site = tabs[t].hook
    BY <2>1, SiteCall DEF Kinds, Writes
  <2> HIDE DEF create
  <2>3. SaveCall(t) = [create EXCEPT !.body = body]
    BY <1>3 DEF SaveCall, create, body
  <2>4. QED
    BY <1>2, <1>3, <2>1, <2>2, <2>3, BodyCall DEF body
<1>4. CASE tabs[t].page # "new"
  <2>1. tabs[t].page = "detail" /\ tabs[t].view.id \in Secrets
    BY <1>1, <1>2, <1>4 DEF FormPage, TabFits
  <2>2. Asked(save, t, "saveSecret") /\ save.secret = tabs[t].view.id
    BY <2>1, SecretCall DEF Kinds, Writes
  <2> HIDE DEF save
  <2>3. SaveCall(t) = [save EXCEPT !.body = body]
    BY <1>4 DEF SaveCall, save, body
  <2>4. QED
    BY <1>2, <1>4, <2>1, <2>2, <2>3, BodyCall DEF body
<1>5. QED
  BY <1>3, <1>4

LEMMA SubmittingSet ==
    ASSUME NEW form \in Form, NEW b \in BOOLEAN
    PROVE  LET new == [form EXCEPT !.submitting = b]
           IN  /\ new \in Form
               /\ new.step = form.step
               /\ new.draft = form.draft
               /\ new.submitting = b
BY DEF Form

LEMMA ConfirmTab ==
    ASSUME TypeInv, NEW t \in Tabs, ConfirmSave(t)
    PROVE  LET form == [tabs[t].form EXCEPT !.submitting = TRUE]
           IN  /\ form \in Form
               /\ tabs' = [tabs EXCEPT ![t] = WithForm(tabs[t], form)]
               /\ calls' = calls \cup {SaveCall(t)}
<1>1. tabs[t] \in Tab /\ tabs \in [Tabs -> Tab]
  BY DEF TypeInv, TypeOK
<1>2. [tabs[t].form EXCEPT !.submitting = TRUE] \in Form
  BY <1>1, TabFields, SubmittingSet
<1>3. tabs' = [tabs EXCEPT ![t] =
                  WithForm(tabs[t], [tabs[t].form EXCEPT !.submitting = TRUE])]
  BY <1>1 DEF ConfirmSave, WithForm
<1>4. calls' = calls \cup {SaveCall(t)}
  BY DEF ConfirmSave, SaveCall, Content, Draft
<1>5. QED
  BY <1>2, <1>3, <1>4

LEMMA ConfirmTypes ==
    ASSUME TypeInv, NEW t \in Tabs, ConfirmSave(t)
    PROVE  TypeInv'
<1> DEFINE form == [tabs[t].form EXCEPT !.submitting = TRUE]
           tab == WithForm(tabs[t], form)
           save == SaveCall(t)
<1>1. /\ form \in Form
      /\ tabs' = [tabs EXCEPT ![t] = tab]
      /\ calls' = calls \cup {save}
  BY ConfirmTab
<1>2. tabs[t] \in Tab /\ TabFits(tabs[t]) /\ tabs[t].form.step = "review"
  BY DEF TypeInv, TypeOK, ConfirmSave
<1>3. form.step = tabs[t].form.step /\ form.draft = tabs[t].form.draft
  BY <1>2, TabFields, SubmittingSet
<1> HIDE DEF form
<1>4. /\ tab \in Tab
      /\ SamePage(tab, tabs[t])
      /\ tab.form = form
      /\ tab.view = tabs[t].view
      /\ tab.list = tabs[t].list
  BY <1>1, <1>2, FormSet
<1> HIDE DEF tab
<1>5. TabFits(tab) /\ Follows(tabs[t], tab)
  BY <1>2, <1>3, <1>4 DEF TabFits, FormPage, SamePage, Follows
<1>6. /\ Asked(save, t, IF tabs[t].page = "new" THEN "createSecret"
                        ELSE "saveSecret")
      /\ save.body \in Bodies
      /\ tabs[t].page = "new" => tabs[t].hook \in Sites
                                 /\ save.site = tabs[t].hook
      /\ tabs[t].page # "new" => tabs[t].page = "detail"
  BY <1>2, SaveIsCall
<1> HIDE DEF save
<1>7. CallFits(sites, save, tab) /\ save.tab = t
  <2>1. Carries(save) /\ AtHome(save, tab)
    BY <1>4, <1>6 DEF Asked, Carries, AtHome, Edits, PageReads, SamePage
  <2>2. QED
    BY <1>6, <2>1, NewFits DEF Asked
<1>8. Moves(t, tab, {save})
  BY <1>1 DEF Moves, ConfirmSave, TypeInv, TypeOK, tables
<1>9. QED
  BY <1>4, <1>5, <1>7, <1>8, TabStep

(* The form that a password is edited with.                                *)
EditDraft(body) ==
    [title |-> body.title,
     rows |-> IF body.fields = <<>> THEN <<None>> ELSE body.fields]

EditForm(body) == [EmptyForm EXCEPT !.draft = EditDraft(body)]

LEMMA EditFormType ==
    ASSUME NEW body \in Bodies
    PROVE  /\ EditForm(body) \in Form
           /\ EditForm(body).step = "edit"
           /\ EditForm(body).submitting = FALSE
<1>1. body.title \in Titles /\ body.fields \in ListsOf(Fields)
  BY ClientAssumption DEF Contents
<1>2. EditDraft(body) \in Drafts
  BY <1>1, OneRow, FieldsAsRows DEF EditDraft, Drafts
<1>3. EmptyForm \in Form /\ EmptyForm.step = "edit"
      /\ EmptyForm.submitting = FALSE
  BY ClosedForm DEF EmptyForm, Closed0
<1>4. QED
  BY <1>2, <1>3, DraftSet DEF EditForm

LEMMA StartTab ==
    ASSUME TypeInv, NEW t \in Tabs, StartEdit(t)
    PROVE  LET view == [tabs[t].view EXCEPT !.mode = "edit"]
               form == EditForm(tabs[t].view.body)
               tab == WithForm(WithView(tabs[t], view), form)
           IN  /\ tabs' = [tabs EXCEPT ![t] = tab]
               /\ tab \in Tab
               /\ SamePage(tab, tabs[t])
               /\ tab.form = form
               /\ tab.view = view
               /\ tab.list = tabs[t].list
               /\ tab.panel = tabs[t].panel
               /\ form.step = "edit"
               /\ form.submitting = FALSE
<1> DEFINE view == [tabs[t].view EXCEPT !.mode = "edit"]
           form == EditForm(tabs[t].view.body)
           half == WithView(tabs[t], view)
           tab == WithForm(half, form)
<1>1. tabs[t] \in Tab /\ TabFits(tabs[t]) /\ tabs \in [Tabs -> Tab]
  BY DEF TypeInv, TypeOK
<1>2. tabs' = [tabs EXCEPT ![t] = tab]
  BY <1>1 DEF StartEdit, WithForm, WithView, EditForm, EditDraft
<1>3. view \in View
  BY <1>1, TabFields, ModeSet
<1>4. form \in Form /\ form.step = "edit" /\ form.submitting = FALSE
  BY <1>1, EditFormType DEF TabFits, StartEdit, Viewing
<1> HIDE DEF view, form
<1>5. /\ half \in Tab
      /\ SamePage(half, tabs[t])
      /\ half.view = view
      /\ half.list = tabs[t].list
      /\ half.panel = tabs[t].panel
  BY <1>1, <1>3, ViewSet
<1> HIDE DEF half
<1>6. /\ tab \in Tab
      /\ SamePage(tab, half)
      /\ tab.form = form
      /\ tab.view = half.view
      /\ tab.list = half.list
      /\ tab.panel = half.panel
  BY <1>4, <1>5, FormSet
<1> HIDE DEF tab
<1>7. SamePage(tab, tabs[t])
  BY <1>5, <1>6 DEF SamePage
<1>8. QED
  BY <1>2, <1>4, <1>5, <1>6, <1>7 DEF tab, half, view, form

LEMMA StartTypes ==
    ASSUME TypeInv, NEW t \in Tabs, StartEdit(t)
    PROVE  TypeInv'
<1> DEFINE view == [tabs[t].view EXCEPT !.mode = "edit"]
           form == EditForm(tabs[t].view.body)
           tab == WithForm(WithView(tabs[t], view), form)
<1>1. /\ tabs' = [tabs EXCEPT ![t] = tab]
      /\ tab \in Tab
      /\ SamePage(tab, tabs[t])
      /\ tab.form = form
      /\ tab.view = view
      /\ tab.list = tabs[t].list
      /\ form.step = "edit"
  BY StartTab
<1>2. tabs[t] \in Tab /\ TabFits(tabs[t]) /\ tabs[t].page = "detail"
  BY DEF TypeInv, TypeOK, StartEdit, Viewing
<1>3. SameShown(view, tabs[t].view)
  BY <1>2, TabFields, ModeSet
<1> HIDE DEF tab, view, form
<1>4. TabFits(tab) /\ Follows(tabs[t], tab)
  BY <1>1, <1>2, <1>3 DEF TabFits, FormPage, SamePage, SameShown, Follows
<1>5. UNCHANGED <<sites, secrets, calls, exported, doubt>>
  BY DEF StartEdit, tables
<1>6. Moves(t, tab, {})
  BY <1>1, <1>5 DEF Moves, TypeInv, TypeOK
<1>7. QED
  BY <1>1, <1>4, <1>6, TabStep

(* A view that shows the same keeps the tab fit.                           *)
LEMMA ViewStep ==
    ASSUME TypeInv, NEW t \in Tabs, NEW view \in View,
           SameShown(view, tabs[t].view),
           NEW more, \A k \in more : CallFits(sites, k, tabs[t]) /\ k.tab = t,
           Moves(t, WithView(tabs[t], view), more)
    PROVE  TypeInv'
<1> DEFINE tab == WithView(tabs[t], view)
<1>1. tabs[t] \in Tab /\ TabFits(tabs[t])
  BY DEF TypeInv, TypeOK
<1>2. /\ tab \in Tab
      /\ SamePage(tab, tabs[t])
      /\ tab.form = tabs[t].form
      /\ tab.view = view
      /\ tab.list = tabs[t].list
  BY <1>1, ViewSet
<1>3. Moves(t, tab, more)
  OBVIOUS
<1> HIDE DEF tab
<1>4. TabFits(tab) /\ Follows(tabs[t], tab)
  BY <1>1, <1>2 DEF TabFits, FormPage, SamePage, SameShown, Follows
<1>5. \A k \in more : CallFits(sites, k, tab) /\ k.tab = t
  BY <1>4, FollowsFits
<1>6. QED
  BY <1>2, <1>3, <1>4, <1>5, TabStep

LEMMA DeleteTypes ==
    ASSUME TypeInv, NEW t \in Tabs, HandleDelete(t)
    PROVE  TypeInv'
<1> DEFINE view == [tabs[t].view EXCEPT !.deleting = TRUE]
           call == [New(t, "deleteSecret") EXCEPT !.secret = tabs[t].view.id]
<1>1. tabs[t] \in Tab /\ tabs \in [Tabs -> Tab] /\ tabs[t].page = "detail"
  BY DEF TypeInv, TypeOK, HandleDelete, Viewing
<1>2. view \in View /\ SameShown(view, tabs[t].view)
  BY <1>1, TabFields, DeletingSet
<1>3. Asked(call, t, "deleteSecret")
  BY <1>1, TabFields, ViewFields, SecretCall DEF Kinds, Writes
<1>4. Moves(t, WithView(tabs[t], view), {call})
  BY <1>1 DEF Moves, WithView, HandleDelete, TypeInv, TypeOK, tables
<1> HIDE DEF view, call
<1>5. CallFits(sites, call, tabs[t]) /\ call.tab = t
  <2>1. Carries(call) /\ AtHome(call, tabs[t])
    BY <1>1, <1>3 DEF Asked, Carries, AtHome, Edits, PageReads
  <2>2. QED
    BY <1>3, <2>1, NewFits DEF Asked
<1>6. QED
  BY <1>2, <1>4, <1>5, ViewStep

(* The call that deletes a field.                                          *)
FieldCallOf(t, i) ==
    [New(t, "deleteField") EXCEPT
        !.secret = tabs[t].view.id,
        !.body = [tabs[t].view.body EXCEPT
                     !.fields = RemoveAt(tabs[t].view.body.fields, i)]]

LEMMA FieldIsCall ==
    ASSUME TypeInv, NEW t \in Tabs, NEW i, HandleDeleteField(t, i)
    PROVE  LET k == FieldCallOf(t, i)
           IN  /\ Asked(k, t, "deleteField")
               /\ k.secret = tabs[t].view.id
               /\ k.body \in Bodies
<1> DEFINE body == tabs[t].view.body
           less == [body EXCEPT !.fields = RemoveAt(body.fields, i)]
<1>1. /\ tabs[t] \in Tab /\ TabFits(tabs[t])
      /\ tabs[t].view.status = "loaded"
      /\ i \in DOMAIN body.fields
  BY DEF TypeInv, TypeOK, HandleDeleteField, Viewing
<1>2. body \in Contents
  BY <1>1, ClientAssumption DEF TabFits
<1>3. body.fields \in ListsOf(Fields) /\ Distinct(body.fields)
  BY <1>2 DEF Contents
<1>4. RemoveAt(body.fields, i) \in ListsOf(Fields)
      /\ Distinct(RemoveAt(body.fields, i))
  BY <1>1, <1>3, RemoveAtList
<1>5. less \in Bodies
  BY <1>2, <1>4, ClientAssumption DEF Contents
<1>6. tabs[t].view.id \in Secrets \cup {None}
  BY <1>1, TabFields, ViewFields
<1>7. FieldCallOf(t, i) =
          [New(t, "deleteField") EXCEPT !.secret = tabs[t].view.id,
                                        !.body = less]
  BY DEF FieldCallOf
<1> DEFINE x == tabs[t].view.id
           k == [New(t, "deleteField") EXCEPT !.secret = x, !.body = less]
<1> HIDE DEF less, body, x
<1>8. "deleteField" \in Kinds
  BY DEF Kinds, Writes
<1>9. Asked(k, t, "deleteField") /\ k.secret = x /\ k.body = less
  BY <1>5, <1>6, <1>8 DEF x, New, Asked, Call
<1>10. FieldCallOf(t, i) = k
  BY <1>7 DEF x
<1> HIDE DEF k
<1>11. QED
  BY <1>5, <1>9, <1>10 DEF x

LEMMA DeleteFieldTypes ==
    ASSUME TypeInv, NEW t \in Tabs, NEW i, HandleDeleteField(t, i)
    PROVE  TypeInv'
<1> DEFINE view == [tabs[t].view EXCEPT !.fieldBusy = TRUE]
           call == FieldCallOf(t, i)
<1>1. tabs[t] \in Tab /\ tabs \in [Tabs -> Tab] /\ tabs[t].page = "detail"
  BY DEF TypeInv, TypeOK, HandleDeleteField, Viewing
<1>2. view \in View /\ SameShown(view, tabs[t].view)
  BY <1>1, TabFields, FieldBusySet
<1>3. Asked(call, t, "deleteField") /\ call.body \in Bodies
  BY FieldIsCall
<1>4. Moves(t, WithView(tabs[t], view), {call})
  BY <1>1 DEF Moves, WithView, HandleDeleteField, FieldCallOf, TypeInv,
              TypeOK, tables
<1> HIDE DEF view, call
<1>5. CallFits(sites, call, tabs[t]) /\ call.tab = t
  <2>1. Carries(call) /\ AtHome(call, tabs[t])
    BY <1>1, <1>3 DEF Asked, Carries, AtHome, Edits, PageReads
  <2>2. QED
    BY <1>3, <2>1, NewFits DEF Asked
<1>6. QED
  BY <1>2, <1>4, <1>5, ViewStep

(* Backup and restore.                                                     *)

LEMMA PanelStep ==
    ASSUME TypeInv, NEW t \in Tabs, NEW panel \in Panel,
           NEW more, \A k \in more : CallFits(sites, k, tabs[t]) /\ k.tab = t,
           Moves(t, WithPanel(tabs[t], panel), more)
    PROVE  TypeInv'
<1> DEFINE tab == WithPanel(tabs[t], panel)
<1>1. tabs[t] \in Tab /\ TabFits(tabs[t])
  BY DEF TypeInv, TypeOK
<1>2. /\ tab \in Tab
      /\ SamePage(tab, tabs[t])
      /\ tab.form = tabs[t].form
      /\ tab.view = tabs[t].view
      /\ tab.list = tabs[t].list
  BY <1>1, PanelSet
<1>3. Moves(t, tab, more)
  OBVIOUS
<1> HIDE DEF tab
<1>4. TabFits(tab) /\ Follows(tabs[t], tab)
  BY <1>1, <1>2 DEF TabFits, FormPage, SamePage, Follows
<1>5. \A k \in more : CallFits(sites, k, tab) /\ k.tab = t
  BY <1>4, FollowsFits
<1>6. QED
  BY <1>2, <1>3, <1>4, <1>5, TabStep

PanelAction(t) ==
    \/ \E file \in (Backups \cup {exported, None}) : ChooseFile(t, file)
    \/ \E mode \in Modes : ChooseMode(t, mode)
    \/ HandleExport(t) \/ HandleImport(t)

(* What a step of the panel asks for.                                      *)
PanelCall(t, k) ==
    \/ Asked(k, t, "export")
    \/ /\ Asked(k, t, "import")
       /\ k.file = tabs[t].panel.file
       /\ k.file \in File
       /\ k.mode \in Modes

PanelMoves(t, panel, more) ==
    /\ panel.file \in {tabs[t].panel.file, exported, None} \cup Backups
    /\ \A k \in more : PanelCall(t, k)
    /\ tabs' = [tabs EXCEPT ![t] = WithPanel(tabs[t], panel)]
    /\ calls' = calls \cup more
    /\ UNCHANGED <<tables, exported, doubt>>
    /\ tabs[t].page = "backup"

LEMMA PanelTab ==
    ASSUME TypeInv, NEW t \in Tabs, PanelAction(t)
    PROVE  \E panel \in Panel : \E more : PanelMoves(t, panel, more)
<1> DEFINE panel == tabs[t].panel
<1>1. tabs[t] \in Tab /\ tabs \in [Tabs -> Tab] /\ exported \in File \cup {None}
  BY DEF TypeInv, TypeOK
<1>2. panel \in Panel
  BY <1>1, TabFields
<1>3. panel.file \in File \cup {None} /\ panel.mode \in Modes
  BY <1>2 DEF Panel
<1>4. ASSUME NEW file \in Backups \cup {exported, None}, ChooseFile(t, file)
      PROVE  /\ [panel EXCEPT !.file = file] \in Panel
             /\ [panel EXCEPT !.file = file].file = file
             /\ tabs' = [tabs EXCEPT ![t] =
                            WithPanel(tabs[t], [panel EXCEPT !.file = file])]
             /\ calls' = calls
             /\ UNCHANGED <<tables, exported, doubt>>
             /\ tabs[t].page = "backup"
  <2>1. file \in File \cup {None}
    BY <1>1, ClientAssumption
  <2>2. [panel EXCEPT !.file = file] \in Panel
        /\ [panel EXCEPT !.file = file].file = file
    BY <1>2, <2>1 DEF Panel
  <2>3. QED
    BY <1>1, <1>4, <2>2 DEF ChooseFile, WithPanel, OnBackup
<1>5. ASSUME NEW mode \in Modes, ChooseMode(t, mode)
      PROVE  /\ [panel EXCEPT !.mode = mode] \in Panel
             /\ [panel EXCEPT !.mode = mode].file = panel.file
             /\ tabs' = [tabs EXCEPT ![t] =
                            WithPanel(tabs[t], [panel EXCEPT !.mode = mode])]
             /\ calls' = calls
             /\ UNCHANGED <<tables, exported, doubt>>
             /\ tabs[t].page = "backup"
  <2>1. [panel EXCEPT !.mode = mode] \in Panel
        /\ [panel EXCEPT !.mode = mode].file = panel.file
    BY <1>2, <1>5 DEF Panel
  <2>2. QED
    BY <1>1, <1>5, <2>1 DEF ChooseMode, WithPanel, OnBackup
<1> DEFINE busy == [panel EXCEPT !.busy = TRUE]
<1>6. busy \in Panel /\ busy.file = panel.file
  BY <1>2 DEF Panel
<1>7. ASSUME HandleExport(t)
      PROVE  /\ tabs' = [tabs EXCEPT ![t] = WithPanel(tabs[t], busy)]
             /\ calls' = calls \cup {New(t, "export")}
             /\ Asked(New(t, "export"), t, "export")
             /\ UNCHANGED <<tables, exported, doubt>>
             /\ tabs[t].page = "backup"
  BY <1>1, <1>7, NewCall DEF HandleExport, WithPanel, OnBackup, Kinds
<1> DEFINE call == [New(t, "import") EXCEPT !.file = panel.file,
                                            !.mode = panel.mode]
<1>8. ASSUME HandleImport(t)
      PROVE  /\ tabs' = [tabs EXCEPT ![t] = WithPanel(tabs[t], busy)]
             /\ calls' = calls \cup {call}
             /\ PanelCall(t, call)
             /\ UNCHANGED <<tables, exported, doubt>>
             /\ tabs[t].page = "backup"
  <2>1. panel.file \in File
    BY <1>3, <1>8 DEF HandleImport
  <2>2. Asked(call, t, "import") /\ call.file = panel.file
        /\ call.mode = panel.mode
    <3> DEFINE file == panel.file
               mode == panel.mode
    <3>1. file \in File /\ mode \in Modes
      BY <1>3, <2>1
    <3> HIDE DEF file, mode
    <3> DEFINE new == [New(t, "import") EXCEPT !.file = file, !.mode = mode]
    <3>2. Asked(new, t, "import") /\ new.file = file /\ new.mode = mode
      BY <3>1 DEF New, Asked, Call, Kinds, Writes
    <3>3. QED
      BY <3>2 DEF file, mode
  <2>3. PanelCall(t, call)
    <3> HIDE DEF call
    <3>1. QED
      BY <1>3, <2>1, <2>2 DEF PanelCall
  <2>4. QED
    BY <1>1, <1>8, <2>3 DEF HandleImport, WithPanel, OnBackup
<1> HIDE DEF busy, call
<1>9. ASSUME NEW file \in Backups \cup {exported, None}, ChooseFile(t, file)
      PROVE  \E new \in Panel : \E more : PanelMoves(t, new, more)
  <2> DEFINE new == [panel EXCEPT !.file = file]
  <2>1. /\ new \in Panel
        /\ new.file = file
        /\ tabs' = [tabs EXCEPT ![t] = WithPanel(tabs[t], new)]
        /\ calls' = calls
        /\ UNCHANGED <<tables, exported, doubt>>
        /\ tabs[t].page = "backup"
    BY <1>4, <1>9
  <2> HIDE DEF new
  <2>2. calls' = calls \cup {}
    BY <2>1
  <2>3. PanelMoves(t, new, {})
    BY <1>9, <2>1, <2>2 DEF PanelMoves
  <2>4. QED
    BY <2>1, <2>3
<1>10. ASSUME NEW mode \in Modes, ChooseMode(t, mode)
      PROVE  \E new \in Panel : \E more : PanelMoves(t, new, more)
  <2> DEFINE new == [panel EXCEPT !.mode = mode]
  <2>1. /\ new \in Panel
        /\ new.file = panel.file
        /\ tabs' = [tabs EXCEPT ![t] = WithPanel(tabs[t], new)]
        /\ calls' = calls
        /\ UNCHANGED <<tables, exported, doubt>>
        /\ tabs[t].page = "backup"
    BY <1>5, <1>10
  <2> HIDE DEF new
  <2>2. calls' = calls \cup {}
    BY <2>1
  <2>3. PanelMoves(t, new, {})
    BY <2>1, <2>2 DEF PanelMoves
  <2>4. QED
    BY <2>1, <2>3
<1>11. ASSUME HandleExport(t)
       PROVE  PanelMoves(t, busy, {New(t, "export")})
  BY <1>6, <1>7, <1>11 DEF PanelMoves, PanelCall
<1>12. ASSUME HandleImport(t)
       PROVE  PanelMoves(t, busy, {call})
  BY <1>6, <1>8, <1>12 DEF PanelMoves
<1>13. QED
  BY <1>6, <1>9, <1>10, <1>11, <1>12 DEF PanelAction

LEMMA PanelTypes ==
    ASSUME TypeInv, NEW t \in Tabs, PanelAction(t)
    PROVE  TypeInv'
<1>1. PICK panel \in Panel : \E more : PanelMoves(t, panel, more)
  BY PanelTab
<1>2. PICK more : PanelMoves(t, panel, more)
  BY <1>1
<1>3. ASSUME NEW k \in more
      PROVE  CallFits(sites, k, tabs[t]) /\ k.tab = t
  <2>1. PanelCall(t, k)
    BY <1>2, <1>3 DEF PanelMoves
  <2>2. Carries(k) /\ AtHome(k, tabs[t])
    BY <1>2, <2>1
       DEF PanelMoves, PanelCall, Asked, Carries, AtHome, Edits, PageReads
  <2>3. QED
    BY <2>1, <2>2, NewFits DEF PanelCall, Asked
<1>4. Moves(t, WithPanel(tabs[t], panel), more)
  BY <1>2 DEF PanelMoves, Moves, TypeInv, TypeOK, tables
<1>5. QED
  BY <1>3, <1>4, PanelStep

-----------------------------------------------------------------------------
(* Pages that come and go.                                                 *)

LEMMA ListStatusSet ==
    ASSUME NEW list \in List, NEW status \in Loading
    PROVE  LET new == [list EXCEPT !.status = status]
           IN  /\ new \in List
               /\ new.query = list.query
               /\ new.status = status
               /\ new.items = list.items
BY DEF List

LEMMA ReadyTab ==
    ASSUME NEW tab \in Tab, NEW site \in Sites
    PROVE  LET new == Ready(tab, site)
           IN  /\ new \in Tab
               /\ new.page = tab.page
               /\ new.hook = site
               /\ new.cache = tab.cache
               /\ new.view = tab.view
               /\ new.panel = tab.panel
               /\ new.list.query = tab.list.query
               /\ tab.page = "list" => new.list.status = "loading"
               /\ tab.page # "list" => new.list = tab.list
               /\ tab.page = "new" => new.form = EmptyForm
               /\ tab.page # "new" => new.form = tab.form
<1> DEFINE list == IF tab.page = "list"
                   THEN [tab.list EXCEPT !.status = "loading"] ELSE tab.list
           form == IF tab.page = "new" THEN EmptyForm ELSE tab.form
<1>1. Ready(tab, site) =
          [tab EXCEPT !.hook = site, !.list = list, !.form = form]
  BY DEF Ready, Tab
<1>2. list \in List /\ list.query = tab.list.query
      /\ (tab.page = "list" => list.status = "loading")
      /\ (tab.page # "list" => list = tab.list)
  BY TabFields, ListStatusSet DEF Loading
<1>3. form \in Form
  BY TabFields, ClosedForm
<1>4. /\ tab.page = "new" => form = EmptyForm
      /\ tab.page # "new" => form = tab.form
  OBVIOUS
<1> HIDE DEF list, form
<1>5. LET new == Ready(tab, site)
      IN  /\ new \in Tab
          /\ new.page = tab.page
          /\ new.hook = site
          /\ new.cache = tab.cache
          /\ new.view = tab.view
          /\ new.panel = tab.panel
          /\ new.list = list
          /\ new.form = form
  BY <1>1, <1>2, <1>3 DEF Tab
<1>6. QED
  BY <1>2, <1>4, <1>5

(* A page that has just been mounted.                                      *)
Mounted(page, x, cache) ==
    IF UsesSite(page) /\ cache \in Sites THEN Ready(Blank(page, cache), cache)
    ELSE IF UsesSite(page) THEN [Blank(page, cache) EXCEPT !.cache = "pending"]
    ELSE IF page = "detail"
    THEN [Blank(page, cache) EXCEPT !.view.id = x, !.view.status = "loading"]
    ELSE Blank(page, cache)

MountCalls(t, page, x, cache) ==
    IF UsesSite(page) /\ cache = None THEN {New(t, "listSites")}
    ELSE IF UsesSite(page) /\ cache \in Sites
    THEN LoadsFor(t, Blank(page, cache), cache)
    ELSE IF page = "detail" THEN {[New(t, "detail") EXCEPT !.secret = x]}
    ELSE {}

LEMMA MountIs ==
    ASSUME NEW t, NEW page, NEW x, NEW cache, NEW others,
           Mount(t, page, x, cache, others)
    PROVE  /\ tabs' = [tabs EXCEPT ![t] = Mounted(page, x, cache)]
           /\ calls' = others \cup MountCalls(t, page, x, cache)
           /\ doubt' = doubt \ {t}
BY DEF Mount, Mounted, MountCalls

LEMMA BlankTab ==
    ASSUME NEW page \in Pages, NEW cache \in Sites \cup {None, "pending"}
    PROVE  LET new == Blank(page, cache)
           IN  /\ new \in Tab
               /\ new.page = page
               /\ new.cache = cache
               /\ new.hook = IF UsesSite(page) THEN "loading" ELSE "off"
               /\ new.list = NoList
               /\ new.view = NoView
               /\ new.form = Closed0
               /\ new.panel = NoPanel
<1>1. NoList \in List
  BY DEF NoList, List, Loading
<1>2. NoView \in View
  BY DEF NoView, View, Loading
<1>3. NoPanel \in Panel
  BY DEF NoPanel, Panel, Modes
<1>4. QED
  BY <1>1, <1>2, <1>3, ClosedForm DEF Blank, Tab

(* What is known of it.                                                    *)
Unread(new, page, x, cache) ==
    /\ new \in Tab
    /\ new.page = page
    /\ new.hook = IF ~UsesSite(page) THEN "off"
                  ELSE IF cache \in Sites THEN cache ELSE "loading"
    /\ new.cache = IF UsesSite(page) /\ cache \notin Sites THEN "pending"
                   ELSE cache
    /\ new.list.query = None
    /\ new.list.status = IF page = "list" /\ cache \in Sites THEN "loading"
                         ELSE "idle"
    /\ new.view.id = IF page = "detail" THEN x ELSE None
    /\ new.view.status = IF page = "detail" THEN "loading" ELSE "idle"
    /\ new.view.mode = "view"
    /\ ~new.view.fieldBusy
    /\ new.form.step = IF page = "new" /\ cache \in Sites THEN "edit"
                       ELSE "closed"
    /\ ~new.form.submitting
    /\ new.panel = NoPanel

LEMMA MountedTab ==
    ASSUME NEW page \in Pages, NEW x, page = "detail" => x \in Secrets,
           NEW cache \in Sites \cup {None, "pending"}
    PROVE  Unread(Mounted(page, x, cache), page, x, cache)
<1> DEFINE blank == Blank(page, cache)
           new == Mounted(page, x, cache)
<1>1. /\ blank \in Tab
      /\ blank.page = page
      /\ blank.cache = cache
      /\ blank.hook = IF UsesSite(page) THEN "loading" ELSE "off"
      /\ blank.list = NoList
      /\ blank.view = NoView
      /\ blank.form = Closed0
      /\ blank.panel = NoPanel
  BY BlankTab
<1> HIDE DEF blank
<1>2. CASE UsesSite(page) /\ cache \in Sites
  <2>1. new = Ready(blank, cache)
    BY <1>2 DEF Mounted, blank
  <2> HIDE DEF new
  <2>2. /\ new \in Tab
        /\ new.page = page
        /\ new.hook = cache
        /\ new.cache = cache
        /\ new.view = NoView
        /\ new.panel = NoPanel
        /\ new.list.query = NoList.query
        /\ page = "list" => new.list.status = "loading"
        /\ page # "list" => new.list = NoList
        /\ page = "new" => new.form = EmptyForm
        /\ page # "new" => new.form = Closed0
    BY <1>1, <1>2, <2>1, ReadyTab
  <2>3. QED
    BY <1>2, <2>2
       DEF Unread, UsesSite, NoView, NoList, EmptyForm, Closed0, new
<1>3. CASE UsesSite(page) /\ cache \notin Sites
  <2>1. new = [blank EXCEPT !.cache = "pending"]
    BY <1>3 DEF Mounted, blank
  <2> HIDE DEF new
  <2>2. /\ new \in Tab
        /\ new.page = page
        /\ new.cache = "pending"
        /\ new.hook = "loading"
        /\ new.list = NoList
        /\ new.view = NoView
        /\ new.form = Closed0
        /\ new.panel = NoPanel
    BY <1>1, <1>3, <2>1 DEF Tab
  <2>3. QED
    BY <1>3, <2>2 DEF Unread, UsesSite, NoView, NoList, Closed0, new
<1>4. CASE page = "detail"
  <2> DEFINE view == [blank.view EXCEPT !.id = x, !.status = "loading"]
  <2>1. new = [blank EXCEPT !.view = view]
    BY <1>1, <1>4 DEF Mounted, blank, UsesSite, Tab
  <2>2. /\ view \in View
        /\ view.id = x
        /\ view.status = "loading"
        /\ view.mode = "view"
        /\ ~view.fieldBusy
    <3>1. view = [NoView EXCEPT !.id = x, !.status = "loading"]
      BY <1>1
    <3> HIDE DEF view
    <3>2. QED
      BY <1>4, <3>1 DEF NoView, View, Loading
  <2> HIDE DEF new, view
  <2>3. /\ new \in Tab
        /\ new.page = page
        /\ new.cache = cache
        /\ new.hook = "off"
        /\ new.list = NoList
        /\ new.view = view
        /\ new.form = Closed0
        /\ new.panel = NoPanel
    BY <1>1, <1>4, <2>1, <2>2 DEF Tab, UsesSite
  <2>4. QED
    BY <1>4, <2>2, <2>3 DEF Unread, UsesSite, NoList, Closed0, new
<1>5. CASE ~UsesSite(page) /\ page # "detail"
  <2>1. new = blank
    BY <1>5 DEF Mounted, blank
  <2> HIDE DEF new
  <2>2. QED
    BY <1>1, <1>5, <2>1
       DEF Unread, UsesSite, NoView, NoList, Closed0, new
<1>6. QED
  BY <1>2, <1>3, <1>4, <1>5 DEF UsesSite

(* The call that a page makes when it is mounted.                          *)
LEMMA MountedCalls ==
    ASSUME NEW t \in Tabs, NEW page \in Pages, NEW x,
           page = "detail" => x \in Secrets,
           NEW cache \in Sites \cup {None, "pending"},
           NEW k \in MountCalls(t, page, x, cache)
    PROVE  \/ Asked(k, t, "listSites") /\ UsesSite(page) /\ cache = None
           \/ /\ Asked(k, t, "listSecrets")
              /\ k = LoadCall(t, cache, None)
              /\ page = "list" /\ cache \in Sites
           \/ /\ Asked(k, t, "detail")
              /\ k.secret = x
              /\ page = "detail"
<1>1. CASE UsesSite(page) /\ cache = None
  BY <1>1, NewCall DEF MountCalls, Kinds
<1>2. CASE UsesSite(page) /\ cache \in Sites
  <2>1. cache # None
    BY <1>2, StoreAssumption
  <2>2. (Blank(page, cache)).page = page
        /\ (Blank(page, cache)).list.query = None
    BY BlankTab DEF NoList
  <2>3. page = "list" /\ k = LoadCall(t, cache, None)
    BY <1>2, <2>1, <2>2 DEF MountCalls, LoadsFor
  <2>4. Asked(LoadCall(t, cache, None), t, "listSecrets")
    BY <1>2, LoadIsCall
  <2>5. QED
    BY <1>2, <2>3, <2>4
<1>3. CASE page = "detail"
  <2>1. x \in Secrets /\ "detail" \in Kinds
    BY <1>3 DEF Kinds
  <2>2. k = [New(t, "detail") EXCEPT !.secret = x]
    BY <1>3 DEF MountCalls, UsesSite
  <2>3. Asked(k, t, "detail") /\ k.secret = x
    BY <2>1, <2>2, SecretCall
  <2>4. QED
    BY <1>3, <2>3
<1>4. QED
  BY <1>1, <1>2, <1>3 DEF MountCalls

(* What is left behind is what is not read by the page; it is not heard.   *)
LEMMA LeftCalls ==
    ASSUME calls \subseteq Call, NEW t \in Tabs, NEW k \in Left(t)
    PROVE  \E j \in calls :
               /\ k \in Call
               /\ SameCall(k, j)
               /\ k.answer = j.answer
               /\ k.live => j.live
               /\ j.tab = t => j.kind \notin PageReads
               /\ j.tab # t => k = j
               /\ k.live /\ j.tab = t => j.kind \in SiteCalls
<1>1. PICK j \in Dropped(t, PageReads) :
          k = [j EXCEPT !.live = @ /\ (j.tab # t \/ j.kind \in SiteCalls)]
  BY DEF Left
<1> DEFINE still == j.live /\ (j.tab # t \/ j.kind \in SiteCalls)
<1>2. j \in calls /\ j \in Call /\ (j.tab # t \/ j.kind \notin PageReads)
  BY <1>1 DEF Dropped
<1>3. k = [j EXCEPT !.live = still]
  BY <1>1
<1>4. still \in BOOLEAN
  BY <1>2, CallFields
<1>5. j.tab # t => still = j.live
  BY <1>2, CallFields
<1>6. j.tab # t => k = j
  BY <1>2, <1>3, <1>5 DEF Call
<1> HIDE DEF still
<1>7. k \in Call /\ SameCall(k, j) /\ k.live = still /\ k.answer = j.answer
  BY <1>2, <1>3, <1>4, LeftCall
<1>8. k.live => j.live /\ (j.tab # t \/ j.kind \in SiteCalls)
  BY <1>7 DEF still
<1>9. QED
  BY <1>2, <1>6, <1>7, <1>8

(* A call that remains when tab t mounts a page: one of another tab, or    *)
(* one that no page of t waits for.                                        *)
Stays(k, t) ==
    /\ k.tab \in Tabs
    /\ k.tab # t => k \in calls
    /\ k.tab = t => k.kind \notin PageReads /\ (k.live => k.kind \in SiteCalls)
    /\ \E j \in calls : k \in Call /\ SameCall(k, j) /\ k.answer = j.answer

Remain(others, t) == \A k \in others : Stays(k, t)

(* Navigation keeps the types, whatever calls of the tab remain unheard.   *)
LEMMA MountTypes ==
    ASSUME TypeInv, NEW t \in Tabs, NEW page \in Pages, NEW x,
           page = "detail" => x \in Secrets,
           NEW cache \in Sites \cup {None, "pending"},
           NEW others,
           Remain(others, t),
           Mount(t, page, x, cache, others), Unserved
    PROVE  TypeInv'
<1> DEFINE tab == Mounted(page, x, cache)
           more == MountCalls(t, page, x, cache)
<1>1. tabs \in [Tabs -> Tab] /\ calls \subseteq Call
  BY DEF TypeInv, TypeOK
<1>2. /\ tabs' = [tabs EXCEPT ![t] = tab]
      /\ calls' = others \cup more
      /\ doubt' = doubt \ {t}
  BY MountIs
<1>3. Unread(tab, page, x, cache)
  BY MountedTab
<1>4. ASSUME NEW k \in more
      PROVE  CallFits(sites, k, tab) /\ k.tab = t
  <2>1. \E kind \in {"listSites", "listSecrets", "detail"} :
            /\ Asked(k, t, kind)
            /\ kind = "detail" => k.secret \in Secrets /\ page = "detail"
            /\ kind = "listSecrets" => page = "list" /\ cache \in Sites
    BY <1>4, MountedCalls
  <2>2. /\ tab.page = page
        /\ page = "list" /\ cache \in Sites => tab.hook = cache
    BY <1>3 DEF Unread, UsesSite
  <2> HIDE DEF tab, more
  <2>3. Carries(k) /\ AtHome(k, tab)
    BY <2>1, <2>2 DEF Asked, Carries, AtHome, Edits, PageReads
  <2>4. QED
    BY <2>1, <2>3, NewFits DEF Asked
<1> HIDE DEF tab, more
<1>5. tabs' \in [Tabs -> Tab] /\ tabs'[t] = tab
      /\ \A u \in Tabs : u # t => tabs'[u] = tabs[u]
  BY <1>1, <1>2, <1>3 DEF Unread
<1>6. TabFits(tab)
  BY <1>3 DEF Unread, TabFits, FormPage, UsesSite
<1>7. ASSUME NEW k \in others
      PROVE  CallFits(sites, k, tabs'[k.tab])
  <2>1. PICK j \in calls : /\ k \in Call
                           /\ SameCall(k, j)
                           /\ k.answer = j.answer
    BY <1>7 DEF Remain, Stays
  <2>2. CallFits(sites, j, tabs[j.tab])
    BY DEF TypeInv
  <2>3. CASE k.tab # t
    BY <1>5, <1>7, <2>3 DEF TypeInv, Remain, Stays
  <2>4. CASE k.tab = t
    <3>1. AtHome(k, tab)
      BY <1>7, <2>4 DEF AtHome, SiteCalls, Edits, PageReads, Remain, Stays
    <3>2. Carries(k)
      BY <2>1, <2>2 DEF CallFits, Carries, SameCall
    <3>3. Brings(sites, k)
      BY <2>1, <2>2 DEF CallFits, Brings, SameCall, Succeeded
    <3>4. QED
      BY <1>5, <2>1, <2>4, <3>1, <3>2, <3>3 DEF CallFits
  <2>5. QED
    BY <2>3, <2>4
<1>8. UNCHANGED <<sites, secrets, exported>>
  BY DEF Unserved
<1>9. ASSUME NEW k \in calls'
      PROVE  CallFits(sites', k, tabs'[k.tab])
  BY <1>2, <1>4, <1>5, <1>7, <1>8, <1>9
<1>10. calls' \subseteq Call
  BY <1>9 DEF CallFits
<1>11. TypeOK'
  BY <1>2, <1>5, <1>8, <1>10 DEF TypeInv, TypeOK
<1>12. \A u \in Tabs : TabFits(tabs'[u])
  BY <1>5, <1>6 DEF TypeInv
<1>13. QED
  BY <1>9, <1>11, <1>12 DEF TypeInv

(* What may remain of a tab that is left: every call but those of others   *)
(* has lost its page.                                                      *)
LEMMA LeftRemain ==
    ASSUME TypeInv, NEW t \in Tabs, NEW others \in SUBSET Left(t)
    PROVE  Remain(others, t)
<1> SUFFICES ASSUME NEW k \in others PROVE Stays(k, t)
  BY DEF Remain
<1>1. PICK j \in calls :
               /\ k \in Call
               /\ SameCall(k, j)
               /\ k.answer = j.answer
               /\ k.live => j.live
               /\ j.tab = t => j.kind \notin PageReads
               /\ j.tab # t => k = j
               /\ k.live /\ j.tab = t => j.kind \in SiteCalls
  BY LeftCalls DEF TypeInv, TypeOK
<1>2. QED
  BY <1>1, CallFields DEF SameCall, Stays

(* A user opens a page.                                                    *)
Visit(t) ==
    /\ Unserved
    /\ \/ \E page \in Pages \ {"detail"} : Goto(t, page, None)
       \/ \E x \in Secrets : Goto(t, "detail", x)

LEMMA Visits ==
    ASSUME TypeInv, NEW t \in Tabs,
           \/ \E x \in Secrets : OpenEntry(t, x)
           \/ \E page \in {"new", "backup"} : OpenPage(t, page)
           \/ GoToList(t)
    PROVE  Visit(t)
BY DEF Visit, OpenEntry, OpenPage, GoToList, Pages

LEMMA VisitTypes ==
    ASSUME TypeInv, NEW t \in Tabs, Visit(t)
    PROVE  TypeInv'
<1>1. PICK page \in Pages, x \in Secrets \cup {None} :
          /\ page = "detail" => x \in Secrets
          /\ Goto(t, page, x)
          /\ Unserved
  BY DEF Visit, Pages
<1>2. tabs[t].cache \in Sites \cup {None, "pending"}
  BY TabFields DEF TypeInv, TypeOK
<1>3. Mount(t, page, x, tabs[t].cache, Left(t))
  BY <1>1 DEF Goto
<1>4. Remain(Left(t), t)
  BY LeftRemain
<1>5. QED
  BY <1>1, <1>2, <1>3, <1>4, MountTypes

LEMMA ReloadTypes ==
    ASSUME TypeInv, NEW t \in Tabs, ReloadTab(t)
    PROVE  TypeInv'
<1>1. tabs[t] \in Tab /\ TabFits(tabs[t]) /\ calls \subseteq Call
  BY DEF TypeInv, TypeOK
<1>2. /\ tabs[t].page \in Pages
      /\ tabs[t].page = "detail" => tabs[t].view.id \in Secrets
  BY <1>1, TabFields DEF TabFits
<1>3. Mount(t, tabs[t].page, tabs[t].view.id, None, calls) /\ Unserved
      /\ CallsOf(t) = {}
  BY DEF ReloadTab
<1>4. ASSUME NEW k \in calls PROVE Stays(k, t)
  BY <1>1, <1>3, CallFields DEF CallsOf, SameCall, Stays
<1>5. Remain(calls, t)
  BY <1>4 DEF Remain
<1>6. None \in Sites \cup {None, "pending"}
  OBVIOUS
<1>7. QED
  BY <1>2, <1>3, <1>5, <1>6, MountTypes

(* The hook asks for the site once more.                                   *)
LEMMA RetryTab ==
    ASSUME TypeInv, NEW t \in Tabs, RetrySite(t)
    PROVE  /\ tabs' = [tabs EXCEPT ![t] =
                          WithSite(tabs[t], "loading", "pending")]
           /\ tabs[t].hook = "error"
           /\ tabs[t].hook \notin Sites
           /\ UsesSite(tabs[t].page)
           /\ calls' = calls \cup {New(t, "listSites")}
           /\ UNCHANGED <<sites, secrets, exported, doubt>>
<1>1. tabs[t] \in Tab /\ tabs \in [Tabs -> Tab]
  BY DEF TypeInv, TypeOK
<1>2. tabs' = [tabs EXCEPT ![t] = WithSite(tabs[t], "loading", "pending")]
  BY <1>1 DEF RetrySite, WithSite
<1>3. QED
  BY <1>2, ClientAssumption DEF RetrySite, tables

LEMMA RetryTypes ==
    ASSUME TypeInv, NEW t \in Tabs, RetrySite(t)
    PROVE  TypeInv'
<1> DEFINE tab == WithSite(tabs[t], "loading", "pending")
           call == New(t, "listSites")
<1>1. tabs[t] \in Tab /\ TabFits(tabs[t])
  BY DEF TypeInv, TypeOK
<1>2. /\ tabs' = [tabs EXCEPT ![t] = tab]
      /\ tabs[t].hook \notin Sites
      /\ UsesSite(tabs[t].page)
      /\ calls' = calls \cup {call}
      /\ UNCHANGED <<sites, secrets, exported, doubt>>
  BY RetryTab
<1>3. /\ tab \in Tab
      /\ tab.page = tabs[t].page
      /\ tab.hook = "loading"
      /\ tab.form = tabs[t].form
      /\ tab.view = tabs[t].view
      /\ tab.list = tabs[t].list
  BY <1>1, SiteSet
<1>4. Asked(call, t, "listSites")
  BY NewCall DEF Kinds
<1>5. Moves(t, tab, {call})
  BY <1>2 DEF Moves, TypeInv, TypeOK
<1> HIDE DEF tab, call
<1>6. TabFits(tab) /\ Follows(tabs[t], tab)
  BY <1>1, <1>2, <1>3 DEF TabFits, FormPage, Follows, UsesSite
<1>7. CallFits(sites, call, tab) /\ call.tab = t
  <2>1. Carries(call) /\ AtHome(call, tab)
    BY <1>4 DEF Asked, Carries, AtHome, Edits, PageReads
  <2>2. QED
    BY <1>4, <2>1, NewFits DEF Asked
<1>8. QED
  BY <1>3, <1>5, <1>6, <1>7, TabStep

(* Every step of a user keeps the types.                                   *)
LEMMA UserTypes ==
    ASSUME TypeInv, NEW t \in Tabs, UserStep(t)
    PROVE  TypeInv'
<1>1. CASE FormStep(t)
  BY <1>1, FormSteps, TypesKeepsTypes
<1>2. CASE PanelAction(t)
  BY <1>2, PanelTypes
<1>3. CASE \/ \E x \in Secrets : OpenEntry(t, x)
           \/ \E page \in {"new", "backup"} : OpenPage(t, page)
           \/ GoToList(t)
  BY <1>3, Visits, VisitTypes
<1>4. CASE \E query \in Terms \cup {None} : Search(t, query)
  BY <1>4, SearchTypes
<1>5. CASE \E i \in 1..MaxFields : HandleDeleteField(t, i)
  BY <1>5, DeleteFieldTypes
<1>6. CASE RetrySite(t)
  BY <1>6, RetryTypes
<1>7. CASE ReloadTab(t)
  BY <1>7, ReloadTypes
<1>8. CASE CancelEdit(t)
  BY <1>8, CancelTypes
<1>9. CASE ConfirmSave(t)
  BY <1>9, ConfirmTypes
<1>10. CASE StartEdit(t)
  BY <1>10, StartTypes
<1>11. CASE HandleDelete(t)
  BY <1>11, DeleteTypes
<1>12. QED
  BY <1>1, <1>2, <1>3, <1>4, <1>5, <1>6, <1>7, <1>8, <1>9, <1>10, <1>11
     DEF UserStep, FormStep, PanelAction

-----------------------------------------------------------------------------
(* The API keeps the types: what is in the tables fits, and a site is      *)
(* never deleted.                                                          *)

LEMMA AnswerTypes ==
    /\ \A ids \in SUBSET (Sites \cup Secrets) : Success(ids) \in Answer
    /\ \A status \in Statuses : Refusal(status) \in Answer
    /\ \A row \in SecretRow : Found(row) \in Answer
    /\ \A file \in File : Backup(file) \in Answer
BY DEF Success, Refusal, Found, Backup, Answer, Statuses

LEMMA TableRows ==
    /\ \A table \in SiteTable :
           /\ DOMAIN table = Sites
           /\ Ids(table) \subseteq Sites
           /\ \A s \in Ids(table) : table[s] \in SiteRow
    /\ \A table \in SecretTable :
           /\ DOMAIN table = Secrets
           /\ Ids(table) \subseteq Secrets
           /\ \A x \in Ids(table) : table[x] \in SecretRow
BY DEF SiteTable, SecretTable, Ids

Replied(k, answer) == [k EXCEPT !.answer = answer]

LEMMA RepliedIs ==
    ASSUME NEW k \in Call, NEW answer \in Answer
    PROVE  /\ Replied(k, answer) \in Call
           /\ SameCall(Replied(k, answer), k)
           /\ Replied(k, answer).live = k.live
           /\ Replied(k, answer).answer = answer
           /\ answer # None
BY AnsweredCall, StoreAssumption DEF Replied

(* What the API does to one call: the rest of the calls stay, the tables   *)
(* keep their types and their sites.                                       *)
Answers(k, answer) ==
    /\ answer \in Answer
    /\ calls' = (calls \ {k}) \cup {Replied(k, answer)}
    /\ UNCHANGED <<tabs, exported>>
    /\ sites' \in SiteTable
    /\ secrets' \in SecretTable
    /\ Ids(sites) \subseteq Ids(sites')
    /\ doubt' \subseteq Tabs

(* What it says is of the kind that was asked for.                         *)
Says(table, kind, answer) ==
    answer.status = "ok" =>
        /\ kind \in SiteCalls => answer.ids \subseteq Ids(table)
        /\ kind \in {"listSecrets", "search"} => answer.ids \subseteq Secrets
        /\ kind = "detail" => answer.row \in SecretRow
        /\ kind = "export" => answer.file \in File

LEMMA AnswersTypes ==
    ASSUME TypeInv, NEW k \in calls, NEW answer, Answers(k, answer),
           Says(sites', k.kind, answer)
    PROVE  TypeInv'
<1>1. k \in Call /\ calls \subseteq Call
  BY DEF TypeInv, TypeOK
<1> DEFINE j == Replied(k, answer)
<1>2. /\ j \in Call
      /\ SameCall(j, k)
      /\ j.live = k.live
      /\ j.answer = answer
  BY <1>1, RepliedIs DEF Answers
<1>3. calls' = (calls \ {k}) \cup {j}
  BY DEF Answers
<1> HIDE DEF j
<1>4. ASSUME NEW c \in calls'
      PROVE  CallFits(sites', c, tabs'[c.tab])
  <2>1. tabs' = tabs /\ Ids(sites) \subseteq Ids(sites')
    BY DEF Answers
  <2>2. CASE c \in calls
    <3>1. CallFits(sites, c, tabs[c.tab])
      BY <2>2 DEF TypeInv
    <3>2. Brings(sites', c)
      BY <2>1, <3>1 DEF CallFits, Brings
    <3>3. QED
      BY <2>1, <3>1, <3>2 DEF CallFits
  <2>3. CASE c = j
    <3>1. CallFits(sites, k, tabs[k.tab])
      BY DEF TypeInv
    <3>2. Carries(j)
      BY <1>2, <3>1 DEF CallFits, Carries, SameCall
    <3>3. AtHome(j, tabs[k.tab])
      BY <1>2, <3>1 DEF CallFits, AtHome, SameCall
    <3>4. Brings(sites', j)
      BY <1>2 DEF Brings, Succeeded, Says, SameCall
    <3>5. j.tab = k.tab
      BY <1>2 DEF SameCall
    <3>6. QED
      BY <1>2, <2>1, <2>3, <3>2, <3>3, <3>4, <3>5 DEF CallFits
  <2>4. QED
    BY <1>3, <2>2, <2>3
<1>5. calls' \subseteq Call
  BY <1>4 DEF CallFits
<1>6. TypeOK'
  BY <1>5 DEF Answers, TypeInv, TypeOK
<1>7. \A t \in Tabs : TabFits(tabs'[t])
  BY DEF Answers, TypeInv
<1>8. QED
  BY <1>4, <1>6, <1>7 DEF TypeInv

(* A file that is written over the tables.                                 *)
LEMMA OverlaySites ==
    ASSUME NEW table \in SiteTable, NEW rows \in SiteTable
    PROVE  /\ Overlay(table, rows) \in SiteTable
           /\ Ids(Overlay(table, rows)) = Ids(table) \cup Ids(rows)
BY DEF Overlay, SiteTable, Ids

LEMMA OverlaySecrets ==
    ASSUME NEW table \in SecretTable, NEW rows \in SecretTable
    PROVE  /\ Overlay(table, rows) \in SecretTable
           /\ Ids(Overlay(table, rows)) = Ids(table) \cup Ids(rows)
BY DEF Overlay, SecretTable, Ids

LEMMA AdoptedSites ==
    ASSUME NEW table \in SiteTable, NEW rows \in SiteTable
    PROVE  /\ Adopted(table, rows) \in SiteTable
           /\ Ids(Adopted(table, rows)) = Ids(rows)
<1> DEFINE row(s) == IF rows[s] # None /\ table[s] # None
                     THEN [label |-> rows[s].label, born |-> table[s].born]
                     ELSE rows[s]
<1>1. ASSUME NEW s \in Sites
      PROVE  /\ row(s) \in SiteRow \cup {None}
             /\ row(s) = None <=> rows[s] = None
  <2>1. CASE rows[s] # None /\ table[s] # None
    <3>1. rows[s] \in SiteRow /\ table[s] \in SiteRow
      BY <2>1 DEF SiteTable
    <3>2. [label |-> rows[s].label, born |-> table[s].born] \in SiteRow
      BY <3>1 DEF SiteRow
    <3>3. QED
      BY <2>1, <3>2, StoreAssumption
  <2>2. CASE ~(rows[s] # None /\ table[s] # None)
    BY <2>2 DEF SiteTable
  <2>3. QED
    BY <2>1, <2>2
<1>2. Adopted(table, rows) = [s \in Sites |-> row(s)]
  BY DEF Adopted, SiteTable
<1> HIDE DEF row
<1>3. QED
  BY <1>1, <1>2 DEF SiteTable, Ids

LEMMA FreshTables ==
    /\ \A rows, read \in SiteTable :
           /\ Fresh(rows, read) \in SiteTable
           /\ Ids(Fresh(rows, read)) = Ids(rows) \ Ids(read)
    /\ \A rows, read \in SecretTable :
           /\ Fresh(rows, read) \in SecretTable
           /\ Ids(Fresh(rows, read)) = Ids(rows) \ Ids(read)
<1>1. ASSUME NEW rows \in SiteTable, NEW read \in SiteTable
      PROVE  /\ Fresh(rows, read) \in SiteTable
             /\ Ids(Fresh(rows, read)) = Ids(rows) \ Ids(read)
  BY DEF Fresh, Only, SiteTable, Ids
<1>2. ASSUME NEW rows \in SecretTable, NEW read \in SecretTable
      PROVE  /\ Fresh(rows, read) \in SecretTable
             /\ Ids(Fresh(rows, read)) = Ids(rows) \ Ids(read)
  BY DEF Fresh, Only, SecretTable, Ids
<1>3. QED
  BY <1>1, <1>2

LEMMA OverwrittenRows ==
    ASSUME TypeInv, NEW file \in File, NEW mode \in Modes
    PROVE  LET rows == Overwritten(file, mode)
           IN  /\ rows.sites \in SiteTable
               /\ rows.secrets \in SecretTable
               /\ Ids(rows.sites) \subseteq Ids(file.sites)
               /\ Ids(file.sites) \subseteq Ids(rows.sites) \cup Ids(sites)
               /\ \A x \in Ids(rows.secrets) :
                      /\ x \in Ids(file.secrets)
                      /\ rows.secrets[x] = file.secrets[x]
<1> DEFINE rows == Overwritten(file, mode)
<1>1. /\ file.sites \in SiteTable /\ file.secrets \in SecretTable
      /\ sites \in SiteTable /\ secrets \in SecretTable
  BY DEF File, TypeInv, TypeOK
<1>2. CASE mode = "replace"
  <2>1. rows.sites = Adopted(sites, file.sites) /\ rows.secrets = file.secrets
    BY <1>2 DEF Overwritten
  <2>2. QED
    BY <1>1, <2>1, AdoptedSites
<1>3. CASE mode = "skip"
  <2>1. /\ rows.sites = Fresh(file.sites, sites)
        /\ rows.secrets = Fresh(file.secrets, secrets)
    BY <1>3 DEF Overwritten
  <2>2. \A x \in Ids(rows.secrets) : /\ x \in Ids(file.secrets)
                                     /\ rows.secrets[x] = file.secrets[x]
    BY <1>1, <2>1 DEF Fresh, Only, SecretTable, Ids
  <2>3. QED
    BY <1>1, <2>1, <2>2, FreshTables
<1>4. CASE mode \notin {"replace", "skip"}
  <2>1. rows = file
    BY <1>4 DEF Overwritten
  <2>2. QED
    BY <1>1, <2>1
<1>5. QED
  BY <1>2, <1>3, <1>4

(* What each request answers, and what it leaves in the tables.            *)

LEMMA ReadAnswers ==
    ASSUME TypeInv, NEW k \in calls, NEW answer \in Answer, Reads(k, answer)
    PROVE  Answers(k, answer)
BY DEF Answers, Reads, Replies, Replied, tables, TypeInv, TypeOK

LEMMA WriteAnswers ==
    ASSUME TypeInv, NEW k \in calls, NEW ids \in SUBSET (Sites \cup Secrets),
           Written(k, ids), sites' \in SiteTable, secrets' \in SecretTable,
           Ids(sites) \subseteq Ids(sites')
    PROVE  Answers(k, Success(ids))
<1>1. Success(ids) \in Answer
  BY AnswerTypes
<1>2. doubt' \subseteq Tabs
  BY DEF Written, Unaware, TypeInv, TypeOK
<1>3. QED
  BY <1>1, <1>2 DEF Answers, Written, Replies, Replied

LEMMA ReadsTypes ==
    ASSUME TypeInv, NEW k \in calls, ServeRead(k)
    PROVE  TypeInv'
<1>1. /\ sites \in SiteTable /\ secrets \in SecretTable
      /\ k \in Call /\ CallFits(sites, k, tabs[k.tab])
  BY DEF TypeInv, TypeOK
<1>2. ASSUME NEW answer \in Answer, Reads(k, answer),
             Says(sites, k.kind, answer)
      PROVE  TypeInv'
  <2>1. Answers(k, answer)
    BY <1>2, ReadAnswers
  <2>2. sites' = sites
    BY <1>2 DEF Reads, tables
  <2>3. QED
    BY <1>2, <2>1, <2>2, AnswersTypes
<1>3. CASE k.kind = "listSites" /\ Reads(k, Success(Ids(sites)))
  <2>1. Success(Ids(sites)) \in Answer
    BY <1>1, AnswerTypes, TableRows
  <2>2. Says(sites, k.kind, Success(Ids(sites)))
    BY <1>3 DEF Says, Success, SiteCalls
  <2>3. QED
    BY <1>2, <1>3, <2>1, <2>2
<1>4. CASE k.kind = "listSecrets"
           /\ Reads(k, Success(SecretsOf(secrets, k.site)))
  <2>1. SecretsOf(secrets, k.site) \subseteq Secrets
    BY <1>1, TableRows DEF SecretsOf
  <2>2. Success(SecretsOf(secrets, k.site)) \in Answer
    BY <2>1, AnswerTypes
  <2>3. Says(sites, k.kind, Success(SecretsOf(secrets, k.site)))
    BY <1>4, <2>1 DEF Says, Success, SiteCalls
  <2>4. QED
    BY <1>2, <1>4, <2>2, <2>3
<1>5. CASE k.kind = "search"
           /\ Reads(k, Success({x \in Ids(secrets) :
                                    secrets[x].body.title = k.term}))
  <2> DEFINE ids == {x \in Ids(secrets) : secrets[x].body.title = k.term}
  <2>1. ids \subseteq Secrets
    BY <1>1, TableRows
  <2>2. Reads(k, Success(ids))
    BY <1>5
  <2> HIDE DEF ids
  <2>3. Success(ids) \in Answer
    BY <2>1, AnswerTypes
  <2>4. Says(sites, k.kind, Success(ids))
    BY <1>5, <2>1 DEF Says, Success, SiteCalls
  <2>5. QED
    BY <1>2, <2>2, <2>3, <2>4
<1>6. CASE k.kind = "detail"
           /\ Reads(k, IF secrets[k.secret] = None THEN Refusal("notFound")
                       ELSE Found(secrets[k.secret]))
  <2>1. k.secret \in Secrets
    BY <1>1, <1>6 DEF CallFits, Carries
  <2>2. CASE secrets[k.secret] = None
    <3>1. Reads(k, Refusal("notFound")) /\ Refusal("notFound") \in Answer
      BY <1>6, <2>2, AnswerTypes DEF Statuses
    <3>2. Says(sites, k.kind, Refusal("notFound"))
      BY DEF Says, Refusal
    <3>3. QED
      BY <1>2, <3>1, <3>2
  <2>3. CASE secrets[k.secret] # None
    <3>1. secrets[k.secret] \in SecretRow
      BY <1>1, <2>1, <2>3 DEF SecretTable
    <3>2. Reads(k, Found(secrets[k.secret]))
          /\ Found(secrets[k.secret]) \in Answer
      BY <1>6, <2>3, <3>1, AnswerTypes
    <3>3. Says(sites, k.kind, Found(secrets[k.secret]))
      BY <1>6, <3>1 DEF Says, Found, SiteCalls
    <3>4. QED
      BY <1>2, <3>2, <3>3
  <2>4. QED
    BY <2>2, <2>3
<1>7. CASE k.kind = "export"
           /\ Reads(k, Backup([sites |-> sites, secrets |-> secrets]))
  <2> DEFINE file == [sites |-> sites, secrets |-> secrets]
  <2>1. file \in File
    BY <1>1 DEF File
  <2>2. Reads(k, Backup(file))
    BY <1>7
  <2> HIDE DEF file
  <2>3. Backup(file) \in Answer
    BY <2>1, AnswerTypes
  <2>4. Says(sites, k.kind, Backup(file))
    BY <1>7, <2>1 DEF Says, Backup, SiteCalls
  <2>5. QED
    BY <1>2, <2>2, <2>3, <2>4
<1>8. QED
  BY <1>3, <1>4, <1>5, <1>6, <1>7 DEF ServeRead

(* A site that is created is one more.                                     *)
LEMMA SiteServed ==
    ASSUME TypeInv, NEW k \in calls, ServeSite(k)
    PROVE  /\ k.kind = "createSite"
           /\ secrets' = secrets
           /\ \E s \in Sites \ Ids(sites) :
                  /\ Written(k, {s})
                  /\ sites' \in SiteTable
                  /\ Ids(sites') = Ids(sites) \cup {s}
<1>1. PICK s \in Sites \ Ids(sites) :
          \E b \in Births, label \in Labels :
              /\ sites' = [sites EXCEPT ![s] = [label |-> label, born |-> b]]
              /\ Written(k, {s})
  BY DEF ServeSite
<1>2. PICK b \in Births : \E label \in Labels :
              /\ sites' = [sites EXCEPT ![s] = [label |-> label, born |-> b]]
              /\ Written(k, {s})
  BY <1>1
<1>3. PICK label \in Labels :
              /\ sites' = [sites EXCEPT ![s] = [label |-> label, born |-> b]]
              /\ Written(k, {s})
  BY <1>2
<1> DEFINE row == [label |-> label, born |-> b]
<1>4. row \in SiteRow /\ row # None
  BY StoreAssumption DEF SiteRow
<1>5. sites' = [sites EXCEPT ![s] = row]
  BY <1>3
<1> HIDE DEF row
<1>6. sites \in SiteTable
  BY DEF TypeInv, TypeOK
<1>7. sites' \in SiteTable /\ Ids(sites') = Ids(sites) \cup {s}
  BY <1>4, <1>5, <1>6 DEF SiteTable, Ids
<1>8. QED
  BY <1>1, <1>3, <1>7 DEF ServeSite

LEMMA SiteTypes ==
    ASSUME TypeInv, NEW k \in calls, ServeSite(k)
    PROVE  TypeInv'
<1>1. PICK s \in Sites \ Ids(sites) :
          /\ Written(k, {s})
          /\ sites' \in SiteTable
          /\ Ids(sites') = Ids(sites) \cup {s}
  BY SiteServed
<1>2. k.kind = "createSite" /\ secrets' = secrets
  BY SiteServed
<1>3. Answers(k, Success({s}))
  BY <1>1, <1>2, WriteAnswers DEF TypeInv, TypeOK
<1>4. Says(sites', k.kind, Success({s}))
  BY <1>1, <1>2 DEF Says, Success
<1>5. QED
  BY <1>3, <1>4, AnswersTypes

(* What a write of a password leaves in its table: row x is new, or it is  *)
(* gone.                                                                   *)
PutSecret(x, row) ==
    /\ x \in Secrets
    /\ row \in SecretRow
    /\ secrets' = [secrets EXCEPT ![x] = row]

LEMMA PutTypes ==
    ASSUME TypeInv, NEW x, NEW row, PutSecret(x, row)
    PROVE  /\ secrets' \in SecretTable
           /\ Ids(secrets') = Ids(secrets) \cup {x}
           /\ secrets'[x] = row
           /\ \A y \in Secrets : y # x => secrets'[y] = secrets[y]
<1>1. secrets \in SecretTable /\ row # None
  BY StoreAssumption DEF TypeInv, TypeOK, PutSecret
<1>2. QED
  BY <1>1 DEF PutSecret, SecretTable, Ids

LEMMA TakeTypes ==
    ASSUME TypeInv, NEW x \in Secrets, secrets' = [secrets EXCEPT ![x] = None]
    PROVE  /\ secrets' \in SecretTable
           /\ Ids(secrets') = Ids(secrets) \ {x}
           /\ secrets'[x] = None
           /\ \A y \in Secrets : y # x => secrets'[y] = secrets[y]
BY DEF TypeInv, TypeOK, SecretTable, Ids

Creates(k, x) ==
    /\ k.kind = "createSecret"
    /\ x \in Secrets \ Ids(secrets)
    /\ PutSecret(x, [site |-> k.site, body |-> k.body])
    /\ Written(k, {x})

Saves(k) ==
    /\ k.kind \in {"saveSecret", "deleteField"}
    /\ k.secret \in Ids(secrets)
    /\ PutSecret(k.secret, [site |-> secrets[k.secret].site, body |-> k.body])
    /\ Written(k, {k.secret})

Deletes(k) ==
    /\ k.kind = "deleteSecret"
    /\ k.secret \in Secrets
    /\ secrets' = [secrets EXCEPT ![k.secret] = None]
    /\ Written(k, {})

LEMMA SecretServed ==
    ASSUME TypeInv, NEW k \in calls, ServeSecret(k)
    PROVE  /\ sites' = sites
           /\ (\E x \in Secrets : Creates(k, x)) \/ Saves(k) \/ Deletes(k)
<1>1. /\ k \in Call /\ Carries(k) /\ secrets \in SecretTable
  BY DEF TypeInv, TypeOK, CallFits
<1>2. CASE /\ k.kind = "createSecret"
           /\ \E x \in Secrets \ Ids(secrets) :
                  /\ secrets' = [secrets EXCEPT
                                    ![x] = [site |-> k.site, body |-> k.body]]
                  /\ Written(k, {x})
  <2>1. [site |-> k.site, body |-> k.body] \in SecretRow
    BY <1>1, <1>2 DEF Carries, SecretRow
  <2>2. PICK x \in Secrets \ Ids(secrets) :
           /\ secrets' = [secrets EXCEPT
                             ![x] = [site |-> k.site, body |-> k.body]]
           /\ Written(k, {x})
    BY <1>2
  <2>3. Creates(k, x)
    BY <1>2, <2>1, <2>2 DEF Creates, PutSecret
  <2>4. QED
    BY <2>3 DEF ServeSecret
<1>3. CASE /\ k.kind \in {"saveSecret", "deleteField"}
           /\ k.secret \in Ids(secrets)
           /\ secrets' = [secrets EXCEPT ![k.secret].body = k.body]
           /\ Written(k, {k.secret})
  <2>1. k.secret \in Secrets /\ secrets[k.secret] \in SecretRow
    BY <1>1, <1>3, TableRows
  <2>2. k.body \in Bodies
    BY <1>1, <1>3 DEF Carries
  <2> DEFINE old == secrets[k.secret]
             row == [site |-> old.site, body |-> k.body]
  <2>3. row \in SecretRow /\ row = [old EXCEPT !.body = k.body]
    BY <2>1, <2>2 DEF SecretRow
  <2>4. secrets' = [secrets EXCEPT ![k.secret] = [old EXCEPT !.body = k.body]]
    BY <1>1, <1>3, <2>1 DEF SecretTable
  <2>5. PutSecret(k.secret, row)
    BY <2>1, <2>3, <2>4 DEF PutSecret
  <2>6. Saves(k)
    BY <1>3, <2>5 DEF Saves
  <2>7. QED
    BY <2>6 DEF ServeSecret
<1>4. CASE /\ k.kind = "deleteSecret"
           /\ k.secret \in Ids(secrets)
           /\ secrets' = [secrets EXCEPT ![k.secret] = None]
           /\ Written(k, {})
  <2>1. k.secret \in Secrets
    BY <1>1, <1>4, TableRows
  <2>2. QED
    BY <1>4, <2>1 DEF Deletes, ServeSecret
<1>5. QED
  BY <1>2, <1>3, <1>4 DEF ServeSecret

LEMMA SecretTypes ==
    ASSUME TypeInv, NEW k \in calls, ServeSecret(k)
    PROVE  TypeInv'
<1>1. sites' = sites /\ sites \in SiteTable
  BY SecretServed DEF TypeInv, TypeOK
<1>2. ASSUME NEW ids \in SUBSET (Sites \cup Secrets), Written(k, ids),
             secrets' \in SecretTable,
             k.kind \in {"createSecret", "saveSecret", "deleteField",
                         "deleteSecret"}
      PROVE  TypeInv'
  <2>1. Answers(k, Success(ids))
    BY <1>1, <1>2, WriteAnswers
  <2>2. Says(sites', k.kind, Success(ids))
    BY <1>2 DEF Says, SiteCalls
  <2>3. QED
    BY <2>1, <2>2, AnswersTypes
<1>3. ASSUME NEW x \in Secrets, Creates(k, x) PROVE TypeInv'
  <2>1. secrets' \in SecretTable
    BY <1>3, PutTypes DEF Creates
  <2>2. QED
    BY <1>2, <1>3, <2>1 DEF Creates
<1>4. ASSUME Saves(k) PROVE TypeInv'
  <2>1. secrets' \in SecretTable /\ k.secret \in Secrets
    BY <1>4, PutTypes DEF Saves, PutSecret
  <2>2. QED
    BY <1>2, <1>4, <2>1 DEF Saves
<1>5. ASSUME Deletes(k) PROVE TypeInv'
  <2>1. secrets' \in SecretTable
    BY <1>5, TakeTypes DEF Deletes
  <2>2. QED
    BY <1>2, <1>5, <2>1 DEF Deletes
<1>6. QED
  BY <1>3, <1>4, <1>5, SecretServed

(* What an import writes.                                                  *)
Imports(k) ==
    LET file == k.file
        rows == Overwritten(k.file, k.mode)
    IN  /\ k.kind = "import"
        /\ file \in File
        /\ Closed(file.sites, file.secrets)
        /\ rows.sites \in SiteTable
        /\ rows.secrets \in SecretTable
        /\ \A x \in Ids(rows.secrets) : /\ x \in Ids(file.secrets)
                                        /\ rows.secrets[x] = file.secrets[x]
        /\ sites' \in SiteTable
        /\ secrets' \in SecretTable
        /\ Ids(sites') = Ids(sites) \cup Ids(file.sites)
        /\ secrets' = Overlay(secrets, rows.secrets)
        /\ Ids(secrets') = Ids(secrets) \cup Ids(rows.secrets)
        /\ Written(k, {})

LEMMA ImportServed ==
    ASSUME TypeInv, NEW k \in calls, ServeImport(k)
    PROVE  \/ /\ k.kind = "import"
              /\ Reads(k, Refusal("invalid")) \/ Reads(k, Refusal("conflict"))
           \/ Imports(k)
<1>1. CASE Reads(k, Refusal("invalid")) \/ Reads(k, Refusal("conflict"))
  BY <1>1 DEF ServeImport
<1> DEFINE rows == Overwritten(k.file, k.mode)
<1>2. CASE /\ Closed(k.file.sites, k.file.secrets)
           /\ sites' = Overlay(sites, rows.sites)
           /\ secrets' = Overlay(secrets, rows.secrets)
           /\ Written(k, {})
  <2>1. k.kind = "import"
    BY DEF ServeImport
  <2>2. k.file \in File /\ k.mode \in Modes
    BY <2>1 DEF TypeInv, CallFits, Carries
  <2>3. /\ rows.sites \in SiteTable
        /\ rows.secrets \in SecretTable
        /\ Ids(rows.sites) \subseteq Ids(k.file.sites)
        /\ Ids(k.file.sites) \subseteq Ids(rows.sites) \cup Ids(sites)
        /\ \A x \in Ids(rows.secrets) : /\ x \in Ids(k.file.secrets)
                                        /\ rows.secrets[x] = k.file.secrets[x]
    BY <2>2, OverwrittenRows
  <2>4. sites \in SiteTable /\ secrets \in SecretTable
    BY DEF TypeInv, TypeOK
  <2> HIDE DEF rows
  <2>5. /\ sites' \in SiteTable
        /\ secrets' \in SecretTable
        /\ Ids(sites') = Ids(sites) \cup Ids(rows.sites)
        /\ Ids(secrets') = Ids(secrets) \cup Ids(rows.secrets)
    BY <1>2, <2>3, <2>4, OverlaySites, OverlaySecrets
  <2>6. Ids(sites') = Ids(sites) \cup Ids(k.file.sites)
    BY <2>3, <2>5
  <2>7. QED
    BY <1>2, <2>1, <2>2, <2>3, <2>5, <2>6 DEF Imports, rows
<1>3. QED
  BY <1>1, <1>2 DEF ServeImport

LEMMA RefusedTypes ==
    ASSUME TypeInv, NEW k \in calls,
           NEW status \in Statuses \ {"ok"}, Reads(k, Refusal(status))
    PROVE  TypeInv'
<1>1. Answers(k, Refusal(status))
  BY AnswerTypes, ReadAnswers
<1>2. Says(sites', k.kind, Refusal(status))
  BY DEF Says, Refusal
<1>3. QED
  BY <1>1, <1>2, AnswersTypes

LEMMA ImportTypes ==
    ASSUME TypeInv, NEW k \in calls, ServeImport(k)
    PROVE  TypeInv'
<1>1. CASE Reads(k, Refusal("invalid")) \/ Reads(k, Refusal("conflict"))
  BY <1>1, RefusedTypes DEF Statuses
<1>2. CASE Imports(k)
  <2>1. /\ sites' \in SiteTable
        /\ secrets' \in SecretTable
        /\ Ids(sites) \subseteq Ids(sites')
        /\ k.kind = "import"
        /\ Written(k, {})
    BY <1>2 DEF Imports
  <2>2. Answers(k, Success({}))
    BY <2>1, WriteAnswers
  <2>3. Says(sites', k.kind, Success({}))
    BY <2>1 DEF Says, SiteCalls
  <2>4. QED
    BY <2>2, <2>3, AnswersTypes
<1>3. QED
  BY <1>1, <1>2, ImportServed

LEMMA LoseTypes ==
    ASSUME TypeInv, NEW k \in calls, Lose(k)
    PROVE  TypeInv'
<1>1. k \in Call /\ k.tab \in Tabs
  BY CallFields DEF TypeInv, TypeOK
<1>2. Refusal("error") \in Answer
  BY AnswerTypes DEF Statuses
<1>3. doubt' \subseteq Tabs
  BY <1>1 DEF Lose, TypeInv, TypeOK
<1>4. Answers(k, Refusal("error"))
  BY <1>2, <1>3 DEF Lose, Answers, Replies, Replied, tables, TypeInv, TypeOK
<1>5. Says(sites', k.kind, Refusal("error"))
  BY DEF Says, Refusal
<1>6. QED
  BY <1>4, <1>5, AnswersTypes

LEMMA ServeTypes ==
    ASSUME TypeInv, NEW k \in calls, Serve(k) \/ Fail(k) \/ Lose(k)
    PROVE  TypeInv'
<1>1. CASE Lose(k)
  BY <1>1, LoseTypes
<1>2. CASE Fail(k)
  BY <1>2, RefusedTypes DEF Fail, Statuses
<1>3. CASE Serve(k)
  <2>1. CASE RefuseSecret(k)
    BY <2>1, RefusedTypes DEF RefuseSecret, Statuses
  <2>2. QED
    BY <1>3, <2>1, ReadsTypes, SiteTypes, SecretTypes, ImportTypes DEF Serve
<1>4. QED
  BY <1>1, <1>2, <1>3

-----------------------------------------------------------------------------
(* What the pages do with an answer keeps the types.                       *)

LEMMA BecomesTypes ==
    ASSUME TypeInv, NEW k \in calls, NEW tab \in Tab, TabFits(tab),
           Follows(tabs[k.tab], tab),
           NEW started,
           \A j \in started : CallFits(sites, j, tab) /\ j.tab = k.tab,
           Becomes(k, tab, started)
    PROVE  TypeInv'
<1>1. k \in Call /\ k.tab \in Tabs
  BY CallFields DEF TypeInv, TypeOK
<1>2. Moves(k.tab, tab, started)
  BY DEF Moves, Becomes, Rest, TypeInv, TypeOK, tables
<1>3. QED
  BY <1>1, <1>2, TabStep

LEMMA HeardCall ==
    ASSUME TypeInv, NEW k \in calls
    PROVE  /\ k \in Call
           /\ k.tab \in Tabs
           /\ tabs \in [Tabs -> Tab]
           /\ tabs[k.tab] \in Tab
           /\ TabFits(tabs[k.tab])
           /\ AtHome(k, tabs[k.tab])
           /\ Carries(k)
           /\ Brings(sites, k)
<1>1. k \in Call /\ CallFits(sites, k, tabs[k.tab])
  BY DEF TypeInv, TypeOK
<1>2. k.tab \in Tabs
  BY <1>1, CallFields
<1>3. QED
  BY <1>1, <1>2 DEF TypeInv, TypeOK, CallFits

LEMMA StaysItself ==
    ASSUME TypeInv, NEW t \in Tabs
    PROVE  Follows(tabs[t], tabs[t])
BY DEF Follows

(* The site is known.                                                      *)
Resolved(old, site) ==
    IF old.hook = "loading" THEN Ready([old EXCEPT !.cache = site], site)
    ELSE [old EXCEPT !.cache = site]

LEMMA ResolvedTab ==
    ASSUME NEW old \in Tab, NEW site \in Sites
    PROVE  LET new == Resolved(old, site)
           IN  /\ new \in Tab
               /\ new.page = old.page
               /\ new.cache = site
               /\ new.hook = IF old.hook = "loading" THEN site ELSE old.hook
               /\ new.view = old.view
               /\ new.panel = old.panel
               /\ new.list.query = old.list.query
               /\ old.hook = "loading" =>
                      /\ old.page = "list" => new.list.status = "loading"
                      /\ old.page # "list" => new.list = old.list
                      /\ old.page = "new" => new.form = EmptyForm
                      /\ old.page # "new" => new.form = old.form
               /\ old.hook # "loading" => new.list = old.list
                                          /\ new.form = old.form
<1> DEFINE half == [old EXCEPT !.cache = site]
           new == Resolved(old, site)
<1>1. /\ half \in Tab
      /\ half.page = old.page
      /\ half.cache = site
      /\ half.hook = old.hook
      /\ half.view = old.view
      /\ half.panel = old.panel
      /\ half.list = old.list
      /\ half.form = old.form
  BY DEF Tab
<1>2. new = IF old.hook = "loading" THEN Ready(half, site) ELSE half
  BY DEF Resolved
<1> HIDE DEF half, new
<1>3. CASE old.hook = "loading"
  <2>1. new = Ready(half, site)
    BY <1>2, <1>3
  <2>2. /\ new \in Tab
        /\ new.page = half.page
        /\ new.hook = site
        /\ new.cache = half.cache
        /\ new.view = half.view
        /\ new.panel = half.panel
        /\ new.list.query = half.list.query
        /\ half.page = "list" => new.list.status = "loading"
        /\ half.page # "list" => new.list = half.list
        /\ half.page = "new" => new.form = EmptyForm
        /\ half.page # "new" => new.form = half.form
    BY <1>1, <2>1, ReadyTab
  <2>3. QED
    BY <1>1, <1>3, <2>2 DEF new
<1>4. CASE old.hook # "loading"
  <2>1. new = half
    BY <1>2, <1>4
  <2>2. QED
    BY <1>1, <1>4, <2>1 DEF new
<1>5. QED
  BY <1>3, <1>4

LoadsOf(t, old, site) ==
    IF old.hook = "loading"
    THEN LoadsFor(t, [old EXCEPT !.cache = site], site) ELSE {}

LEMMA LoadsAre ==
    ASSUME NEW t \in Tabs, NEW old \in Tab, NEW site \in Sites,
           NEW j \in LoadsOf(t, old, site)
    PROVE  /\ j = LoadCall(t, site, old.list.query)
           /\ Asked(j, t, IF old.list.query = None THEN "listSecrets"
                          ELSE "search")
           /\ old.page = "list"
           /\ old.hook = "loading"
<1>1. /\ j = LoadCall(t, site, old.list.query)
      /\ old.page = "list"
      /\ old.hook = "loading"
  BY DEF LoadsOf, LoadsFor, Tab
<1>2. old.list.query \in Terms \cup {None}
  BY TabFields, ListFields
<1>3. QED
  BY <1>1, <1>2, LoadIsCall

LEMMA ResolveIs ==
    ASSUME TypeInv, NEW k \in calls, NEW site, Resolve(k, site)
    PROVE  Becomes(k, Resolved(tabs[k.tab], site),
                   LoadsOf(k.tab, tabs[k.tab], site))
<1>1. tabs[k.tab] \in Tab
  BY HeardCall
<1>2. [tabs[k.tab] EXCEPT !.cache = site].hook = tabs[k.tab].hook
  BY <1>1 DEF Tab
<1>3. CASE tabs[k.tab].hook = "loading"
  BY <1>2, <1>3 DEF Resolve, Resolved, LoadsOf
<1>4. CASE tabs[k.tab].hook # "loading"
  BY <1>2, <1>4 DEF Resolve, Resolved, LoadsOf
<1>5. QED
  BY <1>3, <1>4

LEMMA ResolveTypes ==
    ASSUME TypeInv, NEW k \in calls, NEW site \in Sites, Resolve(k, site)
    PROVE  TypeInv'
<1> DEFINE old == tabs[k.tab]
           new == Resolved(old, site)
           loads == LoadsOf(k.tab, old, site)
<1>1. /\ k.tab \in Tabs
      /\ old \in Tab
      /\ TabFits(old)
  BY HeardCall
<1>2. Becomes(k, new, loads)
  BY ResolveIs
<1> HIDE DEF old
<1>3. /\ new \in Tab
      /\ new.page = old.page
      /\ new.hook = IF old.hook = "loading" THEN site ELSE old.hook
      /\ new.view = old.view
      /\ old.hook = "loading" =>
             /\ old.page = "list" => new.list.status = "loading"
             /\ old.page # "list" => new.list = old.list
             /\ old.page = "new" => new.form = EmptyForm
             /\ old.page # "new" => new.form = old.form
      /\ old.hook # "loading" => new.list = old.list
                                 /\ new.form = old.form
  BY <1>1, ResolvedTab
<1>4. \A j \in loads : /\ Asked(j, k.tab, "listSecrets")
                             \/ Asked(j, k.tab, "search")
                       /\ old.page = "list"
                       /\ old.hook = "loading"
  BY <1>1, LoadsAre
<1> HIDE DEF new, loads
<1>5. old.hook \in Sites => old.hook # "loading"
  BY ClientAssumption
<1>6. Follows(old, new)
  BY <1>3, <1>5 DEF Follows
<1>7. EmptyForm.step = "edit"
  BY DEF EmptyForm, Closed0
<1>8. TabFits(new)
  BY <1>1, <1>3, <1>5, <1>7 DEF TabFits, FormPage
<1>9. ASSUME NEW j \in loads PROVE CallFits(sites, j, new) /\ j.tab = k.tab
  <2>1. PICK kind \in {"listSecrets", "search"} : Asked(j, k.tab, kind)
    BY <1>4
  <2>2. new.page = "list" /\ new.hook \in Sites
    BY <1>3, <1>4
  <2>3. Carries(j) /\ AtHome(j, new)
    BY <2>1, <2>2 DEF Asked, Carries, AtHome, Edits, PageReads
  <2>4. QED
    BY <2>1, <2>3, NewFits DEF Asked
<1>10. Follows(tabs[k.tab], new)
  BY <1>6 DEF old
<1>11. QED
  BY <1>2, <1>3, <1>8, <1>9, <1>10, BecomesTypes

(* The oldest site.                                                        *)
LEMMA Oldest ==
    ASSUME TypeInv, NEW ids \in SUBSET Ids(sites), ids # {}
    PROVE  PickDefaultSiteId(ids) \in ids
<1>1. sites \in SiteTable
  BY DEF TypeInv, TypeOK
<1>2. \A s \in ids : sites[s].born \in Nat
  BY <1>1, TableRows, StoreAssumption DEF SiteRow, Births
<1> DEFINE births == {sites[s].born : s \in ids}
<1>3. births \subseteq Nat /\ births # {}
  BY <1>2
<1> HIDE DEF births
<1>4. PICK b \in births : \A c \in births : b <= c
  BY <1>3, Least
<1>5. PICK s \in ids : sites[s].born = b
  BY <1>4 DEF births
<1>6. \A other \in ids : sites[s].born <= sites[other].born
  BY <1>4, <1>5 DEF births
<1>7. QED
  BY <1>6 DEF PickDefaultSiteId

LEMMA HearSitesTypes ==
    ASSUME TypeInv, NEW k \in calls, k.answer # None, HearSites(k)
    PROVE  TypeInv'
<1>1. /\ k.tab \in Tabs
      /\ tabs[k.tab] \in Tab
      /\ TabFits(tabs[k.tab])
      /\ Brings(sites, k)
  BY HeardCall
<1>2. k.answer.ids \subseteq Ids(sites)
  BY <1>1 DEF HearSites, Brings, Succeeded, SiteCalls
<1>3. CASE k.answer.ids = {}
  <2> DEFINE call == New(k.tab, "createSite")
  <2>1. Asked(call, k.tab, "createSite")
    BY <1>1, NewCall DEF Kinds, Writes
  <2>2. Becomes(k, tabs[k.tab], {call})
    BY <1>3 DEF HearSites
  <2> HIDE DEF call
  <2>3. Carries(call) /\ AtHome(call, tabs[k.tab])
    BY <2>1 DEF Asked, Carries, AtHome, Edits, PageReads
  <2>4. CallFits(sites, call, tabs[k.tab]) /\ call.tab = k.tab
    BY <2>1, <2>3, NewFits DEF Asked
  <2>5. QED
    BY <1>1, <2>2, <2>4, StaysItself, BecomesTypes
<1>4. CASE k.answer.ids # {}
  <2> DEFINE site == PickDefaultSiteId(k.answer.ids)
  <2>1. site \in Sites
    BY <1>2, <1>4, Oldest, TableRows DEF TypeInv, TypeOK
  <2>2. Resolve(k, site)
    BY <1>4 DEF HearSites
  <2> HIDE DEF site
  <2>3. QED
    BY <2>1, <2>2, ResolveTypes
<1>5. QED
  BY <1>3, <1>4

LEMMA HearCreatedTypes ==
    ASSUME TypeInv, NEW k \in calls, k.answer # None, HearCreated(k)
    PROVE  TypeInv'
<1>1. Brings(sites, k)
  BY HeardCall
<1>2. k.answer.ids \subseteq Ids(sites)
  BY <1>1 DEF HearCreated, Brings, Succeeded, SiteCalls
<1>3. PICK s \in k.answer.ids : Resolve(k, s)
  BY DEF HearCreated
<1>4. s \in Sites
  BY <1>2, <1>3, TableRows DEF TypeInv, TypeOK
<1>5. QED
  BY <1>3, <1>4, ResolveTypes

LEMMA SiteFailedTab ==
    ASSUME TypeInv, NEW k \in calls, SiteFailed(k)
    PROVE  LET old == tabs[k.tab]
               hook == IF old.hook = "loading" THEN "error" ELSE old.hook
           IN  /\ Becomes(k, WithSite(old, hook, None), {})
               /\ hook \in Sites \cup {"off", "loading", "error"}
<1> DEFINE old == tabs[k.tab]
           hook == IF old.hook = "loading" THEN "error" ELSE old.hook
<1>1. old \in Tab
  BY HeardCall
<1>2. hook \in Sites \cup {"off", "loading", "error"}
  BY <1>1, TabFields
<1>3. [old EXCEPT !.cache = None,
                  !.hook = IF @ = "loading" THEN "error" ELSE @]
          = WithSite(old, hook, None)
  BY <1>1 DEF WithSite, Tab
<1>4. QED
  BY <1>2, <1>3 DEF SiteFailed

LEMMA SiteFailedTypes ==
    ASSUME TypeInv, NEW k \in calls, SiteFailed(k)
    PROVE  TypeInv'
<1> DEFINE old == tabs[k.tab]
           hook == IF old.hook = "loading" THEN "error" ELSE old.hook
           new == WithSite(old, hook, None)
<1>1. old \in Tab /\ TabFits(old)
  BY HeardCall
<1>2. Becomes(k, new, {}) /\ hook \in Sites \cup {"off", "loading", "error"}
  BY SiteFailedTab
<1>3. old.hook \in Sites => hook = old.hook
  BY ClientAssumption
<1> HIDE DEF old, hook
<1>4. /\ new \in Tab
      /\ new.page = old.page
      /\ new.hook = hook
      /\ new.form = old.form
      /\ new.view = old.view
      /\ new.list = old.list
  BY <1>1, <1>2, SiteSet
<1> HIDE DEF new
<1>5. TabFits(new)
  BY <1>1, <1>3, <1>4 DEF TabFits, FormPage
<1>6. Follows(tabs[k.tab], new)
  BY <1>3, <1>4 DEF Follows, old
<1>7. QED
  BY <1>2, <1>4, <1>5, <1>6, BecomesTypes

(* The list of an answer.                                                  *)
Listed(old, answer) ==
    IF answer.status = "ok"
    THEN [old EXCEPT !.status = "loaded", !.items = answer.ids]
    ELSE [old EXCEPT !.status = "error"]

LEMMA ListedIs ==
    ASSUME NEW old \in List, NEW answer,
           answer.status = "ok" => answer.ids \subseteq Secrets
    PROVE  LET new == Listed(old, answer)
           IN  /\ new \in List
               /\ new.query = old.query
               /\ new.status = IF answer.status = "ok" THEN "loaded"
                               ELSE "error"
               /\ answer.status = "ok" => new.items = answer.ids
<1>1. CASE answer.status = "ok"
  BY <1>1 DEF Listed, List, Loading
<1>2. CASE answer.status # "ok"
  BY <1>2 DEF Listed, List, Loading
<1>3. QED
  BY <1>1, <1>2

LEMMA HearListTab ==
    ASSUME TypeInv, NEW k \in calls, k.answer # None, HearList(k)
    PROVE  LET old == tabs[k.tab]
               list == Listed(old.list, k.answer)
           IN  /\ Becomes(k, WithList(old, list), {})
               /\ list \in List
               /\ list.query = old.list.query
               /\ list.status = IF k.answer.status = "ok" THEN "loaded"
                                ELSE "error"
               /\ k.answer.status = "ok" => list.items = k.answer.ids
               /\ old.page = "list"
               /\ old.hook \in Sites
<1> DEFINE old == tabs[k.tab]
           list == Listed(old.list, k.answer)
<1>1. old \in Tab /\ AtHome(k, old) /\ Brings(sites, k)
  BY HeardCall
<1>2. k.kind \in {"listSecrets", "search"}
  BY DEF HearList
<1>3. old.page = "list" /\ old.hook \in Sites
  BY <1>1, <1>2 DEF AtHome, PageReads
<1>4. Becomes(k, WithList(old, list), {})
  BY <1>1 DEF HearList, WithList, Listed, Tab
<1>5. k.answer.status = "ok" => k.answer.ids \subseteq Secrets
  BY <1>1, <1>2 DEF Brings, Succeeded
<1>6. old.list \in List
  BY <1>1, TabFields
<1>7. /\ list \in List
      /\ list.query = old.list.query
      /\ list.status = IF k.answer.status = "ok" THEN "loaded" ELSE "error"
      /\ k.answer.status = "ok" => list.items = k.answer.ids
  BY <1>5, <1>6, ListedIs
<1>8. QED
  BY <1>3, <1>4, <1>7

LEMMA HearListTypes ==
    ASSUME TypeInv, NEW k \in calls, k.answer # None, HearList(k)
    PROVE  TypeInv'
<1> DEFINE old == tabs[k.tab]
           list == Listed(old.list, k.answer)
           new == WithList(old, list)
<1>1. old \in Tab /\ TabFits(old)
  BY HeardCall
<1>2. /\ Becomes(k, new, {})
      /\ list \in List
      /\ old.page = "list"
      /\ old.hook \in Sites
  BY HearListTab
<1> HIDE DEF list, old
<1>3. /\ new \in Tab
      /\ SamePage(new, old)
      /\ new.form = old.form
      /\ new.view = old.view
  BY <1>1, <1>2, ListSet
<1> HIDE DEF new
<1>4. TabFits(new) /\ Follows(old, new)
  BY <1>1, <1>2, <1>3 DEF TabFits, FormPage, SamePage, Follows
<1>5. QED
  BY <1>2, <1>3, <1>4, BecomesTypes DEF old

(* The password of an answer.                                              *)
Detailed(old, answer) ==
    LET view == [old EXCEPT !.fieldBusy = FALSE]
    IN  CASE answer.status = "ok" ->
                 [view EXCEPT !.status = "loaded", !.body = answer.row.body]
          [] answer.status = "notFound" -> [view EXCEPT !.status = "missing"]
          [] OTHER -> [view EXCEPT !.status = "error"]

LEMMA DetailedIs ==
    ASSUME NEW old \in View, NEW answer,
           answer.status = "ok" => answer.row \in SecretRow
    PROVE  LET new == Detailed(old, answer)
           IN  /\ new \in View
               /\ new.id = old.id
               /\ new.mode = old.mode
               /\ ~new.fieldBusy
               /\ new.deleting = old.deleting
               /\ new.status = IF answer.status = "ok" THEN "loaded"
                               ELSE IF answer.status = "notFound"
                               THEN "missing" ELSE "error"
               /\ answer.status = "ok" => new.body = answer.row.body
                                          /\ new.body \in Bodies
<1> DEFINE view == [old EXCEPT !.fieldBusy = FALSE]
<1>1. /\ view \in View
      /\ SameShown(view, old)
      /\ view.mode = old.mode
      /\ view.deleting = old.deleting
      /\ view.fieldBusy = FALSE
  BY FieldBusySet
<1>2. CASE answer.status = "ok"
  <2> DEFINE body == answer.row.body
             new == [view EXCEPT !.status = "loaded", !.body = body]
  <2>1. body \in Bodies
    BY <1>2 DEF SecretRow
  <2>2. Detailed(old, answer) = new
    BY <1>2 DEF Detailed
  <2> HIDE DEF view, body
  <2>3. /\ new \in View
        /\ new.id = view.id
        /\ new.mode = view.mode
        /\ new.fieldBusy = view.fieldBusy
        /\ new.deleting = view.deleting
        /\ new.status = "loaded"
        /\ new.body = body
    BY <1>1, <2>1 DEF View, Loading
  <2> HIDE DEF new
  <2>4. QED
    BY <1>1, <1>2, <2>1, <2>2, <2>3 DEF SameShown, body
<1>3. CASE answer.status = "notFound"
  <2> DEFINE new == [view EXCEPT !.status = "missing"]
  <2>1. Detailed(old, answer) = new
    BY <1>3 DEF Detailed
  <2> HIDE DEF view
  <2>2. /\ new \in View
        /\ new.id = view.id
        /\ new.status = "missing"
        /\ new.mode = view.mode
        /\ new.deleting = view.deleting
        /\ new.fieldBusy = view.fieldBusy
    BY <1>1, StatusSet DEF Loading
  <2> HIDE DEF new
  <2>3. QED
    BY <1>1, <1>3, <2>1, <2>2 DEF SameShown
<1>4. CASE answer.status \notin {"ok", "notFound"}
  <2> DEFINE new == [view EXCEPT !.status = "error"]
  <2>1. Detailed(old, answer) = new
    BY <1>4 DEF Detailed
  <2> HIDE DEF view
  <2>2. /\ new \in View
        /\ new.id = view.id
        /\ new.status = "error"
        /\ new.mode = view.mode
        /\ new.deleting = view.deleting
        /\ new.fieldBusy = view.fieldBusy
    BY <1>1, StatusSet DEF Loading
  <2> HIDE DEF new
  <2>3. QED
    BY <1>1, <1>4, <2>1, <2>2 DEF SameShown
<1>5. QED
  BY <1>2, <1>3, <1>4

LEMMA HearDetailTab ==
    ASSUME TypeInv, NEW k \in calls, k.answer # None, HearDetail(k)
    PROVE  LET old == tabs[k.tab]
               view == Detailed(old.view, k.answer)
           IN  /\ Becomes(k, WithView(old, view), {})
               /\ view \in View
               /\ view.id = old.view.id
               /\ view.mode = old.view.mode
               /\ ~view.fieldBusy
               /\ view.deleting = old.view.deleting
               /\ view.status = IF k.answer.status = "ok" THEN "loaded"
                                ELSE IF k.answer.status = "notFound"
                                THEN "missing" ELSE "error"
               /\ k.answer.status = "ok" => view.body = k.answer.row.body
                                            /\ view.body \in Bodies
               /\ old.page = "detail"
<1> DEFINE old == tabs[k.tab]
           view == Detailed(old.view, k.answer)
<1>1. old \in Tab /\ AtHome(k, old) /\ Brings(sites, k)
  BY HeardCall
<1>2. k.kind = "detail"
  BY DEF HearDetail
<1>3. old.page = "detail"
  BY <1>1, <1>2 DEF AtHome, PageReads
<1>4. Becomes(k, WithView(old, view), {})
  BY DEF HearDetail, WithView, Detailed
<1>5. k.answer.status = "ok" => k.answer.row \in SecretRow
  BY <1>1, <1>2 DEF Brings, Succeeded
<1>6. old.view \in View
  BY <1>1, TabFields
<1>7. /\ view \in View
      /\ view.id = old.view.id
      /\ view.mode = old.view.mode
      /\ ~view.fieldBusy
      /\ view.deleting = old.view.deleting
      /\ view.status = IF k.answer.status = "ok" THEN "loaded"
                       ELSE IF k.answer.status = "notFound"
                       THEN "missing" ELSE "error"
      /\ k.answer.status = "ok" => view.body = k.answer.row.body
                                   /\ view.body \in Bodies
  BY <1>5, <1>6, DetailedIs
<1> HIDE DEF view
<1>8. QED
  BY <1>3, <1>4, <1>7 DEF view

LEMMA HearDetailTypes ==
    ASSUME TypeInv, NEW k \in calls, k.answer # None, HearDetail(k)
    PROVE  TypeInv'
<1> DEFINE old == tabs[k.tab]
           view == Detailed(old.view, k.answer)
           new == WithView(old, view)
<1>1. old \in Tab /\ TabFits(old)
  BY HeardCall
<1>2. /\ Becomes(k, new, {})
      /\ view \in View
      /\ view.id = old.view.id
      /\ view.status = "loaded" => view.body \in Bodies
      /\ old.page = "detail"
  BY HearDetailTab
<1> HIDE DEF view, old
<1>3. /\ new \in Tab
      /\ SamePage(new, old)
      /\ new.form = old.form
      /\ new.view = view
      /\ new.list = old.list
  BY <1>1, <1>2, ViewSet
<1> HIDE DEF new
<1>4. TabFits(new) /\ Follows(old, new)
  BY <1>1, <1>2, <1>3 DEF TabFits, FormPage, SamePage, Follows
<1>5. QED
  BY <1>2, <1>3, <1>4, BecomesTypes DEF old

(* The way to the list.                                                    *)
LEMMA PushTypes ==
    ASSUME TypeInv, NEW k \in calls, PushToList(k)
    PROVE  TypeInv'
<1>1. /\ k.tab \in Tabs
      /\ tabs[k.tab] \in Tab
      /\ TabFits(tabs[k.tab])
  BY HeardCall
<1>2. CASE tabs[k.tab].page = "list"
  <2>1. tabs' = tabs /\ doubt' = doubt /\ calls' \subseteq calls /\ Unserved
    BY <1>2 DEF PushToList, Rest
  <2>2. tabs \in [Tabs -> Tab]
    BY DEF TypeInv, TypeOK
  <2>3. Moves(k.tab, tabs[k.tab], {})
    BY <1>1, <2>1, <2>2 DEF Moves, Unserved, TypeInv, TypeOK
  <2>4. QED
    BY <1>1, <2>3, StaysItself, TabStep
<1>3. CASE tabs[k.tab].page # "list"
  <2> DEFINE others == Left(k.tab) \ {k, [k EXCEPT !.live = FALSE]}
  <2>1. Mount(k.tab, "list", None, tabs[k.tab].cache, others) /\ Unserved
    BY <1>3 DEF PushToList
  <2>2. others \in SUBSET Left(k.tab)
    OBVIOUS
  <2> HIDE DEF others
  <2>3. Remain(others, k.tab)
    BY <1>1, <2>2, LeftRemain
  <2>4. tabs[k.tab].cache \in Sites \cup {None, "pending"} /\ "list" \in Pages
    BY <1>1, TabFields DEF Pages
  <2>5. QED
    BY <1>1, <2>1, <2>3, <2>4, MountTypes
<1>4. QED
  BY <1>2, <1>3

(* A password that is loaded once more.                                    *)
ReloadView(view) == [view EXCEPT !.status = "loading"]

LEMMA ReloadsTab ==
    ASSUME TypeInv, NEW k \in calls, k.kind \in Edits, k.live,
           NEW view \in View, view.id = tabs[k.tab].view.id, Reloads(k, view)
    PROVE  LET old == tabs[k.tab]
               new == WithForm(WithView(old, ReloadView(view)), Closed0)
               call == [New(k.tab, "detail") EXCEPT !.secret = view.id]
           IN  /\ tabs' = [tabs EXCEPT ![k.tab] = new]
               /\ calls' = Rest(k) \cup {call}
               /\ doubt' = doubt \ {k.tab}
               /\ Unserved
               /\ new \in Tab
               /\ SamePage(new, old)
               /\ new.list = old.list
               /\ new.form = Closed0
               /\ new.panel = old.panel
               /\ new.view.id = view.id
               /\ new.view.status = "loading"
               /\ new.view.mode = view.mode
               /\ new.view.fieldBusy = view.fieldBusy
               /\ Asked(call, k.tab, "detail")
               /\ call.secret = view.id
               /\ view.id \in Secrets
               /\ old.page = "detail"
<1> DEFINE old == tabs[k.tab]
           load == ReloadView(view)
           half == WithView(old, load)
           new == WithForm(half, Closed0)
           call == [New(k.tab, "detail") EXCEPT !.secret = view.id]
<1>1. /\ k.tab \in Tabs /\ tabs \in [Tabs -> Tab]
      /\ old \in Tab /\ TabFits(old) /\ AtHome(k, old)
  BY HeardCall
<1>2. old.page = "detail" /\ view.id \in Secrets
  BY <1>1 DEF AtHome, TabFits
<1>3. /\ tabs' = [tabs EXCEPT ![k.tab] = new]
      /\ calls' = Rest(k) \cup {call}
      /\ doubt' = doubt \ {k.tab}
      /\ Unserved
  BY <1>1 DEF Reloads, WithForm, WithView, ReloadView
<1>4. Asked(call, k.tab, "detail") /\ call.secret = view.id
  BY <1>1, <1>2, SecretCall DEF Kinds
<1>5. /\ load \in View
      /\ load.id = view.id
      /\ load.status = "loading"
      /\ load.mode = view.mode
      /\ load.fieldBusy = view.fieldBusy
  BY StatusSet DEF ReloadView, Loading
<1> HIDE DEF load
<1>6. /\ half \in Tab
      /\ SamePage(half, old)
      /\ half.view = load
      /\ half.list = old.list
      /\ half.panel = old.panel
  BY <1>1, <1>5, ViewSet
<1> HIDE DEF half
<1>7. /\ new \in Tab
      /\ SamePage(new, half)
      /\ new.form = Closed0
      /\ new.view = half.view
      /\ new.list = half.list
      /\ new.panel = half.panel
  BY <1>6, ClosedForm, FormSet
<1> HIDE DEF new, call
<1>8. /\ SamePage(new, old)
      /\ new.view = load
      /\ new.list = old.list
      /\ new.panel = old.panel
  BY <1>6, <1>7 DEF SamePage
<1>9. QED
  BY <1>2, <1>3, <1>4, <1>5, <1>7, <1>8 DEF new, half, load, call

LEMMA ReloadsTypes ==
    ASSUME TypeInv, NEW k \in calls, k.kind \in Edits, k.live,
           NEW view \in View, view.id = tabs[k.tab].view.id, Reloads(k, view)
    PROVE  TypeInv'
<1> DEFINE old == tabs[k.tab]
           new == WithForm(WithView(old, ReloadView(view)), Closed0)
           call == [New(k.tab, "detail") EXCEPT !.secret = view.id]
<1>1. k.tab \in Tabs /\ old \in Tab /\ TabFits(old)
  BY HeardCall
<1>2. /\ tabs' = [tabs EXCEPT ![k.tab] = new]
      /\ calls' = Rest(k) \cup {call}
      /\ doubt' = doubt \ {k.tab}
      /\ Unserved
      /\ new \in Tab
      /\ SamePage(new, old)
      /\ new.list = old.list
      /\ new.form = Closed0
      /\ new.view.id = view.id
      /\ new.view.status = "loading"
      /\ Asked(call, k.tab, "detail")
      /\ call.secret = view.id
      /\ view.id \in Secrets
      /\ old.page = "detail"
  BY ReloadsTab
<1> HIDE DEF new, call
<1>3. Moves(k.tab, new, {call})
  BY <1>2 DEF Moves, Rest, Unserved, TypeInv, TypeOK
<1> HIDE DEF old
<1>4. TabFits(new) /\ Follows(old, new)
  BY <1>1, <1>2 DEF TabFits, FormPage, SamePage, Follows, Closed0
<1>5. CallFits(sites, call, new) /\ call.tab = k.tab
  <2>1. Carries(call) /\ AtHome(call, new)
    BY <1>2 DEF Asked, Carries, AtHome, Edits, PageReads, SamePage
  <2>2. QED
    BY <1>2, <2>1, NewFits DEF Asked
<1>6. QED
  BY <1>1, <1>2, <1>3, <1>4, <1>5, TabStep DEF old

LEMMA HearSavedTypes ==
    ASSUME TypeInv, NEW k \in calls, HearSaved(k) \/ HearFieldDeleted(k)
    PROVE  TypeInv'
<1> DEFINE old == tabs[k.tab].view
<1>1. old \in View
  BY HeardCall, TabFields
<1>2. CASE HearSaved(k)
  <2> DEFINE view == [old EXCEPT !.mode = "view"]
  <2>1. view \in View /\ view.id = old.id
    BY <1>1, ModeSet DEF SameShown
  <2>2. Reloads(k, view) /\ k.kind \in Edits /\ k.live
    BY <1>2 DEF HearSaved, Edits
  <2> HIDE DEF view
  <2>3. QED
    BY <2>1, <2>2, ReloadsTypes
<1>3. CASE HearFieldDeleted(k)
  <2>1. Reloads(k, old) /\ k.kind \in Edits /\ k.live
    BY <1>3 DEF HearFieldDeleted, Edits
  <2>2. QED
    BY <1>1, <2>1, ReloadsTypes
<1>4. QED
  BY <1>2, <1>3

(* A failure is shown.                                                     *)
FailedForm(form) == [form EXCEPT !.step = "edit", !.submitting = FALSE]

LEMMA SaveFailedTab ==
    ASSUME TypeInv, NEW k \in calls, SaveFailed(k)
    PROVE  LET old == tabs[k.tab]
               form == FailedForm(old.form)
           IN  /\ Becomes(k, WithForm(old, form), {})
               /\ form \in Form
               /\ form.step = "edit"
               /\ form.draft = old.form.draft
               /\ ~form.submitting
               /\ FormPage(old)
<1> DEFINE old == tabs[k.tab]
<1>1. old \in Tab /\ TabFits(old) /\ AtHome(k, old)
  BY HeardCall
<1>2. FormPage(old)
  BY <1>1 DEF SaveFailed, AtHome, FormPage, Edits
<1>3. /\ FailedForm(old.form) \in Form
      /\ FailedForm(old.form).step = "edit"
      /\ FailedForm(old.form).draft = old.form.draft
      /\ ~FailedForm(old.form).submitting
  BY <1>1, TabFields DEF FailedForm, Form
<1>4. [old EXCEPT !.form.step = "edit", !.form.submitting = FALSE]
          = WithForm(old, FailedForm(old.form))
  BY <1>1 DEF WithForm, FailedForm, Tab, Form
<1>5. QED
  BY <1>2, <1>3, <1>4 DEF SaveFailed

LEMMA SaveFailedTypes ==
    ASSUME TypeInv, NEW k \in calls, SaveFailed(k)
    PROVE  TypeInv'
<1> DEFINE old == tabs[k.tab]
           form == FailedForm(old.form)
           new == WithForm(old, form)
<1>1. old \in Tab /\ TabFits(old)
  BY HeardCall
<1>2. /\ Becomes(k, new, {})
      /\ form \in Form
      /\ form.step = "edit"
      /\ FormPage(old)
  BY SaveFailedTab
<1> HIDE DEF form, old
<1>3. /\ new \in Tab
      /\ SamePage(new, old)
      /\ new.form = form
      /\ new.view = old.view
      /\ new.list = old.list
  BY <1>1, <1>2, FormSet
<1> HIDE DEF new
<1>4. TabFits(new) /\ Follows(old, new)
  BY <1>1, <1>2, <1>3 DEF TabFits, FormPage, SamePage, Follows
<1>5. QED
  BY <1>2, <1>3, <1>4, BecomesTypes DEF old

LEMMA DeleteFailedTab ==
    ASSUME TypeInv, NEW k \in calls, DeleteFailed(k) \/ DeleteFieldFailed(k)
    PROVE  LET old == tabs[k.tab]
               view == IF DeleteFailed(k)
                       THEN [old.view EXCEPT !.deleting = FALSE]
                       ELSE [old.view EXCEPT !.fieldBusy = FALSE]
           IN  /\ Becomes(k, WithView(old, view), {})
               /\ view \in View
               /\ SameShown(view, old.view)
               /\ view.mode = old.view.mode
               /\ DeleteFailed(k) => view.fieldBusy = old.view.fieldBusy
<1> DEFINE old == tabs[k.tab]
<1>1. old \in Tab /\ old.view \in View
  BY HeardCall, TabFields
<1>2. CASE DeleteFailed(k)
  <2> DEFINE view == [old.view EXCEPT !.deleting = FALSE]
  <2>1. /\ view \in View /\ SameShown(view, old.view)
        /\ view.mode = old.view.mode
        /\ view.fieldBusy = old.view.fieldBusy
    BY <1>1, DeletingSet
  <2>2. Becomes(k, WithView(old, view), {})
    BY <1>1, <1>2 DEF DeleteFailed, WithView, Tab
  <2> HIDE DEF view
  <2>3. QED
    BY <1>2, <2>1, <2>2 DEF view
<1>3. CASE ~DeleteFailed(k)
  <2> DEFINE view == [old.view EXCEPT !.fieldBusy = FALSE]
  <2>1. /\ view \in View /\ SameShown(view, old.view)
        /\ view.mode = old.view.mode
    BY <1>1, FieldBusySet
  <2>2. Becomes(k, WithView(old, view), {})
    BY <1>1, <1>3 DEF DeleteFieldFailed, WithView, Tab
  <2> HIDE DEF view
  <2>3. QED
    BY <1>3, <2>1, <2>2 DEF view
<1>4. QED
  BY <1>2, <1>3

LEMMA DeleteFailedTypes ==
    ASSUME TypeInv, NEW k \in calls, DeleteFailed(k) \/ DeleteFieldFailed(k)
    PROVE  TypeInv'
<1> DEFINE old == tabs[k.tab]
           view == IF DeleteFailed(k)
                   THEN [old.view EXCEPT !.deleting = FALSE]
                   ELSE [old.view EXCEPT !.fieldBusy = FALSE]
           new == WithView(old, view)
<1>1. old \in Tab /\ TabFits(old)
  BY HeardCall
<1>2. /\ Becomes(k, new, {})
      /\ view \in View
      /\ SameShown(view, old.view)
  BY DeleteFailedTab
<1> HIDE DEF view, old
<1>3. /\ new \in Tab
      /\ SamePage(new, old)
      /\ new.form = old.form
      /\ new.view = view
      /\ new.list = old.list
  BY <1>1, <1>2, ViewSet
<1> HIDE DEF new
<1>4. TabFits(new) /\ Follows(old, new)
  BY <1>1, <1>2, <1>3 DEF TabFits, FormPage, SamePage, Follows, SameShown
<1>5. QED
  BY <1>2, <1>3, <1>4, BecomesTypes DEF old

(* The backup panel.                                                       *)
LEMMA HearExportTab ==
    ASSUME TypeInv, NEW k \in calls, k.answer # None, HearExport(k)
    PROVE  \E panel \in Panel :
               /\ panel.file = tabs[k.tab].panel.file
               /\ tabs' = [tabs EXCEPT ![k.tab] =
                              WithPanel(tabs[k.tab], panel)]
               /\ k.answer.status = "ok" =>
                      exported' = k.answer.file /\ k.answer.file \in File
               /\ k.answer.status # "ok" => exported' = exported
<1> DEFINE old == tabs[k.tab]
           free == [old.panel EXCEPT !.busy = FALSE]
<1>1. /\ k.tab \in Tabs
      /\ tabs \in [Tabs -> Tab]
      /\ old \in Tab
      /\ Brings(sites, k)
  BY HeardCall
<1>2. old.panel \in Panel
  BY <1>1, TabFields
<1>3. free \in Panel /\ free.file = old.panel.file
  BY <1>2 DEF Panel
<1>4. k.answer.status = "ok" => k.answer.file \in File
  BY <1>1 DEF Brings, Succeeded, HearExport
<1>5. CASE k.live
  <2>1. tabs' = [tabs EXCEPT ![k.tab] = WithPanel(old, free)]
    BY <1>1, <1>5 DEF HearExport, WithPanel
  <2> HIDE DEF free
  <2>2. QED
    BY <1>3, <1>4, <2>1 DEF HearExport
<1>6. CASE ~k.live
  <2>1. tabs' = tabs
    BY <1>6 DEF HearExport
  <2>2. WithPanel(old, old.panel) = old
    BY <1>1 DEF WithPanel, Tab
  <2>3. tabs' = [tabs EXCEPT ![k.tab] = WithPanel(old, old.panel)]
    BY <1>1, <2>1, <2>2
  <2>4. QED
    BY <1>2, <1>4, <2>3 DEF HearExport
<1>7. QED
  BY <1>5, <1>6

LEMMA HearExportTypes ==
    ASSUME TypeInv, NEW k \in calls, k.answer # None, HearExport(k)
    PROVE  TypeInv'
<1>1. PICK panel \in Panel :
          /\ tabs' = [tabs EXCEPT ![k.tab] = WithPanel(tabs[k.tab], panel)]
          /\ k.answer.status = "ok" =>
                 exported' = k.answer.file /\ k.answer.file \in File
          /\ k.answer.status # "ok" => exported' = exported
  BY HearExportTab
<1>2. k.tab \in Tabs
  BY HeardCall
<1>3. Moves(k.tab, WithPanel(tabs[k.tab], panel), {})
  BY <1>1 DEF Moves, HearExport, Rest, tables, TypeInv, TypeOK
<1>4. QED
  BY <1>2, <1>3, PanelStep

LEMMA HearImportTab ==
    ASSUME TypeInv, NEW k \in calls, HearImport(k)
    PROVE  \E panel \in Panel :
               /\ panel.file \in {tabs[k.tab].panel.file, None}
               /\ Becomes(k, WithPanel(tabs[k.tab], panel), {})
<1> DEFINE old == tabs[k.tab]
           file == IF k.answer.status = "ok" THEN None ELSE old.panel.file
           free == [old.panel EXCEPT !.busy = FALSE, !.file = file]
<1>1. old \in Tab
  BY HeardCall
<1>2. old.panel \in Panel
  BY <1>1, TabFields
<1>3. file \in File \cup {None} /\ file \in {old.panel.file, None}
  BY <1>2 DEF Panel
<1>4. free \in Panel /\ free.file = file
  <2> HIDE DEF file
  <2>1. QED
    BY <1>2, <1>3 DEF Panel
<1>5. Becomes(k, WithPanel(old, free), {})
  BY <1>1, <1>2 DEF HearImport, WithPanel, Tab, Panel
<1> HIDE DEF free, file
<1>6. QED
  BY <1>3, <1>4, <1>5

LEMMA HearImportTypes ==
    ASSUME TypeInv, NEW k \in calls, HearImport(k)
    PROVE  TypeInv'
<1>1. PICK panel \in Panel : Becomes(k, WithPanel(tabs[k.tab], panel), {})
  BY HearImportTab
<1>2. k.tab \in Tabs
  BY HeardCall
<1>3. Moves(k.tab, WithPanel(tabs[k.tab], panel), {})
  BY <1>1 DEF Moves, Becomes, Rest, tables, TypeInv, TypeOK
<1>4. QED
  BY <1>2, <1>3, PanelStep

LEMMA IgnoreTypes ==
    ASSUME TypeInv, NEW k \in calls, Ignore(k)
    PROVE  TypeInv'
<1>1. /\ k.tab \in Tabs
      /\ tabs[k.tab] \in Tab
      /\ TabFits(tabs[k.tab])
  BY HeardCall
<1>2. Becomes(k, tabs[k.tab], {})
  BY DEF Ignore
<1>3. QED
  BY <1>1, <1>2, StaysItself, BecomesTypes

LEMMA DeliverTypes ==
    ASSUME TypeInv, NEW k \in calls, Deliver(k)
    PROVE  TypeInv'
<1>1. k.answer # None
  BY DEF Deliver
<1>2. CASE HearSites(k) \/ HearCreated(k) \/ SiteFailed(k)
  BY <1>1, <1>2, HearSitesTypes, HearCreatedTypes, SiteFailedTypes
<1>3. CASE HearList(k) \/ HearDetail(k)
  BY <1>1, <1>3, HearListTypes, HearDetailTypes
<1>4. CASE HearSecretCreated(k) \/ HearDeleted(k)
  BY <1>4, PushTypes DEF HearSecretCreated, HearDeleted
<1>5. CASE HearSaved(k) \/ HearFieldDeleted(k)
  BY <1>5, HearSavedTypes
<1>6. CASE SaveFailed(k) \/ DeleteFailed(k) \/ DeleteFieldFailed(k)
  BY <1>6, SaveFailedTypes, DeleteFailedTypes
<1>7. CASE HearExport(k) \/ HearImport(k) \/ Ignore(k)
  BY <1>1, <1>7, HearExportTypes, HearImportTypes, IgnoreTypes
<1>8. QED
  BY <1>2, <1>3, <1>4, <1>5, <1>6, <1>7 DEF Deliver

LEMMA StutterTypes ==
    ASSUME TypeInv, UNCHANGED vars
    PROVE  TypeInv'
BY DEF vars, TypeInv, TypeOK

LEMMA TypeStep ==
    ASSUME TypeInv, [Next]_vars
    PROVE  TypeInv'
<1>1. CASE \E t \in Tabs : Cardinality(calls) < MaxCalls /\ UserStep(t)
  BY <1>1, UserTypes
<1>2. CASE \E k \in calls : Serve(k) \/ Fail(k) \/ Lose(k) \/ Deliver(k)
  BY <1>2, ServeTypes, DeliverTypes
<1>3. CASE UNCHANGED vars
  BY <1>3, StutterTypes
<1>4. QED
  BY <1>1, <1>2, <1>3 DEF Next

(* A tab at the start: its list waits for the site.                        *)
LEMMA FirstTab ==
    LET tab == [Blank("list", None) EXCEPT !.cache = "pending"]
    IN  /\ tab \in Tab
        /\ tab.page = "list"
        /\ tab.cache = "pending"
        /\ tab.hook = "loading"
        /\ tab.list.query = None
        /\ tab.list.status = "idle"
        /\ tab.view.status = "idle"
        /\ tab.form.step = "closed"
        /\ ~tab.form.submitting
        /\ tab.panel.file = None
<1> DEFINE blank == Blank("list", None)
           tab == [blank EXCEPT !.cache = "pending"]
<1>1. "list" \in Pages /\ None \in Sites \cup {None, "pending"}
  BY DEF Pages
<1>2. /\ blank \in Tab
      /\ blank.page = "list"
      /\ blank.hook = "loading"
      /\ blank.list = NoList
      /\ blank.view = NoView
      /\ blank.form = Closed0
      /\ blank.panel = NoPanel
  BY <1>1, BlankTab DEF UsesSite
<1> HIDE DEF blank
<1>3. /\ tab \in Tab
      /\ tab.page = "list"
      /\ tab.cache = "pending"
      /\ tab.hook = "loading"
      /\ tab.list = NoList
      /\ tab.view = NoView
      /\ tab.form = Closed0
      /\ tab.panel = NoPanel
  BY <1>2 DEF Tab
<1> HIDE DEF tab
<1>4. QED
  BY <1>3 DEF tab, blank, NoList, NoView, Closed0, NoPanel

LEMMA InitTypes ==
    ASSUME Init
    PROVE  TypeInv
<1> DEFINE tab == [Blank("list", None) EXCEPT !.cache = "pending"]
<1>1. /\ tab \in Tab
      /\ tab.page = "list"
      /\ tab.list.status = "idle"
      /\ tab.view.status = "idle"
      /\ tab.form.step = "closed"
  BY FirstTab
<1>2. tabs = [t \in Tabs |-> tab] /\ calls = {New(t, "listSites") : t \in Tabs}
  BY DEF Init
<1> HIDE DEF tab
<1>3. TabFits(tab)
  BY <1>1 DEF TabFits
<1>4. ASSUME NEW t \in Tabs
      PROVE  CallFits(sites, New(t, "listSites"), tabs[New(t, "listSites").tab])
  <2> DEFINE call == New(t, "listSites")
  <2>1. Asked(call, t, "listSites")
    BY NewCall DEF Kinds
  <2> HIDE DEF call
  <2>2. Carries(call) /\ AtHome(call, tabs[call.tab])
    BY <2>1 DEF Asked, Carries, AtHome, Edits, PageReads
  <2>3. QED
    BY <2>1, <2>2, NewFits DEF call
<1>5. \A k \in calls : CallFits(sites, k, tabs[k.tab])
  BY <1>2, <1>4
<1>6. sites \in SiteTable /\ secrets \in SecretTable
  BY DEF Init, SiteTable, SecretTable
<1>7. TypeOK
  BY <1>1, <1>2, <1>5, <1>6 DEF Init, TypeOK, CallFits
<1>8. QED
  BY <1>2, <1>3, <1>5, <1>7 DEF TypeInv

(* The types of the vault's pages hold in every reachable state, and what  *)
(* is stored was saved under a title and with the names of its fields      *)
(* distinct (SecretForm.tsx:94-106), for any number of tabs and calls in   *)
(* flight.                                                                 *)
THEOREM TypeCorrect == Spec => []TypeOK
<1>1. Init => TypeInv
  BY InitTypes
<1>2. TypeInv /\ [Next]_vars => TypeInv'
  BY TypeStep
<1>3. TypeInv => TypeOK
  BY DEF TypeInv
<1>4. QED
  BY <1>1, <1>2, <1>3, PTL DEF Spec

=============================================================================
