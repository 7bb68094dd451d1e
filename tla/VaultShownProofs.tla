-------------------------- MODULE VaultShownProofs --------------------------
(***************************************************************************)
(* What the pages of the vault show, keep and hide.  A settled page shows  *)
(* what the database holds, for any number of tabs; in one tab no draft is *)
(* lost, and the list hides no password as long as no older backup is      *)
(* restored.                                                               *)
(***************************************************************************)
EXTENDS VaultClientProofs

(* What a page has asked for is what it waits for: a load belongs to the   *)
(* query in the search box, a detail to the password of the page, and      *)
(* while a password is saved or loses a field its page neither loads nor   *)
(* lets it be changed twice.                                               *)
Asks(k, tab) ==
    /\ k.kind = "listSecrets" => tab.list.query = None /\ k.site = tab.hook
    /\ k.kind = "search" => tab.list.query # None /\ k.term = tab.list.query
    /\ k.kind = "detail" => /\ tab.view.status = "loading"
                            /\ k.secret = tab.view.id
    /\ k.live /\ k.kind = "saveSecret" => /\ tab.view.mode = "edit"
                                          /\ tab.view.status = "loaded"
    /\ k.live /\ k.kind = "deleteField" => /\ tab.view.mode = "view"
                                           /\ tab.view.status = "loaded"
                                           /\ tab.view.fieldBusy

Twins(j, k) ==
    /\ j.tab = k.tab
    /\ j.kind = k.kind
    /\ j.live /\ k.live
    /\ j.kind \in {"detail", "saveSecret", "deleteField"}

(* A form on the page of a password edits the one that is shown.           *)
Edited(tab) ==
    tab.page = "detail" /\ tab.form.step # "closed" =>
        tab.view.mode = "edit" /\ tab.view.status = "loaded"

AsksInv ==
    /\ \A k \in calls : Asks(k, tabs[k.tab])
    /\ \A j, k \in calls : Twins(j, k) => j = k
    /\ \A t \in Tabs : Edited(tabs[t])

(* A write of a page that has taken effect and that the page has not heard *)
(* of.                                                                     *)
Took(k) ==
    /\ k.live
    /\ k.kind \in Writes \ {"createSite"}
    /\ Succeeded(k)

Aware(t) == t \notin doubt /\ \A k \in calls : k.tab = t => ~Took(k)

(* What a page shows, and what an answer on its way says, is in the table. *)
ListIsCurrent(table, tab) ==
    tab.list.status = "loaded" =>
        tab.list.items =
            IF tab.list.query = None THEN SecretsOf(table, tab.hook)
            ELSE {x \in Ids(table) : table[x].body.title = tab.list.query}

ViewIsCurrent(table, view) ==
    /\ view.status = "loaded" => /\ view.id \in Ids(table)
                                 /\ view.body = table[view.id].body
    /\ view.status = "missing" => view.id \notin Ids(table)

TabIsCurrent(table, tab) ==
    /\ ListIsCurrent(table, tab)
    /\ ViewIsCurrent(table, tab.view)

AnswerIsCurrent(table, k) ==
    k.answer # None =>
        /\ k.kind = "listSecrets" /\ k.answer.status = "ok" =>
               k.answer.ids = SecretsOf(table, k.site)
        /\ k.kind = "search" /\ k.answer.status = "ok" =>
               k.answer.ids = {x \in Ids(table) : table[x].body.title = k.term}
        /\ k.kind = "detail" /\ k.answer.status = "ok" =>
               k.secret \in Ids(table) /\ k.answer.row = table[k.secret]
        /\ k.kind = "detail" /\ k.answer.status = "notFound" =>
               k.secret \notin Ids(table)

CurrentInv ==
    \A t \in Tabs : Aware(t) =>
        /\ TabIsCurrent(secrets, tabs[t])
        /\ \A k \in calls : k.tab = t => AnswerIsCurrent(secrets, k)

-----------------------------------------------------------------------------
(* What a page has asked for is what it waits for.                         *)

AskedInv == TypeInv /\ AsksInv

(* A tab that still waits for what it has asked for.                       *)
SameAsk(old, new) ==
    /\ new.list.query = old.list.query
    /\ old.hook \in Sites => new.hook = old.hook
    /\ new.view.id = old.view.id
    /\ new.view.status = old.view.status
    /\ new.view.mode = old.view.mode
    /\ old.view.fieldBusy => new.view.fieldBusy

LEMMA SameAskAsks ==
    ASSUME NEW old, NEW new, SameAsk(old, new), NEW k,
           AtHome(k, old), Asks(k, old)
    PROVE  Asks(k, new)
<1>1. k.kind \in {"listSecrets", "search"} => old.hook \in Sites
  BY DEF AtHome, PageReads
<1>2. QED
  BY <1>1 DEF SameAsk, Asks

(* A step of tab t that keeps the calls kept and makes the calls more.     *)
Asking(t, tab, kept, more) ==
    /\ tabs' = [tabs EXCEPT ![t] = tab]
    /\ kept \subseteq calls
    /\ calls' \subseteq kept \cup more
    /\ \A k \in kept : k.tab = t => Asks(k, tab)
    /\ \A k \in more : k.tab = t /\ Asks(k, tab)

Unlike(kept, more) ==
    /\ \A j \in kept, k \in more : ~Twins(j, k)
    /\ \A j, k \in more : Twins(j, k) => j = k

LEMMA AskingStep ==
    ASSUME AskedInv, NEW t \in Tabs, NEW tab, NEW kept, NEW more,
           Asking(t, tab, kept, more), Unlike(kept, more), Edited(tab)
    PROVE  AsksInv'
<1>1. tabs \in [Tabs -> Tab] /\ calls \subseteq Call
  BY DEF AskedInv, TypeInv, TypeOK
<1>2. tabs'[t] = tab /\ \A u \in Tabs : u # t => tabs'[u] = tabs[u]
  BY <1>1 DEF Asking
<1>3. ASSUME NEW k \in calls' PROVE Asks(k, tabs'[k.tab])
  <2>1. CASE k \in more
    BY <1>2, <2>1 DEF Asking
  <2>2. CASE k \in kept /\ k.tab = t
    BY <1>2, <2>2 DEF Asking
  <2>3. CASE k \in kept /\ k.tab # t
    <3>1. k \in calls /\ k.tab \in Tabs
      BY <1>1, <2>3, CallFields DEF Asking
    <3>2. QED
      BY <1>2, <2>3, <3>1 DEF AskedInv, AsksInv
  <2>4. QED
    BY <2>1, <2>2, <2>3 DEF Asking
<1>4. ASSUME NEW j \in calls', NEW k \in calls', Twins(j, k) PROVE j = k
  <2>1. Twins(k, j)
    BY <1>4 DEF Twins
  <2>2. CASE j \in kept /\ k \in kept
    BY <1>4, <2>2 DEF Asking, AskedInv, AsksInv
  <2>3. QED
    BY <1>4, <2>1, <2>2 DEF Asking, Unlike
<1>5. \A u \in Tabs : Edited(tabs'[u])
  BY <1>2 DEF AskedInv, AsksInv
<1>6. QED
  BY <1>3, <1>4, <1>5 DEF AsksInv

(* The tab still waits for the same, and asks for no page's read.          *)
LEMMA SameAskStep ==
    ASSUME AskedInv, NEW t \in Tabs, NEW tab,
           SameAsk(tabs[t], tab), Edited(tab),
           NEW more, \A k \in more : k.tab = t /\ Asks(k, tab),
           Unlike(calls, more),
           tabs' = [tabs EXCEPT ![t] = tab], calls' \subseteq calls \cup more
    PROVE  AsksInv'
<1>1. ASSUME NEW k \in calls, k.tab = t PROVE Asks(k, tab)
  <2>1. AtHome(k, tabs[t]) /\ Asks(k, tabs[t])
    BY <1>1 DEF AskedInv, TypeInv, CallFits, AsksInv
  <2>2. QED
    BY <2>1, SameAskAsks
<1>2. Asking(t, tab, calls, more)
  BY <1>1 DEF Asking
<1>3. QED
  BY <1>2, AskingStep

(* A call of a kind that no page waits for in this way.                    *)
LEMMA OtherCalls ==
    ASSUME NEW t, NEW kind, NEW k, Asked(k, t, kind), NEW kept,
           kind \notin {"listSecrets", "search", "detail", "saveSecret",
                        "deleteField"}
    PROVE  /\ \A tab : Asks(k, tab)
           /\ Unlike(kept, {k})
<1>1. \A tab : Asks(k, tab)
  BY DEF Asked, Asks
<1>2. \A j : ~Twins(j, k)
  BY DEF Asked, Twins
<1>3. QED
  BY <1>1, <1>2 DEF Unlike

LEMMA NoCalls == \A kept : Unlike(kept, {})
BY DEF Unlike

LEMMA QuietStep ==
    ASSUME AskedInv, NEW t \in Tabs, NEW tab,
           SameAsk(tabs[t], tab), Edited(tab),
           tabs' = [tabs EXCEPT ![t] = tab], calls' \subseteq calls
    PROVE  AsksInv'
<1> DEFINE more == {}
<1>1. /\ calls' \subseteq calls \cup more
      /\ Unlike(calls, more)
      /\ \A k \in more : k.tab = t /\ Asks(k, tab)
  BY NoCalls
<1> HIDE DEF more
<1>2. QED
  BY <1>1, SameAskStep

(* Steps of a user.                                                        *)

LEMMA TypesAsks ==
    ASSUME AskedInv, NEW t \in Tabs, Types(t)
    PROVE  AsksInv'
<1>1. PICK form \in Form : Shows(t, form)
  BY DEF Types
<1>2. tabs[t] \in Tab /\ Edited(tabs[t]) /\ tabs[t].form.step # "closed"
  BY DEF Types, AskedInv, TypeInv, TypeOK, AsksInv
<1> DEFINE tab == WithForm(tabs[t], form)
<1>3. tabs' = [tabs EXCEPT ![t] = tab] /\ calls' = calls
  BY <1>1 DEF Shows, WithForm
<1>4. /\ SamePage(tab, tabs[t])
      /\ tab.view = tabs[t].view
      /\ tab.list = tabs[t].list
  BY <1>2, FormSet
<1> HIDE DEF tab
<1>5. SameAsk(tabs[t], tab) /\ Edited(tab)
  BY <1>2, <1>4 DEF SameAsk, SamePage, Edited
<1>6. QED
  BY <1>3, <1>5, QuietStep

LEMMA LoadAsks ==
    ASSUME NEW t \in Tabs, NEW tab, NEW site \in Sites,
           NEW query \in Terms \cup {None},
           tab.hook = site, tab.list.query = query
    PROVE  LET k == LoadCall(t, site, query)
           IN  /\ k.tab = t
               /\ Asks(k, tab)
               /\ \A kept : Unlike(kept, {k})
<1> DEFINE k == LoadCall(t, site, query)
<1>1. CASE query = None
  <2>1. k = [New(t, "listSecrets") EXCEPT !.site = site]
    BY <1>1 DEF LoadCall
  <2>2. Asked(k, t, "listSecrets") /\ k.site = site
    BY <2>1, SiteCall DEF Kinds
  <2> HIDE DEF k
  <2>3. Asks(k, tab) /\ k.tab = t /\ \A j : ~Twins(j, k)
    BY <1>1, <2>2 DEF Asked, Asks, Twins
  <2>4. QED
    BY <2>3 DEF Unlike, k
<1>2. CASE query # None
  <2>1. k = [New(t, "search") EXCEPT !.term = query]
    BY <1>2 DEF LoadCall
  <2>2. Asked(k, t, "search") /\ k.term = query
    BY <2>1, TermCall DEF Kinds
  <2> HIDE DEF k
  <2>3. Asks(k, tab) /\ k.tab = t /\ \A j : ~Twins(j, k)
    BY <1>2, <2>2 DEF Asked, Asks, Twins
  <2>4. QED
    BY <2>3 DEF Unlike, k
<1>3. QED
  BY <1>1, <1>2

LEMMA SearchAsks ==
    ASSUME AskedInv, NEW t \in Tabs, NEW query \in Terms \cup {None},
           Search(t, query)
    PROVE  AsksInv'
<1>1. PICK list \in List :
          /\ list.query = query
          /\ tabs' = [tabs EXCEPT ![t] = WithList(tabs[t], list)]
  BY SearchTab DEF AskedInv
<1>2. tabs[t] \in Tab /\ Edited(tabs[t])
  BY DEF AskedInv, TypeInv, TypeOK, AsksInv
<1> DEFINE tab == WithList(tabs[t], list)
           kept == IF tabs[t].hook \in Sites
                   THEN Dropped(t, {"listSecrets", "search"}) ELSE calls
           more == IF tabs[t].hook \in Sites
                   THEN {LoadCall(t, tabs[t].hook, query)} ELSE {}
<1>3. /\ SamePage(tab, tabs[t])
      /\ tab.form = tabs[t].form
      /\ tab.view = tabs[t].view
      /\ tab.list = list
  BY <1>2, ListSet
<1>4. tabs' = [tabs EXCEPT ![t] = tab]
  BY <1>1
<1> HIDE DEF tab
<1>5. Edited(tab)
  BY <1>2, <1>3 DEF Edited, SamePage
<1>6. ASSUME NEW k \in kept, k.tab = t PROVE Asks(k, tab)
  <2>1. k \in calls /\ k.kind \notin {"listSecrets", "search"}
    <3>1. CASE tabs[t].hook \in Sites
      BY <1>6, <3>1 DEF Dropped
    <3>2. CASE tabs[t].hook \notin Sites
      BY <1>6, <3>2 DEF AskedInv, TypeInv, CallFits, AtHome, PageReads
    <3>3. QED
      BY <3>1, <3>2
  <2>2. Asks(k, tabs[t])
    BY <1>6, <2>1 DEF AskedInv, AsksInv
  <2>3. QED
    BY <1>3, <2>1, <2>2 DEF Asks
<1>7. kept \subseteq calls
  BY DEF Dropped
<1>8. /\ \A k \in more : k.tab = t /\ Asks(k, tab)
      /\ Unlike(kept, more)
  <2>1. CASE tabs[t].hook \in Sites
    <3>1. tab.hook = tabs[t].hook /\ tab.list.query = query
      BY <1>1, <1>3 DEF SamePage
    <3>2. QED
      BY <2>1, <3>1, LoadAsks
  <2>2. CASE tabs[t].hook \notin Sites
    BY <2>2, NoCalls
  <2>3. QED
    BY <2>1, <2>2
<1>9. calls' \subseteq kept \cup more
  BY ClientAssumption DEF Search
<1> HIDE DEF kept, more
<1>10. Asking(t, tab, kept, more)
  BY <1>4, <1>6, <1>7, <1>8, <1>9 DEF Asking
<1>11. QED
  BY <1>5, <1>8, <1>10, AskingStep

(* No write of the tab is in flight.                                       *)
LEMMA NotWriting ==
    ASSUME AskedInv, NEW t \in Tabs, ~Writing(t), NEW k \in calls, k.tab = t
    PROVE  k.kind \notin Writes
BY DEF Writing, CallsOf

LEMMA CancelAsks ==
    ASSUME AskedInv, NEW t \in Tabs, CancelEdit(t)
    PROVE  AsksInv'
<1> DEFINE view == [tabs[t].view EXCEPT !.mode = "view"]
           tab == WithForm(WithView(tabs[t], view), Closed0)
<1>1. /\ tabs' = [tabs EXCEPT ![t] = tab]
      /\ SamePage(tab, tabs[t])
      /\ tab.form = Closed0
      /\ tab.view = view
      /\ tab.list = tabs[t].list
  BY CancelTab DEF AskedInv
<1>2. tabs[t] \in Tab /\ ~Writing(t) /\ calls' = calls
  BY DEF AskedInv, TypeInv, TypeOK, CancelEdit, Editing
<1>3. SameShown(view, tabs[t].view) /\ view.mode = "view"
  BY <1>2, TabFields, ModeSet
<1> HIDE DEF tab, view
<1>4. ASSUME NEW k \in calls, k.tab = t PROVE Asks(k, tab)
  <2>1. Asks(k, tabs[t]) /\ k.kind \notin Writes
    BY <1>2, <1>4, NotWriting DEF AskedInv, AsksInv
  <2>2. QED
    BY <1>1, <1>3, <2>1 DEF Asks, Writes, SamePage, SameShown
<1>5. Asking(t, tab, calls, {})
  BY <1>1, <1>2, <1>4 DEF Asking
<1>6. Edited(tab)
  BY <1>1 DEF Edited, Closed0
<1>7. QED
  BY <1>5, <1>6, NoCalls, AskingStep

LEMMA StartAsks ==
    ASSUME AskedInv, NEW t \in Tabs, StartEdit(t)
    PROVE  AsksInv'
<1> DEFINE view == [tabs[t].view EXCEPT !.mode = "edit"]
           form == EditForm(tabs[t].view.body)
           tab == WithForm(WithView(tabs[t], view), form)
<1>1. /\ tabs' = [tabs EXCEPT ![t] = tab]
      /\ SamePage(tab, tabs[t])
      /\ tab.view = view
      /\ tab.list = tabs[t].list
  BY StartTab DEF AskedInv
<1>2. /\ tabs[t] \in Tab
      /\ ~Writing(t)
      /\ calls' = calls
      /\ tabs[t].view.status = "loaded"
  BY DEF AskedInv, TypeInv, TypeOK, StartEdit, Viewing
<1>3. SameShown(view, tabs[t].view) /\ view.mode = "edit"
  BY <1>2, TabFields, ModeSet
<1> HIDE DEF tab, view, form
<1>4. ASSUME NEW k \in calls, k.tab = t PROVE Asks(k, tab)
  <2>1. Asks(k, tabs[t]) /\ k.kind \notin Writes
    BY <1>2, <1>4, NotWriting DEF AskedInv, AsksInv
  <2>2. QED
    BY <1>1, <1>3, <2>1 DEF Asks, Writes, SamePage, SameShown
<1>5. Asking(t, tab, calls, {})
  BY <1>1, <1>2, <1>4 DEF Asking
<1>6. Edited(tab)
  BY <1>1, <1>2, <1>3 DEF Edited, SameShown
<1>7. QED
  BY <1>5, <1>6, NoCalls, AskingStep

LEMMA ConfirmAsks ==
    ASSUME AskedInv, NEW t \in Tabs, ConfirmSave(t)
    PROVE  AsksInv'
<1> DEFINE form == [tabs[t].form EXCEPT !.submitting = TRUE]
           tab == WithForm(tabs[t], form)
           save == SaveCall(t)
<1>1. /\ form \in Form
      /\ tabs' = [tabs EXCEPT ![t] = tab]
      /\ calls' = calls \cup {save}
  BY ConfirmTab DEF AskedInv
<1>2. /\ tabs[t] \in Tab
      /\ Edited(tabs[t])
      /\ tabs[t].form.step = "review"
      /\ ~Writing(t)
  BY DEF AskedInv, TypeInv, TypeOK, AsksInv, ConfirmSave
<1>3. /\ Asked(save, t, IF tabs[t].page = "new" THEN "createSecret"
                        ELSE "saveSecret")
      /\ tabs[t].page # "new" => tabs[t].page = "detail"
  BY <1>2, SaveIsCall DEF AskedInv
<1> HIDE DEF form, save
<1>4. /\ SamePage(tab, tabs[t])
      /\ tab.view = tabs[t].view
      /\ tab.list = tabs[t].list
  BY <1>1, <1>2, FormSet
<1> HIDE DEF tab
<1>5. SameAsk(tabs[t], tab) /\ Edited(tab)
  BY <1>2, <1>4 DEF SameAsk, SamePage, Edited
<1>6. save.tab = t /\ Asks(save, tab)
  BY <1>2, <1>3, <1>4 DEF Asked, Asks, Edited
<1>7. ASSUME NEW j \in calls PROVE ~Twins(j, save)
  <2>1. j.tab = t => j.kind \notin Writes
    BY <1>2, NotWriting
  <2>2. QED
    BY <1>3, <2>1 DEF Asked, Twins, Writes
<1>8. Unlike(calls, {save})
  BY <1>7 DEF Unlike
<1>9. QED
  BY <1>1, <1>5, <1>6, <1>8, SameAskStep

LEMMA DeleteAsks ==
    ASSUME AskedInv, NEW t \in Tabs, HandleDelete(t)
    PROVE  AsksInv'
<1> DEFINE view == [tabs[t].view EXCEPT !.deleting = TRUE]
           tab == WithView(tabs[t], view)
           call == [New(t, "deleteSecret") EXCEPT !.secret = tabs[t].view.id]
<1>1. tabs[t] \in Tab /\ tabs \in [Tabs -> Tab] /\ Edited(tabs[t])
  BY DEF AskedInv, TypeInv, TypeOK, AsksInv
<1>2. /\ view \in View
      /\ SameShown(view, tabs[t].view)
      /\ view.mode = tabs[t].view.mode
      /\ view.fieldBusy = tabs[t].view.fieldBusy
  BY <1>1, TabFields, DeletingSet
<1>3. Asked(call, t, "deleteSecret")
  BY <1>1, TabFields, ViewFields, SecretCall DEF Kinds, Writes
<1>4. tabs' = [tabs EXCEPT ![t] = tab] /\ calls' = calls \cup {call}
  BY <1>1 DEF WithView, HandleDelete
<1> HIDE DEF view, call
<1>5. /\ SamePage(tab, tabs[t])
      /\ tab.form = tabs[t].form
      /\ tab.view = view
      /\ tab.list = tabs[t].list
  BY <1>1, <1>2, ViewSet
<1> HIDE DEF tab
<1>6. SameAsk(tabs[t], tab) /\ Edited(tab)
  BY <1>1, <1>2, <1>5 DEF SameAsk, SamePage, SameShown, Edited
<1>7. call.tab = t /\ Asks(call, tab) /\ Unlike(calls, {call})
  BY <1>3, OtherCalls DEF Asked
<1>8. QED
  BY <1>4, <1>6, <1>7, SameAskStep

LEMMA DeleteFieldAsks ==
    ASSUME AskedInv, NEW t \in Tabs, NEW i, HandleDeleteField(t, i)
    PROVE  AsksInv'
<1> DEFINE view == [tabs[t].view EXCEPT !.fieldBusy = TRUE]
           tab == WithView(tabs[t], view)
           call == FieldCallOf(t, i)
<1>1. /\ tabs[t] \in Tab /\ tabs \in [Tabs -> Tab] /\ Edited(tabs[t])
      /\ tabs[t].view.status = "loaded"
      /\ tabs[t].view.mode = "view"
      /\ ~tabs[t].view.fieldBusy
  BY DEF AskedInv, TypeInv, TypeOK, AsksInv, HandleDeleteField, Viewing
<1>2. /\ view \in View
      /\ SameShown(view, tabs[t].view)
      /\ view.mode = tabs[t].view.mode
      /\ view.fieldBusy
  BY <1>1, TabFields, FieldBusySet
<1>3. Asked(call, t, "deleteField")
  BY FieldIsCall DEF AskedInv
<1>4. tabs' = [tabs EXCEPT ![t] = tab] /\ calls' = calls \cup {call}
  BY <1>1 DEF WithView, HandleDeleteField, FieldCallOf
<1> HIDE DEF view, call
<1>5. /\ SamePage(tab, tabs[t])
      /\ tab.form = tabs[t].form
      /\ tab.view = view
      /\ tab.list = tabs[t].list
  BY <1>1, <1>2, ViewSet
<1> HIDE DEF tab
<1>6. SameAsk(tabs[t], tab) /\ Edited(tab)
  BY <1>1, <1>2, <1>5 DEF SameAsk, SamePage, SameShown, Edited
<1>7. call.tab = t /\ Asks(call, tab)
  BY <1>1, <1>2, <1>3, <1>5 DEF Asked, Asks, SameShown
<1>8. ASSUME NEW j \in calls PROVE ~Twins(j, call)
  BY <1>1, <1>3 DEF AskedInv, AsksInv, Asks, Asked, Twins
<1>9. Unlike(calls, {call})
  BY <1>8 DEF Unlike
<1>10. QED
  BY <1>4, <1>6, <1>7, <1>9, SameAskStep

(* A step that only changes the backup panel of a tab.                     *)
LEMMA PanelAskStep ==
    ASSUME AskedInv, NEW t \in Tabs, NEW panel \in Panel,
           NEW more, \A k \in more : k.tab = t /\ \A tab : Asks(k, tab),
           Unlike(calls, more),
           tabs' = [tabs EXCEPT ![t] = WithPanel(tabs[t], panel)],
           calls' \subseteq calls \cup more
    PROVE  AsksInv'
<1> DEFINE tab == WithPanel(tabs[t], panel)
<1>1. tabs[t] \in Tab /\ Edited(tabs[t])
  BY DEF AskedInv, TypeInv, TypeOK, AsksInv
<1>2. /\ SamePage(tab, tabs[t])
      /\ tab.form = tabs[t].form
      /\ tab.view = tabs[t].view
      /\ tab.list = tabs[t].list
  BY <1>1, PanelSet
<1>3. tabs' = [tabs EXCEPT ![t] = tab]
  OBVIOUS
<1> HIDE DEF tab
<1>4. SameAsk(tabs[t], tab) /\ Edited(tab)
  BY <1>1, <1>2 DEF SameAsk, SamePage, Edited
<1>5. \A k \in more : k.tab = t /\ Asks(k, tab)
  OBVIOUS
<1>6. QED
  BY <1>3, <1>4, <1>5, SameAskStep

LEMMA PanelAsks ==
    ASSUME AskedInv, NEW t \in Tabs, PanelAction(t)
    PROVE  AsksInv'
<1>1. PICK panel \in Panel : \E more : PanelMoves(t, panel, more)
  BY PanelTab DEF AskedInv
<1>2. PICK more : PanelMoves(t, panel, more)
  BY <1>1
<1>3. ASSUME NEW k \in more
      PROVE  /\ k.tab = t
             /\ \A tab : Asks(k, tab)
             /\ \A j : ~Twins(j, k)
  BY <1>2, <1>3 DEF PanelMoves, PanelCall, Asked, Asks, Twins
<1>4. Unlike(calls, more)
  BY <1>3 DEF Unlike
<1>5. QED
  BY <1>2, <1>3, <1>4, PanelAskStep DEF PanelMoves

LEMMA RetryAsks ==
    ASSUME AskedInv, NEW t \in Tabs, RetrySite(t)
    PROVE  AsksInv'
<1> DEFINE tab == WithSite(tabs[t], "loading", "pending")
           call == New(t, "listSites")
<1>1. tabs[t] \in Tab /\ Edited(tabs[t])
  BY DEF AskedInv, TypeInv, TypeOK, AsksInv
<1>2. /\ tabs' = [tabs EXCEPT ![t] = tab]
      /\ tabs[t].hook \notin Sites
      /\ calls' = calls \cup {call}
  BY RetryTab DEF AskedInv
<1>3. /\ tab.page = tabs[t].page
      /\ tab.form = tabs[t].form
      /\ tab.view = tabs[t].view
      /\ tab.list = tabs[t].list
  BY <1>1, SiteSet
<1>4. Asked(call, t, "listSites")
  BY NewCall DEF Kinds
<1> HIDE DEF tab, call
<1>5. SameAsk(tabs[t], tab) /\ Edited(tab)
  BY <1>1, <1>2, <1>3 DEF SameAsk, Edited
<1>6. call.tab = t /\ Asks(call, tab) /\ Unlike(calls, {call})
  BY <1>4, OtherCalls DEF Asked
<1>7. QED
  BY <1>2, <1>5, <1>6, SameAskStep

(* A page that is mounted asks for what it waits for.                      *)
LEMMA MountAsks ==
    ASSUME AskedInv, NEW t \in Tabs, NEW page \in Pages, NEW x,
           page = "detail" => x \in Secrets,
           NEW cache \in Sites \cup {None, "pending"},
           NEW others, Remain(others, t),
           Mount(t, page, x, cache, others)
    PROVE  AsksInv'
<1> DEFINE tab == Mounted(page, x, cache)
           more == MountCalls(t, page, x, cache)
<1>1. tabs \in [Tabs -> Tab]
  BY DEF AskedInv, TypeInv, TypeOK
<1>2. /\ tabs' = [tabs EXCEPT ![t] = tab]
      /\ calls' = others \cup more
  BY MountIs
<1>3. Unread(tab, page, x, cache)
  BY MountedTab
<1>read. ASSUME NEW k \in more, k.kind \notin {"listSites", "listSecrets"}
         PROVE  page = "detail"
  BY <1>read, MountedCalls DEF Asked
<1>4. ASSUME NEW k \in more, NEW j \in more, Twins(j, k)
      PROVE  j = k
  <2>1. page = "detail"
    BY <1>4, <1>read DEF Twins
  <2>2. QED
    BY <1>4, <2>1 DEF MountCalls, UsesSite
<1>5. ASSUME NEW k \in more
      PROVE  k.tab = t /\ Asks(k, tab)
  <2>1. CASE Asked(k, t, "listSites")
    BY <2>1 DEF Asked, Asks
  <2>2. CASE k = LoadCall(t, cache, None) /\ page = "list" /\ cache \in Sites
    <3>1. tab.hook = cache /\ tab.list.query = None
      BY <1>3, <2>2 DEF Unread, UsesSite
    <3> HIDE DEF tab
    <3>2. None \in Terms \cup {None}
      OBVIOUS
    <3>3. QED
      BY <2>2, <3>1, <3>2, LoadAsks
  <2>3. CASE Asked(k, t, "detail") /\ k.secret = x /\ page = "detail"
    BY <1>3, <2>3 DEF Asked, Asks, Unread
  <2>4. QED
    BY <1>5, <2>1, <2>2, <2>3, MountedCalls
<1> HIDE DEF tab, more
<1>6. tabs'[t] = tab /\ \A u \in Tabs : u # t => tabs'[u] = tabs[u]
  BY <1>1, <1>2
<1>7. ASSUME NEW k \in others
      PROVE  /\ Asks(k, tabs'[k.tab])
             /\ \A j : k.tab = t => ~Twins(j, k)
             /\ k.tab # t => k \in calls
  <2>1. Stays(k, t)
    BY <1>7 DEF Remain
  <2>2. CASE k.tab = t
    BY <2>1, <2>2 DEF Stays, Asks, Twins, PageReads, SiteCalls
  <2>3. CASE k.tab # t
    <3>1. k \in calls /\ k.tab \in Tabs
      BY <2>1, <2>3 DEF Stays
    <3>2. QED
      BY <1>6, <2>3, <3>1 DEF AskedInv, AsksInv
  <2>4. QED
    BY <2>2, <2>3
<1>8. \A k \in calls' : Asks(k, tabs'[k.tab])
  BY <1>2, <1>5, <1>6, <1>7
<1>9. ASSUME NEW j \in calls', NEW k \in calls', Twins(j, k)
      PROVE  j = k
  <2>1. j.tab = k.tab /\ Twins(k, j)
    BY <1>9 DEF Twins
  <2>2. CASE k.tab = t
    <3>1. j \in more /\ k \in more
      BY <1>2, <1>7, <1>9, <2>1, <2>2
    <3>2. QED
      BY <1>4, <1>9, <3>1
  <2>3. CASE k.tab # t
    <3>1. j \in calls /\ k \in calls
      BY <1>2, <1>5, <1>7, <2>1, <2>3
    <3>2. QED
      BY <1>9, <3>1 DEF AskedInv, AsksInv
  <2>4. QED
    BY <2>2, <2>3
<1>10. Edited(tab)
  BY <1>3 DEF Unread, Edited
<1>11. \A u \in Tabs : Edited(tabs'[u])
  BY <1>6, <1>10 DEF AskedInv, AsksInv
<1>12. QED
  BY <1>8, <1>9, <1>11 DEF AsksInv

LEMMA VisitAsks ==
    ASSUME AskedInv, NEW t \in Tabs, Visit(t)
    PROVE  AsksInv'
<1>1. PICK page \in Pages, x \in Secrets \cup {None} :
          /\ page = "detail" => x \in Secrets
          /\ Goto(t, page, x)
  BY DEF Visit, Pages
<1>2. tabs[t].cache \in Sites \cup {None, "pending"}
  BY TabFields DEF AskedInv, TypeInv, TypeOK
<1>3. Mount(t, page, x, tabs[t].cache, Left(t))
  BY <1>1 DEF Goto
<1>4. Remain(Left(t), t)
  BY LeftRemain DEF AskedInv
<1>5. QED
  BY <1>1, <1>2, <1>3, <1>4, MountAsks

LEMMA ReloadAsks ==
    ASSUME AskedInv, NEW t \in Tabs, ReloadTab(t)
    PROVE  AsksInv'
<1>1. tabs[t] \in Tab /\ TabFits(tabs[t]) /\ calls \subseteq Call
  BY DEF AskedInv, TypeInv, TypeOK
<1>2. /\ tabs[t].page \in Pages
      /\ tabs[t].page = "detail" => tabs[t].view.id \in Secrets
  BY <1>1, TabFields DEF TabFits
<1>3. /\ Mount(t, tabs[t].page, tabs[t].view.id, None, calls)
      /\ CallsOf(t) = {}
  BY DEF ReloadTab
<1>4. ASSUME NEW k \in calls PROVE Stays(k, t)
  BY <1>1, <1>3, CallFields DEF CallsOf, SameCall, Stays
<1>5. Remain(calls, t)
  BY <1>4 DEF Remain
<1>6. None \in Sites \cup {None, "pending"}
  OBVIOUS
<1>7. QED
  BY <1>2, <1>3, <1>5, <1>6, MountAsks

LEMMA UserAsks ==
    ASSUME AskedInv, NEW t \in Tabs, UserStep(t)
    PROVE  AsksInv'
<1>1. CASE FormStep(t)
  BY <1>1, FormSteps, TypesAsks DEF AskedInv
<1>2. CASE PanelAction(t)
  BY <1>2, PanelAsks
<1>3. CASE \/ \E x \in Secrets : OpenEntry(t, x)
           \/ \E page \in {"new", "backup"} : OpenPage(t, page)
           \/ GoToList(t)
  BY <1>3, Visits, VisitAsks DEF AskedInv
<1>4. CASE \E query \in Terms \cup {None} : Search(t, query)
  BY <1>4, SearchAsks
<1>5. CASE \E i \in 1..MaxFields : HandleDeleteField(t, i)
  BY <1>5, DeleteFieldAsks
<1>6. CASE RetrySite(t) \/ ReloadTab(t)
  BY <1>6, RetryAsks, ReloadAsks
<1>7. CASE CancelEdit(t) \/ ConfirmSave(t) \/ StartEdit(t) \/ HandleDelete(t)
  BY <1>7, CancelAsks, ConfirmAsks, StartAsks, DeleteAsks
<1>8. QED
  BY <1>1, <1>2, <1>3, <1>4, <1>5, <1>6, <1>7
     DEF UserStep, FormStep, PanelAction

(* The API changes nothing of what was asked.                              *)
LEMMA ReplyAsks ==
    ASSUME AskedInv, NEW k \in calls, NEW answer \in Answer, Replies(k, answer)
    PROVE  AsksInv'
<1> DEFINE r == Replied(k, answer)
<1>1. k \in Call
  BY DEF AskedInv, TypeInv, TypeOK
<1>2. SameCall(r, k) /\ r.live = k.live
  BY <1>1, RepliedIs
<1>3. calls' = (calls \ {k}) \cup {r} /\ tabs' = tabs
  BY DEF Replies, Replied
<1> HIDE DEF r
<1>4. ASSUME NEW j \in calls' PROVE Asks(j, tabs'[j.tab])
  <2>1. CASE j \in calls
    BY <1>3, <2>1 DEF AskedInv, AsksInv
  <2>2. CASE j = r
    <3>1. Asks(k, tabs[k.tab])
      BY DEF AskedInv, AsksInv
    <3>2. QED
      BY <1>2, <1>3, <2>2, <3>1 DEF Asks, SameCall
  <2>3. QED
    BY <1>3, <2>1, <2>2
<1>5. ASSUME NEW i \in calls', NEW j \in calls', Twins(i, j) PROVE i = j
  <2>1. CASE i = r /\ j = r
    BY <2>1
  <2>2. CASE i \in calls /\ j \in calls
    BY <1>5, <2>2 DEF AskedInv, AsksInv
  <2>3. CASE i = r /\ j \in calls \ {k}
    <3>1. Twins(k, j)
      BY <1>2, <1>5, <2>3 DEF Twins, SameCall
    <3>2. QED
      BY <2>3, <3>1 DEF AskedInv, AsksInv
  <2>4. CASE i \in calls \ {k} /\ j = r
    <3>1. Twins(i, k)
      BY <1>2, <1>5, <2>4 DEF Twins, SameCall
    <3>2. QED
      BY <2>4, <3>1 DEF AskedInv, AsksInv
  <2>5. QED
    BY <1>3, <2>1, <2>2, <2>3, <2>4
<1>6. \A t \in Tabs : Edited(tabs'[t])
  BY <1>3 DEF AskedInv, AsksInv
<1>7. QED
  BY <1>4, <1>5, <1>6 DEF AsksInv

(* A step of the API is an answer.                                         *)
LEMMA ServeReplies ==
    ASSUME TypeInv, NEW k \in calls, Serve(k) \/ Fail(k) \/ Lose(k)
    PROVE  \E answer \in Answer : Replies(k, answer)
<1>1. ASSUME NEW status \in Statuses, Replies(k, Refusal(status))
      PROVE  \E answer \in Answer : Replies(k, answer)
  BY <1>1, AnswerTypes
<1>2. CASE Lose(k) \/ Fail(k) \/ RefuseSecret(k)
  BY <1>1, <1>2 DEF Lose, Fail, RefuseSecret, Reads, Statuses
<1>3. ASSUME NEW ids \in SUBSET (Sites \cup Secrets), Written(k, ids)
      PROVE  \E answer \in Answer : Replies(k, answer)
  BY <1>3, AnswerTypes DEF Written
<1>4. CASE ServeSite(k)
  BY <1>3, <1>4, SiteServed
<1>5. CASE ServeSecret(k)
  <2>1. k.secret \in Secrets \/ k.secret = None
    BY CallFields DEF TypeInv, TypeOK
  <2>2. ASSUME Saves(k) PROVE \E answer \in Answer : Replies(k, answer)
    BY <1>3, <2>2 DEF Saves, PutSecret
  <2>3. ASSUME Deletes(k) PROVE \E answer \in Answer : Replies(k, answer)
    BY <1>3, <2>3 DEF Deletes
  <2>4. ASSUME NEW x \in Secrets, Creates(k, x)
        PROVE  \E answer \in Answer : Replies(k, answer)
    BY <1>3, <2>4 DEF Creates
  <2>5. QED
    BY <1>5, <2>2, <2>3, <2>4, SecretServed
<1>6. CASE ServeImport(k)
  <2>1. CASE Imports(k)
    BY <1>3, <2>1 DEF Imports
  <2>2. CASE Reads(k, Refusal("invalid")) \/ Reads(k, Refusal("conflict"))
    BY <1>1, <2>2 DEF Reads, Statuses
  <2>3. QED
    BY <1>6, <2>1, <2>2, ImportServed
<1>7. CASE ServeRead(k)
  <2>1. sites \in SiteTable /\ secrets \in SecretTable
    BY DEF TypeInv, TypeOK
  <2>2. Ids(sites) \subseteq Sites /\ Ids(secrets) \subseteq Secrets
    BY <2>1, TableRows
  <2>3. ASSUME NEW ids \in SUBSET (Sites \cup Secrets), Reads(k, Success(ids))
        PROVE  \E answer \in Answer : Replies(k, answer)
    BY <2>3, AnswerTypes DEF Reads
  <2>4. CASE k.kind = "listSites" /\ Reads(k, Success(Ids(sites)))
    BY <2>2, <2>3, <2>4
  <2>5. CASE k.kind = "listSecrets"
             /\ Reads(k, Success(SecretsOf(secrets, k.site)))
    <3>1. SecretsOf(secrets, k.site) \subseteq Secrets
      BY <2>2 DEF SecretsOf
    <3>2. QED
      BY <2>3, <2>5, <3>1
  <2>6. CASE k.kind = "search"
             /\ Reads(k, Success({x \in Ids(secrets) :
                                      secrets[x].body.title = k.term}))
    <3>1. {x \in Ids(secrets) : secrets[x].body.title = k.term}
              \in SUBSET (Sites \cup Secrets)
      BY <2>2
    <3>2. QED
      BY <2>3, <2>6, <3>1
  <2>7. CASE k.kind = "detail"
             /\ Reads(k, IF secrets[k.secret] = None THEN Refusal("notFound")
                         ELSE Found(secrets[k.secret]))
    <3>1. k.secret \in Secrets
      BY <2>7 DEF TypeInv, CallFits, Carries
    <3>2. CASE secrets[k.secret] = None
      BY <1>1, <2>7, <3>2 DEF Reads, Statuses
    <3>3. CASE secrets[k.secret] # None
      <4>1. Found(secrets[k.secret]) \in Answer
        BY <2>1, <3>1, <3>3, AnswerTypes DEF SecretTable
      <4>2. QED
        BY <2>7, <3>3, <4>1 DEF Reads
    <3>4. QED
      BY <3>2, <3>3
  <2>8. CASE k.kind = "export"
             /\ Reads(k, Backup([sites |-> sites, secrets |-> secrets]))
    <3>1. Backup([sites |-> sites, secrets |-> secrets]) \in Answer
      BY <2>1, AnswerTypes DEF File
    <3>2. QED
      BY <2>8, <3>1 DEF Reads
  <2>9. QED
    BY <1>7, <2>4, <2>5, <2>6, <2>7, <2>8 DEF ServeRead
<1>8. QED
  BY <1>2, <1>4, <1>5, <1>6, <1>7 DEF Serve

(* What the pages do with an answer.                                       *)

LEMMA BecomesAsks ==
    ASSUME AskedInv, NEW k \in calls, NEW tab, NEW started,
           SameAsk(tabs[k.tab], tab), Edited(tab),
           \A j \in started : j.tab = k.tab /\ Asks(j, tab),
           Unlike(calls, started),
           Becomes(k, tab, started)
    PROVE  AsksInv'
<1>1. k.tab \in Tabs
  BY HeardCall DEF AskedInv
<1>2. /\ tabs' = [tabs EXCEPT ![k.tab] = tab]
      /\ calls' \subseteq calls \cup started
  BY DEF Becomes, Rest
<1>3. QED
  BY <1>1, <1>2, SameAskStep

LEMMA BecomesQuietly ==
    ASSUME AskedInv, NEW k \in calls, NEW tab, SameAsk(tabs[k.tab], tab),
           Edited(tab), Becomes(k, tab, {})
    PROVE  AsksInv'
<1>1. k.tab \in Tabs
  BY HeardCall DEF AskedInv
<1>2. /\ tabs' = [tabs EXCEPT ![k.tab] = tab]
      /\ calls' \subseteq calls
  BY DEF Becomes, Rest
<1>3. QED
  BY <1>1, <1>2, QuietStep

LEMMA HeardAsks ==
    ASSUME AskedInv, NEW k \in calls
    PROVE  /\ k.tab \in Tabs
           /\ tabs[k.tab] \in Tab
           /\ AtHome(k, tabs[k.tab])
           /\ Asks(k, tabs[k.tab])
           /\ Edited(tabs[k.tab])
           /\ SameAsk(tabs[k.tab], tabs[k.tab])
BY HeardCall DEF AskedInv, AsksInv, SameAsk

LEMMA ResolveAsks ==
    ASSUME AskedInv, NEW k \in calls, NEW site \in Sites, Resolve(k, site)
    PROVE  AsksInv'
<1> DEFINE old == tabs[k.tab]
           new == Resolved(old, site)
           loads == LoadsOf(k.tab, old, site)
<1>1. k.tab \in Tabs /\ old \in Tab /\ Edited(old)
  BY HeardAsks
<1>2. Becomes(k, new, loads)
  BY ResolveIs DEF AskedInv
<1> HIDE DEF old
<1>3. /\ new.page = old.page
      /\ new.hook = IF old.hook = "loading" THEN site ELSE old.hook
      /\ new.view = old.view
      /\ new.list.query = old.list.query
      /\ old.page = "detail" => new.form = old.form
  BY <1>1, ResolvedTab
<1>4. \A j \in loads : /\ j = LoadCall(k.tab, site, old.list.query)
                       /\ old.hook = "loading"
  BY <1>1, LoadsAre
<1> HIDE DEF new, loads
<1>5. SameAsk(old, new) /\ Edited(new)
  BY <1>1, <1>3, ClientAssumption DEF SameAsk, Edited
<1>6. ASSUME NEW j \in loads
      PROVE  j.tab = k.tab /\ Asks(j, new) /\ Unlike(calls, {j})
  <2> DEFINE query == old.list.query
  <2>1. /\ new.hook = site
        /\ new.list.query = query
        /\ query \in Terms \cup {None}
        /\ j = LoadCall(k.tab, site, query)
    BY <1>1, <1>3, <1>4, TabFields, ListFields
  <2> HIDE DEF query
  <2>2. QED
    BY <1>1, <2>1, LoadAsks
<1>7. Unlike(calls, loads)
  BY <1>4, <1>6 DEF Unlike
<1>8. SameAsk(tabs[k.tab], new)
  BY <1>5 DEF old
<1>9. QED
  BY <1>2, <1>5, <1>6, <1>7, <1>8, BecomesAsks

LEMMA HearSitesAsks ==
    ASSUME AskedInv, NEW k \in calls, k.answer # None,
           HearSites(k) \/ HearCreated(k) \/ SiteFailed(k)
    PROVE  AsksInv'
<1>1. /\ k.tab \in Tabs /\ tabs[k.tab] \in Tab /\ Edited(tabs[k.tab])
      /\ SameAsk(tabs[k.tab], tabs[k.tab])
  BY HeardAsks
<1>2. ASSUME k.kind \in SiteCalls, k.answer.status = "ok"
      PROVE  k.answer.ids \subseteq Ids(sites) /\ Ids(sites) \subseteq Sites
  BY <1>2, HeardCall, TableRows DEF AskedInv, TypeInv, TypeOK, Brings, Succeeded
<1>3. CASE HearSites(k) /\ k.answer.ids = {}
  <2> DEFINE call == New(k.tab, "createSite")
  <2>1. Asked(call, k.tab, "createSite")
    BY <1>1, NewCall DEF Kinds, Writes
  <2>2. Becomes(k, tabs[k.tab], {call})
    BY <1>3 DEF HearSites
  <2> HIDE DEF call
  <2>3. call.tab = k.tab /\ Asks(call, tabs[k.tab]) /\ Unlike(calls, {call})
    BY <2>1, OtherCalls DEF Asked
  <2>4. QED
    BY <1>1, <2>2, <2>3, BecomesAsks
<1>4. CASE HearSites(k) /\ k.answer.ids # {}
  <2> DEFINE site == PickDefaultSiteId(k.answer.ids)
  <2>1. k.answer.ids \subseteq Ids(sites) /\ Ids(sites) \subseteq Sites
    BY <1>2, <1>4 DEF HearSites, SiteCalls
  <2>2. site \in Sites
    BY <1>4, <2>1, Oldest DEF AskedInv
  <2>3. Resolve(k, site)
    BY <1>4 DEF HearSites
  <2> HIDE DEF site
  <2>4. QED
    BY <2>2, <2>3, ResolveAsks
<1>5. CASE HearCreated(k)
  <2>1. k.answer.ids \subseteq Ids(sites) /\ Ids(sites) \subseteq Sites
    BY <1>2, <1>5 DEF HearCreated, SiteCalls
  <2>2. PICK s \in k.answer.ids : Resolve(k, s)
    BY <1>5 DEF HearCreated
  <2>3. QED
    BY <2>1, <2>2, ResolveAsks
<1>6. CASE SiteFailed(k)
  <2> DEFINE old == tabs[k.tab]
             hook == IF old.hook = "loading" THEN "error" ELSE old.hook
             new == WithSite(old, hook, None)
  <2>1. Becomes(k, new, {}) /\ hook \in Sites \cup {"off", "loading", "error"}
    BY <1>6, SiteFailedTab DEF AskedInv
  <2>2. old.hook \in Sites => hook = old.hook
    BY ClientAssumption
  <2> HIDE DEF hook
  <2>3. /\ new.page = old.page
        /\ new.hook = hook
        /\ new.form = old.form
        /\ new.view = old.view
        /\ new.list = old.list
    BY <1>1, <2>1, SiteSet
  <2> HIDE DEF new
  <2>4. SameAsk(old, new) /\ Edited(new)
    BY <1>1, <2>2, <2>3 DEF SameAsk, Edited
  <2>5. QED
    BY <2>1, <2>4, BecomesQuietly
<1>7. QED
  BY <1>3, <1>4, <1>5, <1>6

LEMMA HearListAsks ==
    ASSUME AskedInv, NEW k \in calls, k.answer # None, HearList(k)
    PROVE  AsksInv'
<1> DEFINE old == tabs[k.tab]
           list == Listed(old.list, k.answer)
           new == WithList(old, list)
<1>1. old \in Tab /\ Edited(old)
  BY HeardAsks
<1>2. /\ Becomes(k, new, {})
      /\ list \in List
      /\ list.query = old.list.query
  BY HearListTab DEF AskedInv
<1> HIDE DEF list
<1>3. /\ SamePage(new, old)
      /\ new.form = old.form
      /\ new.view = old.view
      /\ new.list = list
  BY <1>1, <1>2, ListSet
<1> HIDE DEF new
<1>4. SameAsk(old, new) /\ Edited(new)
  BY <1>1, <1>2, <1>3 DEF SameAsk, SamePage, Edited
<1>5. QED
  BY <1>2, <1>4, BecomesQuietly

(* Where a detail arrives, nothing is saved or loses a field.              *)
LEMMA HearDetailAsks ==
    ASSUME AskedInv, NEW k \in calls, k.answer # None, HearDetail(k)
    PROVE  AsksInv'
<1> DEFINE old == tabs[k.tab]
           view == Detailed(old.view, k.answer)
           new == WithView(old, view)
<1>1. /\ k.tab \in Tabs
      /\ old \in Tab
      /\ Edited(old)
      /\ Asks(k, old)
      /\ AtHome(k, old)
  BY HeardAsks
<1>2. /\ Becomes(k, new, {})
      /\ view \in View
      /\ view.id = old.view.id
      /\ view.mode = old.view.mode
      /\ old.page = "detail"
  BY HearDetailTab DEF AskedInv
<1>3. k.kind = "detail" /\ k.live /\ old.view.status = "loading"
  BY <1>1 DEF HearDetail, Asks, AtHome, PageReads
<1> HIDE DEF view
<1>4. /\ SamePage(new, old)
      /\ new.form = old.form
      /\ new.view = view
      /\ new.list = old.list
  BY <1>1, <1>2, ViewSet
<1>5. tabs' = [tabs EXCEPT ![k.tab] = new] /\ calls' = calls \ {k}
  BY <1>2 DEF Becomes, Rest
<1> HIDE DEF new
<1>6. ASSUME NEW j \in calls \ {k}, j.tab = k.tab PROVE Asks(j, new)
  <2>1. Asks(j, old) /\ AtHome(j, old)
    BY <1>6, HeardAsks
  <2>2. j.kind # "detail"
    <3>1. j.kind = "detail" => Twins(j, k)
      BY <1>3, <1>6, <2>1 DEF Twins, AtHome, PageReads
    <3>2. QED
      BY <1>6, <3>1 DEF AskedInv, AsksInv
  <2>3. QED
    BY <1>3, <1>4, <2>1, <2>2 DEF Asks, SamePage
<1>7. Asking(k.tab, new, calls \ {k}, {})
  BY <1>5, <1>6 DEF Asking
<1>8. Edited(new)
  BY <1>1, <1>2, <1>3, <1>4 DEF Edited, SamePage
<1>9. QED
  BY <1>1, <1>7, <1>8, NoCalls, AskingStep

LEMMA PushAsks ==
    ASSUME AskedInv, NEW k \in calls, PushToList(k)
    PROVE  AsksInv'
<1>1. /\ k.tab \in Tabs
      /\ tabs[k.tab] \in Tab
      /\ Edited(tabs[k.tab])
      /\ SameAsk(tabs[k.tab], tabs[k.tab])
  BY HeardAsks
<1>2. CASE tabs[k.tab].page = "list"
  <2>1. tabs' = tabs /\ calls' \subseteq calls
    BY <1>2 DEF PushToList, Rest
  <2>2. tabs' = [tabs EXCEPT ![k.tab] = tabs[k.tab]]
    BY <1>1, <2>1 DEF AskedInv, TypeInv, TypeOK
  <2>3. QED
    BY <1>1, <2>1, <2>2, QuietStep
<1>3. CASE tabs[k.tab].page # "list"
  <2> DEFINE others == Left(k.tab) \ {k, [k EXCEPT !.live = FALSE]}
  <2>1. Mount(k.tab, "list", None, tabs[k.tab].cache, others)
    BY <1>3 DEF PushToList
  <2>2. others \in SUBSET Left(k.tab)
    OBVIOUS
  <2> HIDE DEF others
  <2>3. Remain(others, k.tab)
    BY <1>1, <2>2, LeftRemain DEF AskedInv
  <2>4. tabs[k.tab].cache \in Sites \cup {None, "pending"} /\ "list" \in Pages
    BY <1>1, TabFields DEF Pages
  <2>5. QED
    BY <1>1, <2>1, <2>3, <2>4, MountAsks
<1>4. QED
  BY <1>2, <1>3

(* A page that saved or took a field away waits for nothing else.          *)
LEMMA Alone ==
    ASSUME AskedInv, NEW k \in calls, k.live,
           k.kind \in {"saveSecret", "deleteField"},
           NEW j \in calls \ {k}, j.tab = k.tab
    PROVE  /\ j.kind # "detail"
           /\ j.live => j.kind \notin {"saveSecret", "deleteField"}
<1>1. Asks(j, tabs[k.tab]) /\ Asks(k, tabs[k.tab])
  BY DEF AskedInv, AsksInv
<1>2. ~Twins(j, k)
  BY DEF AskedInv, AsksInv
<1>3. QED
  BY <1>1, <1>2 DEF Asks, Twins

LEMMA ReloadsAsks ==
    ASSUME AskedInv, NEW k \in calls, k.live,
           k.kind \in {"saveSecret", "deleteField"},
           NEW view \in View, view.id = tabs[k.tab].view.id, Reloads(k, view)
    PROVE  AsksInv'
<1> DEFINE old == tabs[k.tab]
           new == WithForm(WithView(old, ReloadView(view)), Closed0)
           call == [New(k.tab, "detail") EXCEPT !.secret = view.id]
<1>1. k.tab \in Tabs /\ k.kind \in Edits
  BY HeardAsks DEF Edits
<1>2. /\ tabs' = [tabs EXCEPT ![k.tab] = new]
      /\ calls' = Rest(k) \cup {call}
      /\ SamePage(new, old)
      /\ new.list = old.list
      /\ new.form = Closed0
      /\ new.view.id = view.id
      /\ new.view.status = "loading"
      /\ Asked(call, k.tab, "detail")
      /\ call.secret = view.id
  BY <1>1, ReloadsTab DEF AskedInv
<1> HIDE DEF new, call
<1>3. call.tab = k.tab /\ Asks(call, new)
  BY <1>2 DEF Asked, Asks
<1>4. ASSUME NEW j \in Rest(k), j.tab = k.tab
      PROVE  Asks(j, new) /\ j.kind # "detail"
  <2>1. Asks(j, old) /\ j \in calls
    BY <1>4 DEF Rest, AskedInv, AsksInv
  <2>2. j.kind # "detail"
        /\ (j.live => j.kind \notin {"saveSecret", "deleteField"})
    BY <1>4, Alone DEF Rest
  <2>3. QED
    BY <1>2, <2>1, <2>2 DEF Asks, SamePage
<1>5. ASSUME NEW j \in Rest(k) PROVE ~Twins(j, call)
  BY <1>2, <1>4 DEF Asked, Twins
<1>6. Unlike(Rest(k), {call})
  BY <1>5 DEF Unlike
<1>7. Asking(k.tab, new, Rest(k), {call})
  BY <1>2, <1>3, <1>4 DEF Asking, Rest
<1>8. Edited(new)
  BY <1>2 DEF Edited, Closed0
<1>9. QED
  BY <1>1, <1>6, <1>7, <1>8, AskingStep

LEMMA HearSavedAsks ==
    ASSUME AskedInv, NEW k \in calls, HearSaved(k) \/ HearFieldDeleted(k)
    PROVE  AsksInv'
<1> DEFINE old == tabs[k.tab].view
<1>1. old \in View
  BY HeardAsks, TabFields
<1>2. CASE HearSaved(k)
  <2> DEFINE view == [old EXCEPT !.mode = "view"]
  <2>1. view \in View /\ view.id = old.id
    BY <1>1, ModeSet DEF SameShown
  <2>2. Reloads(k, view) /\ k.kind = "saveSecret" /\ k.live
    BY <1>2 DEF HearSaved
  <2> HIDE DEF view
  <2>3. QED
    BY <2>1, <2>2, ReloadsAsks
<1>3. CASE HearFieldDeleted(k)
  <2>1. Reloads(k, old) /\ k.kind = "deleteField" /\ k.live
    BY <1>3 DEF HearFieldDeleted
  <2>2. QED
    BY <1>1, <2>1, ReloadsAsks
<1>4. QED
  BY <1>2, <1>3

LEMMA SaveFailedAsks ==
    ASSUME AskedInv, NEW k \in calls, SaveFailed(k)
    PROVE  AsksInv'
<1> DEFINE old == tabs[k.tab]
           form == FailedForm(old.form)
           new == WithForm(old, form)
<1>1. old \in Tab /\ Asks(k, old) /\ AtHome(k, old)
  BY HeardAsks
<1>2. Becomes(k, new, {}) /\ form \in Form
  BY SaveFailedTab DEF AskedInv
<1>3. old.page = "detail" =>
          old.view.mode = "edit" /\ old.view.status = "loaded"
  BY <1>1 DEF SaveFailed, AtHome, Asks
<1> HIDE DEF form
<1>4. /\ SamePage(new, old)
      /\ new.form = form
      /\ new.view = old.view
      /\ new.list = old.list
  BY <1>1, <1>2, FormSet
<1> HIDE DEF new
<1>5. SameAsk(old, new) /\ Edited(new)
  BY <1>3, <1>4 DEF SameAsk, SamePage, Edited
<1>6. QED
  BY <1>2, <1>5, BecomesQuietly

LEMMA DeleteFailedAsks ==
    ASSUME AskedInv, NEW k \in calls, DeleteFailed(k) \/ DeleteFieldFailed(k)
    PROVE  AsksInv'
<1> DEFINE old == tabs[k.tab]
           view == IF DeleteFailed(k)
                   THEN [old.view EXCEPT !.deleting = FALSE]
                   ELSE [old.view EXCEPT !.fieldBusy = FALSE]
           new == WithView(old, view)
<1>1. k.tab \in Tabs /\ old \in Tab /\ Edited(old)
  BY HeardAsks
<1>2. /\ Becomes(k, new, {})
      /\ view \in View
      /\ SameShown(view, old.view)
      /\ view.mode = old.view.mode
      /\ DeleteFailed(k) => view.fieldBusy = old.view.fieldBusy
  BY DeleteFailedTab DEF AskedInv
<1> HIDE DEF view
<1>3. /\ SamePage(new, old)
      /\ new.form = old.form
      /\ new.view = view
      /\ new.list = old.list
  BY <1>1, <1>2, ViewSet
<1>4. tabs' = [tabs EXCEPT ![k.tab] = new] /\ calls' = calls \ {k}
  BY <1>2 DEF Becomes, Rest
<1> HIDE DEF new
<1>5. Edited(new)
  BY <1>1, <1>2, <1>3 DEF Edited, SamePage, SameShown
<1>6. CASE DeleteFailed(k)
  <2>1. SameAsk(old, new)
    BY <1>2, <1>3, <1>6 DEF SameAsk, SamePage, SameShown
  <2>2. QED
    BY <1>2, <1>5, <2>1, BecomesQuietly
<1>7. CASE ~DeleteFailed(k)
  <2>1. k.live /\ k.kind = "deleteField"
    BY <1>7 DEF DeleteFieldFailed
  <2>2. ASSUME NEW j \in calls \ {k}, j.tab = k.tab PROVE Asks(j, new)
    <3>1. Asks(j, old)
      BY <2>2 DEF AskedInv, AsksInv
    <3>2. j.live => j.kind \notin {"saveSecret", "deleteField"}
      BY <2>1, <2>2, Alone
    <3>3. QED
      BY <1>2, <1>3, <3>1, <3>2 DEF Asks, SamePage, SameShown
  <2>3. Asking(k.tab, new, calls \ {k}, {})
    BY <1>4, <2>2 DEF Asking
  <2>4. QED
    BY <1>1, <1>5, <2>3, NoCalls, AskingStep
<1>8. QED
  BY <1>6, <1>7

LEMMA HearPanelAsks ==
    ASSUME AskedInv, NEW k \in calls, k.answer # None,
           HearExport(k) \/ HearImport(k)
    PROVE  AsksInv'
<1>1. k.tab \in Tabs
  BY HeardAsks
<1>2. PICK panel \in Panel :
          tabs' = [tabs EXCEPT ![k.tab] = WithPanel(tabs[k.tab], panel)]
  BY HearExportTab, HearImportTab DEF AskedInv, Becomes
<1> DEFINE more == {}
<1>3. /\ calls' \subseteq calls \cup more
      /\ Unlike(calls, more)
      /\ \A j \in more : j.tab = k.tab /\ \A tab : Asks(j, tab)
  BY NoCalls DEF HearExport, HearImport, Becomes, Rest
<1> HIDE DEF more
<1>4. QED
  BY <1>1, <1>2, <1>3, PanelAskStep

LEMMA DeliverAsks ==
    ASSUME AskedInv, NEW k \in calls, Deliver(k)
    PROVE  AsksInv'
<1>1. k.answer # None
  BY DEF Deliver
<1>2. CASE HearSites(k) \/ HearCreated(k) \/ SiteFailed(k)
  BY <1>1, <1>2, HearSitesAsks
<1>3. CASE HearList(k) \/ HearDetail(k)
  BY <1>1, <1>3, HearListAsks, HearDetailAsks
<1>4. CASE HearSecretCreated(k) \/ HearDeleted(k)
  BY <1>4, PushAsks DEF HearSecretCreated, HearDeleted
<1>5. CASE HearSaved(k) \/ HearFieldDeleted(k)
  BY <1>5, HearSavedAsks
<1>6. CASE SaveFailed(k) \/ DeleteFailed(k) \/ DeleteFieldFailed(k)
  BY <1>6, SaveFailedAsks, DeleteFailedAsks
<1>7. CASE HearExport(k) \/ HearImport(k)
  BY <1>1, <1>7, HearPanelAsks
<1>8. CASE Ignore(k)
  <2>1. Becomes(k, tabs[k.tab], {})
    BY <1>8 DEF Ignore
  <2>2. QED
    BY <2>1, HeardAsks, BecomesQuietly
<1>9. QED
  BY <1>2, <1>3, <1>4, <1>5, <1>6, <1>7, <1>8 DEF Deliver

LEMMA AsksStep ==
    ASSUME AskedInv, [Next]_vars
    PROVE  AsksInv'
<1>1. CASE \E t \in Tabs : Cardinality(calls) < MaxCalls /\ UserStep(t)
  BY <1>1, UserAsks
<1>2. ASSUME NEW k \in calls, Serve(k) \/ Fail(k) \/ Lose(k)
      PROVE  AsksInv'
  <2>1. PICK answer \in Answer : Replies(k, answer)
    BY <1>2, ServeReplies DEF AskedInv
  <2>2. QED
    BY <2>1, ReplyAsks
<1>3. CASE \E k \in calls : Deliver(k)
  BY <1>3, DeliverAsks
<1>4. CASE UNCHANGED vars
  BY <1>4 DEF vars, AskedInv, AsksInv
<1>5. QED
  BY <1>1, <1>2, <1>3, <1>4 DEF Next

LEMMA InitAsks ==
    ASSUME Init
    PROVE  AsksInv
<1> DEFINE tab == [Blank("list", None) EXCEPT !.cache = "pending"]
<1>1. tab.page = "list" /\ tabs = [t \in Tabs |-> tab]
  BY FirstTab DEF Init
<1> HIDE DEF tab
<1>2. ASSUME NEW k \in calls
      PROVE  k.kind = "listSites" /\ k.live
  <2>1. PICK t \in Tabs : k = New(t, "listSites")
    BY DEF Init
  <2>2. Asked(New(t, "listSites"), t, "listSites")
    BY NewCall DEF Kinds
  <2>3. QED
    BY <2>1, <2>2 DEF Asked
<1>3. \A k \in calls : Asks(k, tabs[k.tab])
  BY <1>2 DEF Asks
<1>4. \A j, k \in calls : ~Twins(j, k)
  BY <1>2 DEF Twins
<1>5. \A t \in Tabs : Edited(tabs[t])
  BY <1>1 DEF Edited
<1>6. QED
  BY <1>3, <1>4, <1>5 DEF AsksInv

-----------------------------------------------------------------------------
(* A tab that missed no write shows what is stored.                        *)

ShownInv == AskedInv /\ CurrentInv

(* Nothing is shown that was not shown before.                             *)
SameSeen(old, new) ==
    /\ new.list.status = "loaded" =>
           /\ old.list.status = "loaded"
           /\ new.list.items = old.list.items
           /\ new.list.query = old.list.query
           /\ new.hook = old.hook
    /\ new.view.status \in {"loaded", "missing"} =>
           /\ new.view.status = old.view.status
           /\ new.view.id = old.view.id
           /\ new.view.body = old.view.body

LEMMA SeenIsCurrent ==
    ASSUME NEW table, NEW old, NEW new, SameSeen(old, new),
           TabIsCurrent(table, old)
    PROVE  TabIsCurrent(table, new)
<1>1. ListIsCurrent(table, new)
  BY DEF TabIsCurrent, ListIsCurrent, SameSeen
<1>2. ViewIsCurrent(table, new.view)
  BY DEF TabIsCurrent, ViewIsCurrent, SameSeen
<1>3. QED
  BY <1>1, <1>2 DEF TabIsCurrent

(* A step of tab t, which may hear of its writes.                          *)
Paging(t, tab, kept, more) ==
    /\ tabs' = [tabs EXCEPT ![t] = tab]
    /\ secrets' = secrets
    /\ \A u \in Tabs : u # t => (u \in doubt' <=> u \in doubt)
    /\ calls' = kept \cup more
    /\ \A k \in calls : k.tab # t => k \in kept
    /\ \A k \in kept : k.tab # t => k \in calls
    /\ \A k \in more : k.tab = t /\ k.answer = None

LEMMA PagingStep ==
    ASSUME ShownInv, NEW t \in Tabs, NEW tab, NEW kept, NEW more,
           Paging(t, tab, kept, more),
           Aware(t)' => /\ TabIsCurrent(secrets, tab)
                        /\ \A k \in kept : k.tab = t =>
                               AnswerIsCurrent(secrets, k)
    PROVE  CurrentInv'
<1>1. tabs'[t] = tab /\ \A u \in Tabs : u # t => tabs'[u] = tabs[u]
  BY DEF Paging, ShownInv, AskedInv, TypeInv, TypeOK
<1>2. \A k \in more : AnswerIsCurrent(secrets, k)
  BY DEF Paging, AnswerIsCurrent
<1>3. SUFFICES ASSUME NEW u \in Tabs, Aware(u)'
               PROVE  /\ TabIsCurrent(secrets', tabs'[u])
                      /\ \A k \in calls' : k.tab = u =>
                             AnswerIsCurrent(secrets', k)
  BY DEF CurrentInv
<1>4. secrets' = secrets /\ calls' = kept \cup more
  BY DEF Paging
<1>5. CASE u = t
  BY <1>1, <1>2, <1>3, <1>4, <1>5
<1>6. CASE u # t
  <2>1. Aware(u)
    BY <1>3, <1>4, <1>6 DEF Aware, Paging
  <2>2. /\ TabIsCurrent(secrets, tabs[u])
        /\ \A k \in calls : k.tab = u => AnswerIsCurrent(secrets, k)
    BY <2>1 DEF ShownInv, CurrentInv
  <2>3. ASSUME NEW k \in calls', k.tab = u PROVE k \in calls
    BY <1>4, <1>6, <2>3 DEF Paging
  <2>4. QED
    BY <1>1, <1>4, <1>6, <2>2, <2>3
<1>7. QED
  BY <1>5, <1>6

(* A step of tab t that hears of no write.                                 *)
LEMMA SeenStep ==
    ASSUME ShownInv, NEW t \in Tabs, NEW tab, SameSeen(tabs[t], tab),
           NEW gone, \A k \in gone : k.tab = t /\ ~Took(k),
           NEW more, \A k \in more : k.tab = t /\ k.answer = None,
           tabs' = [tabs EXCEPT ![t] = tab],
           calls' = (calls \ gone) \cup more,
           secrets' = secrets, doubt' = doubt
    PROVE  CurrentInv'
<1>1. Paging(t, tab, calls \ gone, more)
  BY DEF Paging
<1>2. ASSUME Aware(t)'
      PROVE  /\ TabIsCurrent(secrets, tab)
             /\ \A k \in calls \ gone : k.tab = t => AnswerIsCurrent(secrets, k)
  <2>1. Aware(t)
    BY <1>2 DEF Aware
  <2>2. /\ TabIsCurrent(secrets, tabs[t])
        /\ \A k \in calls : k.tab = t => AnswerIsCurrent(secrets, k)
    BY <2>1 DEF ShownInv, CurrentInv
  <2>3. QED
    BY <2>2, SeenIsCurrent
<1>3. QED
  BY <1>1, <1>2, PagingStep

(* The same where no call goes, and where none is made.                    *)
LEMMA AddStep ==
    ASSUME ShownInv, NEW t \in Tabs, NEW tab, SameSeen(tabs[t], tab),
           NEW more, \A k \in more : k.tab = t /\ k.answer = None,
           tabs' = [tabs EXCEPT ![t] = tab],
           calls' = calls \cup more,
           secrets' = secrets, doubt' = doubt
    PROVE  CurrentInv'
<1> DEFINE gone == {}
<1>1. /\ \A k \in gone : k.tab = t /\ ~Took(k)
      /\ calls' = (calls \ gone) \cup more
  OBVIOUS
<1> HIDE DEF gone
<1>2. QED
  BY <1>1, SeenStep

LEMMA DropStep ==
    ASSUME ShownInv, NEW t \in Tabs, NEW tab, SameSeen(tabs[t], tab),
           NEW gone, \A k \in gone : k.tab = t /\ ~Took(k),
           tabs' = [tabs EXCEPT ![t] = tab],
           calls' = calls \ gone,
           secrets' = secrets, doubt' = doubt
    PROVE  CurrentInv'
<1> DEFINE more == {}
<1>1. /\ \A k \in more : k.tab = t /\ k.answer = None
      /\ calls' = (calls \ gone) \cup more
  OBVIOUS
<1> HIDE DEF more
<1>2. QED
  BY <1>1, SeenStep

LEMMA KeepStep ==
    ASSUME ShownInv, NEW t \in Tabs, NEW tab, SameSeen(tabs[t], tab),
           tabs' = [tabs EXCEPT ![t] = tab], calls' = calls,
           secrets' = secrets, doubt' = doubt
    PROVE  CurrentInv'
<1> DEFINE gone == {}
<1>1. (\A k \in gone : k.tab = t /\ ~Took(k)) /\ calls' = calls \ gone
  OBVIOUS
<1> HIDE DEF gone
<1>2. QED
  BY <1>1, DropStep

(* Where the tab shows the same list and password, the same is seen.       *)
LEMMA SameIsSeen ==
    ASSUME NEW old, NEW new, new.list = old.list, new.hook = old.hook,
           SameShown(new.view, old.view)
    PROVE  SameSeen(old, new)
BY DEF SameSeen, SameShown

(* Steps of a user.                                                        *)

LEMMA TypesShows ==
    ASSUME ShownInv, NEW t \in Tabs, Types(t)
    PROVE  CurrentInv'
<1>1. PICK form \in Form : Shows(t, form)
  BY DEF Types
<1>2. tabs[t] \in Tab
  BY DEF ShownInv, AskedInv, TypeInv, TypeOK
<1> DEFINE tab == WithForm(tabs[t], form)
<1>3. tabs' = [tabs EXCEPT ![t] = tab]
      /\ UNCHANGED <<calls, secrets, doubt>>
  BY <1>1 DEF Shows, WithForm, tables
<1>4. /\ SamePage(tab, tabs[t])
      /\ tab.view = tabs[t].view
      /\ tab.list = tabs[t].list
  BY <1>2, FormSet
<1> HIDE DEF tab
<1>5. SameSeen(tabs[t], tab)
  BY <1>4, SameIsSeen DEF SamePage, SameShown
<1>6. QED
  BY <1>3, <1>5, KeepStep

LEMMA SearchShows ==
    ASSUME ShownInv, NEW t \in Tabs, NEW query \in Terms \cup {None},
           Search(t, query)
    PROVE  CurrentInv'
<1>1. PICK list \in List :
          /\ list.status # "loaded"
          /\ tabs' = [tabs EXCEPT ![t] = WithList(tabs[t], list)]
  BY SearchTab DEF ShownInv, AskedInv
<1>2. tabs[t] \in Tab
  BY DEF ShownInv, AskedInv, TypeInv, TypeOK
<1> DEFINE tab == WithList(tabs[t], list)
           load == LoadCall(t, tabs[t].hook, query)
           gone == {k \in calls : k.tab = t
                                  /\ k.kind \in {"listSecrets", "search"}}
<1>3. /\ tab.view = tabs[t].view
      /\ tab.list = list
  BY <1>2, ListSet
<1>4. tabs' = [tabs EXCEPT ![t] = tab]
      /\ UNCHANGED <<secrets, doubt>>
  BY <1>1 DEF Search, tables
<1> HIDE DEF tab
<1>5. SameSeen(tabs[t], tab)
  BY <1>1, <1>3 DEF SameSeen
<1>6. CASE UNCHANGED calls
  BY <1>4, <1>5, <1>6, KeepStep
<1>7. CASE /\ tabs[t].hook \in Sites
           /\ calls' = Dropped(t, {"listSecrets", "search"}) \cup {load}
  <2>1. load.tab = t /\ load.answer = None
    BY <1>7, LoadIsCall DEF Asked
  <2>2. Dropped(t, {"listSecrets", "search"}) = calls \ gone
    BY DEF Dropped
  <2>3. \A k \in gone : k.tab = t /\ ~Took(k)
    BY DEF Took, Writes
  <2> DEFINE more == {load}
  <2>4. \A k \in more : k.tab = t /\ k.answer = None
    BY <2>1
  <2>5. calls' = (calls \ gone) \cup more
    BY <1>7, <2>2
  <2> HIDE DEF gone, more
  <2>6. QED
    BY <1>4, <1>5, <2>3, <2>4, <2>5, SeenStep
<1>8. QED
  BY <1>6, <1>7 DEF Search

LEMMA CancelShows ==
    ASSUME ShownInv, NEW t \in Tabs, CancelEdit(t)
    PROVE  CurrentInv'
<1> DEFINE view == [tabs[t].view EXCEPT !.mode = "view"]
           tab == WithForm(WithView(tabs[t], view), Closed0)
<1>1. /\ tabs' = [tabs EXCEPT ![t] = tab]
      /\ SamePage(tab, tabs[t])
      /\ tab.view = view
      /\ tab.list = tabs[t].list
  BY CancelTab DEF ShownInv, AskedInv
<1>2. tabs[t].view \in View
  BY TabFields DEF ShownInv, AskedInv, TypeInv, TypeOK
<1>3. SameShown(view, tabs[t].view)
  BY <1>2, ModeSet
<1> HIDE DEF tab, view
<1>4. SameSeen(tabs[t], tab)
  BY <1>1, <1>3, SameIsSeen DEF SamePage
<1>5. UNCHANGED <<calls, secrets, doubt>>
  BY DEF CancelEdit, tables
<1>6. QED
  BY <1>1, <1>4, <1>5, KeepStep

LEMMA StartShows ==
    ASSUME ShownInv, NEW t \in Tabs, StartEdit(t)
    PROVE  CurrentInv'
<1> DEFINE view == [tabs[t].view EXCEPT !.mode = "edit"]
           form == EditForm(tabs[t].view.body)
           tab == WithForm(WithView(tabs[t], view), form)
<1>1. /\ tabs' = [tabs EXCEPT ![t] = tab]
      /\ SamePage(tab, tabs[t])
      /\ tab.view = view
      /\ tab.list = tabs[t].list
  BY StartTab DEF ShownInv, AskedInv
<1>2. tabs[t].view \in View
  BY TabFields DEF ShownInv, AskedInv, TypeInv, TypeOK
<1>3. SameShown(view, tabs[t].view)
  BY <1>2, ModeSet
<1> HIDE DEF tab, view, form
<1>4. SameSeen(tabs[t], tab)
  BY <1>1, <1>3, SameIsSeen DEF SamePage
<1>5. UNCHANGED <<calls, secrets, doubt>>
  BY DEF StartEdit, tables
<1>6. QED
  BY <1>1, <1>4, <1>5, KeepStep

(* A step that shows the same and makes one call.                          *)
LEMMA CallStep ==
    ASSUME ShownInv, NEW t \in Tabs, NEW tab, SameSeen(tabs[t], tab),
           NEW k, NEW kind, Asked(k, t, kind),
           tabs' = [tabs EXCEPT ![t] = tab],
           calls' = calls \cup {k},
           secrets' = secrets, doubt' = doubt
    PROVE  CurrentInv'
<1> DEFINE more == {k}
<1>1. /\ \A j \in more : j.tab = t /\ j.answer = None
      /\ calls' = calls \cup more
  BY DEF Asked
<1> HIDE DEF more
<1>2. QED
  BY <1>1, AddStep

LEMMA ConfirmShows ==
    ASSUME ShownInv, NEW t \in Tabs, ConfirmSave(t)
    PROVE  CurrentInv'
<1> DEFINE form == [tabs[t].form EXCEPT !.submitting = TRUE]
           tab == WithForm(tabs[t], form)
<1>1. /\ form \in Form
      /\ tabs' = [tabs EXCEPT ![t] = tab]
      /\ calls' = calls \cup {SaveCall(t)}
  BY ConfirmTab DEF ShownInv, AskedInv
<1>2. tabs[t] \in Tab /\ tabs[t].form.step = "review"
  BY DEF ShownInv, AskedInv, TypeInv, TypeOK, ConfirmSave
<1>3. \E kind : Asked(SaveCall(t), t, kind)
  BY <1>2, SaveIsCall DEF ShownInv, AskedInv
<1> HIDE DEF form
<1>4. /\ SamePage(tab, tabs[t])
      /\ tab.view = tabs[t].view
      /\ tab.list = tabs[t].list
  BY <1>1, <1>2, FormSet
<1> HIDE DEF tab
<1>5. SameSeen(tabs[t], tab)
  BY <1>4, SameIsSeen DEF SamePage, SameShown
<1>6. secrets' = secrets /\ doubt' = doubt
  BY DEF ConfirmSave, tables
<1>7. QED
  BY <1>1, <1>3, <1>5, <1>6, CallStep

LEMMA DeleteShows ==
    ASSUME ShownInv, NEW t \in Tabs, HandleDelete(t)
    PROVE  CurrentInv'
<1> DEFINE view == [tabs[t].view EXCEPT !.deleting = TRUE]
           tab == WithView(tabs[t], view)
           call == [New(t, "deleteSecret") EXCEPT !.secret = tabs[t].view.id]
<1>1. tabs[t] \in Tab /\ tabs \in [Tabs -> Tab]
  BY DEF ShownInv, AskedInv, TypeInv, TypeOK
<1>2. view \in View /\ SameShown(view, tabs[t].view)
  BY <1>1, TabFields, DeletingSet
<1>3. Asked(call, t, "deleteSecret")
  BY <1>1, TabFields, ViewFields, SecretCall DEF Kinds, Writes
<1>4. /\ tabs' = [tabs EXCEPT ![t] = tab]
      /\ calls' = calls \cup {call}
      /\ secrets' = secrets /\ doubt' = doubt
  BY <1>1 DEF WithView, HandleDelete, tables
<1> HIDE DEF view, call
<1>5. /\ SamePage(tab, tabs[t])
      /\ tab.view = view
      /\ tab.list = tabs[t].list
  BY <1>1, <1>2, ViewSet
<1> HIDE DEF tab
<1>6. SameSeen(tabs[t], tab)
  BY <1>2, <1>5, SameIsSeen DEF SamePage
<1>7. QED
  BY <1>3, <1>4, <1>6, CallStep

LEMMA DeleteFieldShows ==
    ASSUME ShownInv, NEW t \in Tabs, NEW i, HandleDeleteField(t, i)
    PROVE  CurrentInv'
<1> DEFINE view == [tabs[t].view EXCEPT !.fieldBusy = TRUE]
           tab == WithView(tabs[t], view)
           call == FieldCallOf(t, i)
<1>1. tabs[t] \in Tab /\ tabs \in [Tabs -> Tab]
  BY DEF ShownInv, AskedInv, TypeInv, TypeOK
<1>2. view \in View /\ SameShown(view, tabs[t].view)
  BY <1>1, TabFields, FieldBusySet
<1>3. Asked(call, t, "deleteField")
  BY FieldIsCall DEF ShownInv, AskedInv
<1>4. /\ tabs' = [tabs EXCEPT ![t] = tab]
      /\ calls' = calls \cup {call}
      /\ secrets' = secrets /\ doubt' = doubt
  BY <1>1 DEF WithView, HandleDeleteField, FieldCallOf, tables
<1> HIDE DEF view, call
<1>5. /\ SamePage(tab, tabs[t])
      /\ tab.view = view
      /\ tab.list = tabs[t].list
  BY <1>1, <1>2, ViewSet
<1> HIDE DEF tab
<1>6. SameSeen(tabs[t], tab)
  BY <1>2, <1>5, SameIsSeen DEF SamePage
<1>7. QED
  BY <1>3, <1>4, <1>6, CallStep

LEMMA PanelSeen ==
    ASSUME ShownInv, NEW t \in Tabs, NEW panel \in Panel
    PROVE  SameSeen(tabs[t], WithPanel(tabs[t], panel))
<1> DEFINE tab == WithPanel(tabs[t], panel)
<1>1. tabs[t] \in Tab
  BY DEF ShownInv, AskedInv, TypeInv, TypeOK
<1>2. /\ SamePage(tab, tabs[t])
      /\ tab.view = tabs[t].view
      /\ tab.list = tabs[t].list
  BY <1>1, PanelSet
<1> HIDE DEF tab
<1>3. SameSeen(tabs[t], tab)
  BY <1>2, SameIsSeen DEF SamePage, SameShown
<1>4. QED
  BY <1>3 DEF tab

LEMMA PanelShows ==
    ASSUME ShownInv, NEW t \in Tabs, PanelAction(t)
    PROVE  CurrentInv'
<1>1. PICK panel \in Panel : \E more : PanelMoves(t, panel, more)
  BY PanelTab DEF ShownInv, AskedInv
<1>2. PICK more : PanelMoves(t, panel, more)
  BY <1>1
<1>3. \A k \in more : k.tab = t /\ k.answer = None
  BY <1>2 DEF PanelMoves, PanelCall, Asked
<1>4. SameSeen(tabs[t], WithPanel(tabs[t], panel))
  BY PanelSeen
<1>5. QED
  BY <1>2, <1>3, <1>4, AddStep DEF PanelMoves, tables

LEMMA RetryShows ==
    ASSUME ShownInv, NEW t \in Tabs, RetrySite(t)
    PROVE  CurrentInv'
<1> DEFINE tab == WithSite(tabs[t], "loading", "pending")
<1>1. tabs[t] \in Tab /\ TabFits(tabs[t])
  BY DEF ShownInv, AskedInv, TypeInv, TypeOK
<1>2. /\ tabs' = [tabs EXCEPT ![t] = tab]
      /\ tabs[t].hook \notin Sites
      /\ calls' = calls \cup {New(t, "listSites")}
      /\ UNCHANGED <<secrets, doubt>>
  BY RetryTab DEF ShownInv, AskedInv
<1>3. /\ tab.view = tabs[t].view
      /\ tab.list = tabs[t].list
  BY <1>1, SiteSet
<1>4. Asked(New(t, "listSites"), t, "listSites")
  BY NewCall DEF Kinds
<1> HIDE DEF tab
<1>5. SameSeen(tabs[t], tab)
  BY <1>1, <1>2, <1>3 DEF SameSeen, TabFits
<1>6. QED
  BY <1>2, <1>4, <1>5, CallStep

(* A page that goes takes no call of another tab with it.                  *)
LEMMA LeftKeeps ==
    ASSUME calls \subseteq Call, NEW t \in Tabs, NEW k \in calls, k.tab # t
    PROVE  k \in Left(t)
<1> DEFINE still == k.live /\ (k.tab # t \/ k.kind \in SiteCalls)
<1>1. still = k.live /\ k \in Call
  BY CallFields
<1>2. [k EXCEPT !.live = still] = k
  <2> HIDE DEF still
  <2>1. QED
    BY <1>1 DEF Call
<1>3. k \in Dropped(t, PageReads)
  BY DEF Dropped
<1>4. [k EXCEPT !.live = still] \in Left(t)
  BY <1>3 DEF Left
<1>5. QED
  BY <1>2, <1>4

(* A page that is mounted shows nothing yet.                               *)
LEMMA MountShows ==
    ASSUME ShownInv, NEW t \in Tabs, NEW page \in Pages, NEW x,
           page = "detail" => x \in Secrets,
           NEW cache \in Sites \cup {None, "pending"},
           NEW others, Remain(others, t),
           \A k \in calls : k.tab # t => k \in others,
           Mount(t, page, x, cache, others), Unserved
    PROVE  CurrentInv'
<1> DEFINE tab == Mounted(page, x, cache)
           more == MountCalls(t, page, x, cache)
<1>1. /\ tabs' = [tabs EXCEPT ![t] = tab]
      /\ calls' = others \cup more
      /\ doubt' = doubt \ {t}
  BY MountIs
<1>2. Unread(tab, page, x, cache)
  BY MountedTab
<1>3. ASSUME NEW k \in more
      PROVE  k.tab = t /\ k.answer = None
  BY <1>3, MountedCalls DEF Asked
<1> HIDE DEF tab, more
<1>4. TabIsCurrent(secrets, tab)
  BY <1>2 DEF Unread, TabIsCurrent, ListIsCurrent, ViewIsCurrent
<1>5. ASSUME NEW k \in others
      PROVE  /\ k.tab # t => k \in calls
             /\ k.tab = t => AnswerIsCurrent(secrets, k)
  BY <1>5 DEF Remain, Stays, AnswerIsCurrent, PageReads
<1>6. Paging(t, tab, others, more)
  BY <1>1, <1>3, <1>5 DEF Paging, Unserved
<1>7. QED
  BY <1>4, <1>5, <1>6, PagingStep

LEMMA VisitShows ==
    ASSUME ShownInv, NEW t \in Tabs, Visit(t)
    PROVE  CurrentInv'
<1>1. PICK page \in Pages, x \in Secrets \cup {None} :
          /\ page = "detail" => x \in Secrets
          /\ Goto(t, page, x)
  BY DEF Visit, Pages
<1>2. tabs[t].cache \in Sites \cup {None, "pending"}
  BY TabFields DEF ShownInv, AskedInv, TypeInv, TypeOK
<1>3. Mount(t, page, x, tabs[t].cache, Left(t)) /\ Unserved
  BY <1>1 DEF Goto, Visit
<1>4. Remain(Left(t), t)
  BY LeftRemain DEF ShownInv, AskedInv
<1>5. \A k \in calls : k.tab # t => k \in Left(t)
  BY LeftKeeps DEF ShownInv, AskedInv, TypeInv, TypeOK
<1>6. QED
  BY <1>1, <1>2, <1>3, <1>4, <1>5, MountShows

LEMMA ReloadShows ==
    ASSUME ShownInv, NEW t \in Tabs, ReloadTab(t)
    PROVE  CurrentInv'
<1>1. tabs[t] \in Tab /\ TabFits(tabs[t]) /\ calls \subseteq Call
  BY DEF ShownInv, AskedInv, TypeInv, TypeOK
<1>2. /\ tabs[t].page \in Pages
      /\ tabs[t].page = "detail" => tabs[t].view.id \in Secrets
  BY <1>1, TabFields DEF TabFits
<1>3. /\ Mount(t, tabs[t].page, tabs[t].view.id, None, calls)
      /\ CallsOf(t) = {}
      /\ Unserved
  BY DEF ReloadTab
<1>4. ASSUME NEW k \in calls PROVE Stays(k, t)
  BY <1>1, <1>3, CallFields DEF CallsOf, SameCall, Stays
<1>5. Remain(calls, t)
  BY <1>4 DEF Remain
<1>6. None \in Sites \cup {None, "pending"}
  OBVIOUS
<1>7. QED
  BY <1>2, <1>3, <1>5, <1>6, MountShows

LEMMA UserShows ==
    ASSUME ShownInv, NEW t \in Tabs, UserStep(t)
    PROVE  CurrentInv'
<1>1. CASE FormStep(t)
  BY <1>1, FormSteps, TypesShows DEF ShownInv, AskedInv
<1>2. CASE PanelAction(t)
  BY <1>2, PanelShows
<1>3. CASE \/ \E x \in Secrets : OpenEntry(t, x)
           \/ \E page \in {"new", "backup"} : OpenPage(t, page)
           \/ GoToList(t)
  BY <1>3, Visits, VisitShows DEF ShownInv, AskedInv
<1>4. CASE \E query \in Terms \cup {None} : Search(t, query)
  BY <1>4, SearchShows
<1>5. CASE \E i \in 1..MaxFields : HandleDeleteField(t, i)
  BY <1>5, DeleteFieldShows
<1>6. CASE RetrySite(t) \/ ReloadTab(t)
  BY <1>6, RetryShows, ReloadShows
<1>7. CASE CancelEdit(t) \/ ConfirmSave(t) \/ StartEdit(t) \/ HandleDelete(t)
  BY <1>7, CancelShows, ConfirmShows, StartShows, DeleteShows
<1>8. QED
  BY <1>1, <1>2, <1>3, <1>4, <1>5, <1>6, <1>7
     DEF UserStep, FormStep, PanelAction

-----------------------------------------------------------------------------
(* Steps of the API.                                                       *)

(* An answer that is true when it is given, and that changes no password.  *)
LEMMA ReplyShows ==
    ASSUME ShownInv, NEW k \in calls, NEW answer \in Answer, Replies(k, answer),
           secrets' = secrets, doubt \subseteq doubt',
           Took(k) => k.tab \in doubt',
           \A r : SameCall(r, k) /\ r.answer = answer =>
                      AnswerIsCurrent(secrets, r)
    PROVE  CurrentInv'
<1> DEFINE r == Replied(k, answer)
<1>1. k \in Call
  BY DEF ShownInv, AskedInv, TypeInv, TypeOK
<1>2. SameCall(r, k) /\ r.answer = answer
  BY <1>1, RepliedIs
<1>3. calls' = (calls \ {k}) \cup {r} /\ tabs' = tabs
  BY DEF Replies, Replied
<1> HIDE DEF r
<1>4. AnswerIsCurrent(secrets, r)
  BY <1>2
<1>5. ASSUME NEW u \in Tabs, Aware(u)'
      PROVE  /\ TabIsCurrent(secrets, tabs[u])
             /\ \A j \in calls' : j.tab = u => AnswerIsCurrent(secrets, j)
  <2>1. u \notin doubt
    BY <1>5 DEF Aware
  <2>2. ASSUME NEW j \in calls, j.tab = u PROVE ~Took(j)
    BY <1>3, <1>5, <2>2 DEF Aware
  <2>3. Aware(u)
    BY <2>1, <2>2 DEF Aware
  <2>4. QED
    BY <1>3, <1>4, <2>3 DEF ShownInv, CurrentInv
<1>6. QED
  BY <1>3, <1>5 DEF CurrentInv

(* A write leaves no tab that has heard of every write.                    *)
LEMMA WriteShows ==
    ASSUME ShownInv, NEW k \in calls, k.kind \in Writes \ {"createSite"},
           NEW ids \in SUBSET (Sites \cup Secrets), Written(k, ids)
    PROVE  CurrentInv'
<1> DEFINE r == Replied(k, Success(ids))
<1>1. k \in Call /\ Success(ids) \in Answer
  BY AnswerTypes DEF ShownInv, AskedInv, TypeInv, TypeOK
<1>2. /\ SameCall(r, k)
      /\ r.live = k.live
      /\ r.answer = Success(ids)
      /\ Success(ids) # None
  BY <1>1, RepliedIs
<1>3. r \in calls' /\ doubt' = doubt \cup Unaware(k)
  BY DEF Written, Replies, Replied
<1> HIDE DEF r
<1>4. k.live => Took(r)
  BY <1>2 DEF Took, Succeeded, Success, SameCall
<1>5. ASSUME NEW u \in Tabs PROVE ~Aware(u)'
  <2>1. CASE u = k.tab /\ k.live
    BY <1>2, <1>3, <1>4, <2>1 DEF Aware, SameCall
  <2>2. CASE ~(u = k.tab /\ k.live)
    BY <1>3, <2>2 DEF Aware, Unaware
  <2>3. QED
    BY <2>1, <2>2
<1>6. QED
  BY <1>5 DEF CurrentInv

(* What an answer may say of what is stored, for the call it answers.      *)
LEMMA NothingSaid ==
    ASSUME NEW table, NEW k,
           \/ k.kind \notin PageReads
           \/ k.answer.status \notin {"ok", "notFound"}
    PROVE  AnswerIsCurrent(table, k)
BY DEF AnswerIsCurrent, PageReads

LEMMA RefusedShows ==
    ASSUME ShownInv, NEW k \in calls,
           Lose(k) \/ Fail(k) \/ (RefuseSecret(k) /\ k.answer = None)
    PROVE  CurrentInv'
<1>1. CASE Lose(k) \/ Fail(k)
  <2>1. /\ Refusal("error") \in Answer
        /\ Refusal("error").status = "error"
    BY AnswerTypes DEF Statuses, Refusal
  <2>2. /\ Replies(k, Refusal("error"))
        /\ secrets' = secrets
    BY <1>1 DEF Lose, Fail, Reads, tables
  <2>3. doubt \subseteq doubt' /\ (Took(k) => k.tab \in doubt')
    BY <1>1 DEF Lose, Fail, Reads, Took, Succeeded
  <2>4. ASSUME NEW r, r.answer = Refusal("error")
        PROVE  AnswerIsCurrent(secrets, r)
    BY <2>1, <2>4, NothingSaid
  <2>5. QED
    BY <2>1, <2>2, <2>3, <2>4, ReplyShows
<1>2. CASE RefuseSecret(k) /\ k.answer = None
  <2>1. Refusal("notFound") \in Answer
    BY AnswerTypes DEF Statuses
  <2>2. /\ Replies(k, Refusal("notFound"))
        /\ secrets' = secrets
        /\ doubt' = doubt
        /\ ~Took(k)
    BY <1>2 DEF RefuseSecret, Reads, tables, Took, Succeeded
  <2>3. ASSUME NEW r, SameCall(r, k) PROVE AnswerIsCurrent(secrets, r)
    BY <1>2, <2>3, NothingSaid DEF SameCall, RefuseSecret, PageReads
  <2>4. QED
    BY <2>1, <2>2, <2>3, ReplyShows
<1>3. QED
  BY <1>1, <1>2

(* What is read is what is stored.                                         *)
LEMMA ReadShows ==
    ASSUME ShownInv, NEW k \in calls, k.answer = None, ServeRead(k)
    PROVE  CurrentInv'
<1>1. sites \in SiteTable /\ secrets \in SecretTable
  BY DEF ShownInv, AskedInv, TypeInv, TypeOK
<1>2. Ids(sites) \subseteq Sites /\ Ids(secrets) \subseteq Secrets
  BY <1>1, TableRows
<1>3. ~Took(k)
  BY DEF Took, Succeeded
<1>4. ASSUME NEW answer \in Answer, Reads(k, answer),
             \A r : SameCall(r, k) /\ r.answer = answer =>
                        AnswerIsCurrent(secrets, r)
      PROVE  CurrentInv'
  BY <1>3, <1>4, ReplyShows DEF Reads, tables
<1>5. ASSUME NEW ids \in SUBSET (Sites \cup Secrets)
      PROVE  Success(ids) \in Answer /\ Success(ids).ids = ids
             /\ Success(ids).status = "ok"
  BY AnswerTypes DEF Success
<1>6. CASE k.kind = "listSites" /\ Reads(k, Success(Ids(sites)))
  <2>1. Success(Ids(sites)) \in Answer
    BY <1>2, <1>5
  <2>2. ASSUME NEW r, SameCall(r, k) PROVE AnswerIsCurrent(secrets, r)
    BY <1>6, <2>2, NothingSaid DEF SameCall, PageReads
  <2>3. QED
    BY <1>4, <1>6, <2>1, <2>2
<1>7. CASE k.kind = "listSecrets"
           /\ Reads(k, Success(SecretsOf(secrets, k.site)))
  <2> DEFINE ids == SecretsOf(secrets, k.site)
  <2>1. ids \in SUBSET (Sites \cup Secrets)
    BY <1>2 DEF SecretsOf
  <2>2. Success(ids) \in Answer /\ Success(ids).ids = ids
    BY <1>5, <2>1
  <2>3. ASSUME NEW r, SameCall(r, k), r.answer = Success(ids)
        PROVE  AnswerIsCurrent(secrets, r)
    <3>1. r.kind = "listSecrets" /\ r.site = k.site
      BY <1>7, <2>3 DEF SameCall
    <3>2. QED
      BY <2>2, <2>3, <3>1 DEF AnswerIsCurrent
  <2> HIDE DEF ids
  <2>4. QED
    BY <1>4, <1>7, <2>2, <2>3 DEF ids
<1>8. CASE k.kind = "search"
           /\ Reads(k, Success({x \in Ids(secrets) :
                                    secrets[x].body.title = k.term}))
  <2> DEFINE ids == {x \in Ids(secrets) : secrets[x].body.title = k.term}
  <2>1. ids \in SUBSET (Sites \cup Secrets)
    BY <1>2
  <2>2. Success(ids) \in Answer /\ Success(ids).ids = ids
    BY <1>5, <2>1
  <2>3. ASSUME NEW r, SameCall(r, k), r.answer = Success(ids)
        PROVE  AnswerIsCurrent(secrets, r)
    <3>1. r.kind = "search" /\ r.term = k.term
      BY <1>8, <2>3 DEF SameCall
    <3>2. QED
      BY <2>2, <2>3, <3>1 DEF AnswerIsCurrent
  <2> HIDE DEF ids
  <2>4. QED
    BY <1>4, <1>8, <2>2, <2>3 DEF ids
<1>9. CASE k.kind = "detail"
           /\ Reads(k, IF secrets[k.secret] = None THEN Refusal("notFound")
                       ELSE Found(secrets[k.secret]))
  <2>1. k.secret \in Secrets /\ DOMAIN secrets = Secrets
    BY <1>1, <1>9, TableRows DEF ShownInv, AskedInv, TypeInv, CallFits, Carries
  <2>2. CASE secrets[k.secret] = None
    <3>1. Reads(k, Refusal("notFound")) /\ k.secret \notin Ids(secrets)
      BY <1>9, <2>2 DEF Ids
    <3>2. /\ Refusal("notFound") \in Answer
          /\ Refusal("notFound").status = "notFound"
      BY AnswerTypes DEF Statuses, Refusal
    <3>3. ASSUME NEW r, SameCall(r, k), r.answer = Refusal("notFound")
          PROVE  AnswerIsCurrent(secrets, r)
      <4>1. r.kind = "detail" /\ r.secret = k.secret
        BY <1>9, <3>3 DEF SameCall
      <4>2. QED
        BY <3>1, <3>2, <3>3, <4>1 DEF AnswerIsCurrent
    <3>4. QED
      BY <1>4, <3>1, <3>2, <3>3
  <2>3. CASE secrets[k.secret] # None
    <3> DEFINE row == secrets[k.secret]
    <3>1. Reads(k, Found(row)) /\ k.secret \in Ids(secrets)
      BY <1>9, <2>1, <2>3 DEF Ids
    <3>2. Found(row) \in Answer /\ Found(row).status = "ok"
          /\ Found(row).row = row
      <4>1. row \in SecretRow
        BY <1>1, <3>1, TableRows
      <4>2. QED
        BY <4>1, AnswerTypes DEF Found
    <3>3. ASSUME NEW r, SameCall(r, k), r.answer = Found(row)
          PROVE  AnswerIsCurrent(secrets, r)
      <4>1. r.kind = "detail" /\ r.secret = k.secret
        BY <1>9, <3>3 DEF SameCall
      <4>2. QED
        BY <3>1, <3>2, <3>3, <4>1 DEF AnswerIsCurrent
    <3>4. QED
      BY <1>4, <3>1, <3>2, <3>3
  <2>4. QED
    BY <2>2, <2>3
<1>10. CASE k.kind = "export"
            /\ Reads(k, Backup([sites |-> sites, secrets |-> secrets]))
  <2>1. Backup([sites |-> sites, secrets |-> secrets]) \in Answer
    BY <1>1, AnswerTypes DEF File
  <2>2. ASSUME NEW r, SameCall(r, k) PROVE AnswerIsCurrent(secrets, r)
    BY <1>10, <2>2, NothingSaid DEF SameCall, PageReads
  <2>3. QED
    BY <1>4, <1>10, <2>1, <2>2
<1>11. QED
  BY <1>6, <1>7, <1>8, <1>9, <1>10 DEF ServeRead

LEMMA SiteShows ==
    ASSUME ShownInv, NEW k \in calls, k.answer = None, ServeSite(k)
    PROVE  CurrentInv'
<1>1. /\ k.kind = "createSite"
      /\ secrets' = secrets
      /\ \E s \in Sites \ Ids(sites) : Written(k, {s})
  BY SiteServed DEF ShownInv, AskedInv
<1>2. PICK s \in Sites \ Ids(sites) : Written(k, {s})
  BY <1>1
<1>3. Replies(k, Success({s})) /\ doubt \subseteq doubt'
  BY <1>2 DEF Written
<1>4. Success({s}) \in Answer
  BY AnswerTypes
<1>5. ASSUME NEW r, SameCall(r, k) PROVE AnswerIsCurrent(secrets, r)
  BY <1>1, <1>5, NothingSaid DEF SameCall, PageReads
<1>6. ~Took(k)
  BY DEF Took, Succeeded
<1>7. QED
  BY <1>1, <1>3, <1>4, <1>5, <1>6, ReplyShows

LEMMA ServeShows ==
    ASSUME ShownInv, NEW k \in calls, Serve(k) \/ Fail(k) \/ Lose(k)
    PROVE  CurrentInv'
<1>1. CASE Fail(k) \/ Lose(k)
  BY <1>1, RefusedShows
<1>2. CASE Serve(k)
  <2>1. k.answer = None /\ TypeInv
    BY <1>2 DEF Serve, ShownInv, AskedInv
  <2>2. CASE ServeRead(k) \/ ServeSite(k) \/ RefuseSecret(k)
    BY <2>1, <2>2, ReadShows, SiteShows, RefusedShows
  <2>3. ASSUME NEW ids \in SUBSET (Sites \cup Secrets), Written(k, ids),
               k.kind \in Writes \ {"createSite"}
        PROVE  CurrentInv'
    BY <2>3, WriteShows
  <2>4. CASE ServeSecret(k)
    <3>1. k.secret \in Secrets \/ k.secret = None
      BY <2>1, CallFields DEF TypeInv, TypeOK
    <3>2. ASSUME NEW x \in Secrets, Creates(k, x) PROVE CurrentInv'
      BY <2>3, <3>2 DEF Creates, Writes
    <3>3. ASSUME Saves(k) PROVE CurrentInv'
      BY <2>3, <3>3 DEF Saves, PutSecret, Writes
    <3>4. ASSUME Deletes(k) PROVE CurrentInv'
      BY <2>3, <3>4 DEF Deletes, Writes
    <3>5. QED
      BY <2>1, <2>4, <3>2, <3>3, <3>4, SecretServed
  <2>5. CASE ServeImport(k)
    <3>1. ASSUME Imports(k) PROVE CurrentInv'
      <4>1. Written(k, {}) /\ k.kind = "import"
        BY <3>1 DEF Imports
      <4>2. QED
        BY <2>3, <4>1 DEF Writes
    <3>2. ASSUME k.kind = "import",
                 NEW status \in {"invalid", "conflict"},
                 Reads(k, Refusal(status))
          PROVE  CurrentInv'
      <4>1. Refusal(status) \in Answer
        BY AnswerTypes DEF Statuses
      <4>2. ~Took(k)
        BY <2>1 DEF Took, Succeeded
      <4>3. ASSUME NEW r, SameCall(r, k) PROVE AnswerIsCurrent(secrets, r)
        BY <3>2, <4>3, NothingSaid DEF SameCall, PageReads
      <4>4. /\ Replies(k, Refusal(status))
            /\ secrets' = secrets
            /\ doubt' = doubt
        BY <3>2 DEF Reads, tables
      <4>5. QED
        BY <4>1, <4>2, <4>3, <4>4, ReplyShows
    <3>3. QED
      BY <2>1, <2>5, <3>1, <3>2, ImportServed
  <2>6. QED
    BY <1>2, <2>2, <2>4, <2>5 DEF Serve
<1>3. QED
  BY <1>1, <1>2

-----------------------------------------------------------------------------
(* What the pages do with an answer.                                       *)

(* The page hears of no write of its own, and shows the same.              *)
LEMMA BecomesShows ==
    ASSUME ShownInv, NEW k \in calls, ~Took(k),
           NEW tab, SameSeen(tabs[k.tab], tab),
           NEW started, \A j \in started : j.tab = k.tab /\ j.answer = None,
           Becomes(k, tab, started)
    PROVE  CurrentInv'
<1>1. k.tab \in Tabs
  BY HeardCall DEF ShownInv, AskedInv
<1> DEFINE gone == {k}
<1>2. \A j \in gone : j.tab = k.tab /\ ~Took(j)
  OBVIOUS
<1>3. /\ tabs' = [tabs EXCEPT ![k.tab] = tab]
      /\ calls' = (calls \ gone) \cup started
      /\ secrets' = secrets
      /\ doubt' = doubt
  BY DEF Becomes, Rest, tables
<1> HIDE DEF gone
<1>4. QED
  BY <1>1, <1>2, <1>3, SeenStep

LEMMA BecomesSame ==
    ASSUME ShownInv, NEW k \in calls, ~Took(k),
           NEW tab, SameSeen(tabs[k.tab], tab), Becomes(k, tab, {})
    PROVE  CurrentInv'
<1> DEFINE started == {}
<1>1. /\ \A j \in started : j.tab = k.tab /\ j.answer = None
      /\ Becomes(k, tab, started)
  OBVIOUS
<1> HIDE DEF started
<1>2. QED
  BY <1>1, BecomesShows

(* A tab that is aware after an answer that is no write was so before.     *)
LEMMA AwareBefore ==
    ASSUME ShownInv, NEW k \in calls, ~Took(k), NEW tab, Becomes(k, tab, {}),
           Aware(k.tab)'
    PROVE  /\ TabIsCurrent(secrets, tabs[k.tab])
           /\ \A j \in calls : j.tab = k.tab => AnswerIsCurrent(secrets, j)
<1>1. k.tab \in Tabs
  BY HeardCall DEF ShownInv, AskedInv
<1>2. calls' = calls \ {k} /\ doubt' = doubt
  BY DEF Becomes, Rest
<1>3. Aware(k.tab)
  BY <1>2 DEF Aware
<1>4. QED
  BY <1>1, <1>3 DEF ShownInv, CurrentInv

LEMMA BecomesCurrent ==
    ASSUME ShownInv, NEW k \in calls, ~Took(k), NEW tab, Becomes(k, tab, {}),
           TabIsCurrent(secrets, tabs[k.tab]) /\ AnswerIsCurrent(secrets, k) =>
               TabIsCurrent(secrets, tab)
    PROVE  CurrentInv'
<1> DEFINE more == {}
<1>1. k.tab \in Tabs
  BY HeardCall DEF ShownInv, AskedInv
<1>2. /\ tabs' = [tabs EXCEPT ![k.tab] = tab]
      /\ calls' = Rest(k) \cup more
      /\ secrets' = secrets
      /\ doubt' = doubt
      /\ \A j \in more : j.tab = k.tab /\ j.answer = None
  BY DEF Becomes, tables
<1> HIDE DEF more
<1>3. Paging(k.tab, tab, Rest(k), more)
  BY <1>2 DEF Paging, Rest
<1>4. ASSUME Aware(k.tab)'
      PROVE  /\ TabIsCurrent(secrets, tab)
             /\ \A j \in Rest(k) : j.tab = k.tab => AnswerIsCurrent(secrets, j)
  <2>1. /\ TabIsCurrent(secrets, tabs[k.tab])
        /\ \A j \in calls : j.tab = k.tab => AnswerIsCurrent(secrets, j)
    BY <1>4, AwareBefore
  <2>2. QED
    BY <2>1 DEF Rest
<1>5. QED
  BY <1>1, <1>3, <1>4, PagingStep

LEMMA ResolveShows ==
    ASSUME ShownInv, NEW k \in calls, ~Took(k), NEW site \in Sites,
           Resolve(k, site)
    PROVE  CurrentInv'
<1> DEFINE old == tabs[k.tab]
           new == Resolved(old, site)
           loads == LoadsOf(k.tab, old, site)
<1>1. k.tab \in Tabs /\ old \in Tab /\ TabFits(old)
  BY HeardCall DEF ShownInv, AskedInv
<1>2. Becomes(k, new, loads)
  BY ResolveIs DEF ShownInv, AskedInv
<1>3. \A j \in loads : j.tab = k.tab /\ j.answer = None
  BY <1>1, LoadsAre DEF Asked
<1> HIDE DEF old
<1>4. /\ new.view = old.view
      /\ old.hook = "loading" => /\ old.page = "list" =>
                                        new.list.status = "loading"
                                 /\ old.page # "list" => new.list = old.list
      /\ old.hook # "loading" => new.list = old.list /\ new.hook = old.hook
  BY <1>1, ResolvedTab
<1> HIDE DEF new, loads
<1>5. old.hook = "loading" => new.list.status # "loaded"
  BY <1>1, <1>4, ClientAssumption DEF TabFits
<1>6. SameSeen(old, new)
  BY <1>4, <1>5 DEF SameSeen
<1>7. SameSeen(tabs[k.tab], new)
  BY <1>6 DEF old
<1>8. QED
  BY <1>2, <1>3, <1>7, BecomesShows

LEMMA HearSitesShows ==
    ASSUME ShownInv, NEW k \in calls, k.answer # None,
           HearSites(k) \/ HearCreated(k) \/ SiteFailed(k)
    PROVE  CurrentInv'
<1>1. /\ k.tab \in Tabs /\ tabs[k.tab] \in Tab /\ TabFits(tabs[k.tab])
      /\ SameSeen(tabs[k.tab], tabs[k.tab])
  BY HeardCall DEF ShownInv, AskedInv, SameSeen
<1>2. ~Took(k)
  BY DEF Took, HearSites, HearCreated, SiteFailed, SiteCalls, Writes
<1>3. ASSUME k.kind \in SiteCalls, k.answer.status = "ok"
      PROVE  k.answer.ids \subseteq Ids(sites) /\ Ids(sites) \subseteq Sites
  BY <1>3, HeardCall, TableRows
     DEF ShownInv, AskedInv, TypeInv, TypeOK, Brings, Succeeded
<1>4. CASE HearSites(k) /\ k.answer.ids = {}
  <2> DEFINE started == {New(k.tab, "createSite")}
  <2>1. \A j \in started : j.tab = k.tab /\ j.answer = None
    BY DEF New
  <2>2. Becomes(k, tabs[k.tab], started)
    BY <1>4 DEF HearSites
  <2> HIDE DEF started
  <2>3. QED
    BY <1>1, <1>2, <2>1, <2>2, BecomesShows
<1>5. CASE HearSites(k) /\ k.answer.ids # {}
  <2> DEFINE site == PickDefaultSiteId(k.answer.ids)
  <2>1. k.answer.ids \subseteq Ids(sites) /\ Ids(sites) \subseteq Sites
    BY <1>3, <1>5 DEF HearSites, SiteCalls
  <2>2. site \in Sites
    BY <1>5, <2>1, Oldest DEF ShownInv, AskedInv
  <2>3. Resolve(k, site)
    BY <1>5 DEF HearSites
  <2> HIDE DEF site
  <2>4. QED
    BY <1>2, <2>2, <2>3, ResolveShows
<1>6. CASE HearCreated(k)
  <2>1. k.answer.ids \subseteq Ids(sites) /\ Ids(sites) \subseteq Sites
    BY <1>3, <1>6 DEF HearCreated, SiteCalls
  <2>2. PICK s \in k.answer.ids : Resolve(k, s)
    BY <1>6 DEF HearCreated
  <2>3. QED
    BY <1>2, <2>1, <2>2, ResolveShows
<1>7. CASE SiteFailed(k)
  <2> DEFINE old == tabs[k.tab]
             hook == IF old.hook = "loading" THEN "error" ELSE old.hook
             new == WithSite(old, hook, None)
  <2>1. Becomes(k, new, {}) /\ hook \in Sites \cup {"off", "loading", "error"}
    BY <1>7, SiteFailedTab DEF ShownInv, AskedInv
  <2>2. old.hook \in Sites => hook = old.hook
    BY ClientAssumption
  <2> HIDE DEF hook
  <2>3. /\ new.hook = hook
        /\ new.view = old.view
        /\ new.list = old.list
    BY <1>1, <2>1, SiteSet
  <2> HIDE DEF new
  <2>4. SameSeen(old, new)
    BY <1>1, <2>2, <2>3 DEF SameSeen, TabFits
  <2>5. QED
    BY <1>2, <2>1, <2>4, BecomesSame
<1>8. QED
  BY <1>4, <1>5, <1>6, <1>7

(* A list arrives for the query that the page asks for.                    *)
LEMMA HearListShows ==
    ASSUME ShownInv, NEW k \in calls, k.answer # None, HearList(k)
    PROVE  CurrentInv'
<1> DEFINE old == tabs[k.tab]
           list == Listed(old.list, k.answer)
           new == WithList(old, list)
<1>1. old \in Tab /\ Asks(k, old)
  BY HeardAsks DEF ShownInv
<1>2. /\ Becomes(k, new, {})
      /\ list \in List
      /\ list.query = old.list.query
      /\ list.status = IF k.answer.status = "ok" THEN "loaded" ELSE "error"
      /\ k.answer.status = "ok" => list.items = k.answer.ids
  BY HearListTab DEF ShownInv, AskedInv
<1>3. k.kind \in {"listSecrets", "search"} /\ ~Took(k)
  BY DEF HearList, Took, Writes
<1> HIDE DEF list
<1>4. /\ SamePage(new, old)
      /\ new.view = old.view
      /\ new.list = list
  BY <1>1, <1>2, ListSet
<1> HIDE DEF new
<1>5. ASSUME TabIsCurrent(secrets, old), AnswerIsCurrent(secrets, k)
      PROVE  TabIsCurrent(secrets, new)
  <2>1. ListIsCurrent(secrets, new)
    BY <1>1, <1>2, <1>3, <1>4, <1>5
       DEF ListIsCurrent, AnswerIsCurrent, Asks, SamePage
  <2>2. QED
    BY <1>4, <1>5, <2>1 DEF TabIsCurrent
<1>6. QED
  BY <1>2, <1>3, <1>5, BecomesCurrent

(* So does a password.                                                     *)
LEMMA HearDetailShows ==
    ASSUME ShownInv, NEW k \in calls, k.answer # None, HearDetail(k)
    PROVE  CurrentInv'
<1> DEFINE old == tabs[k.tab]
           view == Detailed(old.view, k.answer)
           new == WithView(old, view)
<1>1. old \in Tab /\ Asks(k, old)
  BY HeardAsks DEF ShownInv
<1>2. /\ Becomes(k, new, {})
      /\ view \in View
      /\ view.id = old.view.id
      /\ view.status = IF k.answer.status = "ok" THEN "loaded"
                       ELSE IF k.answer.status = "notFound" THEN "missing"
                       ELSE "error"
      /\ k.answer.status = "ok" => view.body = k.answer.row.body
  BY HearDetailTab DEF ShownInv, AskedInv
<1>3. k.kind = "detail" /\ ~Took(k)
  BY DEF HearDetail, Took, Writes
<1> HIDE DEF view
<1>4. /\ SamePage(new, old)
      /\ new.view = view
      /\ new.list = old.list
  BY <1>1, <1>2, ViewSet
<1> HIDE DEF new
<1>5. ASSUME TabIsCurrent(secrets, old), AnswerIsCurrent(secrets, k)
      PROVE  TabIsCurrent(secrets, new)
  <2>1. k.secret = view.id
    BY <1>1, <1>2, <1>3 DEF Asks
  <2>2. ViewIsCurrent(secrets, view)
    BY <1>2, <1>3, <1>5, <2>1 DEF ViewIsCurrent, AnswerIsCurrent
  <2>3. ListIsCurrent(secrets, new)
    BY <1>4, <1>5 DEF TabIsCurrent, ListIsCurrent, SamePage
  <2>4. QED
    BY <1>4, <2>2, <2>3 DEF TabIsCurrent
<1>6. QED
  BY <1>2, <1>3, <1>5, BecomesCurrent

(* What the page shows goes, and a call of another tab stays.              *)
LEMMA PushShows ==
    ASSUME ShownInv, NEW k \in calls,
           k.kind \in {"createSecret", "deleteSecret"}, PushToList(k)
    PROVE  CurrentInv'
<1>1. /\ k.tab \in Tabs
      /\ k \in Call
      /\ tabs[k.tab] \in Tab
      /\ AtHome(k, tabs[k.tab])
      /\ calls \subseteq Call
      /\ tabs \in [Tabs -> Tab]
  BY HeardCall DEF ShownInv, AskedInv, TypeInv, TypeOK
<1>2. CASE tabs[k.tab].page = "list"
  <2>1. ~Took(k)
    BY <1>1, <1>2 DEF AtHome, Edits, Took
  <2> DEFINE gone == {k}
  <2>2. /\ tabs' = [tabs EXCEPT ![k.tab] = tabs[k.tab]]
        /\ calls' = calls \ gone
        /\ secrets' = secrets
        /\ doubt' = doubt
        /\ \A j \in gone : j.tab = k.tab /\ ~Took(j)
    BY <1>1, <1>2, <2>1 DEF PushToList, Rest, Unserved
  <2> HIDE DEF gone
  <2>3. SameSeen(tabs[k.tab], tabs[k.tab])
    BY DEF SameSeen
  <2>4. QED
    BY <1>1, <2>2, <2>3, DropStep
<1>3. CASE tabs[k.tab].page # "list"
  <2> DEFINE gone == [k EXCEPT !.live = FALSE]
             others == Left(k.tab) \ {k, gone}
  <2>1. Mount(k.tab, "list", None, tabs[k.tab].cache, others) /\ Unserved
    BY <1>3 DEF PushToList
  <2>2. others \in SUBSET Left(k.tab)
    OBVIOUS
  <2>3. gone.tab = k.tab
    BY <1>1, LeftCall DEF SameCall
  <2> HIDE DEF gone
  <2>4. \A j \in calls : j.tab # k.tab => j \in others
    BY <1>1, <2>3, LeftKeeps
  <2> HIDE DEF others
  <2>5. Remain(others, k.tab)
    BY <1>1, <2>2, LeftRemain DEF ShownInv, AskedInv
  <2>6. tabs[k.tab].cache \in Sites \cup {None, "pending"} /\ "list" \in Pages
    BY <1>1, TabFields DEF Pages
  <2>7. QED
    BY <1>1, <2>1, <2>4, <2>5, <2>6, MountShows
<1>4. QED
  BY <1>2, <1>3

(* A reload shows nothing yet, and no other answer is awaited.             *)
LEMMA ReloadsShows ==
    ASSUME ShownInv, NEW k \in calls, k.live,
           k.kind \in {"saveSecret", "deleteField"},
           NEW view \in View, view.id = tabs[k.tab].view.id, Reloads(k, view)
    PROVE  CurrentInv'
<1> DEFINE old == tabs[k.tab]
           new == WithForm(WithView(old, ReloadView(view)), Closed0)
           call == [New(k.tab, "detail") EXCEPT !.secret = view.id]
           more == {call}
<1>1. k.tab \in Tabs /\ TabFits(old) /\ k.kind \in Edits
  BY HeardCall DEF ShownInv, AskedInv, Edits
<1>2. /\ tabs' = [tabs EXCEPT ![k.tab] = new]
      /\ calls' = Rest(k) \cup {call}
      /\ doubt' = doubt \ {k.tab}
      /\ Unserved
      /\ new.list = old.list
      /\ new.view.status = "loading"
      /\ old.page = "detail"
      /\ Asked(call, k.tab, "detail")
  BY <1>1, ReloadsTab DEF ShownInv, AskedInv
<1> HIDE DEF call, new
<1>3. \A j \in more : j.tab = k.tab /\ j.answer = None
  BY <1>2 DEF Asked
<1>4. calls' = Rest(k) \cup more
  BY <1>2
<1> HIDE DEF more
<1>5. TabIsCurrent(secrets, new)
  BY <1>1, <1>2 DEF TabIsCurrent, ListIsCurrent, ViewIsCurrent, TabFits
<1>6. ASSUME NEW j \in Rest(k), j.tab = k.tab
      PROVE  AnswerIsCurrent(secrets, j)
  <2>1. j \in calls \ {k} /\ AtHome(j, old)
    BY <1>6, HeardCall DEF ShownInv, AskedInv, Rest
  <2>2. j.kind # "detail"
    BY <1>6, <2>1, Alone DEF ShownInv
  <2>3. j.kind \notin PageReads
    BY <1>2, <2>1, <2>2 DEF AtHome, PageReads
  <2>4. QED
    BY <2>3, NothingSaid
<1>7. Paging(k.tab, new, Rest(k), more)
  BY <1>2, <1>3, <1>4 DEF Paging, Rest, Unserved
<1>8. QED
  BY <1>1, <1>5, <1>6, <1>7, PagingStep

LEMMA HearSavedShows ==
    ASSUME ShownInv, NEW k \in calls, HearSaved(k) \/ HearFieldDeleted(k)
    PROVE  CurrentInv'
<1> DEFINE old == tabs[k.tab].view
<1>1. old \in View
  BY HeardCall, TabFields DEF ShownInv, AskedInv
<1>2. CASE HearSaved(k)
  <2> DEFINE view == [old EXCEPT !.mode = "view"]
  <2>1. view \in View /\ view.id = old.id
    BY <1>1, ModeSet DEF SameShown
  <2>2. Reloads(k, view) /\ k.kind = "saveSecret" /\ k.live
    BY <1>2 DEF HearSaved
  <2> HIDE DEF view
  <2>3. QED
    BY <2>1, <2>2, ReloadsShows
<1>3. CASE HearFieldDeleted(k)
  <2>1. Reloads(k, old) /\ k.kind = "deleteField" /\ k.live
    BY <1>3 DEF HearFieldDeleted
  <2>2. QED
    BY <1>1, <2>1, ReloadsShows
<1>4. QED
  BY <1>2, <1>3

LEMMA FailedShows ==
    ASSUME ShownInv, NEW k \in calls,
           SaveFailed(k) \/ DeleteFailed(k) \/ DeleteFieldFailed(k)
    PROVE  CurrentInv'
<1> DEFINE old == tabs[k.tab]
<1>1. old \in Tab
  BY HeardCall DEF ShownInv, AskedInv
<1>2. ~Took(k)
  BY DEF SaveFailed, DeleteFailed, DeleteFieldFailed, Took, Succeeded
<1>3. CASE SaveFailed(k)
  <2> DEFINE form == FailedForm(old.form)
             new == WithForm(old, form)
  <2>1. Becomes(k, new, {}) /\ form \in Form
    BY <1>3, SaveFailedTab DEF ShownInv, AskedInv
  <2> HIDE DEF form
  <2>2. SamePage(new, old) /\ new.view = old.view /\ new.list = old.list
    BY <1>1, <2>1, FormSet
  <2> HIDE DEF new
  <2>3. SameSeen(old, new)
    BY <2>2, SameIsSeen DEF SamePage, SameShown
  <2>4. QED
    BY <1>2, <2>1, <2>3, BecomesSame
<1>4. CASE DeleteFailed(k) \/ DeleteFieldFailed(k)
  <2> DEFINE view == IF DeleteFailed(k)
                     THEN [old.view EXCEPT !.deleting = FALSE]
                     ELSE [old.view EXCEPT !.fieldBusy = FALSE]
             new == WithView(old, view)
  <2>1. /\ Becomes(k, new, {})
        /\ view \in View
        /\ SameShown(view, old.view)
    BY <1>4, DeleteFailedTab DEF ShownInv, AskedInv
  <2> HIDE DEF view
  <2>2. SamePage(new, old) /\ new.view = view /\ new.list = old.list
    BY <1>1, <2>1, ViewSet
  <2> HIDE DEF new
  <2>3. SameSeen(old, new)
    BY <2>1, <2>2, SameIsSeen DEF SamePage
  <2>4. QED
    BY <1>2, <2>1, <2>3, BecomesSame
<1>5. QED
  BY <1>3, <1>4

LEMMA HearExportShows ==
    ASSUME ShownInv, NEW k \in calls, k.answer # None, HearExport(k)
    PROVE  CurrentInv'
<1>1. k.tab \in Tabs
  BY HeardCall DEF ShownInv, AskedInv
<1>2. PICK panel \in Panel :
          tabs' = [tabs EXCEPT ![k.tab] = WithPanel(tabs[k.tab], panel)]
  BY HearExportTab DEF ShownInv, AskedInv
<1>3. SameSeen(tabs[k.tab], WithPanel(tabs[k.tab], panel))
  BY <1>1, PanelSeen
<1> DEFINE gone == {k}
<1>4. /\ \A j \in gone : j.tab = k.tab /\ ~Took(j)
      /\ calls' = calls \ gone
      /\ secrets' = secrets
      /\ doubt' = doubt
  BY DEF HearExport, Took, Writes, Rest, tables
<1> HIDE DEF gone
<1>5. QED
  BY <1>1, <1>2, <1>3, <1>4, DropStep

(* The page of the backup shows no password.                               *)
LEMMA HearImportShows ==
    ASSUME ShownInv, NEW k \in calls, HearImport(k)
    PROVE  CurrentInv'
<1> DEFINE old == tabs[k.tab]
<1>1. /\ k.tab \in Tabs
      /\ old \in Tab
      /\ TabFits(old)
      /\ old.page = "backup"
  BY HeardCall DEF ShownInv, AskedInv, HearImport, AtHome
<1>2. PICK panel \in Panel : Becomes(k, WithPanel(old, panel), {})
  BY HearImportTab DEF ShownInv, AskedInv
<1> DEFINE tab == WithPanel(old, panel)
           more == {}
<1>3. tab.view = old.view /\ tab.list = old.list
  BY <1>1, PanelSet
<1>4. /\ tabs' = [tabs EXCEPT ![k.tab] = tab]
      /\ calls' = Rest(k) \cup more
      /\ secrets' = secrets
      /\ doubt' = doubt
      /\ \A j \in more : j.tab = k.tab /\ j.answer = None
  BY <1>2 DEF Becomes, tables
<1> HIDE DEF tab, more
<1>5. TabIsCurrent(secrets, tab)
  BY <1>1, <1>3 DEF TabIsCurrent, ListIsCurrent, ViewIsCurrent, TabFits
<1>6. ASSUME NEW j \in Rest(k), j.tab = k.tab
      PROVE  AnswerIsCurrent(secrets, j)
  <2>1. AtHome(j, old)
    BY <1>6, HeardCall DEF ShownInv, AskedInv, Rest
  <2>2. QED
    BY <1>1, <2>1, NothingSaid DEF AtHome, PageReads
<1>7. Paging(k.tab, tab, Rest(k), more)
  BY <1>4 DEF Paging, Rest
<1>8. QED
  BY <1>1, <1>5, <1>6, <1>7, PagingStep

LEMMA DeliverShows ==
    ASSUME ShownInv, NEW k \in calls, Deliver(k)
    PROVE  CurrentInv'
<1>1. k.answer # None
  BY DEF Deliver
<1>2. CASE HearSites(k) \/ HearCreated(k) \/ SiteFailed(k)
  BY <1>1, <1>2, HearSitesShows
<1>3. CASE HearList(k) \/ HearDetail(k)
  BY <1>1, <1>3, HearListShows, HearDetailShows
<1>4. CASE HearSecretCreated(k) \/ HearDeleted(k)
  BY <1>4, PushShows DEF HearSecretCreated, HearDeleted
<1>5. CASE HearSaved(k) \/ HearFieldDeleted(k)
  BY <1>5, HearSavedShows
<1>6. CASE SaveFailed(k) \/ DeleteFailed(k) \/ DeleteFieldFailed(k)
  BY <1>6, FailedShows
<1>7. CASE HearExport(k) \/ HearImport(k)
  BY <1>1, <1>7, HearExportShows, HearImportShows
<1>8. CASE Ignore(k)
  <2>1. Becomes(k, tabs[k.tab], {}) /\ ~Took(k)
    BY <1>8 DEF Ignore, Took
  <2>2. SameSeen(tabs[k.tab], tabs[k.tab])
    BY DEF SameSeen
  <2>3. QED
    BY <2>1, <2>2, BecomesSame
<1>9. QED
  BY <1>2, <1>3, <1>4, <1>5, <1>6, <1>7, <1>8 DEF Deliver

-----------------------------------------------------------------------------
LEMMA CurrentStep ==
    ASSUME ShownInv, [Next]_vars
    PROVE  CurrentInv'
<1>1. CASE \E t \in Tabs : Cardinality(calls) < MaxCalls /\ UserStep(t)
  BY <1>1, UserShows
<1>2. CASE \E k \in calls : Serve(k) \/ Fail(k) \/ Lose(k)
  BY <1>2, ServeShows
<1>3. CASE \E k \in calls : Deliver(k)
  BY <1>3, DeliverShows
<1>4. CASE UNCHANGED vars
  BY <1>4 DEF vars, ShownInv, CurrentInv, Aware
<1>5. QED
  BY <1>1, <1>2, <1>3, <1>4 DEF Next

LEMMA InitShows ==
    ASSUME Init
    PROVE  CurrentInv
<1> DEFINE tab == [Blank("list", None) EXCEPT !.cache = "pending"]
<1>1. /\ tabs = [t \in Tabs |-> tab]
      /\ tab.list.status = "idle"
      /\ tab.view.status = "idle"
  BY FirstTab DEF Init
<1> HIDE DEF tab
<1>2. \A t \in Tabs : TabIsCurrent(secrets, tabs[t])
  BY <1>1 DEF TabIsCurrent, ListIsCurrent, ViewIsCurrent
<1>3. ASSUME NEW k \in calls PROVE AnswerIsCurrent(secrets, k)
  <2>1. PICK t \in Tabs : k = New(t, "listSites")
    BY <1>3 DEF Init
  <2>2. k.kind = "listSites"
    BY <2>1 DEF New
  <2>3. QED
    BY <2>2, NothingSaid DEF PageReads
<1>4. QED
  BY <1>2, <1>3 DEF CurrentInv

(* A settled page shows what the database holds, with any number of tabs   *)
(* and calls in flight, whatever was lost or came in another order         *)
(* (EntriesScreen.tsx:36-55, [id]/page.tsx:48-129).                        *)
THEOREM ShownCurrent == Spec => []ShownIsCurrent
<1>1. Init => ShownInv
  BY InitTypes, InitAsks, InitShows DEF ShownInv, AskedInv
<1>2. ShownInv /\ [Next]_vars => ShownInv'
  BY TypeStep, AsksStep, CurrentStep DEF ShownInv, AskedInv
<1>3. ShownInv => ShownIsCurrent
  <2>1. SUFFICES ASSUME ShownInv, NEW t \in Tabs, Settled(t)
                 PROVE  TabIsCurrent(secrets, tabs[t])
    BY DEF ShownIsCurrent, TabIsCurrent, ListIsCurrent, ViewIsCurrent,
           Matching
  <2>2. Aware(t)
    BY <2>1 DEF Settled, CallsOf, Aware
  <2>3. QED
    BY <2>1, <2>2 DEF ShownInv, CurrentInv
<1>4. QED
  BY <1>1, <1>2, <1>3, PTL DEF Spec

-----------------------------------------------------------------------------
(* What was typed into a form.  The proof is for one tab: another one may  *)
(* overwrite or delete the password before its save is heard of.           *)

OneTab == \E t : Tabs = {t}

Saving == {"createSecret", "saveSecret"}

Stored(table, body) == \E x \in Ids(table) : table[x].body = body

(* Call k takes what was typed into the form to the database.              *)
TakesIn(k, form, table) ==
    /\ k.live
    /\ k.kind \in Saving
    /\ k.body = Content(form.draft)
    /\ Succeeded(k) => Stored(table, k.body)

(* The one write in flight.                                                *)
OnlyWrite(k, set) == \A j \in set : j.kind \in Writes \ {"createSite"} => j = k

DraftGoes(form, table, set) ==
    form.submitting =>
        /\ form.step = "review"
        /\ \E k \in set : TakesIn(k, form, table) /\ OnlyWrite(k, set)

DraftInv == \A t \in Tabs : DraftGoes(tabs[t].form, secrets, calls)

FormInv == OneTab /\ AskedInv /\ DraftInv

LEMMA OnlyTab ==
    ASSUME FormInv, NEW t \in Tabs
    PROVE  Tabs = {t} /\ \A k \in calls : k.tab = t
BY CallFields DEF FormInv, OneTab, AskedInv, TypeInv, TypeOK

(* A step that ends the save, or finds none.                               *)
LEMMA EndStep ==
    ASSUME FormInv, NEW t \in Tabs, NEW tab, ~tab.form.submitting,
           tabs' = [tabs EXCEPT ![t] = tab]
    PROVE  DraftInv'
<1>1. Tabs = {t} /\ tabs'[t] = tab
  BY OnlyTab DEF FormInv, AskedInv, TypeInv, TypeOK
<1>2. QED
  BY <1>1 DEF DraftInv, DraftGoes

(* A step that takes no save away and writes no password.                  *)
LEMMA GoOnStep ==
    ASSUME FormInv, NEW t \in Tabs, NEW tab, tab.form = tabs[t].form,
           tabs' = [tabs EXCEPT ![t] = tab],
           secrets' = secrets,
           \A k \in calls : k.live /\ k.kind \in Saving => k \in calls',
           \A k \in calls' : k \in calls
                             \/ k.kind \notin Writes \ {"createSite"}
    PROVE  DraftInv'
<1>1. Tabs = {t} /\ tabs'[t] = tab
  BY OnlyTab DEF FormInv, AskedInv, TypeInv, TypeOK
<1>2. ASSUME tab.form.submitting
      PROVE  /\ tab.form.step = "review"
             /\ \E k \in calls' : TakesIn(k, tab.form, secrets)
                                  /\ OnlyWrite(k, calls')
  <2>1. /\ tab.form.step = "review"
        /\ \E k \in calls : TakesIn(k, tab.form, secrets)
                            /\ OnlyWrite(k, calls)
    BY <1>2 DEF FormInv, DraftInv, DraftGoes
  <2>2. PICK k \in calls : TakesIn(k, tab.form, secrets)
                           /\ OnlyWrite(k, calls)
    BY <2>1
  <2>3. k \in calls'
    BY <2>2 DEF TakesIn
  <2>4. OnlyWrite(k, calls')
    BY <2>2 DEF OnlyWrite
  <2>5. QED
    BY <2>1, <2>2, <2>3, <2>4
<1>3. DraftGoes(tab.form, secrets, calls')
  BY <1>2 DEF DraftGoes
<1>4. QED
  BY <1>1, <1>3 DEF DraftInv

(* Where nothing is being saved.                                           *)
LEMMA NotSubmitting ==
    ASSUME FormInv, NEW t \in Tabs,
           \/ ~Writing(t)
           \/ tabs[t].page \notin {"new", "detail"}
           \/ tabs[t].page = "detail" /\ tabs[t].view.mode = "view"
    PROVE  ~tabs[t].form.submitting
<1>1. SUFFICES ASSUME tabs[t].form.submitting PROVE FALSE
  OBVIOUS
<1>2. PICK k \in calls : k.kind \in Saving
  BY <1>1 DEF FormInv, DraftInv, DraftGoes, TakesIn
<1>3. Writing(t)
  BY <1>2, OnlyTab DEF Writing, CallsOf, Saving, Writes
<1>4. tabs[t].form.step = "review"
  BY <1>1 DEF FormInv, DraftInv, DraftGoes
<1>5. TabFits(tabs[t]) /\ Edited(tabs[t])
  BY DEF FormInv, AskedInv, TypeInv, AsksInv
<1>6. QED
  BY <1>3, <1>4, <1>5 DEF TabFits, FormPage, Edited

(* Steps of a user.                                                        *)

LEMMA TypesKeeps ==
    ASSUME FormInv, NEW t \in Tabs, Types(t)
    PROVE  DraftInv'
<1>1. PICK form \in Form :
          /\ form.submitting = tabs[t].form.submitting
          /\ Shows(t, form)
  BY DEF Types
<1>2. tabs[t] \in Tab /\ ~tabs[t].form.submitting
  BY NotSubmitting DEF FormInv, AskedInv, TypeInv, TypeOK, Types
<1> DEFINE tab == WithForm(tabs[t], form)
<1>3. tabs' = [tabs EXCEPT ![t] = tab]
  BY <1>1 DEF Shows, WithForm
<1>4. tab.form = form
  BY <1>2, FormSet
<1> HIDE DEF tab
<1>5. QED
  BY <1>1, <1>2, <1>3, <1>4, EndStep

LEMMA SearchKeeps ==
    ASSUME FormInv, NEW t \in Tabs, NEW query \in Terms \cup {None},
           Search(t, query)
    PROVE  DraftInv'
<1>1. PICK list \in List : tabs' = [tabs EXCEPT ![t] = WithList(tabs[t], list)]
  BY SearchTab DEF FormInv, AskedInv
<1>2. tabs[t] \in Tab
  BY DEF FormInv, AskedInv, TypeInv, TypeOK
<1> DEFINE tab == WithList(tabs[t], list)
<1>3. tab.form = tabs[t].form
  BY <1>2, ListSet
<1>4. tabs' = [tabs EXCEPT ![t] = tab]
  BY <1>1
<1> HIDE DEF tab
<1>5. tabs[t].page = "list" /\ ~tabs[t].form.submitting
  BY NotSubmitting DEF Search, OnList
<1>6. QED
  BY <1>3, <1>4, <1>5, EndStep

LEMMA EditKeeps ==
    ASSUME FormInv, NEW t \in Tabs, CancelEdit(t) \/ StartEdit(t)
    PROVE  DraftInv'
<1>1. CASE CancelEdit(t)
  <2> DEFINE view == [tabs[t].view EXCEPT !.mode = "view"]
             tab == WithForm(WithView(tabs[t], view), Closed0)
  <2>1. tabs' = [tabs EXCEPT ![t] = tab] /\ tab.form = Closed0
    BY <1>1, CancelTab DEF FormInv, AskedInv
  <2> HIDE DEF tab
  <2>2. ~tab.form.submitting
    BY <2>1 DEF Closed0
  <2>3. QED
    BY <2>1, <2>2, EndStep
<1>2. CASE StartEdit(t)
  <2> DEFINE view == [tabs[t].view EXCEPT !.mode = "edit"]
             form == EditForm(tabs[t].view.body)
             tab == WithForm(WithView(tabs[t], view), form)
  <2>1. /\ tabs' = [tabs EXCEPT ![t] = tab]
        /\ tab.form = form
        /\ form.submitting = FALSE
    BY <1>2, StartTab DEF FormInv, AskedInv
  <2> HIDE DEF tab, form
  <2>2. QED
    BY <2>1, EndStep
<1>3. QED
  BY <1>1, <1>2

(* A save sets out with what the form holds, and alone.                    *)
LEMMA ConfirmKeeps ==
    ASSUME FormInv, NEW t \in Tabs, ConfirmSave(t)
    PROVE  DraftInv'
<1> DEFINE form == [tabs[t].form EXCEPT !.submitting = TRUE]
           tab == WithForm(tabs[t], form)
           save == SaveCall(t)
<1>1. /\ form \in Form
      /\ tabs' = [tabs EXCEPT ![t] = tab]
      /\ calls' = calls \cup {save}
  BY ConfirmTab DEF FormInv, AskedInv
<1>2. /\ tabs[t] \in Tab
      /\ tabs[t].form \in Form
      /\ tabs[t].form.step = "review"
      /\ ~Writing(t)
  BY TabFields DEF FormInv, AskedInv, TypeInv, TypeOK, ConfirmSave
<1>3. /\ Asked(save, t, IF tabs[t].page = "new" THEN "createSecret"
                        ELSE "saveSecret")
      /\ save.body = Content(tabs[t].form.draft)
  BY <1>2, SaveIsCall DEF FormInv, AskedInv
<1>4. form.step = "review" /\ form.draft = tabs[t].form.draft
  BY <1>2, SubmittingSet
<1> HIDE DEF form, save
<1>5. tab.form = form
  BY <1>1, <1>2, FormSet
<1> HIDE DEF tab
<1>6. Tabs = {t} /\ tabs'[t] = tab
  BY <1>1, OnlyTab DEF FormInv, AskedInv, TypeInv, TypeOK
<1>7. TakesIn(save, form, secrets')
  BY <1>3, <1>4 DEF TakesIn, Asked, Succeeded, Saving
<1>8. OnlyWrite(save, calls')
  BY <1>1, <1>2, OnlyTab DEF OnlyWrite, Writing, CallsOf
<1>9. save \in calls'
  BY <1>1
<1>10. DraftGoes(form, secrets', calls')
  BY <1>4, <1>7, <1>8, <1>9 DEF DraftGoes
<1>11. QED
  BY <1>5, <1>6, <1>10 DEF DraftInv

LEMMA DeleteKeeps ==
    ASSUME FormInv, NEW t \in Tabs,
           HandleDelete(t) \/ \E i \in 1..MaxFields : HandleDeleteField(t, i)
    PROVE  DraftInv'
<1>1. /\ tabs[t] \in Tab
      /\ tabs \in [Tabs -> Tab]
      /\ tabs[t].view \in View
  BY TabFields DEF FormInv, AskedInv, TypeInv, TypeOK
<1>2. ~tabs[t].form.submitting
  BY NotSubmitting DEF HandleDelete, HandleDeleteField, Viewing
<1>3. ASSUME NEW view \in View,
             tabs' = [tabs EXCEPT ![t] = WithView(tabs[t], view)]
      PROVE  DraftInv'
  <2>1. WithView(tabs[t], view).form = tabs[t].form
    BY <1>1, ViewSet
  <2>2. QED
    BY <1>2, <1>3, <2>1, EndStep
<1>4. CASE HandleDelete(t)
  <2> DEFINE view == [tabs[t].view EXCEPT !.deleting = TRUE]
  <2>1. tabs' = [tabs EXCEPT ![t] = WithView(tabs[t], view)]
    BY <1>1, <1>4 DEF WithView, HandleDelete
  <2>2. view \in View
    BY <1>1, DeletingSet
  <2> HIDE DEF view
  <2>3. QED
    BY <1>3, <2>1, <2>2
<1>5. CASE \E i \in 1..MaxFields : HandleDeleteField(t, i)
  <2> DEFINE view == [tabs[t].view EXCEPT !.fieldBusy = TRUE]
  <2>1. tabs' = [tabs EXCEPT ![t] = WithView(tabs[t], view)]
    BY <1>1, <1>5 DEF WithView, HandleDeleteField
  <2>2. view \in View
    BY <1>1, FieldBusySet
  <2> HIDE DEF view
  <2>3. QED
    BY <1>3, <2>1, <2>2
<1>6. QED
  BY <1>4, <1>5

LEMMA PanelKeeps ==
    ASSUME FormInv, NEW t \in Tabs, PanelAction(t)
    PROVE  DraftInv'
<1>1. PICK panel \in Panel : \E more : PanelMoves(t, panel, more)
  BY PanelTab DEF FormInv, AskedInv
<1>2. PICK more : PanelMoves(t, panel, more)
  BY <1>1
<1>3. tabs[t] \in Tab /\ ~tabs[t].form.submitting
  BY <1>2, NotSubmitting
     DEF FormInv, AskedInv, TypeInv, TypeOK, PanelMoves
<1>4. WithPanel(tabs[t], panel).form = tabs[t].form
  BY <1>3, PanelSet
<1>5. QED
  BY <1>2, <1>3, <1>4, EndStep DEF PanelMoves

LEMMA RetryKeeps ==
    ASSUME FormInv, NEW t \in Tabs, RetrySite(t)
    PROVE  DraftInv'
<1> DEFINE tab == WithSite(tabs[t], "loading", "pending")
<1>1. tabs[t] \in Tab
  BY DEF FormInv, AskedInv, TypeInv, TypeOK
<1>2. /\ tabs' = [tabs EXCEPT ![t] = tab]
      /\ calls' = calls \cup {New(t, "listSites")}
      /\ secrets' = secrets
  BY RetryTab DEF FormInv, AskedInv
<1>3. tab.form = tabs[t].form
  BY <1>1, SiteSet
<1>4. New(t, "listSites").kind = "listSites"
  BY DEF New
<1> HIDE DEF tab
<1>5. QED
  BY <1>2, <1>3, <1>4, GoOnStep DEF Writes

LEMMA MountKeeps ==
    ASSUME FormInv, NEW t \in Tabs, NEW page \in Pages, NEW x,
           page = "detail" => x \in Secrets,
           NEW cache \in Sites \cup {None, "pending"},
           NEW others, Mount(t, page, x, cache, others)
    PROVE  DraftInv'
<1> DEFINE tab == Mounted(page, x, cache)
<1>1. tabs' = [tabs EXCEPT ![t] = tab]
  BY MountIs
<1>2. ~tab.form.submitting
  BY MountedTab DEF Unread
<1> HIDE DEF tab
<1>3. QED
  BY <1>1, <1>2, EndStep

LEMMA UserKeeps ==
    ASSUME FormInv, NEW t \in Tabs, UserStep(t)
    PROVE  DraftInv'
<1>1. CASE FormStep(t)
  BY <1>1, FormSteps, TypesKeeps DEF FormInv, AskedInv
<1>2. CASE PanelAction(t)
  BY <1>2, PanelKeeps
<1>3. CASE Visit(t)
  <2>1. PICK page \in Pages, x \in Secrets \cup {None} :
            /\ page = "detail" => x \in Secrets
            /\ Goto(t, page, x)
    BY <1>3 DEF Visit, Pages
  <2>2. tabs[t].cache \in Sites \cup {None, "pending"}
    BY TabFields DEF FormInv, AskedInv, TypeInv, TypeOK
  <2>3. QED
    BY <2>1, <2>2, MountKeeps DEF Goto
<1>4. CASE ReloadTab(t)
  <2>1. tabs[t] \in Tab /\ TabFits(tabs[t])
    BY DEF FormInv, AskedInv, TypeInv, TypeOK
  <2>2. /\ tabs[t].page \in Pages
        /\ tabs[t].page = "detail" => tabs[t].view.id \in Secrets
    BY <2>1, TabFields DEF TabFits
  <2>3. None \in Sites \cup {None, "pending"}
    OBVIOUS
  <2>4. QED
    BY <1>4, <2>2, <2>3, MountKeeps DEF ReloadTab
<1>5. CASE \E query \in Terms \cup {None} : Search(t, query)
  BY <1>5, SearchKeeps
<1>6. CASE \/ CancelEdit(t) \/ ConfirmSave(t) \/ StartEdit(t)
           \/ RetrySite(t) \/ HandleDelete(t)
           \/ \E i \in 1..MaxFields : HandleDeleteField(t, i)
  BY <1>6, EditKeeps, ConfirmKeeps, RetryKeeps, DeleteKeeps
<1>7. QED
  BY <1>1, <1>2, <1>3, <1>4, <1>5, <1>6, Visits
     DEF UserStep, FormStep, PanelAction, FormInv, AskedInv

(* An answer of the API is no end of a save; that of the save says that    *)
(* the password is stored.                                                 *)
LEMMA ReplyKeeps ==
    ASSUME FormInv, NEW k \in calls, NEW answer \in Answer, Replies(k, answer),
           k.kind \notin Writes \ {"createSite"} => secrets' = secrets,
           k.kind \in Saving /\ answer.status = "ok" =>
               Stored(secrets', k.body)
    PROVE  DraftInv'
<1> DEFINE r == Replied(k, answer)
<1>1. k \in Call
  BY DEF FormInv, AskedInv, TypeInv, TypeOK
<1>2. SameCall(r, k) /\ r.live = k.live /\ r.answer = answer
  BY <1>1, RepliedIs
<1>3. calls' = (calls \ {k}) \cup {r} /\ tabs' = tabs
  BY DEF Replies, Replied
<1> HIDE DEF r
<1>4. ASSUME NEW t \in Tabs, tabs[t].form.submitting
      PROVE  /\ tabs[t].form.step = "review"
             /\ \E j \in calls' : TakesIn(j, tabs[t].form, secrets')
                                  /\ OnlyWrite(j, calls')
  <2> DEFINE form == tabs[t].form
  <2>1. /\ form.step = "review"
        /\ \E j \in calls : TakesIn(j, form, secrets) /\ OnlyWrite(j, calls)
    BY <1>4 DEF FormInv, DraftInv, DraftGoes
  <2> HIDE DEF form
  <2>2. PICK j \in calls : TakesIn(j, form, secrets) /\ OnlyWrite(j, calls)
    BY <2>1
  <2>3. CASE j = k
    <3>1. TakesIn(r, form, secrets')
      BY <1>2, <2>2, <2>3 DEF TakesIn, Succeeded, SameCall
    <3>2. OnlyWrite(r, calls')
      BY <1>3, <2>2, <2>3 DEF OnlyWrite
    <3>3. QED
      BY <1>3, <2>1, <3>1, <3>2 DEF form
  <2>4. CASE j # k
    <3>1. k.kind \notin Writes \ {"createSite"}
      BY <2>2, <2>4 DEF OnlyWrite
    <3>2. TakesIn(j, form, secrets')
      BY <2>2, <3>1 DEF TakesIn
    <3>3. OnlyWrite(j, calls')
      BY <1>2, <1>3, <2>2, <3>1 DEF OnlyWrite, SameCall
    <3>4. j \in calls'
      BY <1>3, <2>4
    <3>5. QED
      BY <2>1, <3>2, <3>3, <3>4 DEF form
  <2>5. QED
    BY <2>3, <2>4
<1>5. QED
  BY <1>3, <1>4 DEF DraftInv, DraftGoes

LEMMA RefusedKeeps ==
    ASSUME FormInv, NEW k \in calls, NEW status \in Statuses \ {"ok"},
           Replies(k, Refusal(status)), secrets' = secrets
    PROVE  DraftInv'
<1>1. Refusal(status) \in Answer /\ Refusal(status).status # "ok"
  BY AnswerTypes DEF Refusal
<1>2. QED
  BY <1>1, ReplyKeeps

LEMMA ServeKeeps ==
    ASSUME FormInv, NEW k \in calls, Serve(k) \/ Fail(k) \/ Lose(k)
    PROVE  DraftInv'
<1>1. TypeInv
  BY DEF FormInv, AskedInv
<1>2. ASSUME NEW status \in Statuses \ {"ok"}, Reads(k, Refusal(status))
      PROVE  DraftInv'
  BY <1>2, RefusedKeeps DEF Reads, tables
<1>3. CASE Fail(k) \/ Lose(k) \/ RefuseSecret(k)
  <2>1. {"error", "notFound"} \subseteq Statuses \ {"ok"}
    BY DEF Statuses
  <2>2. CASE Lose(k)
    BY <2>1, <2>2, RefusedKeeps DEF Lose, tables
  <2>3. CASE Fail(k) \/ RefuseSecret(k)
    BY <1>2, <2>1, <2>3 DEF Fail, RefuseSecret
  <2>4. QED
    BY <1>3, <2>2, <2>3
<1>4. CASE k.answer = None /\ (ServeRead(k) \/ ServeSite(k))
  <2>1. k.kind \notin Saving /\ secrets' = secrets
    BY <1>4 DEF ServeRead, ServeSite, Saving, Reads, tables
  <2>2. PICK answer \in Answer : Replies(k, answer)
    BY <1>1, <1>4, ServeReplies DEF Serve
  <2>3. QED
    BY <2>1, <2>2, ReplyKeeps
<1>5. ASSUME NEW ids \in SUBSET (Sites \cup Secrets), Written(k, ids),
             k.kind \in Writes \ {"createSite"},
             k.kind \in Saving => Stored(secrets', k.body)
      PROVE  DraftInv'
  <2>1. Success(ids) \in Answer
    BY AnswerTypes
  <2>2. QED
    BY <1>5, <2>1, ReplyKeeps DEF Written
<1>6. ASSUME NEW x, NEW site, PutSecret(x, [site |-> site, body |-> k.body])
      PROVE  Stored(secrets', k.body)
  <2> DEFINE row == [site |-> site, body |-> k.body]
  <2>1. x \in Ids(secrets') /\ secrets'[x] = row
    BY <1>1, <1>6, PutTypes
  <2>2. row.body = k.body
    OBVIOUS
  <2> HIDE DEF row
  <2>3. QED
    BY <2>1, <2>2 DEF Stored
<1>7. CASE ServeSecret(k)
  <2>1. k.secret \in Secrets \/ k.secret = None
    BY <1>1, CallFields DEF TypeInv, TypeOK
  <2>2. ASSUME NEW x \in Secrets, Creates(k, x) PROVE DraftInv'
    BY <1>5, <1>6, <2>2 DEF Creates, Writes
  <2>3. ASSUME Saves(k) PROVE DraftInv'
    <3>1. k.secret \in Secrets /\ Stored(secrets', k.body)
      BY <1>6, <2>3 DEF Saves, PutSecret
    <3>2. QED
      BY <1>5, <2>3, <3>1 DEF Saves, Writes
  <2>4. ASSUME Deletes(k) PROVE DraftInv'
    BY <1>5, <2>4 DEF Deletes, Writes, Saving
  <2>5. QED
    BY <1>1, <1>7, <2>2, <2>3, <2>4, SecretServed
<1>8. CASE ServeImport(k)
  <2>1. ASSUME Imports(k) PROVE DraftInv'
    <3>1. Written(k, {}) /\ k.kind = "import"
      BY <2>1 DEF Imports
    <3>2. QED
      BY <1>5, <3>1 DEF Writes, Saving
  <2>2. QED
    BY <1>1, <1>2, <1>8, <2>1, ImportServed DEF Statuses
<1>9. QED
  BY <1>3, <1>4, <1>7, <1>8 DEF Serve

(* What the pages do with an answer.                                       *)

LEMMA BecomesKeeps ==
    ASSUME FormInv, NEW k \in calls, ~(k.live /\ k.kind \in Saving),
           NEW tab, NEW started,
           \A j \in started : j.kind \notin Writes \ {"createSite"},
           \/ ~tab.form.submitting
           \/ tab.form = tabs[k.tab].form,
           Becomes(k, tab, started)
    PROVE  DraftInv'
<1>1. k.tab \in Tabs
  BY HeardCall DEF FormInv, AskedInv
<1>2. /\ tabs' = [tabs EXCEPT ![k.tab] = tab]
      /\ secrets' = secrets
      /\ calls' = Rest(k) \cup started
  BY DEF Becomes, tables
<1>3. CASE ~tab.form.submitting
  BY <1>1, <1>2, <1>3, EndStep
<1>4. CASE tab.form = tabs[k.tab].form
  <2>1. \A j \in calls : j.live /\ j.kind \in Saving => j \in calls'
    BY <1>2 DEF Rest
  <2>2. \A j \in calls' : j \in calls \/ j.kind \notin Writes \ {"createSite"}
    BY <1>2 DEF Rest
  <2>3. QED
    BY <1>1, <1>2, <1>4, <2>1, <2>2, GoOnStep
<1>5. QED
  BY <1>3, <1>4

LEMMA ResolveKeeps ==
    ASSUME FormInv, NEW k \in calls, k.kind \in SiteCalls,
           NEW site \in Sites, Resolve(k, site)
    PROVE  DraftInv'
<1> DEFINE old == tabs[k.tab]
           new == Resolved(old, site)
           loads == LoadsOf(k.tab, old, site)
<1>1. k.tab \in Tabs /\ old \in Tab
  BY HeardCall DEF FormInv, AskedInv
<1>2. Becomes(k, new, loads)
  BY ResolveIs DEF FormInv, AskedInv
<1>3. \A j \in loads : j.kind \notin Writes
  BY <1>1, LoadsAre DEF Asked, Writes
<1> HIDE DEF old
<1>4. new.form = EmptyForm \/ new.form = old.form
  BY <1>1, ResolvedTab
<1> HIDE DEF new, loads
<1>5. ~new.form.submitting \/ new.form = tabs[k.tab].form
  BY <1>4 DEF EmptyForm, Closed0, old
<1>6. QED
  BY <1>2, <1>3, <1>5, BecomesKeeps DEF SiteCalls, Saving

LEMMA HearSitesKeeps ==
    ASSUME FormInv, NEW k \in calls, k.answer # None,
           HearSites(k) \/ HearCreated(k) \/ SiteFailed(k)
    PROVE  DraftInv'
<1>1. /\ k.tab \in Tabs /\ tabs[k.tab] \in Tab
      /\ k.kind \in SiteCalls
  BY HeardCall
     DEF FormInv, AskedInv, HearSites, HearCreated, SiteFailed, SiteCalls
<1>2. ASSUME k.answer.status = "ok"
      PROVE  k.answer.ids \subseteq Ids(sites) /\ Ids(sites) \subseteq Sites
  BY <1>1, <1>2, HeardCall, TableRows
     DEF FormInv, AskedInv, TypeInv, TypeOK, Brings, Succeeded
<1>3. CASE HearSites(k) /\ k.answer.ids = {}
  <2> DEFINE started == {New(k.tab, "createSite")}
  <2>1. \A j \in started : j.kind \notin Writes \ {"createSite"}
    BY DEF New
  <2>2. Becomes(k, tabs[k.tab], started)
    BY <1>3 DEF HearSites
  <2> HIDE DEF started
  <2>3. QED
    BY <1>1, <2>1, <2>2, BecomesKeeps DEF SiteCalls, Saving
<1>4. CASE HearSites(k) /\ k.answer.ids # {}
  <2> DEFINE site == PickDefaultSiteId(k.answer.ids)
  <2>1. k.answer.ids \subseteq Ids(sites) /\ Ids(sites) \subseteq Sites
    BY <1>2, <1>4 DEF HearSites
  <2>2. site \in Sites
    BY <1>4, <2>1, Oldest DEF FormInv, AskedInv
  <2>3. Resolve(k, site)
    BY <1>4 DEF HearSites
  <2> HIDE DEF site
  <2>4. QED
    BY <1>1, <2>2, <2>3, ResolveKeeps
<1>5. CASE HearCreated(k)
  <2>1. k.answer.ids \subseteq Ids(sites) /\ Ids(sites) \subseteq Sites
    BY <1>2, <1>5 DEF HearCreated
  <2>2. PICK s \in k.answer.ids : Resolve(k, s)
    BY <1>5 DEF HearCreated
  <2>3. QED
    BY <1>1, <2>1, <2>2, ResolveKeeps
<1>6. CASE SiteFailed(k)
  <2> DEFINE old == tabs[k.tab]
             hook == IF old.hook = "loading" THEN "error" ELSE old.hook
             new == WithSite(old, hook, None)
             started == {}
  <2>1. Becomes(k, new, started)
        /\ hook \in Sites \cup {"off", "loading", "error"}
    BY <1>6, SiteFailedTab DEF FormInv, AskedInv
  <2> HIDE DEF hook
  <2>2. new.form = old.form
    BY <1>1, <2>1, SiteSet
  <2>3. \A j \in started : j.kind \notin Writes \ {"createSite"}
    OBVIOUS
  <2> HIDE DEF new, started
  <2>4. QED
    BY <1>1, <2>1, <2>2, <2>3, BecomesKeeps DEF SiteCalls, Saving
<1>7. QED
  BY <1>3, <1>4, <1>5, <1>6

LEMMA BecomesQuiet ==
    ASSUME FormInv, NEW k \in calls, ~(k.live /\ k.kind \in Saving),
           NEW tab, tab.form = tabs[k.tab].form, Becomes(k, tab, {})
    PROVE  DraftInv'
<1> DEFINE started == {}
<1>1. /\ \A j \in started : j.kind \notin Writes \ {"createSite"}
      /\ Becomes(k, tab, started)
  OBVIOUS
<1> HIDE DEF started
<1>2. QED
  BY <1>1, BecomesKeeps

LEMMA HearReadKeeps ==
    ASSUME FormInv, NEW k \in calls, k.answer # None,
           HearList(k) \/ HearDetail(k)
    PROVE  DraftInv'
<1> DEFINE old == tabs[k.tab]
<1>1. old \in Tab
  BY HeardCall DEF FormInv, AskedInv
<1>2. k.kind \notin Saving
  BY DEF HearList, HearDetail, Saving
<1>3. CASE HearList(k)
  <2> DEFINE list == Listed(old.list, k.answer)
             new == WithList(old, list)
  <2>1. Becomes(k, new, {}) /\ list \in List
    BY <1>3, HearListTab DEF FormInv, AskedInv
  <2> HIDE DEF list
  <2>2. new.form = old.form
    BY <1>1, <2>1, ListSet
  <2> HIDE DEF new
  <2>3. QED
    BY <1>2, <2>1, <2>2, BecomesQuiet
<1>4. CASE HearDetail(k)
  <2> DEFINE view == Detailed(old.view, k.answer)
             new == WithView(old, view)
  <2>1. Becomes(k, new, {}) /\ view \in View
    BY <1>4, HearDetailTab DEF FormInv, AskedInv
  <2> HIDE DEF view
  <2>2. new.form = old.form
    BY <1>1, <2>1, ViewSet
  <2> HIDE DEF new
  <2>3. QED
    BY <1>2, <2>1, <2>2, BecomesQuiet
<1>5. QED
  BY <1>3, <1>4

LEMMA PushKeeps ==
    ASSUME FormInv, NEW k \in calls, PushToList(k)
    PROVE  DraftInv'
<1>1. k.tab \in Tabs /\ tabs[k.tab] \in Tab /\ tabs \in [Tabs -> Tab]
  BY HeardCall DEF FormInv, AskedInv
<1>2. CASE tabs[k.tab].page = "list"
  <2>1. ~tabs[k.tab].form.submitting
    BY <1>1, <1>2, NotSubmitting
  <2>2. tabs' = [tabs EXCEPT ![k.tab] = tabs[k.tab]]
    BY <1>1, <1>2 DEF PushToList
  <2>3. QED
    BY <1>1, <2>1, <2>2, EndStep
<1>3. CASE tabs[k.tab].page # "list"
  <2>1. tabs[k.tab].cache \in Sites \cup {None, "pending"} /\ "list" \in Pages
    BY <1>1, TabFields DEF Pages
  <2> DEFINE others == Left(k.tab) \ {k, [k EXCEPT !.live = FALSE]}
  <2>2. Mount(k.tab, "list", None, tabs[k.tab].cache, others)
    BY <1>3 DEF PushToList
  <2> HIDE DEF others
  <2>3. QED
    BY <1>1, <2>1, <2>2, MountKeeps
<1>4. QED
  BY <1>2, <1>3

LEMMA HearWriteKeeps ==
    ASSUME FormInv, NEW k \in calls,
           \/ HearSaved(k) \/ HearFieldDeleted(k)
           \/ SaveFailed(k) \/ DeleteFailed(k) \/ DeleteFieldFailed(k)
    PROVE  DraftInv'
<1> DEFINE old == tabs[k.tab]
<1>1. /\ k.tab \in Tabs
      /\ old \in Tab
      /\ old.view \in View
      /\ tabs \in [Tabs -> Tab]
  BY HeardCall, TabFields DEF FormInv, AskedInv
<1>2. ASSUME NEW view \in View, view.id = old.view.id, Reloads(k, view),
             k.kind \in Edits, k.live
      PROVE  DraftInv'
  <2> DEFINE new == WithForm(WithView(old, ReloadView(view)), Closed0)
  <2>1. tabs' = [tabs EXCEPT ![k.tab] = new] /\ new.form = Closed0
    BY <1>2, ReloadsTab DEF FormInv, AskedInv
  <2> HIDE DEF new
  <2>2. ~new.form.submitting
    BY <2>1 DEF Closed0
  <2>3. QED
    BY <1>1, <2>1, <2>2, EndStep
<1>3. CASE HearSaved(k)
  <2> DEFINE view == [old.view EXCEPT !.mode = "view"]
  <2>1. view \in View /\ view.id = old.view.id
    BY <1>1, ModeSet DEF SameShown
  <2>2. Reloads(k, view) /\ k.kind \in Edits /\ k.live
    BY <1>3 DEF HearSaved, Edits
  <2> HIDE DEF view
  <2>3. QED
    BY <1>2, <2>1, <2>2
<1>4. CASE HearFieldDeleted(k)
  <2>1. Reloads(k, old.view) /\ k.kind \in Edits /\ k.live
    BY <1>4 DEF HearFieldDeleted, Edits
  <2>2. QED
    BY <1>1, <1>2, <2>1
<1>5. CASE SaveFailed(k)
  <2> DEFINE form == FailedForm(old.form)
             new == WithForm(old, form)
  <2>1. Becomes(k, new, {}) /\ form \in Form /\ ~form.submitting
    BY <1>5, SaveFailedTab DEF FormInv, AskedInv
  <2> HIDE DEF form
  <2>2. new.form = form
    BY <1>1, <2>1, FormSet
  <2> HIDE DEF new
  <2>3. QED
    BY <1>1, <2>1, <2>2, EndStep DEF Becomes
<1>6. CASE DeleteFailed(k) \/ DeleteFieldFailed(k)
  <2> DEFINE view == IF DeleteFailed(k)
                     THEN [old.view EXCEPT !.deleting = FALSE]
                     ELSE [old.view EXCEPT !.fieldBusy = FALSE]
             new == WithView(old, view)
  <2>1. Becomes(k, new, {}) /\ view \in View
    BY <1>6, DeleteFailedTab DEF FormInv, AskedInv
  <2> HIDE DEF view
  <2>2. new.form = old.form
    BY <1>1, <2>1, ViewSet
  <2>3. k.kind \notin Saving
    BY <1>6 DEF DeleteFailed, DeleteFieldFailed, Saving
  <2> HIDE DEF new
  <2>4. QED
    BY <2>1, <2>2, <2>3, BecomesQuiet
<1>7. QED
  BY <1>3, <1>4, <1>5, <1>6

LEMMA HearPanelKeeps ==
    ASSUME FormInv, NEW k \in calls, k.answer # None,
           HearExport(k) \/ HearImport(k)
    PROVE  DraftInv'
<1>1. k.tab \in Tabs /\ tabs[k.tab] \in Tab
  BY HeardCall DEF FormInv, AskedInv
<1>2. PICK panel \in Panel :
          tabs' = [tabs EXCEPT ![k.tab] = WithPanel(tabs[k.tab], panel)]
  BY HearExportTab, HearImportTab DEF FormInv, AskedInv, Becomes
<1>3. WithPanel(tabs[k.tab], panel).form = tabs[k.tab].form
  BY <1>1, PanelSet
<1>4. /\ calls' = calls \ {k}
      /\ secrets' = secrets
      /\ k.kind \notin Saving
  BY DEF HearExport, HearImport, Becomes, Rest, tables, Saving
<1>5. \A j \in calls : j.live /\ j.kind \in Saving => j \in calls'
  BY <1>4
<1>6. \A j \in calls' : j \in calls \/ j.kind \notin Writes \ {"createSite"}
  BY <1>4
<1>7. QED
  BY <1>1, <1>2, <1>3, <1>4, <1>5, <1>6, GoOnStep

LEMMA DeliverKeeps ==
    ASSUME FormInv, NEW k \in calls, Deliver(k)
    PROVE  DraftInv'
<1>1. k.answer # None
  BY DEF Deliver
<1>2. CASE HearSites(k) \/ HearCreated(k) \/ SiteFailed(k)
  BY <1>1, <1>2, HearSitesKeeps
<1>3. CASE HearList(k) \/ HearDetail(k)
  BY <1>1, <1>3, HearReadKeeps
<1>4. CASE HearSecretCreated(k) \/ HearDeleted(k)
  BY <1>4, PushKeeps DEF HearSecretCreated, HearDeleted
<1>5. CASE \/ HearSaved(k) \/ HearFieldDeleted(k)
           \/ SaveFailed(k) \/ DeleteFailed(k) \/ DeleteFieldFailed(k)
  BY <1>5, HearWriteKeeps
<1>6. CASE HearExport(k) \/ HearImport(k)
  BY <1>1, <1>6, HearPanelKeeps
<1>7. CASE Ignore(k)
  <2>1. Becomes(k, tabs[k.tab], {}) /\ ~k.live
    BY <1>7 DEF Ignore
  <2>2. QED
    BY <2>1, BecomesQuiet
<1>8. QED
  BY <1>2, <1>3, <1>4, <1>5, <1>6, <1>7 DEF Deliver

LEMMA DraftStep ==
    ASSUME FormInv, [Next]_vars
    PROVE  DraftInv'
<1>1. CASE \E t \in Tabs : Cardinality(calls) < MaxCalls /\ UserStep(t)
  BY <1>1, UserKeeps
<1>2. CASE \E k \in calls : Serve(k) \/ Fail(k) \/ Lose(k)
  BY <1>2, ServeKeeps
<1>3. CASE \E k \in calls : Deliver(k)
  BY <1>3, DeliverKeeps
<1>4. CASE UNCHANGED vars
  BY <1>4 DEF vars, FormInv, DraftInv
<1>5. QED
  BY <1>1, <1>2, <1>3, <1>4 DEF Next

LEMMA InitDraft ==
    ASSUME Init
    PROVE  DraftInv
<1> DEFINE tab == [Blank("list", None) EXCEPT !.cache = "pending"]
<1>1. tabs = [t \in Tabs |-> tab] /\ ~tab.form.submitting
  BY FirstTab DEF Init
<1> HIDE DEF tab
<1>2. QED
  BY <1>1 DEF DraftInv, DraftGoes

(* A user ends no save: one whose page goes goes on.                       *)
Remains(k, set) == \E j \in set : j.tab = k.tab /\ j.kind = k.kind

LEMMA UserLeaves ==
    ASSUME AskedInv, NEW t \in Tabs, UserStep(t), NEW k \in calls,
           k.kind \in Saving
    PROVE  Remains(k, calls')
<1>1. SUFFICES ASSUME k \notin calls' PROVE Remains(k, calls')
  BY DEF Remains
<1>2. k \in Call
  BY DEF AskedInv, TypeInv, TypeOK
<1>3. CASE FormStep(t)
  BY <1>1, <1>3, FormSteps DEF AskedInv, Types, Shows
<1>4. CASE PanelAction(t)
  BY <1>1, <1>4, PanelTab DEF AskedInv, PanelMoves
<1>5. CASE Visit(t)
  <2>1. PICK page \in Pages, x \in Secrets \cup {None} : Goto(t, page, x)
    BY <1>5 DEF Visit, Pages
  <2>2. Left(t) \subseteq calls'
    BY <2>1, MountIs DEF Goto
  <2> DEFINE still == k.live /\ (k.tab # t \/ k.kind \in SiteCalls)
             j == [k EXCEPT !.live = still]
  <2>3. k \in Dropped(t, PageReads)
    BY DEF Dropped, Saving, PageReads
  <2>4. j \in Left(t)
    BY <2>3 DEF Left
  <2>5. still \in BOOLEAN
    BY <1>2, CallFields
  <2> HIDE DEF still
  <2>6. SameCall(j, k)
    BY <1>2, <2>5, LeftCall
  <2> HIDE DEF j
  <2>7. QED
    BY <2>2, <2>4, <2>6 DEF Remains, SameCall
<1>6. CASE ReloadTab(t)
  BY <1>1, <1>6, MountIs DEF ReloadTab
<1>7. CASE \E query \in Terms \cup {None} : Search(t, query)
  BY <1>1, <1>7 DEF Search, Dropped, Saving
<1>8. CASE CancelEdit(t) \/ StartEdit(t)
  BY <1>1, <1>8 DEF CancelEdit, StartEdit
<1>9. CASE ConfirmSave(t) \/ RetrySite(t)
  BY <1>1, <1>9, ConfirmTab, RetryTab DEF AskedInv
<1>10. CASE \/ HandleDelete(t)
            \/ \E i \in 1..MaxFields : HandleDeleteField(t, i)
  BY <1>1, <1>10 DEF HandleDelete, HandleDeleteField
<1>11. QED
  BY <1>3, <1>4, <1>5, <1>6, <1>7, <1>8, <1>9, <1>10, Visits
     DEF UserStep, FormStep, PanelAction, AskedInv

(* An answer to one call ends no other save, but by leaving the page.      *)
LEMMA OthersGoOn ==
    ASSUME TypeInv, NEW k \in calls, Deliver(k), NEW c \in calls \ {k}
    PROVE  \/ c \in calls'
           \/ k.kind \in Writes \ {"createSite"}
<1>1. SUFFICES ASSUME k.kind \notin Writes \ {"createSite"}
               PROVE  c \in calls'
  OBVIOUS
<1>2. ASSUME NEW tab, NEW started, Becomes(k, tab, started)
      PROVE  c \in calls'
  BY <1>2 DEF Becomes, Rest
<1>3. CASE HearSites(k) \/ HearCreated(k)
  BY <1>2, <1>3 DEF HearSites, HearCreated, Resolve
<1>4. CASE SiteFailed(k) \/ HearList(k) \/ HearDetail(k) \/ Ignore(k)
  BY <1>2, <1>4 DEF SiteFailed, HearList, HearDetail, Ignore
<1>5. CASE HearExport(k)
  BY <1>5 DEF HearExport, Rest
<1>6. QED
  BY <1>1, <1>3, <1>4, <1>5
     DEF Deliver, HearSecretCreated, HearSaved, SaveFailed, HearDeleted,
         DeleteFailed, HearFieldDeleted, DeleteFieldFailed, HearImport, Writes

(* A save that its page hears of has stored what it took, or leaves the    *)
(* form as it was.                                                         *)
LEMMA HeardSave ==
    ASSUME FormInv, NEW t \in Tabs, NEW k \in calls, k.tab = t,
           TakesIn(k, tabs[t].form, secrets), Deliver(k)
    PROVE  KeptOrStored(t)
<1> DEFINE form == tabs[t].form
<1>1. tabs \in [Tabs -> Tab] /\ tabs[t] \in Tab
  BY DEF FormInv, AskedInv, TypeInv, TypeOK
<1>2. k.live /\ k.kind \in {"createSecret", "saveSecret"} /\ k.answer # None
  BY DEF TakesIn, Saving, Deliver
<1>3. CASE k.answer.status = "ok"
  <2>1. Stored(secrets, Content(form.draft))
    BY <1>2, <1>3 DEF TakesIn, Succeeded
  <2>2. QED
    BY <2>1 DEF Stored, Content, KeptOrStored
<1>4. CASE k.answer.status # "ok"
  <2>1. SaveFailed(k)
    BY <1>2, <1>4
       DEF Deliver, HearSites, HearCreated, SiteFailed, HearList, HearDetail,
           HearSecretCreated, HearSaved, HearDeleted, DeleteFailed,
           HearFieldDeleted, DeleteFieldFailed, HearExport, HearImport,
           Ignore, SiteCalls
  <2>2. /\ Becomes(k, WithForm(tabs[t], FailedForm(form)), {})
        /\ FailedForm(form) \in Form
    BY <2>1, SaveFailedTab DEF FormInv, AskedInv
  <2>3. WithForm(tabs[t], FailedForm(form)).form = FailedForm(form)
    BY <1>1, <2>2, FormSet
  <2>4. tabs'[t] = WithForm(tabs[t], FailedForm(form))
    BY <1>1, <2>2 DEF Becomes
  <2>5. tabs'[t].form = FailedForm(form)
    BY <2>3, <2>4
  <2>6. QED
    BY <2>5 DEF KeptOrStored, FailedForm
<1>5. QED
  BY <1>3, <1>4

LEMMA EndsWell ==
    ASSUME FormInv, [Next]_vars
    PROVE  SavesEndWell
<1>1. SUFFICES ASSUME NEW t \in Tabs, tabs[t].form.submitting,
                      SavesOf(t)' = {}
               PROVE  KeptOrStored(t)
  BY DEF SavesEndWell
<1>2. PICK c \in calls : TakesIn(c, tabs[t].form, secrets)
                         /\ OnlyWrite(c, calls)
  BY <1>1 DEF FormInv, DraftInv, DraftGoes
<1>3. c.kind \in Saving /\ c.tab = t
  BY <1>2, OnlyTab DEF TakesIn
<1>4. ~Remains(c, calls')
  BY <1>1, <1>3 DEF Remains, SavesOf, CallsOf, Saving
<1>5. c \notin calls'
  BY <1>4 DEF Remains
<1>6. CASE \E u \in Tabs : UserStep(u)
  BY <1>3, <1>4, <1>6, UserLeaves DEF FormInv
<1>7. ASSUME NEW k \in calls, Serve(k) \/ Fail(k) \/ Lose(k) PROVE FALSE
  <2>1. PICK answer \in Answer : Replies(k, answer)
    BY <1>7, ServeReplies DEF FormInv, AskedInv
  <2> DEFINE r == Replied(k, answer)
  <2>2. SameCall(r, k)
    BY RepliedIs DEF FormInv, AskedInv, TypeInv, TypeOK
  <2>3. calls' = (calls \ {k}) \cup {r}
    BY <2>1 DEF Replies, Replied
  <2> HIDE DEF r
  <2>4. QED
    BY <1>4, <1>5, <2>2, <2>3 DEF Remains, SameCall
<1>8. ASSUME NEW k \in calls, Deliver(k) PROVE KeptOrStored(t)
  <2>1. c = k
    BY <1>2, <1>5, <1>8, OthersGoOn DEF FormInv, AskedInv, OnlyWrite
  <2>2. QED
    BY <1>2, <1>3, <1>8, <2>1, HeardSave
<1>9. CASE UNCHANGED vars
  BY <1>5, <1>9 DEF vars
<1>10. QED
  BY <1>6, <1>7, <1>8, <1>9 DEF Next

(* NoDraftLost: with one tab, a save that ends leaves the form with all    *)
(* that was typed into it, or has stored it, whatever is lost or answered  *)
(* late (SecretForm.tsx:146-151).                                          *)
THEOREM DraftsAreKept ==
    ASSUME OneTab
    PROVE  Spec => NoDraftLost
<1>1. Init => FormInv
  BY InitTypes, InitAsks, InitDraft DEF FormInv, AskedInv
<1>2. FormInv /\ [Next]_vars => FormInv'
  <2>1. OneTab => OneTab'
    BY DEF OneTab
  <2>2. QED
    BY <2>1, TypeStep, AsksStep, DraftStep DEF FormInv, AskedInv
<1>3. FormInv /\ [Next]_vars => [SavesEndWell]_vars
  BY EndsWell
<1>4. QED
  BY <1>1, <1>2, <1>3, PTL DEF Spec, NoDraftLost

-----------------------------------------------------------------------------
(* What the list hides.  The proof is for one tab and a database that no   *)
(* older backup is restored into: two tabs may both find no site and       *)
(* create one, and a backup may bring another (the finding of the README). *)

(* The sites of the file are among those of the table.                     *)
Known(table, file) == file \in File /\ Ids(file.sites) \subseteq Ids(table)

TabKnows(table, tab) ==
    /\ tab.hook \in Sites => tab.hook \in Ids(table)
    /\ tab.cache \in Sites => tab.cache \in Ids(table)
    /\ tab.hook = "error" => tab.cache = None
    /\ tab.panel.file # None => Known(table, tab.panel.file)

(* A site is created only where there is none.                             *)
CallKnows(table, k, tab) ==
    /\ k.kind \in SiteCalls => tab.cache = "pending"
    /\ k.kind = "createSite" /\ k.answer = None => Ids(table) = {}
    /\ k.kind = "listSites" /\ Succeeded(k) /\ k.answer.ids = {} =>
           Ids(table) = {}
    /\ k.kind = "createSecret" => k.site \in Ids(table)
    /\ k.kind = "export" /\ Succeeded(k) => Known(table, k.answer.file)
    /\ k.kind = "import" => Known(table, k.file)

(* Two calls for the site are one.                                         *)
OneSiteCall(j, k) == j.kind \in SiteCalls /\ k.kind \in SiteCalls => j = k

SitesInv ==
    /\ Closed(sites, secrets)
    /\ \A s, r \in Ids(sites) : s = r
    /\ exported # None => Known(sites, exported)
    /\ \A t \in Tabs : TabKnows(sites, tabs[t])
    /\ \A k \in calls : CallKnows(sites, k, tabs[k.tab])
    /\ \A j, k \in calls : OneSiteCall(j, k)

OneSiteInv == OneTab /\ Backups = {} /\ TypeInv /\ SitesInv

LEMMA OneTabsCalls ==
    ASSUME OneSiteInv, NEW t \in Tabs
    PROVE  Tabs = {t} /\ \A k \in calls : k.tab = t
BY CallFields DEF OneSiteInv, OneTab, TypeInv, TypeOK

(* A call that is still on its way, perhaps for a page that has gone.      *)
Abides(k) ==
    /\ \E j \in calls : SameCall(k, j) /\ k.answer = j.answer
    /\ k.kind \in SiteCalls => k \in calls

Knowing(t, tab, kept, more) ==
    /\ tabs' = [tabs EXCEPT ![t] = tab]
    /\ sites' = sites
    /\ secrets' = secrets
    /\ exported' # None => Known(sites, exported')
    /\ calls' \subseteq kept \cup more
    /\ \A k \in kept : Abides(k)
    /\ \A k \in kept : k.kind \in SiteCalls => tab.cache = "pending"
    /\ \A k \in more : k.tab = t /\ CallKnows(sites, k, tab)
    /\ \A k \in more : \A j \in kept : OneSiteCall(j, k)
    /\ \A j, k \in more : OneSiteCall(j, k)

LEMMA KnowingStep ==
    ASSUME OneSiteInv, NEW t \in Tabs, NEW tab, TabKnows(sites, tab),
           NEW kept, NEW more, Knowing(t, tab, kept, more)
    PROVE  SitesInv'
<1>1. Tabs = {t} /\ tabs'[t] = tab
  BY OneTabsCalls DEF OneSiteInv, TypeInv, TypeOK, Knowing
<1>2. ASSUME NEW k \in kept PROVE k.tab = t /\ CallKnows(sites, k, tab)
  <2>1. PICK j \in calls : SameCall(k, j) /\ k.answer = j.answer
    BY <1>2 DEF Knowing, Abides
  <2>2. CallKnows(sites, j, tabs[t]) /\ j.tab = t
    BY OneTabsCalls DEF OneSiteInv, SitesInv
  <2>3. k.kind \in SiteCalls => tab.cache = "pending"
    BY <1>2 DEF Knowing
  <2>4. QED
    BY <2>1, <2>2, <2>3 DEF CallKnows, SameCall, Succeeded
<1>3. ASSUME NEW k \in calls'
      PROVE  CallKnows(sites, k, tabs'[k.tab])
  BY <1>1, <1>2, <1>3 DEF Knowing
<1>4. ASSUME NEW j \in calls', NEW k \in calls' PROVE OneSiteCall(j, k)
  <2>1. CASE j \in kept /\ k \in kept
    BY <2>1 DEF Knowing, Abides, OneSiteCall, OneSiteInv, SitesInv
  <2>2. QED
    BY <1>4, <2>1 DEF Knowing, OneSiteCall
<1>5. \A u \in Tabs : TabKnows(sites, tabs'[u])
  BY <1>1
<1>6. /\ Closed(sites, secrets)
      /\ \A s, r \in Ids(sites) : s = r
  BY DEF OneSiteInv, SitesInv
<1>7. sites' = sites /\ secrets' = secrets
      /\ (exported' # None => Known(sites, exported'))
  BY DEF Knowing
<1>8. QED
  BY <1>3, <1>4, <1>5, <1>6, <1>7 DEF SitesInv

(* The tab keeps its site and its file, and asks for no site.              *)
SamePlace(new, old) == SamePage(new, old) /\ new.panel = old.panel

LEMMA PlaceStep ==
    ASSUME OneSiteInv, NEW t \in Tabs, NEW tab, SamePlace(tab, tabs[t]),
           NEW more,
           \A k \in more : /\ k.tab = t
                           /\ k.kind \notin SiteCalls
                           /\ CallKnows(sites, k, tab),
           tabs' = [tabs EXCEPT ![t] = tab],
           calls' \subseteq calls \cup more,
           sites' = sites, secrets' = secrets, exported' = exported
    PROVE  SitesInv'
<1>1. TabKnows(sites, tabs[t])
  BY DEF OneSiteInv, SitesInv
<1>2. TabKnows(sites, tab)
  BY <1>1 DEF TabKnows, SamePlace, SamePage
<1>3. ASSUME NEW k \in calls
      PROVE  /\ Abides(k)
             /\ k.kind \in SiteCalls => tab.cache = "pending"
  <2>1. k.tab = t /\ CallKnows(sites, k, tabs[k.tab])
    BY OneTabsCalls DEF OneSiteInv, SitesInv
  <2>2. QED
    BY <2>1 DEF Abides, SameCall, CallKnows, SamePlace, SamePage
<1>4. exported' # None => Known(sites, exported')
  BY DEF OneSiteInv, SitesInv
<1>5. Knowing(t, tab, calls, more)
  BY <1>3, <1>4 DEF Knowing, OneSiteCall
<1>6. QED
  BY <1>2, <1>5, KnowingStep

(* So it does where it makes one call of a password, or none.              *)
LEMMA PlaceCall ==
    ASSUME OneSiteInv, NEW t \in Tabs, NEW tab, SamePlace(tab, tabs[t]),
           NEW k, NEW kind, Asked(k, t, kind),
           kind \notin SiteCalls \cup {"import"},
           kind = "createSecret" => k.site \in Ids(sites),
           tabs' = [tabs EXCEPT ![t] = tab],
           calls' \subseteq calls \cup {k},
           sites' = sites, secrets' = secrets, exported' = exported
    PROVE  SitesInv'
<1> DEFINE more == {k}
<1>1. ASSUME NEW j \in more
      PROVE  j.tab = t /\ j.kind \notin SiteCalls /\ CallKnows(sites, j, tab)
  BY DEF Asked, CallKnows, Succeeded, SiteCalls
<1>2. calls' \subseteq calls \cup more
  OBVIOUS
<1> HIDE DEF more
<1>3. QED
  BY <1>1, <1>2, PlaceStep

LEMMA PlaceKept ==
    ASSUME OneSiteInv, NEW t \in Tabs, NEW tab, SamePlace(tab, tabs[t]),
           tabs' = [tabs EXCEPT ![t] = tab],
           calls' \subseteq calls,
           sites' = sites, secrets' = secrets, exported' = exported
    PROVE  SitesInv'
<1> DEFINE more == {}
<1>1. /\ \A k \in more : k.tab = t /\ k.kind \notin SiteCalls
                         /\ CallKnows(sites, k, tab)
      /\ calls' \subseteq calls \cup more
  OBVIOUS
<1> HIDE DEF more
<1>2. QED
  BY <1>1, PlaceStep

(* Steps of a user.                                                        *)

LEMMA SameTabs ==
    ASSUME OneSiteInv, NEW t \in Tabs
    PROVE  /\ tabs[t] \in Tab
           /\ \A form \in Form : SamePlace(WithForm(tabs[t], form), tabs[t])
           /\ \A view \in View : SamePlace(WithView(tabs[t], view), tabs[t])
           /\ \A list \in List : SamePlace(WithList(tabs[t], list), tabs[t])
<1>1. tabs[t] \in Tab
  BY DEF OneSiteInv, TypeInv, TypeOK
<1>2. QED
  BY <1>1, FormSet, ViewSet, ListSet DEF SamePlace

LEMMA TypesKnows ==
    ASSUME OneSiteInv, NEW t \in Tabs, Types(t)
    PROVE  SitesInv'
<1>1. PICK form \in Form : Shows(t, form)
  BY DEF Types
<1> DEFINE tab == WithForm(tabs[t], form)
<1>2. tabs' = [tabs EXCEPT ![t] = tab]
      /\ UNCHANGED <<calls, sites, secrets, exported>>
  BY <1>1 DEF Shows, WithForm, tables
<1>3. SamePlace(tab, tabs[t])
  BY SameTabs
<1> HIDE DEF tab
<1>4. QED
  BY <1>2, <1>3, PlaceKept

LEMMA SearchKnows ==
    ASSUME OneSiteInv, NEW t \in Tabs, NEW query \in Terms \cup {None},
           Search(t, query)
    PROVE  SitesInv'
<1>1. PICK list \in List : tabs' = [tabs EXCEPT ![t] = WithList(tabs[t], list)]
  BY SearchTab DEF OneSiteInv
<1> DEFINE tab == WithList(tabs[t], list)
           load == LoadCall(t, tabs[t].hook, query)
           kind == IF query = None THEN "listSecrets" ELSE "search"
<1>2. SamePlace(tab, tabs[t])
  BY SameTabs
<1>3. tabs' = [tabs EXCEPT ![t] = tab]
      /\ UNCHANGED <<sites, secrets, exported>>
  BY <1>1 DEF Search, tables
<1> HIDE DEF tab
<1>4. CASE UNCHANGED calls
  BY <1>2, <1>3, <1>4, PlaceKept
<1>5. CASE /\ tabs[t].hook \in Sites
           /\ calls' = Dropped(t, {"listSecrets", "search"}) \cup {load}
  <2>1. Asked(load, t, kind)
    BY <1>5, LoadIsCall
  <2>2. calls' \subseteq calls \cup {load}
    BY <1>5 DEF Dropped
  <2>3. kind \notin SiteCalls \cup {"import"} /\ kind # "createSecret"
    BY DEF SiteCalls
  <2> HIDE DEF load, kind
  <2>4. QED
    BY <1>2, <1>3, <2>1, <2>2, <2>3, PlaceCall
<1>6. QED
  BY <1>4, <1>5 DEF Search

LEMMA EditKnows ==
    ASSUME OneSiteInv, NEW t \in Tabs, CancelEdit(t) \/ StartEdit(t)
    PROVE  SitesInv'
<1>1. \E tab : SamePlace(tab, tabs[t]) /\ tabs' = [tabs EXCEPT ![t] = tab]
  BY CancelTab, StartTab DEF OneSiteInv, SamePlace
<1>2. UNCHANGED <<calls, sites, secrets, exported>>
  BY DEF CancelEdit, StartEdit, tables
<1>3. QED
  BY <1>1, <1>2, PlaceKept

LEMMA ConfirmKnows ==
    ASSUME OneSiteInv, NEW t \in Tabs, ConfirmSave(t)
    PROVE  SitesInv'
<1> DEFINE form == [tabs[t].form EXCEPT !.submitting = TRUE]
           tab == WithForm(tabs[t], form)
           call == SaveCall(t)
           kind == IF tabs[t].page = "new" THEN "createSecret"
                   ELSE "saveSecret"
<1>1. /\ form \in Form
      /\ tabs' = [tabs EXCEPT ![t] = tab]
      /\ calls' = calls \cup {call}
  BY ConfirmTab DEF OneSiteInv
<1>2. /\ Asked(call, t, kind)
      /\ tabs[t].page = "new" => tabs[t].hook \in Sites
                                 /\ call.site = tabs[t].hook
  BY SaveIsCall DEF OneSiteInv, ConfirmSave
<1>3. kind = "createSecret" => call.site \in Ids(sites)
  BY <1>2 DEF OneSiteInv, SitesInv, TabKnows
<1>4. kind \notin SiteCalls \cup {"import"}
  BY DEF SiteCalls
<1> HIDE DEF form, call, kind
<1>5. SamePlace(tab, tabs[t])
  BY <1>1, SameTabs
<1>6. UNCHANGED <<sites, secrets, exported>>
  BY DEF ConfirmSave, tables
<1> HIDE DEF tab
<1>7. QED
  BY <1>1, <1>2, <1>3, <1>4, <1>5, <1>6, PlaceCall

LEMMA DeleteKnows ==
    ASSUME OneSiteInv, NEW t \in Tabs, HandleDelete(t)
    PROVE  SitesInv'
<1> DEFINE view == [tabs[t].view EXCEPT !.deleting = TRUE]
           tab == WithView(tabs[t], view)
           call == [New(t, "deleteSecret") EXCEPT !.secret = tabs[t].view.id]
<1>1. tabs[t] \in Tab /\ tabs \in [Tabs -> Tab]
  BY DEF OneSiteInv, TypeInv, TypeOK
<1>2. view \in View
  BY <1>1, TabFields, DeletingSet
<1>3. Asked(call, t, "deleteSecret")
  BY <1>1, TabFields, ViewFields, SecretCall DEF Kinds, Writes
<1>4. /\ tabs' = [tabs EXCEPT ![t] = tab]
      /\ calls' = calls \cup {call}
      /\ UNCHANGED <<sites, secrets, exported>>
  BY <1>1 DEF WithView, HandleDelete, tables
<1> HIDE DEF view, call
<1>5. SamePlace(tab, tabs[t])
  BY <1>2, SameTabs
<1> HIDE DEF tab
<1>6. "deleteSecret" \notin SiteCalls \cup {"import"}
  BY DEF SiteCalls
<1>7. QED
  BY <1>3, <1>4, <1>5, <1>6, PlaceCall

LEMMA DeleteFieldKnows ==
    ASSUME OneSiteInv, NEW t \in Tabs, NEW i, HandleDeleteField(t, i)
    PROVE  SitesInv'
<1> DEFINE view == [tabs[t].view EXCEPT !.fieldBusy = TRUE]
           tab == WithView(tabs[t], view)
           call == FieldCallOf(t, i)
<1>1. tabs[t] \in Tab /\ tabs \in [Tabs -> Tab]
  BY DEF OneSiteInv, TypeInv, TypeOK
<1>2. view \in View
  BY <1>1, TabFields, FieldBusySet
<1>3. Asked(call, t, "deleteField")
  BY FieldIsCall DEF OneSiteInv
<1>4. /\ tabs' = [tabs EXCEPT ![t] = tab]
      /\ calls' = calls \cup {call}
      /\ UNCHANGED <<sites, secrets, exported>>
  BY <1>1 DEF WithView, HandleDeleteField, FieldCallOf, tables
<1> HIDE DEF view, call
<1>5. SamePlace(tab, tabs[t])
  BY <1>2, SameTabs
<1> HIDE DEF tab
<1>6. "deleteField" \notin SiteCalls \cup {"import"}
  BY DEF SiteCalls
<1>7. QED
  BY <1>3, <1>4, <1>5, <1>6, PlaceCall

(* A panel's file is one that the user has exported.                       *)
LEMMA PanelKnows ==
    ASSUME OneSiteInv, NEW t \in Tabs, PanelAction(t)
    PROVE  SitesInv'
<1>1. PICK panel \in Panel : \E more : PanelMoves(t, panel, more)
  BY PanelTab DEF OneSiteInv
<1>2. PICK more : PanelMoves(t, panel, more)
  BY <1>1
<1> DEFINE tab == WithPanel(tabs[t], panel)
<1>3. /\ SamePage(tab, tabs[t])
      /\ tab.panel = panel
  BY SameTabs, PanelSet
<1> HIDE DEF tab
<1>4. TabKnows(sites, tabs[t]) /\ (exported # None => Known(sites, exported))
  BY DEF OneSiteInv, SitesInv
<1>5. panel.file \in {tabs[t].panel.file, exported, None}
  BY <1>2 DEF PanelMoves, OneSiteInv
<1>6. TabKnows(sites, tab)
  BY <1>3, <1>4, <1>5 DEF TabKnows, SamePage
<1>7. ASSUME NEW k \in more
      PROVE  k.tab = t /\ k.kind \notin SiteCalls /\ CallKnows(sites, k, tab)
  <2>1. PanelCall(t, k)
    BY <1>2 DEF PanelMoves
  <2>2. k.kind = "import" => Known(sites, k.file)
    <3>1. k.kind = "import" => k.file = tabs[t].panel.file /\ k.file \in File
      BY <2>1 DEF PanelCall, Asked
    <3>2. QED
      BY <1>4, <3>1, StoreAssumption DEF TabKnows
  <2>3. QED
    BY <2>1, <2>2 DEF PanelCall, Asked, CallKnows, Succeeded, SiteCalls
<1>8. ASSUME NEW k \in calls
      PROVE  /\ Abides(k)
             /\ k.kind \in SiteCalls => tab.cache = "pending"
  <2>1. k.tab = t /\ CallKnows(sites, k, tabs[k.tab])
    BY OneTabsCalls DEF OneSiteInv, SitesInv
  <2>2. QED
    BY <1>3, <2>1 DEF Abides, SameCall, CallKnows, SamePage
<1>9. /\ tabs' = [tabs EXCEPT ![t] = tab]
      /\ calls' = calls \cup more
      /\ UNCHANGED <<sites, secrets, exported>>
  BY <1>2 DEF PanelMoves, tables, tab
<1>10. Knowing(t, tab, calls, more)
  BY <1>4, <1>7, <1>8, <1>9 DEF Knowing, OneSiteCall
<1>11. QED
  BY <1>6, <1>10, KnowingStep

(* The site is asked for again where it is not being asked for.            *)
LEMMA RetryKnows ==
    ASSUME OneSiteInv, NEW t \in Tabs, RetrySite(t)
    PROVE  SitesInv'
<1> DEFINE tab == WithSite(tabs[t], "loading", "pending")
           more == {New(t, "listSites")}
<1>1. /\ tabs' = [tabs EXCEPT ![t] = tab]
      /\ tabs[t].hook = "error"
      /\ calls' = calls \cup more
      /\ UNCHANGED <<sites, secrets, exported>>
  BY RetryTab DEF OneSiteInv
<1>2. /\ tab.hook = "loading"
      /\ tab.cache = "pending"
      /\ tab.panel = tabs[t].panel
  BY SameTabs, SiteSet
<1>3. Asked(New(t, "listSites"), t, "listSites")
  BY NewCall DEF Kinds
<1>4. TabKnows(sites, tabs[t]) /\ (exported # None => Known(sites, exported))
  BY DEF OneSiteInv, SitesInv
<1> HIDE DEF tab
<1>5. TabKnows(sites, tab)
  BY <1>2, <1>4, ClientAssumption DEF TabKnows
<1>6. ASSUME NEW k \in more
      PROVE  k.tab = t /\ CallKnows(sites, k, tab)
  BY <1>2, <1>3 DEF Asked, CallKnows, Succeeded
<1>7. ASSUME NEW k \in calls PROVE Abides(k) /\ k.kind \notin SiteCalls
  <2>1. k.tab = t /\ CallKnows(sites, k, tabs[k.tab])
    BY OneTabsCalls DEF OneSiteInv, SitesInv
  <2>2. tabs[t].cache # "pending"
    BY <1>1, <1>4, ClientAssumption DEF TabKnows
  <2>3. QED
    BY <2>1, <2>2 DEF Abides, SameCall, CallKnows
<1>8. \A j, k \in more : j = k
  OBVIOUS
<1> HIDE DEF more
<1>9. Knowing(t, tab, calls, more)
  BY <1>1, <1>4, <1>6, <1>7, <1>8 DEF Knowing, OneSiteCall
<1>10. QED
  BY <1>5, <1>9, KnowingStep

LEMMA MountKnows ==
    ASSUME OneSiteInv, NEW t \in Tabs, NEW page \in Pages, NEW x,
           page = "detail" => x \in Secrets,
           NEW cache \in Sites \cup {None, "pending"},
           cache \in Sites => cache \in Ids(sites),
           NEW others,
           \A k \in others : /\ Abides(k)
                             /\ k.kind \in SiteCalls => cache = "pending",
           Mount(t, page, x, cache, others), Unserved
    PROVE  SitesInv'
<1> DEFINE tab == Mounted(page, x, cache)
           more == MountCalls(t, page, x, cache)
<1>1. /\ tabs' = [tabs EXCEPT ![t] = tab]
      /\ calls' = others \cup more
      /\ UNCHANGED <<sites, secrets, exported>>
  BY MountIs DEF Unserved
<1>2. Unread(tab, page, x, cache)
  BY MountedTab
<1>3. ASSUME NEW k \in more
      PROVE  \/ Asked(k, t, "listSites") /\ UsesSite(page) /\ cache = None
             \/ Asked(k, t, "listSecrets")
             \/ Asked(k, t, "detail")
  BY <1>3, MountedCalls
<1>4. ASSUME UsesSite(page), cache = None, NEW j \in more, NEW k \in more
      PROVE  j = k
  BY <1>4 DEF MountCalls
<1> HIDE DEF tab, more
<1>5. TabKnows(sites, tab)
  BY <1>2, ClientAssumption DEF Unread, TabKnows, NoPanel
<1>6. cache \in {None, "pending"} /\ UsesSite(page) => tab.cache = "pending"
  BY <1>2, StoreAssumption, ClientAssumption DEF Unread
<1>7. ASSUME NEW k \in more
      PROVE  k.tab = t /\ CallKnows(sites, k, tab)
  BY <1>3, <1>6, <1>7 DEF Asked, CallKnows, Succeeded, SiteCalls
<1>8. cache = "pending" => tab.cache = "pending"
  BY <1>2, <1>6 DEF Unread
<1>9. ASSUME NEW k \in more, k.kind \in SiteCalls
      PROVE  UsesSite(page) /\ cache = None
  BY <1>3, <1>9 DEF Asked, SiteCalls
<1>10. ASSUME NEW j \in more, NEW k \in more PROVE OneSiteCall(j, k)
  BY <1>4, <1>9, <1>10 DEF OneSiteCall
<1>11. ASSUME NEW k \in more, NEW j \in others PROVE OneSiteCall(j, k)
  BY <1>9, <1>11, ClientAssumption DEF OneSiteCall
<1>12. exported' # None => Known(sites, exported')
  BY <1>1 DEF OneSiteInv, SitesInv
<1>13. Knowing(t, tab, others, more)
  BY <1>1, <1>7, <1>8, <1>10, <1>11, <1>12 DEF Knowing
<1>14. QED
  BY <1>5, <1>13, KnowingStep

(* A page that goes leaves the call for the site as it is.                 *)
LEMMA LeftAbides ==
    ASSUME OneSiteInv, NEW t \in Tabs, NEW k \in Left(t)
    PROVE  /\ Abides(k)
           /\ k.kind \in SiteCalls => tabs[t].cache = "pending"
<1>1. calls \subseteq Call
  BY DEF OneSiteInv, TypeInv, TypeOK
<1>2. PICK j \in calls : k = [j EXCEPT !.live =
                                 @ /\ (j.tab # t \/ j.kind \in SiteCalls)]
  BY DEF Left, Dropped
<1> DEFINE still == j.live /\ (j.tab # t \/ j.kind \in SiteCalls)
<1>3. j \in Call /\ j.live \in BOOLEAN /\ still \in BOOLEAN
  BY <1>1, CallFields
<1>4. k = [j EXCEPT !.live = still]
  BY <1>2
<1>5. j.kind \in SiteCalls => still = j.live
  BY <1>3
<1> HIDE DEF still
<1>6. SameCall(k, j) /\ k.answer = j.answer
  BY <1>3, <1>4, LeftCall
<1>7. k.kind \in SiteCalls => k = j
  BY <1>3, <1>4, <1>5, <1>6 DEF Call, SameCall
<1>8. CallKnows(sites, j, tabs[t])
  BY OneTabsCalls DEF OneSiteInv, SitesInv
<1>9. QED
  BY <1>6, <1>7, <1>8 DEF Abides, CallKnows

LEMMA GotoKnows ==
    ASSUME OneSiteInv, NEW t \in Tabs, NEW page \in Pages, NEW x,
           page = "detail" => x \in Secrets,
           NEW others \in SUBSET Left(t),
           Mount(t, page, x, tabs[t].cache, others), Unserved
    PROVE  SitesInv'
<1> DEFINE cache == tabs[t].cache
<1>1. cache \in Sites \cup {None, "pending"}
  BY TabFields DEF OneSiteInv, TypeInv, TypeOK
<1>2. cache \in Sites => cache \in Ids(sites)
  BY DEF OneSiteInv, SitesInv, TabKnows
<1>3. \A k \in others : /\ Abides(k)
                        /\ k.kind \in SiteCalls => cache = "pending"
  BY LeftAbides
<1> HIDE DEF cache
<1>4. QED
  BY <1>1, <1>2, <1>3, MountKnows DEF cache

LEMMA VisitKnows ==
    ASSUME OneSiteInv, NEW t \in Tabs, Visit(t)
    PROVE  SitesInv'
<1>1. PICK page \in Pages, x \in Secrets \cup {None} :
          /\ page = "detail" => x \in Secrets
          /\ Goto(t, page, x)
  BY DEF Visit, Pages
<1>2. Mount(t, page, x, tabs[t].cache, Left(t)) /\ Unserved
  BY <1>1 DEF Goto, Visit
<1>3. QED
  BY <1>1, <1>2, GotoKnows

LEMMA ReloadKnows ==
    ASSUME OneSiteInv, NEW t \in Tabs, ReloadTab(t)
    PROVE  SitesInv'
<1>1. tabs[t] \in Tab /\ TabFits(tabs[t])
  BY DEF OneSiteInv, TypeInv, TypeOK
<1>2. /\ tabs[t].page \in Pages
      /\ tabs[t].page = "detail" => tabs[t].view.id \in Secrets
  BY <1>1, TabFields DEF TabFits
<1>3. /\ Mount(t, tabs[t].page, tabs[t].view.id, None, calls)
      /\ CallsOf(t) = {}
      /\ Unserved
  BY DEF ReloadTab
<1>4. \A k \in calls : FALSE
  BY <1>3, OneTabsCalls DEF CallsOf
<1>5. None \in Sites \cup {None, "pending"} /\ None \notin Sites
  BY StoreAssumption
<1>6. QED
  BY <1>2, <1>3, <1>4, <1>5, MountKnows

LEMMA UserKnows ==
    ASSUME OneSiteInv, NEW t \in Tabs, UserStep(t)
    PROVE  SitesInv'
<1>1. CASE FormStep(t)
  BY <1>1, FormSteps, TypesKnows DEF OneSiteInv
<1>2. CASE PanelAction(t)
  BY <1>2, PanelKnows
<1>3. CASE \/ \E x \in Secrets : OpenEntry(t, x)
           \/ \E page \in {"new", "backup"} : OpenPage(t, page)
           \/ GoToList(t)
  BY <1>3, Visits, VisitKnows DEF OneSiteInv
<1>4. CASE \E query \in Terms \cup {None} : Search(t, query)
  BY <1>4, SearchKnows
<1>5. CASE \E i \in 1..MaxFields : HandleDeleteField(t, i)
  BY <1>5, DeleteFieldKnows
<1>6. CASE RetrySite(t) \/ ReloadTab(t)
  BY <1>6, RetryKnows, ReloadKnows
<1>7. CASE CancelEdit(t) \/ ConfirmSave(t) \/ StartEdit(t) \/ HandleDelete(t)
  BY <1>7, EditKnows, ConfirmKnows, DeleteKnows
<1>8. QED
  BY <1>1, <1>2, <1>3, <1>4, <1>5, <1>6, <1>7
     DEF UserStep, FormStep, PanelAction

-----------------------------------------------------------------------------
(* Steps of the API.                                                       *)

(* What the tables and an answer to k must be.                             *)
Fitting(k, answer) ==
    /\ Closed(sites', secrets')
    /\ \A s, r \in Ids(sites') : s = r
    /\ Ids(sites) \subseteq Ids(sites')
    /\ k.kind # "createSite" => Ids(sites') = Ids(sites)
    /\ answer.status = "ok" =>
           /\ k.kind = "listSites" /\ answer.ids = {} => Ids(sites') = {}
           /\ k.kind = "export" => Known(sites', answer.file)

LEMMA ReplyKnows ==
    ASSUME OneSiteInv, NEW k \in calls, NEW answer \in Answer,
           Replies(k, answer), Fitting(k, answer)
    PROVE  SitesInv'
<1> DEFINE r == Replied(k, answer)
<1>1. k \in Call
  BY DEF OneSiteInv, TypeInv, TypeOK
<1>2. SameCall(r, k) /\ r.answer = answer /\ answer # None
  BY <1>1, RepliedIs
<1>3. calls' = (calls \ {k}) \cup {r} /\ tabs' = tabs /\ exported' = exported
  BY DEF Replies, Replied
<1> HIDE DEF r
<1>4. \A file : Known(sites, file) => Known(sites', file)
  BY DEF Fitting, Known
<1>5. ASSUME NEW t \in Tabs PROVE TabKnows(sites', tabs[t])
  <2>1. TabKnows(sites, tabs[t])
    BY DEF OneSiteInv, SitesInv
  <2>2. QED
    BY <1>4, <2>1 DEF Fitting, TabKnows
<1>6. ASSUME NEW j \in calls PROVE CallKnows(sites, j, tabs[j.tab])
  BY DEF OneSiteInv, SitesInv
<1>7. ASSUME NEW j \in calls \ {k} PROVE CallKnows(sites', j, tabs[j.tab])
  <2>1. j.kind \in SiteCalls => k.kind \notin SiteCalls
    BY DEF OneSiteInv, SitesInv, OneSiteCall
  <2>2. j.kind \in SiteCalls => Ids(sites') = Ids(sites)
    BY <2>1 DEF Fitting, SiteCalls
  <2>3. QED
    BY <1>4, <1>6, <2>2 DEF CallKnows, Fitting, SiteCalls
<1>8. CallKnows(sites', r, tabs[r.tab])
  <2>1. CallKnows(sites, k, tabs[k.tab])
    BY <1>6
  <2>2. /\ r.kind = "import" => Known(sites', r.file)
        /\ r.kind = "createSecret" => r.site \in Ids(sites')
        /\ r.kind \in SiteCalls => tabs[r.tab].cache = "pending"
    BY <1>2, <1>4, <2>1 DEF CallKnows, SameCall, Fitting
  <2>3. QED
    BY <1>2, <2>2 DEF CallKnows, SameCall, Fitting, Succeeded
<1>9. ASSUME NEW j \in calls \ {k} PROVE OneSiteCall(j, r) /\ OneSiteCall(r, j)
  BY <1>2 DEF OneSiteInv, SitesInv, OneSiteCall, SameCall
<1>10. \A i, j \in calls' : OneSiteCall(i, j)
  BY <1>3, <1>9 DEF OneSiteInv, SitesInv, OneSiteCall
<1>11. \A j \in calls' : CallKnows(sites', j, tabs'[j.tab])
  BY <1>3, <1>7, <1>8
<1>12. exported' # None => Known(sites', exported')
  BY <1>3, <1>4 DEF OneSiteInv, SitesInv
<1>13. QED
  BY <1>3, <1>5, <1>10, <1>11, <1>12 DEF SitesInv, Fitting

(* Nothing is written.                                                     *)
LEMMA UnwrittenKnows ==
    ASSUME OneSiteInv, NEW k \in calls, NEW answer \in Answer,
           Replies(k, answer), UNCHANGED tables,
           answer.status = "ok" =>
               /\ k.kind = "listSites" /\ answer.ids = {} => Ids(sites) = {}
               /\ k.kind = "export" => Known(sites, answer.file)
    PROVE  SitesInv'
<1>1. sites' = sites /\ secrets' = secrets
  BY DEF tables
<1>2. Closed(sites, secrets) /\ \A s, r \in Ids(sites) : s = r
  BY DEF OneSiteInv, SitesInv
<1>3. Fitting(k, answer)
  BY <1>1, <1>2 DEF Fitting
<1>4. QED
  BY <1>3, ReplyKnows

LEMMA RefusalKnows ==
    ASSUME OneSiteInv, NEW k \in calls,
           NEW status \in Statuses \ {"ok"},
           Replies(k, Refusal(status)), UNCHANGED tables
    PROVE  SitesInv'
<1>1. Refusal(status) \in Answer /\ Refusal(status).status # "ok"
  BY AnswerTypes DEF Refusal
<1>2. QED
  BY <1>1, UnwrittenKnows

LEMMA ReadKnows ==
    ASSUME OneSiteInv, NEW k \in calls, ServeRead(k)
    PROVE  SitesInv'
<1>1. sites \in SiteTable /\ secrets \in SecretTable
  BY DEF OneSiteInv, TypeInv, TypeOK
<1>2. Ids(sites) \subseteq Sites /\ Ids(secrets) \subseteq Secrets
  BY <1>1, TableRows
<1>3. ASSUME NEW answer \in Answer, Reads(k, answer),
             k.kind = "listSites" /\ answer.ids = {} => Ids(sites) = {},
             k.kind = "export" => Known(sites, answer.file)
      PROVE  SitesInv'
  BY <1>3, UnwrittenKnows DEF Reads
<1>4. ASSUME NEW ids \in SUBSET (Sites \cup Secrets), Reads(k, Success(ids)),
             k.kind = "listSites" => ids = Ids(sites),
             k.kind # "export"
      PROVE  SitesInv'
  <2>1. Success(ids) \in Answer /\ Success(ids).ids = ids
    BY AnswerTypes DEF Success
  <2>2. QED
    BY <1>3, <1>4, <2>1
<1>5. CASE k.kind = "listSites" /\ Reads(k, Success(Ids(sites)))
  <2>1. Ids(sites) \in SUBSET (Sites \cup Secrets)
    BY <1>2
  <2>2. QED
    BY <1>4, <1>5, <2>1
<1>6. CASE k.kind = "listSecrets"
           /\ Reads(k, Success(SecretsOf(secrets, k.site)))
  <2>1. SecretsOf(secrets, k.site) \in SUBSET (Sites \cup Secrets)
    BY <1>2 DEF SecretsOf
  <2>2. QED
    BY <1>4, <1>6, <2>1
<1>7. CASE k.kind = "search"
           /\ Reads(k, Success({x \in Ids(secrets) :
                                    secrets[x].body.title = k.term}))
  <2>1. {x \in Ids(secrets) : secrets[x].body.title = k.term}
            \in SUBSET (Sites \cup Secrets)
    BY <1>2
  <2>2. QED
    BY <1>4, <1>7, <2>1
<1>8. CASE k.kind = "detail"
           /\ Reads(k, IF secrets[k.secret] = None THEN Refusal("notFound")
                       ELSE Found(secrets[k.secret]))
  <2>1. k.secret \in Secrets /\ DOMAIN secrets = Secrets
    BY <1>1, <1>8, TableRows DEF OneSiteInv, TypeInv, CallFits, Carries
  <2>2. secrets[k.secret] # None => secrets[k.secret] \in SecretRow
    BY <1>1, <2>1, TableRows DEF Ids
  <2>3. ASSUME NEW answer \in Answer, Reads(k, answer) PROVE SitesInv'
    BY <1>3, <1>8, <2>3
  <2>4. QED
    BY <1>8, <2>2, <2>3, AnswerTypes DEF Statuses
<1>9. CASE k.kind = "export"
           /\ Reads(k, Backup([sites |-> sites, secrets |-> secrets]))
  <2> DEFINE file == [sites |-> sites, secrets |-> secrets]
  <2>1. Known(sites, file)
    BY <1>1 DEF File, Known
  <2> HIDE DEF file
  <2>2. Backup(file) \in Answer /\ Backup(file).file = file
    BY <2>1, AnswerTypes DEF Backup, Known
  <2>3. QED
    BY <1>3, <1>9, <2>1, <2>2 DEF file
<1>10. QED
  BY <1>5, <1>6, <1>7, <1>8, <1>9 DEF ServeRead

(* The first site is the only one.                                         *)
LEMMA SiteKnows ==
    ASSUME OneSiteInv, NEW k \in calls, k.answer = None, ServeSite(k)
    PROVE  SitesInv'
<1>1. k.kind = "createSite" /\ secrets' = secrets
  BY SiteServed DEF OneSiteInv
<1>2. PICK s \in Sites \ Ids(sites) :
          Written(k, {s}) /\ Ids(sites') = Ids(sites) \cup {s}
  BY SiteServed DEF OneSiteInv
<1>3. Ids(sites) = {} /\ Closed(sites, secrets)
  BY <1>1 DEF OneSiteInv, SitesInv, CallKnows
<1>4. Ids(sites') = {s}
  BY <1>2, <1>3
<1>5. Success({s}) \in Answer
  BY AnswerTypes
<1>6. Closed(sites', secrets')
  BY <1>1, <1>3, <1>4 DEF Closed
<1>7. Fitting(k, Success({s}))
  BY <1>1, <1>3, <1>4, <1>6 DEF Fitting
<1>8. QED
  BY <1>2, <1>5, <1>7, ReplyKnows DEF Written

(* A write of passwords leaves the sites alone.                            *)
LEMMA WriteKnows ==
    ASSUME OneSiteInv, NEW k \in calls,
           k.kind \notin {"createSite", "listSites", "export"},
           NEW ids \in SUBSET (Sites \cup Secrets), Written(k, ids),
           Ids(sites') = Ids(sites), Closed(sites', secrets')
    PROVE  SitesInv'
<1>1. \A s, r \in Ids(sites) : s = r
  BY DEF OneSiteInv, SitesInv
<1>2. Fitting(k, Success(ids))
  BY <1>1 DEF Fitting
<1>3. QED
  BY <1>2, AnswerTypes, ReplyKnows DEF Written

LEMMA SecretKnows ==
    ASSUME OneSiteInv, NEW k \in calls, ServeSecret(k)
    PROVE  SitesInv'
<1>1. /\ sites' = sites
      /\ (\E x \in Secrets : Creates(k, x)) \/ Saves(k) \/ Deletes(k)
  BY SecretServed DEF OneSiteInv
<1>2. /\ \A x \in Ids(secrets) : secrets[x].site \in Ids(sites)
      /\ CallKnows(sites, k, tabs[k.tab])
  BY DEF OneSiteInv, SitesInv, Closed
<1>3. secrets \in SecretTable /\ Ids(secrets) \subseteq Secrets
  BY TableRows DEF OneSiteInv, TypeInv, TypeOK
<1>4. ASSUME NEW x, NEW row, PutSecret(x, row), row.site \in Ids(sites)
      PROVE  Closed(sites', secrets')
  <2>1. /\ secrets' \in SecretTable
        /\ Ids(secrets') = Ids(secrets) \cup {x}
        /\ secrets'[x] = row
        /\ \A y \in Secrets : y # x => secrets'[y] = secrets[y]
    BY <1>4, PutTypes DEF OneSiteInv
  <2>2. QED
    BY <1>1, <1>2, <1>3, <1>4, <2>1 DEF Closed
<1>5. ASSUME NEW x \in Secrets, Creates(k, x) PROVE SitesInv'
  <2> DEFINE row == [site |-> k.site, body |-> k.body]
  <2>1. PutSecret(x, row) /\ Written(k, {x}) /\ k.kind = "createSecret"
    BY <1>5 DEF Creates
  <2>2. row.site \in Ids(sites)
    BY <1>2, <2>1 DEF CallKnows
  <2> HIDE DEF row
  <2>3. Closed(sites', secrets')
    BY <1>4, <2>1, <2>2
  <2>4. QED
    BY <1>1, <2>1, <2>3, WriteKnows
<1>6. ASSUME Saves(k) PROVE SitesInv'
  <2> DEFINE row == [site |-> secrets[k.secret].site, body |-> k.body]
  <2>1. /\ PutSecret(k.secret, row)
        /\ k.secret \in Secrets
        /\ Written(k, {k.secret})
        /\ k.kind \in {"saveSecret", "deleteField"}
    BY <1>3, <1>6 DEF Saves
  <2>2. row.site \in Ids(sites)
    BY <1>2, <1>6 DEF Saves
  <2> HIDE DEF row
  <2>3. Closed(sites', secrets')
    BY <1>4, <2>1, <2>2
  <2>4. QED
    BY <1>1, <2>1, <2>3, WriteKnows
<1>7. ASSUME Deletes(k) PROVE SitesInv'
  <2>1. /\ k.secret \in Secrets
        /\ secrets' = [secrets EXCEPT ![k.secret] = None]
        /\ Written(k, {})
        /\ k.kind = "deleteSecret"
    BY <1>7 DEF Deletes
  <2>2. /\ Ids(secrets') = Ids(secrets) \ {k.secret}
        /\ \A y \in Secrets : y # k.secret => secrets'[y] = secrets[y]
    BY <2>1, TakeTypes DEF OneSiteInv
  <2>3. Closed(sites', secrets')
    BY <1>1, <1>2, <1>3, <2>2 DEF Closed
  <2>4. QED
    BY <1>1, <2>1, <2>3, WriteKnows
<1>8. QED
  BY <1>1, <1>5, <1>6, <1>7

(* What is restored brings no site.                                        *)
LEMMA ImportKnows ==
    ASSUME OneSiteInv, NEW k \in calls, ServeImport(k)
    PROVE  SitesInv'
<1>1. CASE Imports(k)
  <2> DEFINE file == k.file
             rows == Overwritten(k.file, k.mode).secrets
  <2>1. /\ k.kind = "import"
        /\ Closed(file.sites, file.secrets)
        /\ rows \in SecretTable
        /\ \A x \in Ids(rows) : /\ x \in Ids(file.secrets)
                                /\ rows[x] = file.secrets[x]
        /\ Ids(sites') = Ids(sites) \cup Ids(file.sites)
        /\ secrets' = Overlay(secrets, rows)
        /\ Written(k, {})
    BY <1>1 DEF Imports
  <2>2. Known(sites, file)
    BY <2>1 DEF OneSiteInv, SitesInv, CallKnows
  <2> HIDE DEF file, rows
  <2>3. Ids(sites') = Ids(sites)
    BY <2>1, <2>2 DEF Known
  <2>4. secrets \in SecretTable /\ Closed(sites, secrets)
    BY DEF OneSiteInv, SitesInv, TypeInv, TypeOK
  <2>5. ASSUME NEW x \in Ids(secrets') PROVE secrets'[x].site \in Ids(sites)
    <3>1. x \in Secrets
          /\ secrets'[x] = IF rows[x] # None THEN rows[x] ELSE secrets[x]
      BY <2>1, <2>4, TableRows DEF Overlay, Ids
    <3>2. CASE rows[x] # None
      <4>1. x \in Ids(rows)
        BY <2>1, <3>1, <3>2, TableRows DEF Ids
      <4>2. QED
        BY <2>1, <2>2, <3>1, <4>1 DEF Closed, Known, Ids
    <3>3. CASE rows[x] = None
      <4>1. secrets'[x] = secrets[x] /\ x \in Ids(secrets)
        BY <2>4, <3>1, <3>3, TableRows DEF Ids
      <4>2. QED
        BY <2>4, <4>1 DEF Closed
    <3>4. QED
      BY <3>2, <3>3
  <2>6. Closed(sites', secrets')
    BY <2>3, <2>5 DEF Closed
  <2>7. QED
    BY <2>1, <2>3, <2>6, WriteKnows
<1>2. CASE Reads(k, Refusal("invalid")) \/ Reads(k, Refusal("conflict"))
  BY <1>2, RefusalKnows DEF Reads, Statuses
<1>3. QED
  BY <1>1, <1>2, ImportServed DEF OneSiteInv

LEMMA ServeKnows ==
    ASSUME OneSiteInv, NEW k \in calls, Serve(k) \/ Fail(k) \/ Lose(k)
    PROVE  SitesInv'
<1>1. CASE Fail(k) \/ Lose(k)
  BY <1>1, RefusalKnows DEF Fail, Lose, Reads, Statuses
<1>2. CASE RefuseSecret(k)
  BY <1>2, RefusalKnows DEF RefuseSecret, Reads, Statuses
<1>3. CASE Serve(k) /\ ~RefuseSecret(k)
  BY <1>3, ReadKnows, SiteKnows, SecretKnows, ImportKnows DEF Serve
<1>4. QED
  BY <1>1, <1>2, <1>3

-----------------------------------------------------------------------------
(* What the pages do with an answer.                                       *)

LEMMA HeardKnows ==
    ASSUME OneSiteInv, NEW k \in calls,
           NEW tab, SamePage(tab, tabs[k.tab]), TabKnows(sites, tab),
           tabs' = [tabs EXCEPT ![k.tab] = tab],
           calls' \subseteq calls,
           sites' = sites, secrets' = secrets,
           exported' # None => Known(sites, exported')
    PROVE  SitesInv'
<1> DEFINE more == {}
<1>1. k.tab \in Tabs
  BY HeardCall DEF OneSiteInv
<1>2. ASSUME NEW j \in calls
      PROVE  /\ Abides(j)
             /\ j.kind \in SiteCalls => tab.cache = "pending"
  <2>1. j.tab = k.tab /\ CallKnows(sites, j, tabs[j.tab])
    BY <1>1, OneTabsCalls DEF OneSiteInv, SitesInv
  <2>2. QED
    BY <2>1 DEF Abides, SameCall, CallKnows, SamePage
<1>3. Knowing(k.tab, tab, calls, more)
  BY <1>2 DEF Knowing
<1> HIDE DEF more
<1>4. QED
  BY <1>1, <1>3, KnowingStep

LEMMA BecomesKnows ==
    ASSUME OneSiteInv, NEW k \in calls,
           NEW tab, SamePlace(tab, tabs[k.tab]), Becomes(k, tab, {})
    PROVE  SitesInv'
<1>1. k.tab \in Tabs
  BY HeardCall DEF OneSiteInv
<1>2. /\ tabs' = [tabs EXCEPT ![k.tab] = tab]
      /\ calls' \subseteq calls
      /\ UNCHANGED <<sites, secrets, exported>>
  BY DEF Becomes, Rest, tables
<1>3. QED
  BY <1>1, <1>2, PlaceKept

(* After the answer to a call for the site there is no other.              *)
LEMMA SiteHeard ==
    ASSUME OneSiteInv, NEW k \in calls, k.kind \in SiteCalls,
           NEW tab, TabKnows(sites, tab), NEW more, Becomes(k, tab, more),
           \A j \in more : j.tab = k.tab /\ CallKnows(sites, j, tab),
           \A i, j \in more : OneSiteCall(i, j)
    PROVE  SitesInv'
<1>1. k.tab \in Tabs
  BY HeardCall DEF OneSiteInv
<1>2. ASSUME NEW j \in Rest(k) PROVE Abides(j) /\ j.kind \notin SiteCalls
  BY DEF Rest, Abides, SameCall, OneSiteInv, SitesInv, OneSiteCall
<1>3. exported' # None => Known(sites, exported')
  BY DEF OneSiteInv, SitesInv, Becomes
<1>4. Knowing(k.tab, tab, Rest(k), more)
  BY <1>2, <1>3 DEF Knowing, Becomes, tables, OneSiteCall
<1>5. QED
  BY <1>1, <1>4, KnowingStep

LEMMA ResolveKnows ==
    ASSUME OneSiteInv, NEW k \in calls, k.kind \in SiteCalls,
           NEW site \in Ids(sites), Resolve(k, site)
    PROVE  SitesInv'
<1> DEFINE old == tabs[k.tab]
           new == Resolved(old, site)
           loads == LoadsOf(k.tab, old, site)
<1>1. k.tab \in Tabs /\ old \in Tab /\ site \in Sites
  BY HeardCall, TableRows DEF OneSiteInv, TypeInv, TypeOK
<1>2. Becomes(k, new, loads)
  BY ResolveIs DEF OneSiteInv
<1>3. TabKnows(sites, old) /\ CallKnows(sites, k, old)
  BY <1>1 DEF OneSiteInv, SitesInv
<1> HIDE DEF old
<1>4. ASSUME NEW j \in loads
      PROVE  j.tab = k.tab /\ j.kind \in {"listSecrets", "search"}
  BY <1>1, <1>4, LoadsAre DEF Asked
<1>5. /\ new.cache = site
      /\ new.hook = IF old.hook = "loading" THEN site ELSE old.hook
      /\ new.panel = old.panel
  BY <1>1, ResolvedTab
<1> HIDE DEF new, loads
<1>6. old.hook # "error"
  BY <1>3, ClientAssumption DEF TabKnows, CallKnows
<1>7. TabKnows(sites, new)
  BY <1>1, <1>3, <1>5, <1>6, ClientAssumption DEF TabKnows
<1>8. ASSUME NEW j \in loads
      PROVE  j.kind \notin SiteCalls /\ CallKnows(sites, j, new)
  BY <1>4 DEF CallKnows, SiteCalls
<1>9. QED
  BY <1>2, <1>4, <1>7, <1>8, SiteHeard DEF OneSiteCall

LEMMA HearSitesKnows ==
    ASSUME OneSiteInv, NEW k \in calls, k.answer # None,
           HearSites(k) \/ HearCreated(k) \/ SiteFailed(k)
    PROVE  SitesInv'
<1> DEFINE old == tabs[k.tab]
<1>1. /\ k.tab \in Tabs
      /\ old \in Tab
      /\ k.kind \in SiteCalls
      /\ TabKnows(sites, old)
      /\ CallKnows(sites, k, old)
  BY HeardCall
     DEF OneSiteInv, SitesInv, HearSites, HearCreated, SiteFailed, SiteCalls
<1>2. k.answer.status = "ok" => k.answer.ids \subseteq Ids(sites)
  BY <1>1, HeardCall DEF OneSiteInv, Brings, Succeeded
<1>3. CASE HearSites(k) /\ k.answer.ids = {}
  <2> DEFINE more == {New(k.tab, "createSite")}
  <2>1. Becomes(k, old, more)
    BY <1>3 DEF HearSites
  <2>2. Ids(sites) = {} /\ old.cache = "pending"
    BY <1>1, <1>3 DEF CallKnows, Succeeded, HearSites
  <2>3. ASSUME NEW j \in more
        PROVE  j.tab = k.tab /\ CallKnows(sites, j, old)
    BY <2>2 DEF New, CallKnows, Succeeded
  <2>4. \A i, j \in more : OneSiteCall(i, j)
    BY DEF OneSiteCall
  <2> HIDE DEF more
  <2>5. QED
    BY <1>1, <2>1, <2>3, <2>4, SiteHeard
<1>4. CASE HearSites(k) /\ k.answer.ids # {}
  <2> DEFINE site == PickDefaultSiteId(k.answer.ids)
  <2>1. k.answer.ids \in SUBSET Ids(sites)
    BY <1>2, <1>4 DEF HearSites
  <2>2. site \in Ids(sites)
    BY <1>4, <2>1, Oldest DEF OneSiteInv
  <2>3. Resolve(k, site)
    BY <1>4 DEF HearSites
  <2> HIDE DEF site
  <2>4. QED
    BY <1>1, <2>2, <2>3, ResolveKnows
<1>5. CASE HearCreated(k)
  <2>1. PICK s \in k.answer.ids : Resolve(k, s)
    BY <1>5 DEF HearCreated
  <2>2. s \in Ids(sites)
    BY <1>2, <1>5 DEF HearCreated
  <2>3. QED
    BY <1>1, <2>1, <2>2, ResolveKnows
<1>6. CASE SiteFailed(k)
  <2> DEFINE hook == IF old.hook = "loading" THEN "error" ELSE old.hook
             new == WithSite(old, hook, None)
             more == {}
  <2>1. Becomes(k, new, more) /\ hook \in Sites \cup {"off", "loading", "error"}
    BY <1>6, SiteFailedTab DEF OneSiteInv
  <2>2. hook \in Sites => hook = old.hook
    BY ClientAssumption
  <2> HIDE DEF hook
  <2>3. /\ new.hook = hook
        /\ new.cache = None
        /\ new.panel = old.panel
    BY <1>1, <2>1, SiteSet
  <2>4. /\ \A j \in more : j.tab = k.tab /\ CallKnows(sites, j, new)
        /\ \A i, j \in more : OneSiteCall(i, j)
    OBVIOUS
  <2> HIDE DEF new, more
  <2>5. TabKnows(sites, new)
    BY <1>1, <2>2, <2>3, StoreAssumption DEF TabKnows
  <2>6. QED
    BY <1>1, <2>1, <2>4, <2>5, SiteHeard
<1>7. QED
  BY <1>3, <1>4, <1>5, <1>6

LEMMA HearReadKnows ==
    ASSUME OneSiteInv, NEW k \in calls, k.answer # None,
           HearList(k) \/ HearDetail(k)
    PROVE  SitesInv'
<1>1. k.tab \in Tabs
  BY HeardCall DEF OneSiteInv
<1>2. CASE HearList(k)
  BY <1>1, <1>2, HearListTab, SameTabs, BecomesKnows DEF OneSiteInv
<1>3. CASE HearDetail(k)
  BY <1>1, <1>3, HearDetailTab, SameTabs, BecomesKnows DEF OneSiteInv
<1>4. QED
  BY <1>2, <1>3

LEMMA PushKnows ==
    ASSUME OneSiteInv, NEW k \in calls, PushToList(k)
    PROVE  SitesInv'
<1>1. k.tab \in Tabs /\ tabs \in [Tabs -> Tab]
  BY HeardCall DEF OneSiteInv, TypeInv, TypeOK
<1>2. CASE tabs[k.tab].page = "list"
  <2>1. /\ tabs' = [tabs EXCEPT ![k.tab] = tabs[k.tab]]
        /\ calls' \subseteq calls
        /\ UNCHANGED <<sites, secrets, exported>>
    BY <1>1, <1>2 DEF PushToList, Rest, Unserved
  <2>2. SamePlace(tabs[k.tab], tabs[k.tab])
    BY DEF SamePlace, SamePage
  <2>3. QED
    BY <1>1, <2>1, <2>2, PlaceKept
<1>3. CASE tabs[k.tab].page # "list"
  <2> DEFINE others == Left(k.tab) \ {k, [k EXCEPT !.live = FALSE]}
  <2>1. Mount(k.tab, "list", None, tabs[k.tab].cache, others) /\ Unserved
    BY <1>3 DEF PushToList
  <2>2. others \in SUBSET Left(k.tab) /\ "list" \in Pages
    BY DEF Pages
  <2> HIDE DEF others
  <2>3. QED
    BY <1>1, <2>1, <2>2, GotoKnows
<1>4. QED
  BY <1>2, <1>3

LEMMA ReloadsKnows ==
    ASSUME OneSiteInv, NEW k \in calls, k.kind \in Edits, k.live,
           NEW view \in View, view.id = tabs[k.tab].view.id, Reloads(k, view)
    PROVE  SitesInv'
<1> DEFINE old == tabs[k.tab]
           new == WithForm(WithView(old, ReloadView(view)), Closed0)
           call == [New(k.tab, "detail") EXCEPT !.secret = view.id]
<1>1. k.tab \in Tabs
  BY HeardCall DEF OneSiteInv
<1>2. /\ tabs' = [tabs EXCEPT ![k.tab] = new]
      /\ calls' = Rest(k) \cup {call}
      /\ Unserved
      /\ SamePlace(new, old)
      /\ Asked(call, k.tab, "detail")
  BY ReloadsTab DEF OneSiteInv, SamePlace
<1>3. /\ calls' \subseteq calls \cup {call}
      /\ UNCHANGED <<sites, secrets, exported>>
  BY <1>2 DEF Rest, Unserved
<1>4. "detail" \notin SiteCalls \cup {"import"}
  BY DEF SiteCalls
<1> HIDE DEF call, new
<1>5. QED
  BY <1>1, <1>2, <1>3, <1>4, PlaceCall

LEMMA HearSavedKnows ==
    ASSUME OneSiteInv, NEW k \in calls, HearSaved(k) \/ HearFieldDeleted(k)
    PROVE  SitesInv'
<1> DEFINE old == tabs[k.tab].view
<1>1. old \in View
  BY HeardCall, TabFields DEF OneSiteInv
<1>2. CASE HearSaved(k)
  <2> DEFINE view == [old EXCEPT !.mode = "view"]
  <2>1. view \in View /\ view.id = old.id
    BY <1>1, ModeSet DEF SameShown
  <2>2. Reloads(k, view) /\ k.kind \in Edits /\ k.live
    BY <1>2 DEF HearSaved, Edits
  <2> HIDE DEF view
  <2>3. QED
    BY <2>1, <2>2, ReloadsKnows
<1>3. CASE HearFieldDeleted(k)
  <2>1. Reloads(k, old) /\ k.kind \in Edits /\ k.live
    BY <1>3 DEF HearFieldDeleted, Edits
  <2>2. QED
    BY <1>1, <2>1, ReloadsKnows
<1>4. QED
  BY <1>2, <1>3

LEMMA FailedKnows ==
    ASSUME OneSiteInv, NEW k \in calls,
           SaveFailed(k) \/ DeleteFailed(k) \/ DeleteFieldFailed(k)
    PROVE  SitesInv'
<1>1. k.tab \in Tabs
  BY HeardCall DEF OneSiteInv
<1>2. CASE SaveFailed(k)
  BY <1>1, <1>2, SaveFailedTab, SameTabs, BecomesKnows DEF OneSiteInv
<1>3. CASE DeleteFailed(k) \/ DeleteFieldFailed(k)
  BY <1>1, <1>3, DeleteFailedTab, SameTabs, BecomesKnows DEF OneSiteInv
<1>4. QED
  BY <1>2, <1>3

(* The user's file is a backup of this database.                           *)
LEMMA HearPanelKnows ==
    ASSUME OneSiteInv, NEW k \in calls, k.answer # None,
           HearExport(k) \/ HearImport(k)
    PROVE  SitesInv'
<1> DEFINE old == tabs[k.tab]
<1>1. /\ k.tab \in Tabs
      /\ old \in Tab
      /\ TabKnows(sites, old)
      /\ CallKnows(sites, k, old)
      /\ exported # None => Known(sites, exported)
  BY HeardCall DEF OneSiteInv, SitesInv
<1>2. ASSUME NEW panel \in Panel, panel.file \in {old.panel.file, None}
      PROVE  /\ SamePage(WithPanel(old, panel), old)
             /\ TabKnows(sites, WithPanel(old, panel))
  <2> DEFINE tab == WithPanel(old, panel)
  <2>1. SamePage(tab, old) /\ tab.panel = panel
    BY <1>1, PanelSet
  <2> HIDE DEF tab
  <2>2. TabKnows(sites, tab)
    BY <1>1, <1>2, <2>1 DEF TabKnows, SamePage
  <2>3. QED
    BY <2>1, <2>2 DEF tab
<1>3. CASE HearExport(k)
  <2>1. PICK panel \in Panel :
            /\ panel.file = old.panel.file
            /\ tabs' = [tabs EXCEPT ![k.tab] = WithPanel(old, panel)]
            /\ k.answer.status = "ok" => exported' = k.answer.file
            /\ k.answer.status # "ok" => exported' = exported
    BY <1>3, HearExportTab DEF OneSiteInv
  <2>2. /\ calls' \subseteq calls
        /\ sites' = sites
        /\ secrets' = secrets
        /\ k.kind = "export"
    BY <1>3 DEF HearExport, Rest, tables
  <2>3. exported' # None => Known(sites, exported')
    BY <1>1, <2>1, <2>2 DEF CallKnows, Succeeded
  <2>4. QED
    BY <1>2, <2>1, <2>2, <2>3, HeardKnows
<1>4. CASE HearImport(k)
  <2>1. PICK panel \in Panel :
            /\ panel.file \in {old.panel.file, None}
            /\ Becomes(k, WithPanel(old, panel), {})
    BY <1>4, HearImportTab DEF OneSiteInv
  <2>2. /\ tabs' = [tabs EXCEPT ![k.tab] = WithPanel(old, panel)]
        /\ calls' \subseteq calls
        /\ UNCHANGED <<sites, secrets, exported>>
    BY <2>1 DEF Becomes, Rest, tables
  <2>3. QED
    BY <1>1, <1>2, <2>1, <2>2, HeardKnows
<1>5. QED
  BY <1>3, <1>4

LEMMA DeliverKnows ==
    ASSUME OneSiteInv, NEW k \in calls, Deliver(k)
    PROVE  SitesInv'
<1>1. k.answer # None
  BY DEF Deliver
<1>2. CASE HearSites(k) \/ HearCreated(k) \/ SiteFailed(k)
  BY <1>1, <1>2, HearSitesKnows
<1>3. CASE HearList(k) \/ HearDetail(k)
  BY <1>1, <1>3, HearReadKnows
<1>4. CASE HearSecretCreated(k) \/ HearDeleted(k)
  BY <1>4, PushKnows DEF HearSecretCreated, HearDeleted
<1>5. CASE HearSaved(k) \/ HearFieldDeleted(k)
  BY <1>5, HearSavedKnows
<1>6. CASE SaveFailed(k) \/ DeleteFailed(k) \/ DeleteFieldFailed(k)
  BY <1>6, FailedKnows
<1>7. CASE HearExport(k) \/ HearImport(k)
  BY <1>1, <1>7, HearPanelKnows
<1>8. CASE Ignore(k)
  <2>1. Becomes(k, tabs[k.tab], {})
    BY <1>8 DEF Ignore
  <2>2. SamePlace(tabs[k.tab], tabs[k.tab])
    BY DEF SamePlace, SamePage
  <2>3. QED
    BY <2>1, <2>2, BecomesKnows
<1>9. QED
  BY <1>2, <1>3, <1>4, <1>5, <1>6, <1>7, <1>8 DEF Deliver

-----------------------------------------------------------------------------
LEMMA SitesStep ==
    ASSUME OneSiteInv, [Next]_vars
    PROVE  SitesInv'
<1>1. CASE \E t \in Tabs : Cardinality(calls) < MaxCalls /\ UserStep(t)
  BY <1>1, UserKnows
<1>2. CASE \E k \in calls : Serve(k) \/ Fail(k) \/ Lose(k)
  BY <1>2, ServeKnows
<1>3. CASE \E k \in calls : Deliver(k)
  BY <1>3, DeliverKnows
<1>4. CASE UNCHANGED vars
  BY <1>4 DEF vars, OneSiteInv, SitesInv
<1>5. QED
  BY <1>1, <1>2, <1>3, <1>4 DEF Next

LEMMA InitSites ==
    ASSUME Init, OneTab
    PROVE  SitesInv
<1> DEFINE tab == [Blank("list", None) EXCEPT !.cache = "pending"]
<1>1. /\ tabs = [t \in Tabs |-> tab]
      /\ tab.cache = "pending"
      /\ tab.hook = "loading"
      /\ tab.panel.file = None
  BY FirstTab DEF Init
<1> HIDE DEF tab
<1>2. Ids(sites) = {} /\ Ids(secrets) = {} /\ exported = None
  BY DEF Init, Ids
<1>3. Closed(sites, secrets)
  BY <1>2 DEF Closed
<1>4. TabKnows(sites, tab)
  BY <1>1, ClientAssumption DEF TabKnows
<1>5. ASSUME NEW k \in calls
      PROVE  /\ \E t \in Tabs : k = New(t, "listSites")
             /\ CallKnows(sites, k, tab)
  <2>1. PICK t \in Tabs : k = New(t, "listSites")
    BY <1>5 DEF Init
  <2>2. k.kind = "listSites" /\ k.answer = None
    BY <2>1 DEF New
  <2>3. QED
    BY <1>1, <2>1, <2>2 DEF CallKnows, Succeeded
<1>6. ASSUME NEW k \in calls PROVE tabs[k.tab] = tab
  BY <1>1, <1>5 DEF New
<1>7. \A j, k \in calls : j = k
  BY <1>5 DEF OneTab
<1>8. QED
  BY <1>1, <1>2, <1>3, <1>4, <1>5, <1>6, <1>7 DEF SitesInv, OneSiteCall

(* In the one tab of a vault that has only its own backups, the site that  *)
(* a page uses holds every password, whatever call for it failed or was    *)
(* made again (default-site.ts:5-7, use-default-site.ts:13-14).            *)
THEOREM NothingIsHidden ==
    ASSUME OneTab, Backups = {}
    PROVE  Spec => []NothingHidden
<1>1. Init => OneSiteInv
  BY InitTypes, InitSites DEF OneSiteInv
<1>2. OneSiteInv /\ [Next]_vars => OneSiteInv'
  <2>1. OneTab => OneTab'
    BY DEF OneTab
  <2>2. QED
    BY <2>1, TypeStep, SitesStep DEF OneSiteInv
<1>3. OneSiteInv => NothingHidden
  BY DEF OneSiteInv, SitesInv, TabKnows, Closed, NothingHidden
<1>4. QED
  BY <1>1, <1>2, <1>3, PTL DEF Spec

=============================================================================
