---------------------------- MODULE VaultClient ----------------------------
(***************************************************************************)
(* The pages of the unlocked vault in a browser's tabs: the list of        *)
(* passwords, a password, the form that makes or edits one, backup and     *)
(* restore (apps/web/app/(vault)).                                         *)
(*                                                                         *)
(* Each call of the API acts on the tables at one moment of its way, which *)
(* is what Vault.tla is shown to do.  It may fail before that moment or    *)
(* lose its answer after it, and a page may be gone when the answer comes. *)
(* A user navigates at any time but opens or edits a form only when no     *)
(* write of the tab is in flight, and reloads a tab only when it has no    *)
(* call in flight.                                                         *)
(*                                                                         *)
(* A password's content is its title and the names of its fields; values,  *)
(* memo and encryption are left out: seal and open are inverses under one  *)
(* vault key.                                                              *)
(***************************************************************************)
EXTENDS VaultStore, SequencesExt


CONSTANTS
    Tabs,
    Titles,      \* titles of passwords
    Terms,       \* what a user searches for
    Fields,      \* names of fields
    MaxFields,   \* MAX_FIELDS
    MaxCalls,    \* bound: calls in flight
    Backups      \* files from before this database

ListsOf(names) == UNION {[1..n -> names] : n \in 0..MaxFields}

Distinct(seq) ==
    \A i, j \in DOMAIN seq : i # j => seq[i] # seq[j]

(* The rows of a form that have a name; NamedUpTo gives those of the first *)
(* so many.                                                                *)
NamedUpTo(rows) ==
    LET upTo[i \in 0..Len(rows)] ==
            IF i = 0 THEN <<>>
            ELSE IF rows[i] = None THEN upTo[i - 1]
            ELSE Append(upTo[i - 1], rows[i])
    IN  upTo

Named(rows) == NamedUpTo(rows)[Len(rows)]

Contents == [title: Titles, fields: {seq \in ListsOf(Fields) : Distinct(seq)}]

(* A form's rows; None is an empty input.                                  *)
Drafts == [title: Titles \cup {None}, rows: ListsOf(Fields \cup {None})]

ASSUME ClientAssumption ==
    /\ Bodies = Contents
    /\ Backups \subseteq File
    /\ None \notin Titles \cup Terms \cup Fields
    /\ (Sites \cup {None}) \cap {"off", "loading", "error", "pending"} = {}
    /\ MaxFields \in Nat \ {0}
    /\ MaxCalls \in Nat \ {0}

VARIABLES
    sites,       \* table Site
    secrets,     \* table Secret
    tabs,        \* what each tab shows and has in memory
    calls,       \* calls of the API in flight
    exported,    \* the backup on the user's disk
    doubt        \* tabs that did not hear of a write that took effect

vars == <<sites, secrets, tabs, calls, exported, doubt>>
tables == <<sites, secrets>>

Writes == {"createSite", "createSecret", "saveSecret", "deleteField",
           "deleteSecret", "import"}
Kinds == Writes \cup {"listSites", "listSecrets", "search", "detail", "export"}

(* live: the page that made the call is still there.                       *)
Call ==
    [tab: Tabs, kind: Kinds, live: BOOLEAN, site: Sites \cup {None},
     secret: Secrets \cup {None}, term: Terms \cup {None},
     body: Bodies \cup {None}, file: File \cup {None},
     mode: Modes \cup {None}, answer: Answer \cup {None}]

New(t, kind) ==
    [tab |-> t, kind |-> kind, live |-> TRUE, site |-> None, secret |-> None,
     term |-> None, body |-> None, file |-> None, mode |-> None,
     answer |-> None]

CallsOf(t) == {k \in calls : k.tab = t}
Writing(t) == \E k \in CallsOf(t) : k.kind \in Writes

(* Pages.                                                                  *)
Pages == {"list", "new", "detail", "backup"}
Loading == {"idle", "loading", "loaded", "missing", "error"}
List == [query: Terms \cup {None}, status: Loading, items: SUBSET Secrets]
View ==
    [id: Secrets \cup {None}, status: Loading, body: Bodies \cup {None},
     mode: {"view", "edit"}, deleting: BOOLEAN, fieldBusy: BOOLEAN]
Form == [step: {"closed", "edit", "review"}, draft: Drafts, submitting: BOOLEAN]
Panel == [busy: BOOLEAN, mode: Modes, file: File \cup {None}]
Tab ==
    [page: Pages, cache: Sites \cup {None, "pending"},
     hook: Sites \cup {"off", "loading", "error"},
     list: List, view: View, form: Form, panel: Panel]

NoList == [query |-> None, status |-> "idle", items |-> {}]
NoView ==
    [id |-> None, status |-> "idle", body |-> None, mode |-> "view",
     deleting |-> FALSE, fieldBusy |-> FALSE]
EmptyDraft == [title |-> None, rows |-> <<None>>]
Closed0 == [step |-> "closed", draft |-> EmptyDraft, submitting |-> FALSE]
EmptyForm == [Closed0 EXCEPT !.step = "edit"]
NoPanel == [busy |-> FALSE, mode |-> "reject", file |-> None]

-----------------------------------------------------------------------------
(* The default site.  The answer of listSites is its ids: createdAt never  *)
(* changes.                                                                *)

PickDefaultSiteId(ids) ==
    CHOOSE s \in ids : \A other \in ids : sites[s].born <= sites[other].born

UsesSite(page) == page \in {"list", "new"}

(* What the list's effect asks for when the site or the query changes.     *)
LoadCall(t, site, query) ==
    IF query = None
    THEN [New(t, "listSecrets") EXCEPT !.site = site]
    ELSE [New(t, "search") EXCEPT !.term = query]

(* The hook of a mounted page hears of the site.                           *)
Ready(tab, site) ==
    [tab EXCEPT !.hook = site,
                !.list = IF tab.page = "list"
                         THEN [@ EXCEPT !.status = "loading"] ELSE @,
                !.form = IF tab.page = "new" THEN EmptyForm ELSE @]

LoadsFor(t, tab, site) ==
    IF tab.page = "list" THEN {LoadCall(t, site, tab.list.query)} ELSE {}

-----------------------------------------------------------------------------
(* Navigation.                                                             *)

(* The calls of one promise that outlives the pages.                       *)
SiteCalls == {"listSites", "createSite"}

(* Calls whose answer nobody hears when their page has gone.               *)
PageReads == {"listSecrets", "search", "detail"}

Dropped(t, kinds) == {k \in calls : k.tab # t \/ k.kind \notin kinds}

(* A page that goes leaves its other calls behind.                         *)
Left(t) ==
    {[k EXCEPT !.live = @ /\ (k.tab # t \/ k.kind \in SiteCalls)] :
        k \in Dropped(t, PageReads)}

Blank(page, cache) ==
    [page |-> page, cache |-> cache,
     hook |-> IF UsesSite(page) THEN "loading" ELSE "off",
     list |-> NoList, view |-> NoView, form |-> Closed0, panel |-> NoPanel]

(* A page is mounted, for password x if it is that of one; others are the  *)
(* calls that remain.                                                      *)
Mount(t, page, x, cache, others) ==
    LET blank == Blank(page, cache)
    IN  /\ tabs' = [tabs EXCEPT ![t] =
               IF UsesSite(page) /\ cache \in Sites THEN Ready(blank, cache)
               ELSE IF UsesSite(page) THEN [blank EXCEPT !.cache = "pending"]
               ELSE IF page = "detail"
               THEN [blank EXCEPT !.view.id = x, !.view.status = "loading"]
               ELSE blank]
        /\ calls' = others \cup
               (IF UsesSite(page) /\ cache = None THEN {New(t, "listSites")}
                ELSE IF UsesSite(page) /\ cache \in Sites
                THEN LoadsFor(t, blank, cache)
                ELSE IF page = "detail"
                THEN {[New(t, "detail") EXCEPT !.secret = x]}
                ELSE {})
        /\ doubt' = doubt \ {t}

Goto(t, page, x) ==
    Mount(t, page, x, tabs[t].cache, Left(t))

Init ==
    /\ sites = [s \in Sites |-> None]
    /\ secrets = [x \in Secrets |-> None]
    /\ tabs = [t \in Tabs |-> [Blank("list", None) EXCEPT !.cache = "pending"]]
    /\ calls = {New(t, "listSites") : t \in Tabs}
    /\ exported = None
    /\ doubt = {}

Unserved == UNCHANGED <<sites, secrets, exported>>

-----------------------------------------------------------------------------
(* The list (EntriesScreen).  An error of the hook replaces all of it.     *)

OnList(t) == tabs[t].page = "list" /\ tabs[t].hook # "error"

(* Mutant: the effect does not depend on the nonce. *)
RetryWithoutNonce(t) ==
    /\ UsesSite(tabs[t].page)
    /\ tabs[t].hook = "error"
    /\ tabs' = [tabs EXCEPT ![t].hook = "loading", ![t].cache = None]
    /\ UNCHANGED <<tables, calls, exported, doubt>>

RetrySite(t) ==
    /\ UsesSite(tabs[t].page)
    /\ tabs[t].hook = "error"
    /\ tabs' = [tabs EXCEPT ![t].hook = "loading", ![t].cache = "pending"]
    /\ calls' = calls \cup {New(t, "listSites")}
    /\ UNCHANGED <<tables, exported, doubt>>

(* Mutant: the effect does not cancel its last load. *)
SearchUncancelled(t, query) ==
    /\ OnList(t)
    /\ query # tabs[t].list.query
    /\ tabs' = [tabs EXCEPT ![t].list.query = query,
                            ![t].list.status = "loading"]
    /\ tabs[t].hook \in Sites
    /\ calls' = calls \cup {LoadCall(t, tabs[t].hook, query)}
    /\ UNCHANGED <<tables, exported, doubt>>

(* The debounced input; the effect cancels the load of the last query.     *)
Search(t, query) ==
    /\ OnList(t)
    /\ query # tabs[t].list.query
    /\ \/ /\ tabs[t].hook = "loading"
          /\ tabs' = [tabs EXCEPT ![t].list.query = query]
          /\ UNCHANGED calls
       \/ /\ tabs[t].hook \in Sites
          /\ tabs' = [tabs EXCEPT ![t].list.query = query,
                                  ![t].list.status = "loading"]
          /\ calls' = Dropped(t, {"listSecrets", "search"})
                          \cup {LoadCall(t, tabs[t].hook, query)}
    /\ UNCHANGED <<tables, exported, doubt>>

OpenEntry(t, x) ==
    /\ OnList(t)
    /\ tabs[t].list.status = "loaded"
    /\ x \in tabs[t].list.items
    /\ Goto(t, "detail", x)
    /\ Unserved

OpenPage(t, page) ==
    /\ OnList(t)
    /\ Goto(t, page, None)
    /\ Unserved

(* Any link to "/", and the browser's way back.                            *)
GoToList(t) ==
    /\ tabs[t].page # "list"
    /\ Goto(t, "list", None)
    /\ Unserved

(* The browser reloads the tab: its modules forget the site.               *)
ReloadTab(t) ==
    /\ CallsOf(t) = {}
    /\ Mount(t, tabs[t].page, tabs[t].view.id, None, calls)
    /\ Unserved

-----------------------------------------------------------------------------
(* The form (SecretForm).                                                  *)

Shows(t, form) ==
    /\ tabs' = [tabs EXCEPT ![t].form = form]
    /\ UNCHANGED <<tables, calls, exported, doubt>>

Draws(t, draft) == Shows(t, [tabs[t].form EXCEPT !.draft = draft])

Editing(t) == tabs[t].form.step = "edit" /\ ~Writing(t)

Draft(t) == tabs[t].form.draft

ChangeLabel(t, title) ==
    /\ Editing(t)
    /\ Draws(t, [Draft(t) EXCEPT !.title = title])

AddRow(t, name) ==
    /\ Editing(t)
    /\ Len(Draft(t).rows) < MaxFields
    /\ Draws(t, [Draft(t) EXCEPT !.rows = Append(@, name)])

UpdateRow(t, i, name) ==
    /\ Editing(t)
    /\ i \in DOMAIN Draft(t).rows
    /\ Draws(t, [Draft(t) EXCEPT !.rows[i] = name])

RemoveRow(t, i) ==
    /\ Editing(t)
    /\ i \in DOMAIN Draft(t).rows
    /\ Draws(t, [Draft(t) EXCEPT !.rows = RemoveAt(@, i)])

MoveRow(t, i, target) ==
    /\ Editing(t)
    /\ {i, target} \subseteq DOMAIN Draft(t).rows
    /\ target \in {i - 1, i + 1}
    /\ Draws(t, [Draft(t) EXCEPT
                    !.rows = [@ EXCEPT ![i] = Draft(t).rows[target],
                                       ![target] = Draft(t).rows[i]]])

(* Mutant: names are not compared. *)
GoReviewUnchecked(t) ==
    /\ Editing(t)
    /\ Draft(t).title # None
    /\ Shows(t, [tabs[t].form EXCEPT !.step = "review"])

GoReview(t) ==
    /\ Editing(t)
    /\ Draft(t).title # None
    /\ Distinct(Named(Draft(t).rows))
    /\ Shows(t, [tabs[t].form EXCEPT !.step = "review"])

BackToEdit(t) ==
    /\ tabs[t].form.step = "review"
    /\ ~Writing(t)
    /\ Shows(t, [tabs[t].form EXCEPT !.step = "edit"])

CancelEdit(t) ==
    /\ Editing(t)
    /\ tabs[t].page = "detail"
    /\ tabs' = [tabs EXCEPT ![t].form = Closed0, ![t].view.mode = "view"]
    /\ UNCHANGED <<tables, calls, exported, doubt>>

ConfirmSave(t) ==
    LET body == [title |-> Draft(t).title, fields |-> Named(Draft(t).rows)]
        save == IF tabs[t].page = "new"
                THEN [New(t, "createSecret") EXCEPT !.site = tabs[t].hook]
                ELSE [New(t, "saveSecret") EXCEPT !.secret = tabs[t].view.id]
    IN  /\ tabs[t].form.step = "review"
        /\ ~tabs[t].form.submitting
        /\ ~Writing(t)
        /\ tabs' = [tabs EXCEPT ![t].form.submitting = TRUE]
        /\ calls' = calls \cup {[save EXCEPT !.body = body]}
        /\ UNCHANGED <<tables, exported, doubt>>

-----------------------------------------------------------------------------
(* A password ([id]/page.tsx).                                             *)

Viewing(t) ==
    /\ tabs[t].page = "detail"
    /\ tabs[t].view.status = "loaded"
    /\ tabs[t].view.mode = "view"

StartEdit(t) ==
    LET body == tabs[t].view.body
        rows == IF body.fields = <<>> THEN <<None>> ELSE body.fields
    IN  /\ Viewing(t)
        /\ ~Writing(t)
        /\ tabs' = [tabs EXCEPT
               ![t].view.mode = "edit",
               ![t].form = [EmptyForm EXCEPT
                               !.draft = [title |-> body.title, rows |-> rows]]]
        /\ UNCHANGED <<tables, calls, exported, doubt>>

HandleDelete(t) ==
    /\ Viewing(t)
    /\ ~tabs[t].view.deleting
    /\ tabs' = [tabs EXCEPT ![t].view.deleting = TRUE]
    /\ calls' = calls \cup
           {[New(t, "deleteSecret") EXCEPT !.secret = tabs[t].view.id]}
    /\ UNCHANGED <<tables, exported, doubt>>

(* All of the content is written anew, from what the page has in memory.   *)
HandleDeleteField(t, i) ==
    LET view == tabs[t].view
    IN  /\ Viewing(t)
        /\ ~view.fieldBusy
        /\ i \in DOMAIN view.body.fields
        /\ tabs' = [tabs EXCEPT ![t].view.fieldBusy = TRUE]
        /\ calls' = calls \cup
               {[New(t, "deleteField") EXCEPT
                   !.secret = view.id,
                   !.body = [view.body EXCEPT !.fields = RemoveAt(@, i)]]}
        /\ UNCHANGED <<tables, exported, doubt>>

-----------------------------------------------------------------------------
(* Backup and restore (BackupPanel).  The two buttons do not look at busy; *)
(* a press of one whose call is in flight is left out.  Bound: the user    *)
(* makes a backup once.                                                    *)

OnBackup(t) == tabs[t].page = "backup"

HandleExport(t) ==
    /\ OnBackup(t)
    /\ exported = None
    /\ ~\E k \in calls : k.kind = "export"
    /\ tabs' = [tabs EXCEPT ![t].panel.busy = TRUE]
    /\ calls' = calls \cup {New(t, "export")}
    /\ UNCHANGED <<tables, exported, doubt>>

ChooseFile(t, file) ==
    /\ OnBackup(t)
    /\ ~tabs[t].panel.busy
    /\ tabs' = [tabs EXCEPT ![t].panel.file = file]
    /\ UNCHANGED <<tables, calls, exported, doubt>>

ChooseMode(t, mode) ==
    /\ OnBackup(t)
    /\ ~tabs[t].panel.busy
    /\ mode # tabs[t].panel.mode
    /\ tabs' = [tabs EXCEPT ![t].panel.mode = mode]
    /\ UNCHANGED <<tables, calls, exported, doubt>>

HandleImport(t) ==
    /\ OnBackup(t)
    /\ tabs[t].panel.file # None
    /\ ~\E k \in CallsOf(t) : k.kind = "import" /\ k.live
    /\ tabs' = [tabs EXCEPT ![t].panel.busy = TRUE]
    /\ calls' = calls \cup
           {[New(t, "import") EXCEPT !.file = tabs[t].panel.file,
                                     !.mode = tabs[t].panel.mode]}
    /\ UNCHANGED <<tables, exported, doubt>>

UserStep(t) ==
    \/ \E query \in Terms \cup {None} : Search(t, query)
    \/ \E x \in Secrets : OpenEntry(t, x)
    \/ \E page \in {"new", "backup"} : OpenPage(t, page)
    \/ \E name \in Titles \cup {None} : ChangeLabel(t, name)
    \/ \E name \in Fields \cup {None} : AddRow(t, name)
    \/ \E i \in 1..MaxFields, name \in Fields \cup {None} :
           UpdateRow(t, i, name)
    \/ \E i, target \in 1..MaxFields : RemoveRow(t, i) \/ MoveRow(t, i, target)
    \/ \E i \in 1..MaxFields : HandleDeleteField(t, i)
    \/ \E file \in (Backups \cup {exported, None}) : ChooseFile(t, file)
    \/ \E mode \in Modes : ChooseMode(t, mode)
    \/ RetrySite(t) \/ GoToList(t) \/ ReloadTab(t)
    \/ GoReview(t) \/ BackToEdit(t) \/ CancelEdit(t) \/ ConfirmSave(t)
    \/ StartEdit(t) \/ HandleDelete(t) \/ HandleExport(t) \/ HandleImport(t)

-----------------------------------------------------------------------------
(* The API.                                                                *)

Replies(k, answer) ==
    /\ calls' = (calls \ {k}) \cup {[k EXCEPT !.answer = answer]}
    /\ UNCHANGED <<tabs, exported>>

(* Who does not hear of a write at once: the other tabs, and the tab whose *)
(* page has gone.                                                          *)
Unaware(k) == Tabs \ {t \in {k.tab} : k.live}

Reads(k, answer) ==
    /\ Replies(k, answer)
    /\ UNCHANGED <<tables, doubt>>

Written(k, ids) ==
    /\ Replies(k, Success(ids))
    /\ doubt' = doubt \cup Unaware(k)

ServeRead(k) ==
    \/ k.kind = "listSites" /\ Reads(k, Success(Ids(sites)))
    \/ k.kind = "listSecrets" /\ Reads(k, Success(SecretsOf(secrets, k.site)))
    \/ /\ k.kind = "search"
       /\ Reads(k, Success({x \in Ids(secrets) :
                                secrets[x].body.title = k.term}))
    \/ /\ k.kind = "detail"
       /\ Reads(k, IF secrets[k.secret] = None THEN Refusal("notFound")
                   ELSE Found(secrets[k.secret]))
    \/ /\ k.kind = "export"
       /\ Reads(k, Backup([sites |-> sites, secrets |-> secrets]))

ServeSite(k) ==
    /\ k.kind = "createSite"
    /\ \E s \in Sites \ Ids(sites), b \in Births, label \in Labels :
           /\ Newborn(sites, b)
           /\ sites' = [sites EXCEPT ![s] = [label |-> label, born |-> b]]
           /\ Written(k, {s})
    /\ UNCHANGED secrets

ServeSecret(k) ==
    /\ UNCHANGED sites
    /\ \/ /\ k.kind = "createSecret"
          /\ \E x \in Secrets \ Ids(secrets) :
                 /\ secrets' = [secrets EXCEPT
                                   ![x] = [site |-> k.site, body |-> k.body]]
                 /\ Written(k, {x})
       \/ /\ k.kind \in {"saveSecret", "deleteField"}
          /\ k.secret \in Ids(secrets)
          /\ secrets' = [secrets EXCEPT ![k.secret].body = k.body]
          /\ Written(k, {k.secret})
       \/ /\ k.kind = "deleteSecret"
          /\ k.secret \in Ids(secrets)
          /\ secrets' = [secrets EXCEPT ![k.secret] = None]
          /\ Written(k, {})

(* The password is gone.                                                   *)
RefuseSecret(k) ==
    /\ k.kind \in {"saveSecret", "deleteField", "deleteSecret"}
    /\ k.secret \notin Ids(secrets)
    /\ Reads(k, Refusal("notFound"))

Overwritten(file, mode) ==
    CASE mode = "replace" ->
             [sites |-> Adopted(sites, file.sites), secrets |-> file.secrets]
      [] mode = "skip" ->
             [sites |-> Fresh(file.sites, sites),
              secrets |-> Fresh(file.secrets, secrets)]
      [] OTHER -> file

ServeImport(k) ==
    LET clash == \/ Conflicts(k.file.sites, sites) # {}
                 \/ Conflicts(k.file.secrets, secrets) # {}
        rows == Overwritten(k.file, k.mode)
    IN  /\ k.kind = "import"
        /\ \/ /\ ~Closed(k.file.sites, k.file.secrets)
              /\ Reads(k, Refusal("invalid"))
           \/ /\ Closed(k.file.sites, k.file.secrets)
              /\ k.mode = "reject" /\ clash
              /\ Reads(k, Refusal("conflict"))
           \/ /\ Closed(k.file.sites, k.file.secrets)
              /\ ~(k.mode = "reject" /\ clash)
              /\ sites' = Overlay(sites, rows.sites)
              /\ secrets' = Overlay(secrets, rows.secrets)
              /\ Written(k, {})

Serve(k) ==
    /\ k.answer = None
    /\ \/ ServeRead(k) \/ ServeSite(k) \/ ServeSecret(k) \/ RefuseSecret(k)
       \/ ServeImport(k)

(* No answer: the call has no effect, or it has one and nobody hears of it.*)
Fail(k) ==
    /\ k.answer = None
    /\ Reads(k, Refusal("error"))

Lose(k) ==
    /\ k.answer # None
    /\ k.answer.status = "ok"
    /\ Replies(k, Refusal("error"))
    /\ doubt' = IF k.kind \in Writes THEN doubt \cup {k.tab} ELSE doubt
    /\ UNCHANGED tables

-----------------------------------------------------------------------------
(* What the pages do with an answer.                                       *)

Rest(k) == calls \ {k}

Becomes(k, tab, started) ==
    /\ tabs' = [tabs EXCEPT ![k.tab] = tab]
    /\ calls' = Rest(k) \cup started
    /\ UNCHANGED <<tables, exported, doubt>>

(* The promise of the site is fulfilled, or its cache emptied.             *)
Resolve(k, site) ==
    LET tab == [tabs[k.tab] EXCEPT !.cache = site]
    IN  IF tab.hook = "loading"
        THEN Becomes(k, Ready(tab, site), LoadsFor(k.tab, tab, site))
        ELSE Becomes(k, tab, {})

(* Mutant: a site is created whether there is one or not. *)
HearSitesAndCreate(k) ==
    /\ k.kind = "listSites"
    /\ k.answer.status = "ok"
    /\ Becomes(k, tabs[k.tab], {New(k.tab, "createSite")})

HearSites(k) ==
    /\ k.kind = "listSites"
    /\ k.answer.status = "ok"
    /\ IF k.answer.ids = {}
       THEN Becomes(k, tabs[k.tab], {New(k.tab, "createSite")})
       ELSE Resolve(k, PickDefaultSiteId(k.answer.ids))

HearCreated(k) ==
    /\ k.kind = "createSite"
    /\ k.answer.status = "ok"
    /\ \E s \in k.answer.ids : Resolve(k, s)

SiteFailed(k) ==
    /\ k.kind \in SiteCalls
    /\ k.answer.status # "ok"
    /\ Becomes(k, [tabs[k.tab] EXCEPT
                      !.cache = None,
                      !.hook = IF @ = "loading" THEN "error" ELSE @], {})

HearList(k) ==
    /\ k.kind \in {"listSecrets", "search"}
    /\ Becomes(k, [tabs[k.tab] EXCEPT
                      !.list = IF k.answer.status = "ok"
                               THEN [@ EXCEPT !.status = "loaded",
                                              !.items = k.answer.ids]
                               ELSE [@ EXCEPT !.status = "error"]], {})

(* Reload of a password; the page shows nothing of it meanwhile.           *)
Reloads(k, view) ==
    /\ tabs' = [tabs EXCEPT ![k.tab].view = [view EXCEPT !.status = "loading"],
                            ![k.tab].form = Closed0]
    /\ calls' = Rest(k) \cup
           {[New(k.tab, "detail") EXCEPT !.secret = view.id]}
    /\ doubt' = doubt \ {k.tab}
    /\ Unserved

(* A reload also ends the deletion of a field that asked for it.           *)
HearDetail(k) ==
    LET view == [tabs[k.tab].view EXCEPT !.fieldBusy = FALSE]
    IN  /\ k.kind = "detail"
        /\ Becomes(k, [tabs[k.tab] EXCEPT
              !.view =
                CASE k.answer.status = "ok" ->
                         [view EXCEPT !.status = "loaded",
                                      !.body = k.answer.row.body]
                  [] k.answer.status = "notFound" ->
                         [view EXCEPT !.status = "missing"]
                  [] OTHER -> [view EXCEPT !.status = "error"]], {})

(* router.push("/") also of a page that has gone; on "/" it does nothing.  *)
PushToList(k) ==
    /\ IF tabs[k.tab].page = "list"
       THEN calls' = Rest(k) /\ UNCHANGED <<tabs, doubt>>
       ELSE Mount(k.tab, "list", None, tabs[k.tab].cache,
                  Left(k.tab) \ {k, [k EXCEPT !.live = FALSE]})
    /\ Unserved

HearSecretCreated(k) ==
    /\ k.kind = "createSecret"
    /\ k.answer.status = "ok"
    /\ PushToList(k)

HearSaved(k) ==
    /\ k.kind = "saveSecret"
    /\ k.live
    /\ k.answer.status = "ok"
    /\ Reloads(k, [tabs[k.tab].view EXCEPT !.mode = "view"])

(* Mutant: a failed save closes the form. *)
SaveFailedAndClosed(k) ==
    /\ k.kind \in {"createSecret", "saveSecret"}
    /\ k.live
    /\ k.answer.status # "ok"
    /\ Becomes(k, [tabs[k.tab] EXCEPT !.form = Closed0], {})

SaveFailed(k) ==
    /\ k.kind \in {"createSecret", "saveSecret"}
    /\ k.live
    /\ k.answer.status # "ok"
    /\ Becomes(k, [tabs[k.tab] EXCEPT !.form.step = "edit",
                                      !.form.submitting = FALSE], {})

HearDeleted(k) ==
    /\ k.kind = "deleteSecret"
    /\ k.answer.status = "ok"
    /\ PushToList(k)

DeleteFailed(k) ==
    /\ k.kind = "deleteSecret"
    /\ k.live
    /\ k.answer.status # "ok"
    /\ Becomes(k, [tabs[k.tab] EXCEPT !.view.deleting = FALSE], {})

HearFieldDeleted(k) ==
    /\ k.kind = "deleteField"
    /\ k.live
    /\ k.answer.status = "ok"
    /\ Reloads(k, tabs[k.tab].view)

DeleteFieldFailed(k) ==
    /\ k.kind = "deleteField"
    /\ k.live
    /\ k.answer.status # "ok"
    /\ Becomes(k, [tabs[k.tab] EXCEPT !.view.fieldBusy = FALSE], {})

(* The download starts even when the page has gone.                        *)
HearExport(k) ==
    /\ k.kind = "export"
    /\ exported' = IF k.answer.status = "ok" THEN k.answer.file ELSE exported
    /\ tabs' = IF k.live THEN [tabs EXCEPT ![k.tab].panel.busy = FALSE]
                ELSE tabs
    /\ calls' = Rest(k)
    /\ UNCHANGED <<tables, doubt>>

HearImport(k) ==
    /\ k.kind = "import"
    /\ k.live
    /\ Becomes(k, [tabs[k.tab] EXCEPT
                      !.panel.busy = FALSE,
                      !.panel.file = IF k.answer.status = "ok" THEN None
                                     ELSE @], {})

(* Nobody is there to hear.                                                *)
Ignore(k) ==
    /\ ~k.live
    /\ k.kind \notin SiteCalls \cup {"export"}
    /\ ~(/\ k.kind \in {"createSecret", "deleteSecret"}
         /\ k.answer.status = "ok")
    /\ Becomes(k, tabs[k.tab], {})

Deliver(k) ==
    /\ k.answer # None
    /\ \/ HearSites(k) \/ HearCreated(k) \/ SiteFailed(k) \/ HearList(k)
       \/ HearDetail(k) \/ HearSecretCreated(k) \/ HearSaved(k) \/ SaveFailed(k)
       \/ HearDeleted(k) \/ DeleteFailed(k) \/ HearFieldDeleted(k)
       \/ DeleteFieldFailed(k) \/ HearExport(k) \/ HearImport(k) \/ Ignore(k)

Next ==
    \/ \E t \in Tabs : Cardinality(calls) < MaxCalls /\ UserStep(t)
    \/ \E k \in calls : Serve(k) \/ Fail(k) \/ Lose(k) \/ Deliver(k)

(* Every call of a tab is answered: an axios timeout, at the latest.       *)
Answered(t, kind) ==
    \E k \in CallsOf(t) :
        k.kind = kind /\ (Serve(k) \/ Fail(k) \/ Deliver(k))

Fairness == \A t \in Tabs, kind \in Kinds : WF_vars(Answered(t, kind))

Spec == Init /\ [][Next]_vars /\ Fairness
=============================================================================
