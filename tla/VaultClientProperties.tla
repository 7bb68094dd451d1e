----------------------- MODULE VaultClientProperties -----------------------
(* What the pages of the vault promise their user.                         *)
EXTENDS VaultClient

(* Every variable keeps its shape; no password is stored without a title   *)
(* or with a field name twice (SecretForm.tsx:94-106).                     *)
TypeOK ==
    /\ sites \in SiteTable
    /\ secrets \in SecretTable
    /\ tabs \in [Tabs -> Tab]
    /\ calls \subseteq Call
    /\ exported \in File \cup {None}
    /\ doubt \subseteq Tabs

(* A tab has no call in flight, and none of its writes, nor those of       *)
(* another tab, went unheard since it last loaded.                         *)
Settled(t) == CallsOf(t) = {} /\ t \notin doubt

Matching(list, site) ==
    IF list.query = None THEN SecretsOf(secrets, site)
    ELSE {x \in Ids(secrets) : secrets[x].body.title = list.query}

(* A settled page shows what the database holds: the list is that of the   *)
(* query in the search box, whatever order the answers came in             *)
(* (EntriesScreen.tsx:36-55), and a password is as it was written last     *)
(* ([id]/page.tsx:48-129).                                                 *)
ShownIsCurrent ==
    \A t \in Tabs :
        LET list == tabs[t].list
            view == tabs[t].view
        IN  Settled(t) =>
                /\ list.status = "loaded" =>
                       list.items = Matching(list, tabs[t].hook)
                /\ view.status = "loaded" =>
                       /\ view.id \in Ids(secrets)
                       /\ view.body = secrets[view.id].body
                /\ view.status = "missing" => view.id \notin Ids(secrets)

(* The site that a page uses holds every password: the list hides none of  *)
(* them (default-site.ts:5-7, use-default-site.ts:13-14).                  *)
NothingHidden ==
    \A t \in Tabs :
        Settled(t) /\ tabs[t].hook \in Sites =>
            \A x \in Ids(secrets) : secrets[x].site = tabs[t].hook

SavesOf(t) ==
    {k \in CallsOf(t) : k.kind \in {"createSecret", "saveSecret"}}

(* The form of a save as it was, to be sent again, or a password of its    *)
(* content.                                                                *)
KeptOrStored(t) ==
    LET form == tabs[t].form
    IN  \/ tabs'[t].form = [form EXCEPT !.step = "edit", !.submitting = FALSE]
        \/ \E x \in Ids(secrets) :
               secrets[x].body = [title |-> form.draft.title,
                                  fields |-> Named(form.draft.rows)]

SavesEndWell ==
    \A t \in Tabs :
        tabs[t].form.submitting /\ SavesOf(t) # {} /\ SavesOf(t)' = {} =>
            KeptOrStored(t)

(* The end of a save leaves the user either with the form and all that was *)
(* typed into it, or with a password of that content in the database       *)
(* (SecretForm.tsx:146-151).                                               *)
NoDraftLost == [][SavesEndWell]_vars

(* What the user waits for comes to an end, well or not.                   *)
Waits == {"site", "password", "save", "delete", "deleteField", "backup"}

Awaits(t, wait) ==
    CASE wait = "site" -> tabs[t].hook = "loading"
      [] wait = "password" -> tabs[t].view.status = "loading"
      [] wait = "save" -> tabs[t].form.submitting
      [] wait = "delete" -> tabs[t].view.deleting
      [] wait = "deleteField" -> tabs[t].view.fieldBusy
      [] wait = "backup" -> tabs[t].panel.busy

BusyEnds ==
    \A t \in Tabs, wait \in Waits : Awaits(t, wait) ~> ~Awaits(t, wait)
=============================================================================
