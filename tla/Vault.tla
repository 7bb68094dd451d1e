------------------------------- MODULE Vault -------------------------------
(***************************************************************************)
(* The password vault's API (apps/api/src/vault) over its two tables:      *)
(* requests of any clients, step by step, on a database that runs each     *)
(* statement on its own (READ COMMITTED).                                  *)
(*                                                                         *)
(* A statement outside a transaction takes effect at once.  What an import *)
(* has written so far is kept apart, in newSites and newSecrets, until it  *)
(* commits; the rows it has written, and the sites its secrets refer to,   *)
(* are locked, and a statement of another request that needs them waits.   *)
(***************************************************************************)
EXTENDS VaultStore

CONSTANT
    Queries      \* the requests that clients send

(* What the DTOs of the API let through: the fields an operation needs (an *)
(* update of nothing leaves its row as it is, and is left out).            *)
Complete(q) ==
    /\ q.op \in {"createSite", "updateSite"} => q.label # None
    /\ q.op \in {"createSecret", "updateSecret"} => q.body # None
    /\ q.op = "import" => q.file # None /\ q.mode # None

ASSUME QueriesAssumption ==
    /\ Queries \subseteq Query
    /\ \A q \in Queries : Complete(q)

VARIABLES
    sites,       \* table Site
    secrets,     \* table Secret
    requests     \* requests in flight

vars == <<sites, secrets, requests>>

Stages == {"idle", "called", "siteFound", "replaceSites", "replaceSecrets",
           "commit", "answered"}

Request ==
    [at: Stages, query: Query \cup {None}, answer: Answer \cup {None},
     sitesRead: SiteTable \cup {None}, secretsRead: SecretTable \cup {None},
     newSites: SiteTable, newSecrets: SecretTable]

NoSites == [s \in Sites |-> None]
NoSecrets == [x \in Secrets |-> None]

Idle ==
    [at |-> "idle", query |-> None, answer |-> None, sitesRead |-> None,
     secretsRead |-> None, newSites |-> NoSites, newSecrets |-> NoSecrets]

Init ==
    /\ sites = NoSites
    /\ secrets = NoSecrets
    /\ requests = [c \in Calls |-> Idle]

Op(c) == requests[c].query.op
Pending(c) == requests[c].at \notin {"idle", "answered"}

Send(c) ==
    /\ requests[c].at = "idle"
    /\ \E q \in Queries :
           requests' = [requests EXCEPT ![c] =
                           [Idle EXCEPT !.at = "called", !.query = q]]
    /\ UNCHANGED <<sites, secrets>>

Receive(c) ==
    /\ requests[c].at = "answered"
    /\ requests' = [requests EXCEPT ![c] = Idle]
    /\ UNCHANGED <<sites, secrets>>

(* Mutant: the rows of the transaction are left undefined. *)
AnsweredUndefined(r, answer) ==
    [r EXCEPT !.at = "answered", !.answer = answer,
              !.newSites = None, !.newSecrets = None]

(* The answer is on its way; what a transaction has not committed is gone. *)
Answered(r, answer) ==
    [at |-> "answered", query |-> r.query, answer |-> answer,
     sitesRead |-> r.sitesRead, secretsRead |-> r.secretsRead,
     newSites |-> NoSites, newSecrets |-> NoSecrets]

Answers(c, answer) ==
    requests' = [requests EXCEPT ![c] = Answered(@, answer)]

Refuses(c, status) ==
    /\ Answers(c, Refusal(status))
    /\ UNCHANGED <<sites, secrets>>

(* The database is away, a deadlock is broken, a transaction runs out of   *)
(* time: 500, and nothing is written.                                      *)
Abort(c) == Pending(c) /\ Refuses(c, "error")

-----------------------------------------------------------------------------
(* Locks, and ids.                                                         *)

Others(c) == Calls \ {c}

SiteWritten(c, s) == \E d \in Others(c) : requests[d].newSites[s] # None
SecretWritten(c, x) == \E d \in Others(c) : requests[d].newSecrets[x] # None

(* FOR KEY SHARE on the site a new foreign key refers to.                  *)
SiteReferred(c, s) == \E d \in Others(c) : s \in {requests[d].newSecrets[x].site :
                                        x \in Ids(requests[d].newSecrets)}

(* cuid(): a new id is on no row, in no file and in no request.            *)
Unknown(id) ==
    /\ \A q \in Queries : q.file # None =>
           id \notin Ids(q.file.sites) \cup Ids(q.file.secrets)
    /\ \A c \in Calls :
           /\ id \notin Ids(requests[c].newSites) \cup Ids(requests[c].newSecrets)
           /\ Pending(c) => id \notin {requests[c].query.site,
                                       requests[c].query.secret}

-----------------------------------------------------------------------------
(* Sites.                                                                  *)

ListSites(c) ==
    /\ requests[c].at = "called"
    /\ Op(c) = "listSites"
    /\ Answers(c, Success(Ids(sites)))
    /\ UNCHANGED <<sites, secrets>>

CreateSite(c) ==
    /\ requests[c].at = "called"
    /\ Op(c) = "createSite"
    /\ \E s \in Sites \ Ids(sites), b \in Births :
           /\ Unknown(s)
           /\ Newborn(sites, b)
           /\ sites' = [sites EXCEPT ![s] =
                           [label |-> requests[c].query.label, born |-> b]]
           /\ Answers(c, Success({s}))
    /\ UNCHANGED secrets

UpdateSite(c) ==
    LET s == requests[c].query.site
    IN  /\ requests[c].at = "called"
        /\ Op(c) = "updateSite"
        /\ \/ /\ s \in Ids(sites)
              /\ ~SiteWritten(c, s)
              /\ sites' = [sites EXCEPT ![s] =
                              [@ EXCEPT !.label = requests[c].query.label]]
              /\ Answers(c, Success({s}))
              /\ UNCHANGED secrets
           \/ s \notin Ids(sites) /\ Refuses(c, "notFound")

(* The foreign key takes the site's secrets with it.                       *)
RemoveSite(c) ==
    LET s == requests[c].query.site
    IN  /\ requests[c].at = "called"
        /\ Op(c) = "removeSite"
        /\ \/ /\ s \in Ids(sites)
              /\ ~SiteWritten(c, s)
              /\ ~SiteReferred(c, s)
              /\ \A x \in SecretsOf(secrets, s) : ~SecretWritten(c, x)
              /\ sites' = [sites EXCEPT ![s] = None]
              /\ secrets' = Cascade(secrets, s)
              /\ Answers(c, Success({}))
           \/ s \notin Ids(sites) /\ Refuses(c, "notFound")

-----------------------------------------------------------------------------
(* Secrets.                                                                *)

(* ensureSite() is a query of its own, before the one that does the work.  *)
EnsureSite(c) ==
    /\ requests[c].at = "called"
    /\ Op(c) \in {"listSecrets", "createSecret"}
    /\ \/ /\ requests[c].query.site \in Ids(sites)
          /\ requests' = [requests EXCEPT ![c] = [@ EXCEPT !.at = "siteFound"]]
          /\ UNCHANGED <<sites, secrets>>
       \/ requests[c].query.site \notin Ids(sites) /\ Refuses(c, "notFound")

ListBySite(c) ==
    /\ requests[c].at = "siteFound"
    /\ Op(c) = "listSecrets"
    /\ Answers(c, Success(SecretsOf(secrets, requests[c].query.site)))
    /\ UNCHANGED <<sites, secrets>>

ShowDetail(c) ==
    LET x == requests[c].query.secret
    IN  /\ requests[c].at = "called"
        /\ Op(c) = "detail"
        /\ \/ /\ x \in Ids(secrets)
              /\ Answers(c, Found(secrets[x]))
              /\ UNCHANGED <<sites, secrets>>
           \/ x \notin Ids(secrets) /\ Refuses(c, "notFound")

(* The site may be gone by now: the foreign key refuses the row (P2003).   *)
CreateSecret(c) ==
    LET s == requests[c].query.site
    IN  /\ requests[c].at = "siteFound"
        /\ Op(c) = "createSecret"
        /\ \/ /\ s \in Ids(sites)
              /\ \E x \in Secrets \ Ids(secrets) :
                     /\ Unknown(x)
                     /\ secrets' = [secrets EXCEPT ![x] =
                                       [site |-> s,
                                        body |-> requests[c].query.body]]
                     /\ Answers(c, Success({x}))
              /\ UNCHANGED sites
           \/ s \notin Ids(sites) /\ Refuses(c, "error")

UpdateSecret(c) ==
    LET x == requests[c].query.secret
    IN  /\ requests[c].at = "called"
        /\ Op(c) = "updateSecret"
        /\ \/ /\ x \in Ids(secrets)
              /\ ~SecretWritten(c, x)
              /\ secrets' = [secrets EXCEPT ![x] =
                                [@ EXCEPT !.body = requests[c].query.body]]
              /\ Answers(c, Success({x}))
              /\ UNCHANGED sites
           \/ x \notin Ids(secrets) /\ Refuses(c, "notFound")

RemoveSecret(c) ==
    LET x == requests[c].query.secret
    IN  /\ requests[c].at = "called"
        /\ Op(c) = "removeSecret"
        /\ \/ /\ x \in Ids(secrets)
              /\ ~SecretWritten(c, x)
              /\ secrets' = [secrets EXCEPT ![x] = None]
              /\ Answers(c, Success({}))
              /\ UNCHANGED sites
           \/ x \notin Ids(secrets) /\ Refuses(c, "notFound")
-----------------------------------------------------------------------------
(* Export and import.                                                      *)

FileClosed(c) ==
    LET file == requests[c].query.file
    IN  file # None => Closed(file.sites, file.secrets)

(* The two reads of an export are sent together, on connections of their   *)
(* own; those of an import follow each other in its transaction.           *)
ReadSites(c) ==
    /\ requests[c].at = "called"
    /\ Op(c) \in {"export", "import"}
    /\ FileClosed(c)
    /\ requests[c].sitesRead = None
    /\ requests' = [requests EXCEPT ![c] = [@ EXCEPT !.sitesRead = sites]]
    /\ UNCHANGED <<sites, secrets>>

ReadSecrets(c) ==
    /\ requests[c].at = "called"
    /\ Op(c) \in {"export", "import"}
    /\ Op(c) = "import" => requests[c].sitesRead # None
    /\ requests[c].secretsRead = None
    /\ requests' = [requests EXCEPT ![c] = [@ EXCEPT !.secretsRead = secrets]]
    /\ UNCHANGED <<sites, secrets>>

HasRead(c) == requests[c].sitesRead # None /\ requests[c].secretsRead # None

Export(c) ==
    /\ requests[c].at = "called"
    /\ Op(c) = "export"
    /\ HasRead(c)
    /\ Answers(c, Backup([sites |-> requests[c].sitesRead,
                          secrets |-> requests[c].secretsRead]))
    /\ UNCHANGED <<sites, secrets>>

RefuseOpenFile(c) ==
    /\ requests[c].at = "called"
    /\ Op(c) = "import"
    /\ ~FileClosed(c)
    /\ Refuses(c, "invalid")

SiteConflicts(c) == Conflicts(requests[c].query.file.sites, requests[c].sitesRead)
SecretConflicts(c) ==
    Conflicts(requests[c].query.file.secrets, requests[c].secretsRead)

NewSites(c) == Fresh(requests[c].query.file.sites, requests[c].sitesRead)
NewSecrets(c) ==
    Fresh(requests[c].query.file.secrets, requests[c].secretsRead)

DecideImport(c) ==
    LET conflict == SiteConflicts(c) # {} \/ SecretConflicts(c) # {}
    IN  /\ requests[c].at = "called"
        /\ Op(c) = "import"
        /\ HasRead(c)
        /\ \/ /\ requests[c].query.mode = "reject"
              /\ conflict
              /\ Refuses(c, "conflict")
           \/ /\ requests[c].query.mode = "reject" => ~conflict
              /\ requests' = [requests EXCEPT ![c] =
                                 [@ EXCEPT !.at = "replaceSites"]]
              /\ UNCHANGED <<sites, secrets>>

(* Mutant: the updates of an import run outside its transaction. *)
ReplaceSiteDirectly(c) ==
    /\ requests[c].at = "replaceSites"
    /\ requests[c].query.mode # "skip"
    /\ \E s \in SiteConflicts(c) \ Ids(requests[c].newSites) :
           \/ /\ s \in Ids(sites)
              /\ ~SiteWritten(c, s)
              /\ sites' = [sites EXCEPT ![s] =
                              Adopted(sites, requests[c].query.file.sites)[s]]
              /\ requests' = [requests EXCEPT ![c] =
                     [requests[c] EXCEPT !.newSites =
                         Put(requests[c].newSites, s,
                             Adopted(sites, requests[c].query.file.sites)[s])]]
              /\ UNCHANGED secrets
           \/ s \notin Ids(sites) /\ Refuses(c, "error")

(* One update per conflict; a row that is gone rolls all back (P2025).     *)
ReplaceSite(c) ==
    /\ requests[c].at = "replaceSites"
    /\ requests[c].query.mode # "skip"
    /\ \E s \in SiteConflicts(c) \ Ids(requests[c].newSites) :
           \/ /\ s \in Ids(sites)
              /\ ~SiteWritten(c, s)
              /\ requests' = [requests EXCEPT ![c] =
                     [requests[c] EXCEPT !.newSites =
                         Put(requests[c].newSites, s,
                             Adopted(sites, requests[c].query.file.sites)[s])]]
              /\ UNCHANGED <<sites, secrets>>
           \/ s \notin Ids(sites) /\ Refuses(c, "error")

SitesReplaced(c) ==
    \/ requests[c].query.mode = "skip"
    \/ SiteConflicts(c) \subseteq Ids(requests[c].newSites)

(* One statement for all new rows; a taken id rolls all back (P2002).      *)
CreateSites(c) ==
    /\ requests[c].at = "replaceSites"
    /\ SitesReplaced(c)
    /\ \/ /\ \A s \in Ids(NewSites(c)) : s \notin Ids(sites) /\ ~SiteWritten(c, s)
          /\ requests' = [requests EXCEPT ![c] =
                 [requests[c] EXCEPT
                     !.at = "replaceSecrets",
                     !.newSites = Overlay(requests[c].newSites, NewSites(c))]]
          /\ UNCHANGED <<sites, secrets>>
       \/ /\ \E s \in Ids(NewSites(c)) : s \in Ids(sites)
          /\ Refuses(c, "error")

(* The foreign key of a row the transaction writes.                        *)
Refers(c, s) == s \in Ids(sites) \cup Ids(requests[c].newSites)

ReplaceSecret(c) ==
    LET file == requests[c].query.file
    IN  /\ requests[c].at = "replaceSecrets"
        /\ requests[c].query.mode # "skip"
        /\ \E x \in SecretConflicts(c) \ Ids(requests[c].newSecrets) :
               \/ /\ x \in Ids(secrets)
                  /\ ~SecretWritten(c, x)
                  /\ Refers(c, file.secrets[x].site)
                  /\ requests' = [requests EXCEPT ![c] =
                         [requests[c] EXCEPT !.newSecrets =
                             Put(requests[c].newSecrets, x, file.secrets[x])]]
                  /\ UNCHANGED <<sites, secrets>>
               \/ /\ \/ x \notin Ids(secrets)
                     \/ ~Refers(c, file.secrets[x].site)
                  /\ Refuses(c, "error")

SecretsReplaced(c) ==
    \/ requests[c].query.mode = "skip"
    \/ SecretConflicts(c) \subseteq Ids(requests[c].newSecrets)

CreateSecrets(c) ==
    LET new == NewSecrets(c)
    IN  /\ requests[c].at = "replaceSecrets"
        /\ SecretsReplaced(c)
        /\ \/ /\ \A x \in Ids(new) : /\ x \notin Ids(secrets)
                                     /\ ~SecretWritten(c, x)
                                     /\ Refers(c, new[x].site)
              /\ requests' = [requests EXCEPT ![c] =
                     [requests[c] EXCEPT
                         !.at = "commit",
                         !.newSecrets = Overlay(requests[c].newSecrets, new)]]
              /\ UNCHANGED <<sites, secrets>>
           \/ /\ \E x \in Ids(new) : \/ x \in Ids(secrets)
                                     \/ ~Refers(c, new[x].site)
              /\ Refuses(c, "error")

Commit(c) ==
    /\ requests[c].at = "commit"
    /\ sites' = Overlay(sites, requests[c].newSites)
    /\ secrets' = Overlay(secrets, requests[c].newSecrets)
    /\ Answers(c, Success(Ids(requests[c].newSites)
                          \cup Ids(requests[c].newSecrets)))

-----------------------------------------------------------------------------
Import(c) ==
    \/ RefuseOpenFile(c)
    \/ DecideImport(c)
    \/ ReplaceSite(c)
    \/ CreateSites(c)
    \/ ReplaceSecret(c)
    \/ CreateSecrets(c)
    \/ Commit(c)

Step(c) ==
    \/ Abort(c)
    \/ ListSites(c) \/ CreateSite(c) \/ UpdateSite(c) \/ RemoveSite(c)
    \/ EnsureSite(c) \/ ListBySite(c) \/ ShowDetail(c) \/ CreateSecret(c)
    \/ UpdateSecret(c) \/ RemoveSecret(c)
    \/ ReadSites(c) \/ ReadSecrets(c) \/ Export(c)
    \/ Import(c)

Next == \E c \in Calls : Send(c) \/ Step(c) \/ Receive(c)

Spec == Init /\ [][Next]_vars
=============================================================================
