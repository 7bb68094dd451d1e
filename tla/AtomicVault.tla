---------------------------- MODULE AtomicVault ----------------------------
(***************************************************************************)
(* What the vault API promises to its clients: a request acts on both      *)
(* tables at one moment between the call and the answer, or not at all.    *)
(* Only export and import read before they act: each table at a moment of  *)
(* its own, so an export may hold a secret without its site, and an import *)
(* decides what is a conflict on what it has read.                         *)
(*                                                                         *)
(* The API itself (module Vault) works in steps: it looks a site up before *)
(* it inserts, and an import is a transaction of many statements.          *)
(***************************************************************************)
EXTENDS VaultStore

VARIABLES
    sites,       \* table Site
    secrets,     \* table Secret
    calls        \* per call: its query, its answer, what it has read

vars == <<sites, secrets, calls>>

Call ==
    [query: Query \cup {None}, answer: Answer \cup {None},
     sitesRead: SiteTable \cup {None}, secretsRead: SecretTable \cup {None}]

Idle ==
    [query |-> None, answer |-> None, sitesRead |-> None, secretsRead |-> None]

Init ==
    /\ sites = [s \in Sites |-> None]
    /\ secrets = [x \in Secrets |-> None]
    /\ calls = [c \in Calls |-> Idle]

Invoke(c) ==
    /\ calls[c] = Idle
    /\ calls'[c].query \in Query
    /\ calls' = [calls EXCEPT ![c].query = calls'[c].query]
    /\ UNCHANGED <<sites, secrets>>

Return(c) ==
    /\ calls[c].answer # None
    /\ calls' = [calls EXCEPT ![c] = Idle]
    /\ UNCHANGED <<sites, secrets>>

Answers(c, answer) == calls' = [calls EXCEPT ![c].answer = answer]

Refuses(c, status) ==
    /\ Answers(c, Refusal(status))
    /\ UNCHANGED <<sites, secrets>>

ListSites(c) ==
    /\ Answers(c, Success(Ids(sites)))
    /\ UNCHANGED <<sites, secrets>>

CreateSite(c, q) ==
    \E s \in Sites \ Ids(sites), b \in Births :
        /\ Newborn(sites, b)
        /\ sites' = [sites EXCEPT ![s] = [label |-> q.label, born |-> b]]
        /\ UNCHANGED secrets
        /\ Answers(c, Success({s}))

UpdateSite(c, q) ==
    \/ /\ q.site \in Ids(sites)
       /\ sites' = [sites EXCEPT ![q.site].label = q.label]
       /\ UNCHANGED secrets
       /\ Answers(c, Success({q.site}))
    \/ q.site \notin Ids(sites) /\ Refuses(c, "notFound")

RemoveSite(c, q) ==
    \/ /\ q.site \in Ids(sites)
       /\ sites' = [sites EXCEPT ![q.site] = None]
       /\ secrets' = Cascade(secrets, q.site)
       /\ Answers(c, Success({}))
    \/ q.site \notin Ids(sites) /\ Refuses(c, "notFound")

(* A site that is gone has no secrets: the answer may say so, or be 404.   *)
ListSecrets(c, q) ==
    \/ /\ Answers(c, Success(SecretsOf(secrets, q.site)))
       /\ UNCHANGED <<sites, secrets>>
    \/ q.site \notin Ids(sites) /\ Refuses(c, "notFound")

ShowDetail(c, q) ==
    \/ /\ q.secret \in Ids(secrets)
       /\ Answers(c, Found(secrets[q.secret]))
       /\ UNCHANGED <<sites, secrets>>
    \/ q.secret \notin Ids(secrets) /\ Refuses(c, "notFound")

CreateSecret(c, q) ==
    \/ /\ q.site \in Ids(sites)
       /\ \E x \in Secrets \ Ids(secrets) :
              /\ secrets' = [secrets EXCEPT
                                ![x] = [site |-> q.site, body |-> q.body]]
              /\ Answers(c, Success({x}))
       /\ UNCHANGED sites
    \/ q.site \notin Ids(sites) /\ Refuses(c, "notFound")

UpdateSecret(c, q) ==
    \/ /\ q.secret \in Ids(secrets)
       /\ secrets' = [secrets EXCEPT ![q.secret].body = q.body]
       /\ UNCHANGED sites
       /\ Answers(c, Success({q.secret}))
    \/ q.secret \notin Ids(secrets) /\ Refuses(c, "notFound")

RemoveSecret(c, q) ==
    \/ /\ q.secret \in Ids(secrets)
       /\ secrets' = [secrets EXCEPT ![q.secret] = None]
       /\ UNCHANGED sites
       /\ Answers(c, Success({}))
    \/ q.secret \notin Ids(secrets) /\ Refuses(c, "notFound")

ReadSites(c) ==
    /\ calls[c].sitesRead = None
    /\ calls' = [calls EXCEPT ![c].sitesRead = sites]
    /\ UNCHANGED <<sites, secrets>>

ReadSecrets(c) ==
    /\ calls[c].secretsRead = None
    /\ calls' = [calls EXCEPT ![c].secretsRead = secrets]
    /\ UNCHANGED <<sites, secrets>>

HasRead(c) == calls[c].sitesRead # None /\ calls[c].secretsRead # None

Export(c) ==
    /\ HasRead(c)
    /\ Answers(c, Backup([sites |-> calls[c].sitesRead,
                          secrets |-> calls[c].secretsRead]))
    /\ UNCHANGED <<sites, secrets>>

Absent(rows, table) == Ids(rows) \cap Ids(table) = {}

(* All of an import or nothing.  "reject" finds none of the file's rows in *)
(* the tables, and "skip" none of those it took for new ones; "replace"    *)
(* leaves the tables with every row of the file.                           *)
Import(c, q) ==
    LET file == q.file
        freshSites == Fresh(file.sites, calls[c].sitesRead)
        freshSecrets == Fresh(file.secrets, calls[c].secretsRead)
        writes(newSites, newSecrets) ==
            /\ sites' = Overlay(sites, newSites)
            /\ secrets' = Overlay(secrets, newSecrets)
            /\ Answers(c, Success(Ids(newSites) \cup Ids(newSecrets)))
    IN  \/ ~Closed(file.sites, file.secrets) /\ Refuses(c, "invalid")
        \/ /\ HasRead(c)
           /\ q.mode = "reject"
           /\ \/ Conflicts(file.sites, calls[c].sitesRead) # {}
              \/ Conflicts(file.secrets, calls[c].secretsRead) # {}
           /\ Refuses(c, "conflict")
        \/ /\ HasRead(c)
           /\ Closed(file.sites, file.secrets)
           /\ \/ /\ q.mode = "reject"
                 /\ Absent(file.sites, sites)
                 /\ Absent(file.secrets, secrets)
                 /\ writes(file.sites, file.secrets)
              \/ /\ q.mode = "skip"
                 /\ Absent(freshSites, sites)
                 /\ Absent(freshSecrets, secrets)
                 /\ writes(freshSites, freshSecrets)
              \/ /\ q.mode = "replace"
                 /\ writes(Adopted(sites, file.sites), file.secrets)

(* A request may fail at any time (the database is away, a transaction     *)
(* takes too long), and then it has changed nothing.                       *)
Serve(c) ==
    LET q == calls[c].query
    IN  /\ q # None
        /\ calls[c].answer = None
        /\ \/ Refuses(c, "error")
           \/ q.op = "listSites" /\ ListSites(c)
           \/ q.op = "createSite" /\ CreateSite(c, q)
           \/ q.op = "updateSite" /\ UpdateSite(c, q)
           \/ q.op = "removeSite" /\ RemoveSite(c, q)
           \/ q.op = "listSecrets" /\ ListSecrets(c, q)
           \/ q.op = "detail" /\ ShowDetail(c, q)
           \/ q.op = "createSecret" /\ CreateSecret(c, q)
           \/ q.op = "updateSecret" /\ UpdateSecret(c, q)
           \/ q.op = "removeSecret" /\ RemoveSecret(c, q)
           \/ q.op \in {"export", "import"} /\ (ReadSites(c) \/ ReadSecrets(c))
           \/ q.op = "export" /\ Export(c)
           \/ q.op = "import" /\ Import(c, q)

Next == \E c \in Calls : Invoke(c) \/ Serve(c) \/ Return(c)

Spec == Init /\ [][Next]_vars
=============================================================================
