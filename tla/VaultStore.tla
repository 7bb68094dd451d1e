----------------------------- MODULE VaultStore -----------------------------
(***************************************************************************)
(* The two tables of the password vault, Site and Secret (schema.prisma),  *)
(* as operators on values, and the requests its API answers.               *)
(*                                                                         *)
(* A table maps an id to its row, or to None.  A backup file is a table of *)
(* sites and one of secrets, too.  A secret's label, iv, ciphertext and    *)
(* authTag are one value: the API writes all of them or, for the last      *)
(* three, refuses the request before it has an effect.                     *)
(***************************************************************************)
EXTENDS Integers, FiniteSets

CONSTANTS
    None,        \* null
    Calls,       \* requests that may be in flight at once
    Sites,       \* ids of rows of Site
    Secrets,     \* ids of rows of Secret
    Labels,      \* labels of sites
    Bodies,      \* contents of secrets
    LastBirth    \* bound: moments of creation

Births == 1..LastBirth
SiteRow == [label: Labels, born: Births]          \* born: createdAt
SecretRow == [site: Sites, body: Bodies]

SiteTable == [Sites -> SiteRow \cup {None}]
SecretTable == [Secrets -> SecretRow \cup {None}]

File == [sites: SiteTable, secrets: SecretTable]

-----------------------------------------------------------------------------
(* Tables.                                                                 *)

Ids(table) == {id \in DOMAIN table : table[id] # None}

Only(rows, ids) ==
    [id \in DOMAIN rows |-> IF id \in ids THEN rows[id] ELSE None]

(* A row is put into a table, or (None) taken out.                         *)
Put(table, id, row) == [table EXCEPT ![id] = row]

(* Rows of the second table in the place of those of the first.            *)
Overlay(table, rows) ==
    [id \in DOMAIN table |-> IF rows[id] # None THEN rows[id] ELSE table[id]]

SecretsOf(secretTable, s) ==
    {x \in Ids(secretTable) : secretTable[x].site = s}

(* The foreign key Secret.siteId.                                          *)
Closed(siteTable, secretTable) ==
    \A x \in Ids(secretTable) : secretTable[x].site \in Ids(siteTable)

(* Mutant: onDelete is not Cascade. *)
CascadeNothing(secretTable, s) == secretTable

(* onDelete: Cascade.                                                      *)
Cascade(secretTable, s) ==
    [x \in DOMAIN secretTable |->
        IF x \in SecretsOf(secretTable, s) THEN None ELSE secretTable[x]]

(* createdAt @default(now()): later than that of every row so far.         *)
Newborn(siteTable, b) == \A s \in Ids(siteTable) : siteTable[s].born < b

(* Site rows of a file that replace others: the columns that update() sets *)
(* come from the file, createdAt stays.                                    *)
Adopted(siteTable, rows) ==
    [s \in DOMAIN rows |->
        IF rows[s] # None /\ siteTable[s] # None
        THEN [label |-> rows[s].label, born |-> siteTable[s].born]
        ELSE rows[s]]

-----------------------------------------------------------------------------
(* Requests and answers.                                                   *)

Ops == {"listSites", "createSite", "updateSite", "removeSite", "listSecrets",
        "detail", "createSecret", "updateSecret", "removeSecret", "export",
        "import"}
Modes == {"reject", "skip", "replace"}

Query ==
    [op: Ops, site: Sites \cup {None}, secret: Secrets \cup {None},
     label: Labels \cup {None}, body: Bodies \cup {None},
     file: File \cup {None}, mode: Modes \cup {None}]

NoQuery ==
    [site |-> None, secret |-> None, label |-> None, body |-> None,
     file |-> None, mode |-> None]

Statuses == {"ok", "invalid", "notFound", "conflict", "error"}

(* ids: the rows listed, created or written.                               *)
Answer ==
    [status: Statuses, ids: SUBSET (Sites \cup Secrets),
     row: SecretRow \cup {None}, file: File \cup {None}]

Refusal(status) == [status |-> status, ids |-> {}, row |-> None, file |-> None]
Success(ids) == [status |-> "ok", ids |-> ids, row |-> None, file |-> None]
Found(row) == [status |-> "ok", ids |-> {}, row |-> row, file |-> None]
Backup(file) == [status |-> "ok", ids |-> {}, row |-> None, file |-> file]

(* Nothing that is there is null.                                          *)
ASSUME StoreAssumption ==
    /\ \A x \in Sites \cup Secrets \cup Labels \cup Bodies : x # None
    /\ \A x \in SiteRow \cup SecretRow : x # None
    /\ None \notin SiteTable \cup SecretTable \cup File
    /\ None \notin Query
    /\ None \notin Answer
    /\ LastBirth \in Nat \ {0}

(* The ids a file has in common with what an import has read.              *)
Conflicts(rows, read) == Ids(rows) \cap Ids(read)

(* The rows of a file that an import does not take for conflicts.          *)
Fresh(rows, read) == Only(rows, Ids(rows) \ Ids(read))
=============================================================================
