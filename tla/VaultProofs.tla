---------------------------- MODULE VaultProofs ----------------------------
(***************************************************************************)
(* Proofs about the vault API, for any number of requests in flight, sites *)
(* and secrets, and for any requests that clients may send.                *)
(***************************************************************************)
EXTENDS VaultProperties, TLAPS

Importing == {"replaceSites", "replaceSecrets", "commit"}

(* Where a request stands.                                                 *)
Staged(r) ==
    /\ r.at = "idle" => /\ r.query = None
                        /\ r.answer = None
                        /\ r.sitesRead = None
                        /\ r.secretsRead = None
    /\ r.at # "idle" => r.query \in Queries
    /\ r.at = "answered" <=> r.answer # None
    /\ r.at \notin Importing => r.newSites = NoSites
    /\ r.at \notin {"replaceSecrets", "commit"} => r.newSecrets = NoSecrets

(* An import reads its tables only if its file is closed, and goes on only *)
(* if its mode allows for the conflicts it has found.                      *)
Admitted(r) ==
    LET file == r.query.file
    IN  /\ r.at = "called" /\ r.sitesRead # None /\ r.query.op = "import" =>
               Closed(file.sites, file.secrets)
        /\ r.at \in Importing =>
               /\ r.query.op = "import"
               /\ r.sitesRead # None
               /\ r.secretsRead # None
               /\ Closed(file.sites, file.secrets)
               /\ r.query.mode = "reject" =>
                      /\ Conflicts(file.sites, r.sitesRead) = {}
                      /\ Conflicts(file.secrets, r.secretsRead) = {}

(* The rows of the file an import is to write.                             *)
Due(r, rows, read) ==
    IF r.query.mode = "skip" THEN Ids(rows) \ Ids(read) ELSE Ids(rows)

(* The rows it has written so far.                                         *)
Written(r) ==
    LET file == r.query.file
    IN  r.at \in Importing =>
            /\ Ids(r.newSites) \subseteq Due(r, file.sites, r.sitesRead)
            /\ r.at # "replaceSites" =>
                   Ids(r.newSites) = Due(r, file.sites, r.sitesRead)
            /\ r.at = "replaceSites" =>
                   Ids(r.newSites) \subseteq Ids(r.sitesRead)
            /\ Ids(r.newSecrets) \subseteq Due(r, file.secrets, r.secretsRead)
            /\ r.at = "replaceSecrets" =>
                   Ids(r.newSecrets) \subseteq Ids(r.secretsRead)
            /\ r.at = "commit" =>
                   Ids(r.newSecrets) = Due(r, file.secrets, r.secretsRead)

(* What it will leave in the tables when it commits now.                   *)
Fits(r, siteTable, secretTable) ==
    LET file == r.query.file
    IN  r.at \in Importing =>
            /\ \A s \in Ids(r.newSites) :
                   /\ r.newSites[s] = Adopted(siteTable, file.sites)[s]
                   /\ s \in Ids(siteTable) <=> s \in Ids(r.sitesRead)
            /\ \A x \in Ids(r.newSecrets) :
                   /\ r.newSecrets[x] = file.secrets[x]
                   /\ x \in Ids(secretTable) <=> x \in Ids(r.secretsRead)
                   /\ r.newSecrets[x].site \in Ids(siteTable) \cup Ids(r.newSites)

Sound(r) == Staged(r) /\ Admitted(r) /\ Written(r)

(* Row locks: no two imports hold the same row before they commit.         *)
ImportsApart ==
    \A c, d \in Calls : c # d =>
        /\ Ids(requests[c].newSites) \cap Ids(requests[d].newSites) = {}
        /\ Ids(requests[c].newSecrets) \cap Ids(requests[d].newSecrets) = {}

(* The inductive invariant: TypeOK, the promise about the foreign key, the *)
(* row locks that keep imports apart, and why it survives a commit.         *)
Inv ==
    /\ TypeOK
    /\ EverySecretHasItsSite
    /\ ImportsApart
    /\ \A c \in Calls : Sound(requests[c]) /\ Fits(requests[c], sites, secrets)

-----------------------------------------------------------------------------
(* Types.                                                                  *)

LEMMA NoRows == NoSites \in SiteTable /\ NoSecrets \in SecretTable
BY DEF NoSites, NoSecrets, SiteTable, SecretTable

LEMMA IdsOfTables ==
    /\ \A rows \in SiteTable : Ids(rows) = {s \in Sites : rows[s] # None}
    /\ \A rows \in SecretTable : Ids(rows) = {x \in Secrets : rows[x] # None}
    /\ Ids(NoSites) = {}
    /\ Ids(NoSecrets) = {}
BY DEF Ids, SiteTable, SecretTable, NoSites, NoSecrets

LEMMA IdleType == Idle \in Request
<1>1. Stages = {"idle", "called", "siteFound", "replaceSites", "replaceSecrets",
                "commit", "answered"}
  BY DEF Stages
<1>2. QED
  BY <1>1, NoRows DEF Idle, Request

LEMMA AnsweredType ==
    ASSUME NEW r \in Request, NEW a \in Answer
    PROVE  Answered(r, a) \in Request
<1>1. "answered" \in Stages
  BY DEF Stages
<1>2. QED
  BY <1>1, NoRows DEF Answered, Request

LEMMA AnswerTypes ==
    /\ \A status \in Statuses : Refusal(status) \in Answer
    /\ \A ids \in SUBSET (Sites \cup Secrets) : Success(ids) \in Answer
    /\ \A row \in SecretRow : Found(row) \in Answer
    /\ \A file \in File : Backup(file) \in Answer
<1>1. "ok" \in Statuses
  BY DEF Statuses
<1>2. QED
  BY <1>1 DEF Answer, Refusal, Success, Found, Backup

LEMMA NoAnswer == \A a \in Answer : a # None
BY StoreAssumption

-----------------------------------------------------------------------------
(* What another request leaves of the rows an import has written.          *)

Keeps(r, siteTable, secretTable, siteTable2, secretTable2) ==
    r.at \in Importing =>
        /\ \A s \in Ids(r.newSites) :
               /\ s \in Ids(siteTable2) <=> s \in Ids(siteTable)
               /\ s \in Ids(siteTable) => siteTable2[s].born = siteTable[s].born
        /\ \A x \in Ids(r.newSecrets) :
               /\ x \in Ids(secretTable2) <=> x \in Ids(secretTable)
               /\ r.newSecrets[x].site \in Ids(siteTable) =>
                      r.newSecrets[x].site \in Ids(siteTable2)

LEMMA ImportFile ==
    ASSUME NEW q \in Queries, q.op = "import"
    PROVE  /\ q.file \in File
           /\ q.mode \in Modes
           /\ q.file.sites \in SiteTable
           /\ q.file.secrets \in SecretTable
<1>1. q \in Query /\ Complete(q)
  BY QueriesAssumption
<1>2. q.file \in File \cup {None} /\ q.mode \in Modes \cup {None}
  BY <1>1 DEF Query
<1>3. q.file \in File /\ q.mode \in Modes
  BY <1>1, <1>2 DEF Complete
<1>4. QED
  BY <1>3 DEF File

LEMMA ImportingFile ==
    ASSUME NEW r \in Request, Sound(r), r.at \in Importing
    PROVE  /\ r.query \in Queries
           /\ r.query.op = "import"
           /\ r.query.mode \in Modes
           /\ r.query.file \in File
           /\ r.query.file.sites \in SiteTable
           /\ r.query.file.secrets \in SecretTable
           /\ r.sitesRead \in SiteTable
           /\ r.secretsRead \in SecretTable
           /\ r.newSites \in SiteTable
           /\ r.newSecrets \in SecretTable
<1>1. r.at # "idle"
  BY DEF Importing
<1>2. r.query \in Queries
  BY <1>1 DEF Sound, Staged
<1>3. r.query.op = "import" /\ r.sitesRead # None /\ r.secretsRead # None
  BY DEF Sound, Admitted
<1>4. r.sitesRead \in SiteTable /\ r.secretsRead \in SecretTable
  BY <1>3 DEF Request
<1>5. r.newSites \in SiteTable /\ r.newSecrets \in SecretTable
  BY DEF Request
<1>6. QED
  BY <1>2, <1>3, <1>4, <1>5, ImportFile

LEMMA AdoptedRow ==
    ASSUME NEW siteTable \in SiteTable, NEW rows \in SiteTable, NEW s \in Sites
    PROVE  /\ Adopted(siteTable, rows) \in SiteTable
           /\ rows[s] # None /\ siteTable[s] # None =>
                  Adopted(siteTable, rows)[s] =
                      [label |-> rows[s].label, born |-> siteTable[s].born]
           /\ rows[s] = None \/ siteTable[s] = None =>
                  Adopted(siteTable, rows)[s] = rows[s]
           /\ s \in Ids(Adopted(siteTable, rows)) <=> s \in Ids(rows)
<1>1. DOMAIN rows = Sites
  BY DEF SiteTable
<1>2. \A t \in Sites : Adopted(siteTable, rows)[t] =
          IF rows[t] # None /\ siteTable[t] # None
          THEN [label |-> rows[t].label, born |-> siteTable[t].born]
          ELSE rows[t]
  BY <1>1 DEF Adopted
<1>3. \A t \in Sites : Adopted(siteTable, rows)[t] \in SiteRow \cup {None}
  <2>1. ASSUME NEW t \in Sites, rows[t] # None, siteTable[t] # None
        PROVE  [label |-> rows[t].label, born |-> siteTable[t].born] \in SiteRow
    BY <2>1 DEF SiteTable, SiteRow
  <2>2. \A t \in Sites : rows[t] \in SiteRow \cup {None}
    BY DEF SiteTable
  <2>3. QED
    BY <1>2, <2>1, <2>2
<1>4. Adopted(siteTable, rows) \in SiteTable
  <2>1. Adopted(siteTable, rows) =
            [t \in Sites |-> Adopted(siteTable, rows)[t]]
    BY <1>1 DEF Adopted
  <2>2. QED
    BY <1>3, <2>1 DEF SiteTable
<1>5. s \in Ids(Adopted(siteTable, rows)) <=> s \in Ids(rows)
  <2>1. rows[s] # None /\ siteTable[s] # None =>
            [label |-> rows[s].label, born |-> siteTable[s].born] # None
    BY StoreAssumption DEF SiteTable, SiteRow
  <2>2. Adopted(siteTable, rows)[s] # None <=> rows[s] # None
    BY <1>2, <2>1
  <2>3. s \in Ids(rows) <=> rows[s] # None
    BY IdsOfTables
  <2>4. s \in Ids(Adopted(siteTable, rows)) <=> Adopted(siteTable, rows)[s] # None
    BY <1>4, IdsOfTables
  <2>5. QED
    BY <2>2, <2>3, <2>4
<1>6. QED
  BY <1>2, <1>4, <1>5

LEMMA FitsKept ==
    ASSUME NEW r \in Request, Sound(r),
           NEW siteTable \in SiteTable, NEW siteTable2 \in SiteTable,
           NEW secretTable \in SecretTable, NEW secretTable2 \in SecretTable,
           Fits(r, siteTable, secretTable),
           Keeps(r, siteTable, secretTable, siteTable2, secretTable2)
    PROVE  Fits(r, siteTable2, secretTable2)
<1> SUFFICES ASSUME r.at \in Importing
             PROVE  Fits(r, siteTable2, secretTable2)
  BY DEF Fits
<1> DEFINE file == r.query.file
<1>1. file.sites \in SiteTable /\ r.newSites \in SiteTable
  BY ImportingFile
<1>2. ASSUME NEW s \in Ids(r.newSites)
      PROVE  /\ r.newSites[s] = Adopted(siteTable2, file.sites)[s]
             /\ s \in Ids(siteTable2) <=> s \in Ids(r.sitesRead)
  <2>1. s \in Sites
    BY <1>1, IdsOfTables
  <2>2. /\ r.newSites[s] = Adopted(siteTable, file.sites)[s]
        /\ s \in Ids(siteTable) <=> s \in Ids(r.sitesRead)
    BY DEF Fits
  <2>3. /\ s \in Ids(siteTable2) <=> s \in Ids(siteTable)
        /\ s \in Ids(siteTable) => siteTable2[s].born = siteTable[s].born
    BY DEF Keeps
  <2>4. /\ siteTable2[s] = None <=> siteTable[s] = None
        /\ siteTable[s] # None => siteTable2[s].born = siteTable[s].born
    BY <2>1, <2>3, IdsOfTables
  <2>5. Adopted(siteTable2, file.sites)[s] = Adopted(siteTable, file.sites)[s]
    <3>1. CASE file.sites[s] = None \/ siteTable[s] = None
      <4>1. /\ Adopted(siteTable, file.sites)[s] = file.sites[s]
            /\ Adopted(siteTable2, file.sites)[s] = file.sites[s]
        BY <1>1, <2>1, <2>4, <3>1, AdoptedRow
      <4>2. QED
        BY <4>1
    <3>2. CASE file.sites[s] # None /\ siteTable[s] # None
      <4>1. /\ Adopted(siteTable, file.sites)[s] =
                   [label |-> file.sites[s].label, born |-> siteTable[s].born]
            /\ Adopted(siteTable2, file.sites)[s] =
                   [label |-> file.sites[s].label, born |-> siteTable2[s].born]
        BY <1>1, <2>1, <2>4, <3>2, AdoptedRow
      <4>2. QED
        BY <2>4, <3>2, <4>1
    <3>3. QED
      BY <3>1, <3>2
  <2>6. QED
    BY <2>2, <2>3, <2>5
<1>3. ASSUME NEW x \in Ids(r.newSecrets)
      PROVE  /\ r.newSecrets[x] = file.secrets[x]
             /\ x \in Ids(secretTable2) <=> x \in Ids(r.secretsRead)
             /\ r.newSecrets[x].site \in Ids(siteTable2) \cup Ids(r.newSites)
  BY DEF Fits, Keeps
<1>4. QED
  BY <1>2, <1>3 DEF Fits

-----------------------------------------------------------------------------
(* The shape of every step: one request moves on, the others lose nothing. *)

Apart(q, r) ==
    /\ Ids(q.newSites) \cap Ids(r.newSites) = {}
    /\ Ids(q.newSecrets) \cap Ids(r.newSecrets) = {}

LEMMA Moved ==
    ASSUME TypeOK, NEW c \in Calls, NEW q \in Request,
           requests' = [requests EXCEPT ![c] = q]
    PROVE  /\ requests' \in [Calls -> Request]
           /\ requests'[c] = q
           /\ \A d \in Calls \ {c} : requests'[d] = requests[d]
BY DEF TypeOK

LEMMA StepKeepsInv ==
    ASSUME Inv, NEW c \in Calls, NEW q \in Request,
           requests' = [requests EXCEPT ![c] = q],
           sites' \in SiteTable, secrets' \in SecretTable,
           Closed(sites', secrets'),
           Sound(q), Fits(q, sites', secrets'),
           \A d \in Calls \ {c} :
               /\ Apart(q, requests[d])
               /\ Keeps(requests[d], sites, secrets, sites', secrets')
    PROVE  Inv'
<1>1. /\ requests' \in [Calls -> Request]
      /\ requests'[c] = q
      /\ \A d \in Calls \ {c} : requests'[d] = requests[d]
  BY Moved DEF Inv
<1>2. TypeOK'
  BY <1>1 DEF TypeOK
<1>3. EverySecretHasItsSite'
  BY DEF EverySecretHasItsSite
<1>4. ImportsApart'
  <2> SUFFICES ASSUME NEW d \in Calls, NEW e \in Calls, d # e
               PROVE  Apart(requests'[d], requests'[e])
    BY DEF ImportsApart, Apart
  <2>1. CASE d # c /\ e # c
    BY <1>1, <2>1 DEF Inv, ImportsApart, Apart
  <2>2. CASE d = c
    BY <1>1, <2>2
  <2>3. CASE e = c
    BY <1>1, <2>3 DEF Apart
  <2>4. QED
    BY <2>1, <2>2, <2>3
<1>5. ASSUME NEW d \in Calls
      PROVE  Sound(requests'[d]) /\ Fits(requests'[d], sites', secrets')
  <2>1. CASE d = c
    BY <1>1, <2>1
  <2>2. CASE d # c
    <3>1. requests'[d] = requests[d] /\ requests[d] \in Request
      BY <1>1, <2>2 DEF Inv, TypeOK
    <3>2. Sound(requests[d]) /\ Fits(requests[d], sites, secrets)
      BY DEF Inv
    <3>3. Keeps(requests[d], sites, secrets, sites', secrets')
      BY <2>2
    <3>4. sites \in SiteTable /\ secrets \in SecretTable
      BY DEF Inv, TypeOK
    <3>5. Fits(requests[d], sites', secrets')
      BY <3>1, <3>2, <3>3, <3>4, FitsKept
    <3>6. QED
      BY <3>1, <3>2, <3>5
  <2>3. QED
    BY <2>1, <2>2
<1>6. \A d \in Calls : Sound(requests[d])' /\ Fits(requests[d], sites, secrets)'
  BY <1>5 DEF Sound, Staged, Admitted, Written, Due, Fits
<1>7. QED
  BY <1>2, <1>3, <1>4, <1>6 DEF Inv

LEMMA AnsweredSound ==
    ASSUME NEW r \in Request, Sound(r), r.at # "idle", NEW a \in Answer
    PROVE  /\ Sound(Answered(r, a))
           /\ \A rows \in SiteTable, others \in SecretTable :
                  Fits(Answered(r, a), rows, others)
           /\ \A d \in Request : Apart(Answered(r, a), d)
<1>1. /\ Answered(r, a).at = "answered"
      /\ Answered(r, a).answer = a
      /\ Answered(r, a).query = r.query
      /\ Answered(r, a).newSites = NoSites
      /\ Answered(r, a).newSecrets = NoSecrets
  BY DEF Answered
<1>2. "answered" \notin Importing
  BY DEF Importing
<1>3. r.query \in Queries
  BY DEF Sound, Staged
<1>4. Staged(Answered(r, a))
  BY <1>1, <1>2, <1>3, NoAnswer DEF Staged
<1>5. Admitted(Answered(r, a)) /\ Written(Answered(r, a))
  BY <1>1, <1>2 DEF Admitted, Written
<1>6. \A rows \in SiteTable, others \in SecretTable :
          Fits(Answered(r, a), rows, others)
  BY <1>1, <1>2 DEF Fits
<1>7. \A d \in Request : Apart(Answered(r, a), d)
  BY <1>1, IdsOfTables DEF Apart
<1>8. QED
  BY <1>4, <1>5, <1>6, <1>7 DEF Sound

LEMMA AnswerKeepsInv ==
    ASSUME Inv, NEW c \in Calls, NEW a \in Answer, requests[c].at # "idle",
           Answers(c, a), sites' \in SiteTable, secrets' \in SecretTable,
           Closed(sites', secrets'),
           \A d \in Calls \ {c} :
               Keeps(requests[d], sites, secrets, sites', secrets')
    PROVE  Inv'
<1> DEFINE q == Answered(requests[c], a)
<1>1. requests[c] \in Request /\ Sound(requests[c])
  BY DEF Inv, TypeOK
<1>2. q \in Request
  BY <1>1, AnsweredType
<1>3. requests' = [requests EXCEPT ![c] = q]
  BY DEF Answers
<1>4. Sound(q) /\ Fits(q, sites', secrets')
  BY <1>1, AnsweredSound
<1>5. \A d \in Calls \ {c} : Apart(q, requests[d])
  BY <1>1, AnsweredSound DEF Inv, TypeOK
<1> HIDE DEF q
<1>6. QED
  BY <1>2, <1>3, <1>4, <1>5, StepKeepsInv

LEMMA KeptByStutter ==
    ASSUME NEW r, NEW siteTable, NEW secretTable
    PROVE  Keeps(r, siteTable, secretTable, siteTable, secretTable)
BY DEF Keeps

LEMMA ReadKeepsInv ==
    ASSUME Inv, NEW c \in Calls, NEW a \in Answer, requests[c].at # "idle",
           Answers(c, a), UNCHANGED <<sites, secrets>>
    PROVE  Inv'
<1>1. sites' \in SiteTable /\ secrets' \in SecretTable
  BY DEF Inv, TypeOK
<1>2. Closed(sites', secrets')
  BY DEF Inv, EverySecretHasItsSite
<1>3. \A d \in Calls \ {c} :
          Keeps(requests[d], sites, secrets, sites', secrets')
  BY KeptByStutter
<1>4. QED
  BY <1>1, <1>2, <1>3, AnswerKeepsInv

LEMMA MoveKeepsInv ==
    ASSUME Inv, NEW c \in Calls, NEW q \in Request,
           requests' = [requests EXCEPT ![c] = q], UNCHANGED <<sites, secrets>>,
           Sound(q), Fits(q, sites, secrets),
           \A d \in Calls \ {c} : Apart(q, requests[d])
    PROVE  Inv'
<1>1. sites' \in SiteTable /\ secrets' \in SecretTable
  BY DEF Inv, TypeOK
<1>2. Closed(sites', secrets') /\ Fits(q, sites', secrets')
  BY DEF Inv, EverySecretHasItsSite
<1>3. \A d \in Calls \ {c} :
          Keeps(requests[d], sites, secrets, sites', secrets')
  BY KeptByStutter
<1>4. QED
  BY <1>1, <1>2, <1>3, StepKeepsInv

-----------------------------------------------------------------------------
(* The steps of all requests, and those that only read.                    *)

LEMMA InitInv == Init => Inv
<1> SUFFICES ASSUME Init PROVE Inv
  OBVIOUS
<1>1. TypeOK
  BY NoRows, IdleType DEF Init, TypeOK
<1>2. EverySecretHasItsSite
  BY IdsOfTables DEF Init, EverySecretHasItsSite, Closed
<1>3. ImportsApart
  BY IdsOfTables DEF Init, ImportsApart, Idle
<1>4. \A c \in Calls : Sound(requests[c]) /\ Fits(requests[c], sites, secrets)
  BY NoAnswer
     DEF Init, Idle, Importing, Sound, Staged, Admitted, Written, Fits
<1>5. QED
  BY <1>1, <1>2, <1>3, <1>4 DEF Inv

LEMMA Asked ==
    ASSUME Inv, NEW c \in Calls, requests[c].at # "idle"
    PROVE  /\ requests[c] \in Request
           /\ Sound(requests[c])
           /\ requests[c].query \in Queries
           /\ requests[c].query \in Query
           /\ Complete(requests[c].query)
           /\ requests[c].query # None
<1>1. requests[c] \in Request /\ Sound(requests[c])
  BY DEF Inv, TypeOK
<1>2. requests[c].query \in Queries
  BY <1>1 DEF Sound, Staged
<1>3. QED
  BY <1>1, <1>2, QueriesAssumption, StoreAssumption

LEMMA SendKeepsInv ==
    ASSUME Inv, NEW c \in Calls, Send(c)
    PROVE  Inv'
<1>1. PICK k \in Queries :
          requests' = [requests EXCEPT ![c] =
                          [Idle EXCEPT !.at = "called", !.query = k]]
  BY DEF Send
<1> DEFINE q == [Idle EXCEPT !.at = "called", !.query = k]
<1>2. /\ q.at = "called" /\ q.query = k /\ q.answer = None
      /\ q.sitesRead = None /\ q.secretsRead = None
      /\ q.newSites = NoSites /\ q.newSecrets = NoSecrets
  BY DEF Idle
<1>3. q \in Request
  BY IdleType, QueriesAssumption DEF Request, Stages
<1>4. Sound(q) /\ Fits(q, sites, secrets)
  BY <1>2 DEF Sound, Staged, Admitted, Written, Fits, Importing
<1>5. \A d \in Calls \ {c} : Apart(q, requests[d])
  BY <1>2, IdsOfTables DEF Apart
<1>6. UNCHANGED <<sites, secrets>>
  BY DEF Send
<1> HIDE DEF q
<1>7. QED
  BY <1>1, <1>3, <1>4, <1>5, <1>6, MoveKeepsInv DEF q

LEMMA ReceiveKeepsInv ==
    ASSUME Inv, NEW c \in Calls, Receive(c)
    PROVE  Inv'
<1>1. Sound(Idle) /\ Fits(Idle, sites, secrets)
  BY NoAnswer DEF Idle, Importing, Sound, Staged, Admitted, Written, Fits
<1>2. \A d \in Calls \ {c} : Apart(Idle, requests[d])
  BY IdsOfTables DEF Apart, Idle
<1>3. QED
  BY <1>1, <1>2, IdleType, MoveKeepsInv DEF Receive

LEMMA RefusalKeepsInv ==
    ASSUME Inv, NEW c \in Calls, requests[c].at # "idle",
           NEW status \in Statuses, Refuses(c, status)
    PROVE  Inv'
<1>1. Refusal(status) \in Answer
  BY AnswerTypes
<1>2. QED
  BY <1>1, ReadKeepsInv DEF Refuses

LEMMA StatusNames ==
    {"ok", "invalid", "notFound", "conflict", "error"} \subseteq Statuses
BY DEF Statuses

LEMMA AbortKeepsInv ==
    ASSUME Inv, NEW c \in Calls, Abort(c)
    PROVE  Inv'
BY RefusalKeepsInv, StatusNames DEF Abort, Pending

LEMMA ListSitesKeepsInv ==
    ASSUME Inv, NEW c \in Calls, ListSites(c)
    PROVE  Inv'
<1>1. Ids(sites) \in SUBSET (Sites \cup Secrets)
  BY IdsOfTables DEF Inv, TypeOK
<1>2. Success(Ids(sites)) \in Answer
  BY <1>1, AnswerTypes
<1>3. QED
  BY <1>2, ReadKeepsInv DEF ListSites

LEMMA ListBySiteKeepsInv ==
    ASSUME Inv, NEW c \in Calls, ListBySite(c)
    PROVE  Inv'
<1> DEFINE found == SecretsOf(secrets, requests[c].query.site)
<1>1. found \in SUBSET (Sites \cup Secrets)
  BY IdsOfTables DEF Inv, TypeOK, SecretsOf
<1>2. Success(found) \in Answer
  BY <1>1, AnswerTypes
<1>3. QED
  BY <1>2, ReadKeepsInv DEF ListBySite

LEMMA ShowDetailKeepsInv ==
    ASSUME Inv, NEW c \in Calls, ShowDetail(c)
    PROVE  Inv'
<1> DEFINE x == requests[c].query.secret
<1>1. CASE x \in Ids(secrets) /\ Answers(c, Found(secrets[x]))
  <2>1. secrets[x] \in SecretRow
    BY <1>1, IdsOfTables DEF Inv, TypeOK, SecretTable
  <2>2. Found(secrets[x]) \in Answer
    BY <2>1, AnswerTypes
  <2>3. UNCHANGED <<sites, secrets>>
    BY <1>1, StatusNames DEF ShowDetail, Refuses
  <2>4. QED
    BY <1>1, <2>2, <2>3, ReadKeepsInv DEF ShowDetail
<1>2. CASE Refuses(c, "notFound")
  BY <1>2, RefusalKeepsInv, StatusNames DEF ShowDetail
<1>3. QED
  BY <1>1, <1>2 DEF ShowDetail

LEMMA EnsureSiteKeepsInv ==
    ASSUME Inv, NEW c \in Calls, EnsureSite(c)
    PROVE  Inv'
<1>1. requests[c].at = "called"
  BY DEF EnsureSite
<1> DEFINE q == [requests[c] EXCEPT !.at = "siteFound"]
<1>2. CASE /\ requests' = [requests EXCEPT ![c] = q]
           /\ UNCHANGED <<sites, secrets>>
  <2>1. requests[c] \in Request /\ Sound(requests[c])
    BY <1>1, Asked
  <2>2. q \in Request
    BY <2>1 DEF Request, Stages
  <2>3. /\ q.at = "siteFound" /\ q.query = requests[c].query
        /\ q.answer = requests[c].answer
        /\ q.newSites = requests[c].newSites
        /\ q.newSecrets = requests[c].newSecrets
    BY <2>1 DEF Request
  <2>4. Sound(q) /\ Fits(q, sites, secrets)
    BY <1>1, <2>1, <2>3 DEF Sound, Staged, Admitted, Written, Fits, Importing
  <2>5. \A d \in Calls \ {c} : Apart(q, requests[d])
    BY <2>3 DEF Inv, ImportsApart, Apart
  <2> HIDE DEF q
  <2>6. QED
    BY <1>2, <2>2, <2>4, <2>5, MoveKeepsInv
<1>3. CASE Refuses(c, "notFound")
  BY <1>1, <1>3, RefusalKeepsInv, StatusNames
<1>4. QED
  BY <1>2, <1>3 DEF EnsureSite

-----------------------------------------------------------------------------
(* Writes of single rows.  The locks of an import keep its rows.           *)

LEMMA Tables ==
    ASSUME TypeOK
    PROVE  /\ sites \in SiteTable
           /\ secrets \in SecretTable
           /\ \A s \in Sites : s \in Ids(sites) <=> sites[s] # None
           /\ \A x \in Secrets : x \in Ids(secrets) <=> secrets[x] # None
           /\ Ids(sites) \subseteq Sites
           /\ Ids(secrets) \subseteq Secrets
           /\ \A s \in Ids(sites) : sites[s] \in SiteRow
           /\ \A x \in Ids(secrets) : secrets[x] \in SecretRow
<1>1. sites \in SiteTable /\ secrets \in SecretTable
  BY DEF TypeOK
<1>2. /\ Ids(sites) = {s \in Sites : sites[s] # None}
      /\ Ids(secrets) = {x \in Secrets : secrets[x] # None}
  BY <1>1, IdsOfTables
<1>3. /\ \A s \in Sites : sites[s] \in SiteRow \cup {None}
      /\ \A x \in Secrets : secrets[x] \in SecretRow \cup {None}
  BY <1>1 DEF SiteTable, SecretTable
<1>4. QED
  BY <1>1, <1>2, <1>3

(* A row is put into a table, or taken out of it.                          *)
LEMMA SitePut ==
    ASSUME NEW rows \in SiteTable, NEW s \in Sites, NEW row \in SiteRow, NEW rows2,
           rows2 = Put(rows, s, row)
    PROVE  /\ rows2 \in SiteTable
           /\ Ids(rows2) = Ids(rows) \cup {s}
           /\ \A t \in Sites \ {s} : rows2[t] = rows[t]
<1>1. rows2 \in SiteTable
  BY DEF SiteTable, Put
<1>2. \A t \in Sites : rows2[t] =
                           IF t = s THEN row ELSE rows[t]
  BY DEF SiteTable, Put
<1>3. row # None
  BY StoreAssumption
<1>4. /\ Ids(rows2) =
             {t \in Sites : rows2[t] # None}
      /\ Ids(rows) = {t \in Sites : rows[t] # None}
  BY <1>1, IdsOfTables
<1>5. QED
  BY <1>1, <1>2, <1>3, <1>4

LEMMA SiteTaken ==
    ASSUME NEW rows \in SiteTable, NEW s \in Sites, NEW rows2,
           rows2 = Put(rows, s, None)
    PROVE  /\ rows2 \in SiteTable
           /\ Ids(rows2) = Ids(rows) \ {s}
           /\ \A t \in Sites \ {s} : rows2[t] = rows[t]
<1>1. rows2 \in SiteTable
  BY DEF SiteTable, Put
<1>2. \A t \in Sites : rows2[t] =
                           IF t = s THEN None ELSE rows[t]
  BY DEF SiteTable, Put
<1>3. /\ Ids(rows2) =
             {t \in Sites : rows2[t] # None}
      /\ Ids(rows) = {t \in Sites : rows[t] # None}
  BY <1>1, IdsOfTables
<1>4. QED
  BY <1>1, <1>2, <1>3

LEMMA SecretPut ==
    ASSUME NEW rows \in SecretTable, NEW x \in Secrets, NEW row \in SecretRow, NEW rows2,
           rows2 = Put(rows, x, row)
    PROVE  /\ rows2 \in SecretTable
           /\ Ids(rows2) = Ids(rows) \cup {x}
           /\ rows2[x] = row
           /\ \A y \in Secrets \ {x} : rows2[y] = rows[y]
<1>1. rows2 \in SecretTable
  BY DEF SecretTable, Put
<1>2. \A y \in Secrets : rows2[y] =
                           IF y = x THEN row ELSE rows[y]
  BY DEF SecretTable, Put
<1>3. row # None
  BY StoreAssumption
<1>4. /\ Ids(rows2) =
             {y \in Secrets : rows2[y] # None}
      /\ Ids(rows) = {y \in Secrets : rows[y] # None}
  BY <1>1, IdsOfTables
<1>5. QED
  BY <1>1, <1>2, <1>3, <1>4

LEMMA SecretTaken ==
    ASSUME NEW rows \in SecretTable, NEW x \in Secrets, NEW rows2,
           rows2 = Put(rows, x, None)
    PROVE  /\ rows2 \in SecretTable
           /\ Ids(rows2) = Ids(rows) \ {x}
           /\ \A y \in Secrets \ {x} : rows2[y] = rows[y]
<1>1. rows2 \in SecretTable
  BY DEF SecretTable, Put
<1>2. \A y \in Secrets : rows2[y] =
                           IF y = x THEN None ELSE rows[y]
  BY DEF SecretTable, Put
<1>3. /\ Ids(rows2) =
             {y \in Secrets : rows2[y] # None}
      /\ Ids(rows) = {y \in Secrets : rows[y] # None}
  BY <1>1, IdsOfTables
<1>4. QED
  BY <1>1, <1>2, <1>3

LEMMA CascadeRows ==
    ASSUME NEW rows \in SecretTable, NEW s
    PROVE  /\ Cascade(rows, s) \in SecretTable
           /\ Ids(Cascade(rows, s)) = Ids(rows) \ SecretsOf(rows, s)
           /\ \A x \in Ids(Cascade(rows, s)) : Cascade(rows, s)[x] = rows[x]
<1>1. DOMAIN rows = Secrets
  BY DEF SecretTable
<1>2. Cascade(rows, s) =
          [x \in Secrets |-> IF x \in SecretsOf(rows, s) THEN None ELSE rows[x]]
  BY <1>1 DEF Cascade
<1>3. Cascade(rows, s) \in SecretTable
  BY <1>2 DEF SecretTable
<1>4. /\ Ids(Cascade(rows, s)) = {x \in Secrets : Cascade(rows, s)[x] # None}
      /\ Ids(rows) = {x \in Secrets : rows[x] # None}
  BY <1>3, IdsOfTables
<1>5. QED
  BY <1>2, <1>3, <1>4

LEMMA WrittenByOthers ==
    ASSUME Inv, NEW c \in Calls, NEW d \in Calls \ {c}
    PROVE  /\ \A s \in Ids(requests[d].newSites) :
                  s \in Sites /\ SiteWritten(c, s)
           /\ \A x \in Ids(requests[d].newSecrets) :
                  /\ x \in Secrets
                  /\ SecretWritten(c, x)
                  /\ SiteReferred(c, requests[d].newSecrets[x].site)
<1>1. requests[d].newSites \in SiteTable /\ requests[d].newSecrets \in SecretTable
  BY DEF Inv, TypeOK, Request
<1>2. d \in Others(c)
  BY DEF Others
<1>3. /\ \A s \in Ids(requests[d].newSites) :
             s \in Sites /\ requests[d].newSites[s] # None
      /\ \A x \in Ids(requests[d].newSecrets) :
             x \in Secrets /\ requests[d].newSecrets[x] # None
  BY <1>1, IdsOfTables
<1>4. QED
  BY <1>2, <1>3 DEF SiteWritten, SecretWritten, SiteReferred

LEMMA CreateSiteKeepsInv ==
    ASSUME Inv, NEW c \in Calls, CreateSite(c)
    PROVE  Inv'
<1>1. PICK s \in Sites \ Ids(sites), b \in Births :
          /\ Unknown(s)
          /\ sites' = [sites EXCEPT ![s] =
                          [label |-> requests[c].query.label, born |-> b]]
          /\ Answers(c, Success({s}))
  BY DEF CreateSite
<1>2. requests[c].at = "called" /\ Op(c) = "createSite" /\ secrets' = secrets
  BY DEF CreateSite
<1> DEFINE row == [label |-> requests[c].query.label, born |-> b]
<1>3. row \in SiteRow
  <2>1. requests[c].query.label \in Labels
    BY <1>2, Asked DEF Op, Complete, Query
  <2>2. QED
    BY <2>1 DEF SiteRow
<1> HIDE DEF row
<1>4. TypeOK
  BY DEF Inv
<1>5. /\ sites' \in SiteTable
      /\ Ids(sites') = Ids(sites) \cup {s}
      /\ \A t \in Sites \ {s} : sites'[t] = sites[t]
  <2>1. sites \in SiteTable
    BY <1>4, Tables
  <2>2. sites' = Put(sites, s, row)
    BY <1>1 DEF row, Put
  <2>3. QED
    BY <1>3, <2>1, <2>2, SitePut
<1>6. secrets' \in SecretTable /\ Closed(sites', secrets')
  BY <1>2, <1>4, <1>5, Tables DEF Inv, EverySecretHasItsSite, Closed
<1>7. ASSUME NEW d \in Calls \ {c}
      PROVE  Keeps(requests[d], sites, secrets, sites', secrets')
  <2>1. s \notin Ids(requests[d].newSites)
    BY <1>1 DEF Unknown
  <2>2. Ids(requests[d].newSites) \subseteq Sites
    BY WrittenByOthers
  <2>3. QED
    BY <1>2, <1>5, <2>1, <2>2 DEF Keeps
<1>8. Success({s}) \in Answer
  BY AnswerTypes
<1>9. QED
  BY <1>1, <1>2, <1>5, <1>6, <1>7, <1>8, AnswerKeepsInv

LEMMA UpdateSiteKeepsInv ==
    ASSUME Inv, NEW c \in Calls, UpdateSite(c)
    PROVE  Inv'
<1> DEFINE s == requests[c].query.site
<1>1. requests[c].at = "called" /\ Op(c) = "updateSite"
  BY DEF UpdateSite
<1>2. TypeOK
  BY DEF Inv
<1>3. CASE Refuses(c, "notFound")
  BY <1>1, <1>3, RefusalKeepsInv, StatusNames
<1>4. CASE /\ s \in Ids(sites)
           /\ ~SiteWritten(c, s)
           /\ sites' = [sites EXCEPT ![s] =
                           [@ EXCEPT !.label = requests[c].query.label]]
           /\ Answers(c, Success({s}))
           /\ UNCHANGED secrets
  <2> DEFINE row == [sites[s] EXCEPT !.label = requests[c].query.label]
  <2>1. s \in Sites /\ sites[s] \in SiteRow
    BY <1>2, <1>4, Tables
  <2>2. row \in SiteRow /\ row.born = sites[s].born
    <3>1. requests[c].query.label \in Labels
      BY <1>1, Asked DEF Op, Complete, Query
    <3>2. QED
      BY <2>1, <3>1 DEF SiteRow
  <2>3. sites' = Put(sites, s, row)
    BY <1>4 DEF Put
  <2> HIDE DEF row
  <2>4. /\ sites' \in SiteTable
        /\ Ids(sites') = Ids(sites)
        /\ \A t \in Sites \ {s} : sites'[t] = sites[t]
    <3>1. sites \in SiteTable
      BY <1>2, Tables
    <3>2. /\ sites' \in SiteTable
          /\ Ids(sites') = Ids(sites) \cup {s}
          /\ \A t \in Sites \ {s} : sites'[t] = sites[t]
      BY <2>1, <2>2, <2>3, <3>1, SitePut
    <3>3. QED
      BY <1>4, <3>2
  <2>5. \A t \in Ids(sites) : sites'[t].born = sites[t].born
    <3>1. sites'[s].born = sites[s].born
      BY <1>2, <2>1, <2>2, <2>3, Tables DEF SiteTable, Put
    <3>2. QED
      BY <1>2, <2>4, <3>1, Tables
  <2>6. secrets' \in SecretTable /\ Closed(sites', secrets')
    BY <1>2, <1>4, <2>4, Tables DEF Inv, EverySecretHasItsSite, Closed
  <2>7. \A d \in Calls \ {c} :
            Keeps(requests[d], sites, secrets, sites', secrets')
    BY <1>4, <2>4, <2>5 DEF Keeps
  <2>8. Success({s}) \in Answer
    BY <2>1, AnswerTypes
  <2>9. QED
    BY <1>1, <1>4, <2>4, <2>6, <2>7, <2>8, AnswerKeepsInv
<1>5. QED
  BY <1>3, <1>4 DEF UpdateSite

LEMMA RemoveSiteKeepsInv ==
    ASSUME Inv, NEW c \in Calls, RemoveSite(c)
    PROVE  Inv'
<1> DEFINE s == requests[c].query.site
<1>1. requests[c].at = "called"
  BY DEF RemoveSite
<1>2. TypeOK
  BY DEF Inv
<1>3. CASE Refuses(c, "notFound")
  BY <1>1, <1>3, RefusalKeepsInv, StatusNames
<1>4. CASE /\ s \in Ids(sites)
           /\ ~SiteWritten(c, s)
           /\ ~SiteReferred(c, s)
           /\ \A x \in SecretsOf(secrets, s) : ~SecretWritten(c, x)
           /\ sites' = [sites EXCEPT ![s] = None]
           /\ secrets' = Cascade(secrets, s)
           /\ Answers(c, Success({}))
  <2>1. s \in Sites
    BY <1>2, <1>4, Tables
  <2>2. /\ sites' \in SiteTable
        /\ Ids(sites') = Ids(sites) \ {s}
        /\ \A t \in Sites \ {s} : sites'[t] = sites[t]
    <3>1. sites \in SiteTable
      BY <1>2, Tables
    <3>2. sites' = Put(sites, s, None)
      BY <1>4 DEF Put
    <3>3. QED
      BY <2>1, <3>1, <3>2, SiteTaken
  <2>3. /\ secrets' \in SecretTable
        /\ Ids(secrets') = Ids(secrets) \ SecretsOf(secrets, s)
        /\ \A x \in Ids(secrets') : secrets'[x] = secrets[x]
    BY <1>2, <1>4, Tables, CascadeRows
  <2>4. Closed(sites', secrets')
    BY <2>2, <2>3 DEF Inv, EverySecretHasItsSite, Closed, SecretsOf
  <2>5. ASSUME NEW d \in Calls \ {c}
        PROVE  Keeps(requests[d], sites, secrets, sites', secrets')
    <3>1. /\ \A t \in Ids(requests[d].newSites) : t \in Sites \ {s}
          /\ \A x \in Ids(requests[d].newSecrets) :
                 /\ x \notin SecretsOf(secrets, s)
                 /\ requests[d].newSecrets[x].site # s
      BY <1>4, WrittenByOthers
    <3>2. QED
      BY <2>2, <2>3, <3>1 DEF Keeps
  <2>6. Success({}) \in Answer
    BY AnswerTypes
  <2>7. QED
    BY <1>1, <1>4, <2>2, <2>3, <2>4, <2>5, <2>6, AnswerKeepsInv
<1>5. QED
  BY <1>3, <1>4 DEF RemoveSite

LEMMA CreateSecretKeepsInv ==
    ASSUME Inv, NEW c \in Calls, CreateSecret(c)
    PROVE  Inv'
<1> DEFINE s == requests[c].query.site
<1>1. requests[c].at = "siteFound" /\ Op(c) = "createSecret"
  BY DEF CreateSecret
<1>2. TypeOK
  BY DEF Inv
<1>3. CASE Refuses(c, "error")
  BY <1>1, <1>3, RefusalKeepsInv, StatusNames
<1>4. ASSUME s \in Ids(sites), UNCHANGED sites,
             NEW x \in Secrets \ Ids(secrets), Unknown(x),
             secrets' = [secrets EXCEPT ![x] =
                            [site |-> s, body |-> requests[c].query.body]],
             Answers(c, Success({x}))
      PROVE  Inv'
  <2> DEFINE row == [site |-> s, body |-> requests[c].query.body]
  <2>1. row \in SecretRow /\ row.site = s
    <3>1. requests[c].query.body \in Bodies
      BY <1>1, Asked DEF Op, Complete, Query
    <3>2. s \in Sites
      BY <1>2, <1>4, Tables
    <3>3. QED
      BY <3>1, <3>2 DEF SecretRow
  <2>2. secrets' = Put(secrets, x, row)
    BY <1>4 DEF Put
  <2> HIDE DEF row
  <2>3. /\ secrets' \in SecretTable
        /\ Ids(secrets') = Ids(secrets) \cup {x}
        /\ secrets'[x] = row
        /\ \A y \in Secrets \ {x} : secrets'[y] = secrets[y]
    <3>1. secrets \in SecretTable
      BY <1>2, Tables
    <3>2. x \in Secrets
      BY <1>4
    <3>3. QED
      BY <2>1, <2>2, <3>1, <3>2, SecretPut
  <2>4. sites' \in SiteTable /\ Closed(sites', secrets')
    BY <1>2, <1>4, <2>1, <2>3, Tables DEF Inv, EverySecretHasItsSite, Closed
  <2>5. ASSUME NEW d \in Calls \ {c}
        PROVE  Keeps(requests[d], sites, secrets, sites', secrets')
    <3>1. x \notin Ids(requests[d].newSecrets)
      BY <1>4 DEF Unknown
    <3>2. QED
      BY <1>4, <2>3, <3>1 DEF Keeps
  <2>6. Success({x}) \in Answer
    BY AnswerTypes
  <2>7. QED
    BY <1>1, <1>4, <2>3, <2>4, <2>5, <2>6, AnswerKeepsInv
<1>5. QED
  BY <1>3, <1>4 DEF CreateSecret

LEMMA UpdateSecretKeepsInv ==
    ASSUME Inv, NEW c \in Calls, UpdateSecret(c)
    PROVE  Inv'
<1> DEFINE x == requests[c].query.secret
<1>1. requests[c].at = "called" /\ Op(c) = "updateSecret"
  BY DEF UpdateSecret
<1>2. TypeOK
  BY DEF Inv
<1>3. CASE Refuses(c, "notFound")
  BY <1>1, <1>3, RefusalKeepsInv, StatusNames
<1>4. CASE /\ x \in Ids(secrets)
           /\ secrets' = [secrets EXCEPT ![x] =
                             [@ EXCEPT !.body = requests[c].query.body]]
           /\ Answers(c, Success({x}))
           /\ UNCHANGED sites
  <2> DEFINE row == [secrets[x] EXCEPT !.body = requests[c].query.body]
  <2>1. x \in Secrets /\ secrets[x] \in SecretRow
    BY <1>2, <1>4, Tables
  <2>2. row \in SecretRow /\ row.site = secrets[x].site
    <3>1. requests[c].query.body \in Bodies
      BY <1>1, Asked DEF Op, Complete, Query
    <3>2. QED
      BY <2>1, <3>1 DEF SecretRow
  <2>3. secrets' = Put(secrets, x, row)
    BY <1>4 DEF Put
  <2> HIDE DEF row
  <2>4. /\ secrets' \in SecretTable
        /\ Ids(secrets') = Ids(secrets)
        /\ secrets'[x] = row
        /\ \A y \in Secrets \ {x} : secrets'[y] = secrets[y]
    <3>1. secrets \in SecretTable
      BY <1>2, Tables
    <3>2. /\ secrets' \in SecretTable
          /\ Ids(secrets') = Ids(secrets) \cup {x}
          /\ secrets'[x] = row
          /\ \A y \in Secrets \ {x} : secrets'[y] = secrets[y]
      BY <2>1, <2>2, <2>3, <3>1, SecretPut
    <3>3. QED
      BY <1>4, <3>2
  <2>5. sites' \in SiteTable /\ Closed(sites', secrets')
    BY <1>2, <1>4, <2>2, <2>4, Tables DEF Inv, EverySecretHasItsSite, Closed
  <2>6. \A d \in Calls \ {c} :
            Keeps(requests[d], sites, secrets, sites', secrets')
    BY <1>4, <2>4 DEF Keeps
  <2>7. Success({x}) \in Answer
    BY <2>1, AnswerTypes
  <2>8. QED
    BY <1>1, <1>4, <2>4, <2>5, <2>6, <2>7, AnswerKeepsInv
<1>5. QED
  BY <1>3, <1>4 DEF UpdateSecret

LEMMA RemoveSecretKeepsInv ==
    ASSUME Inv, NEW c \in Calls, RemoveSecret(c)
    PROVE  Inv'
<1> DEFINE x == requests[c].query.secret
<1>1. requests[c].at = "called"
  BY DEF RemoveSecret
<1>2. TypeOK
  BY DEF Inv
<1>3. CASE Refuses(c, "notFound")
  BY <1>1, <1>3, RefusalKeepsInv, StatusNames
<1>4. CASE /\ x \in Ids(secrets)
           /\ ~SecretWritten(c, x)
           /\ secrets' = [secrets EXCEPT ![x] = None]
           /\ Answers(c, Success({}))
           /\ UNCHANGED sites
  <2>1. x \in Secrets
    BY <1>2, <1>4, Tables
  <2>2. /\ secrets' \in SecretTable
        /\ Ids(secrets') = Ids(secrets) \ {x}
        /\ \A y \in Secrets \ {x} : secrets'[y] = secrets[y]
    <3>1. secrets \in SecretTable
      BY <1>2, Tables
    <3>2. secrets' = Put(secrets, x, None)
      BY <1>4 DEF Put
    <3>3. QED
      BY <2>1, <3>1, <3>2, SecretTaken
  <2>3. sites' \in SiteTable /\ Closed(sites', secrets')
    BY <1>2, <1>4, <2>2, Tables DEF Inv, EverySecretHasItsSite, Closed
  <2>4. ASSUME NEW d \in Calls \ {c}
        PROVE  Keeps(requests[d], sites, secrets, sites', secrets')
    <3>1. x \notin Ids(requests[d].newSecrets)
      BY <1>4, WrittenByOthers
    <3>2. QED
      BY <1>4, <2>2, <3>1 DEF Keeps
  <2>5. Success({}) \in Answer
    BY AnswerTypes
  <2>6. QED
    BY <1>1, <1>4, <2>2, <2>3, <2>4, <2>5, AnswerKeepsInv
<1>5. QED
  BY <1>3, <1>4 DEF RemoveSecret

-----------------------------------------------------------------------------
(* Export, and the steps of an import.                                     *)

LEMMA Goes ==
    ASSUME Inv, NEW c \in Calls, NEW q \in Request,
           q.newSites = requests[c].newSites,
           q.newSecrets = requests[c].newSecrets
    PROVE  \A d \in Calls \ {c} : Apart(q, requests[d])
BY DEF Inv, ImportsApart, Apart

LEMMA ReadSitesKeepsInv ==
    ASSUME Inv, NEW c \in Calls, ReadSites(c)
    PROVE  Inv'
<1> DEFINE r == requests[c]
           q == [r EXCEPT !.sitesRead = sites]
<1>1. /\ r.at = "called" /\ FileClosed(c)
      /\ requests' = [requests EXCEPT ![c] = q]
      /\ UNCHANGED <<sites, secrets>>
  BY DEF ReadSites
<1>2. r \in Request /\ Sound(r) /\ r.query \in Queries /\ Complete(r.query)
  BY <1>1, Asked
<1>3. sites \in SiteTable
  BY DEF Inv, TypeOK
<1>4. q \in Request
  BY <1>2, <1>3 DEF Request
<1>5. /\ q.at = "called" /\ q.query = r.query /\ q.answer = r.answer
      /\ q.newSites = r.newSites /\ q.newSecrets = r.newSecrets
  BY <1>1, <1>2 DEF Request
<1>6. r.query.op = "import" => Closed(r.query.file.sites, r.query.file.secrets)
  BY <1>1, <1>2 DEF FileClosed, Complete
<1>7. \A d \in Calls \ {c} : Apart(q, requests[d])
  BY <1>4, <1>5, Goes
<1> HIDE DEF q
<1>8. Staged(q)
  BY <1>1, <1>2, <1>5 DEF Sound, Staged, Importing
<1>9. Admitted(q) /\ Written(q) /\ Fits(q, sites, secrets)
  BY <1>5, <1>6 DEF Admitted, Written, Fits, Importing
<1>10. QED
  BY <1>1, <1>4, <1>7, <1>8, <1>9, MoveKeepsInv DEF Sound

LEMMA ReadSecretsKeepsInv ==
    ASSUME Inv, NEW c \in Calls, ReadSecrets(c)
    PROVE  Inv'
<1> DEFINE r == requests[c]
           q == [r EXCEPT !.secretsRead = secrets]
<1>1. /\ r.at = "called"
      /\ requests' = [requests EXCEPT ![c] = q]
      /\ UNCHANGED <<sites, secrets>>
  BY DEF ReadSecrets
<1>2. r \in Request /\ Sound(r)
  BY <1>1, Asked
<1>3. secrets \in SecretTable
  BY DEF Inv, TypeOK
<1>4. q \in Request
  BY <1>2, <1>3 DEF Request
<1>5. /\ q.at = "called" /\ q.query = r.query /\ q.answer = r.answer
      /\ q.sitesRead = r.sitesRead
      /\ q.newSites = r.newSites /\ q.newSecrets = r.newSecrets
  BY <1>1, <1>2 DEF Request
<1>6. \A d \in Calls \ {c} : Apart(q, requests[d])
  BY <1>4, <1>5, Goes
<1> HIDE DEF q
<1>7. Staged(q)
  BY <1>1, <1>2, <1>5 DEF Sound, Staged, Importing
<1>8. Admitted(q) /\ Written(q) /\ Fits(q, sites, secrets)
  BY <1>1, <1>2, <1>5 DEF Sound, Admitted, Written, Fits, Importing
<1>9. QED
  BY <1>1, <1>4, <1>6, <1>7, <1>8, MoveKeepsInv DEF Sound

LEMMA ExportKeepsInv ==
    ASSUME Inv, NEW c \in Calls, Export(c)
    PROVE  Inv'
<1> DEFINE file == [sites |-> requests[c].sitesRead,
                    secrets |-> requests[c].secretsRead]
<1>1. requests[c].at = "called" /\ HasRead(c)
  BY DEF Export
<1>2. requests[c] \in Request
  BY <1>1, Asked
<1>3. file \in File
  BY <1>1, <1>2 DEF HasRead, Request, File
<1>4. Backup(file) \in Answer
  BY <1>3, AnswerTypes
<1>5. Answers(c, Backup(file)) /\ UNCHANGED <<sites, secrets>>
  BY DEF Export
<1> HIDE DEF file
<1>6. QED
  BY <1>1, <1>4, <1>5, ReadKeepsInv

LEMMA RefuseOpenFileKeepsInv ==
    ASSUME Inv, NEW c \in Calls, RefuseOpenFile(c)
    PROVE  Inv'
BY RefusalKeepsInv, StatusNames DEF RefuseOpenFile

LEMMA DecideImportKeepsInv ==
    ASSUME Inv, NEW c \in Calls, DecideImport(c)
    PROVE  Inv'
<1> DEFINE r == requests[c]
           q == [r EXCEPT !.at = "replaceSites"]
<1>1. r.at = "called" /\ Op(c) = "import" /\ HasRead(c)
  BY DEF DecideImport
<1>2. CASE Refuses(c, "conflict")
  BY <1>1, <1>2, RefusalKeepsInv, StatusNames
<1>3. CASE /\ r.query.mode = "reject" =>
                  SiteConflicts(c) = {} /\ SecretConflicts(c) = {}
           /\ requests' = [requests EXCEPT ![c] = q]
           /\ UNCHANGED <<sites, secrets>>
  <2>1. r \in Request /\ Sound(r)
    BY <1>1, Asked
  <2>2. "replaceSites" \in Stages
    BY DEF Stages
  <2>3. q \in Request
    BY <2>1, <2>2 DEF Request
  <2>4. /\ q.at = "replaceSites" /\ q.query = r.query /\ q.answer = r.answer
        /\ q.sitesRead = r.sitesRead /\ q.secretsRead = r.secretsRead
        /\ q.newSites = r.newSites /\ q.newSecrets = r.newSecrets
    BY <2>1 DEF Request
  <2>5. q.newSites = NoSites /\ q.newSecrets = NoSecrets
    BY <1>1, <2>1, <2>4 DEF Sound, Staged, Importing
  <2>6. \A d \in Calls \ {c} : Apart(q, requests[d])
    BY <2>3, <2>4, Goes
  <2> HIDE DEF q
  <2>7. Staged(q)
    BY <1>1, <2>1, <2>4, <2>5 DEF Sound, Staged, Importing
  <2>8. Admitted(q)
    BY <1>1, <1>3, <2>1, <2>4
       DEF Sound, Admitted, HasRead, Op, SiteConflicts, SecretConflicts, Importing
  <2>9. Written(q)
    BY <2>4, <2>5, IdsOfTables DEF Written, Importing
  <2>10. Fits(q, sites, secrets)
    BY <2>5, IdsOfTables DEF Fits
  <2>11. QED
    BY <1>3, <2>3, <2>6, <2>7, <2>8, <2>9, <2>10, MoveKeepsInv DEF Sound
<1>4. QED
  BY <1>2, <1>3 DEF DecideImport

LEMMA Free ==
    ASSUME Inv, NEW c \in Calls, NEW d \in Calls \ {c}
    PROVE  /\ \A s : ~SiteWritten(c, s) => s \notin Ids(requests[d].newSites)
           /\ \A x : ~SecretWritten(c, x) => x \notin Ids(requests[d].newSecrets)
BY WrittenByOthers

LEMMA ReplaceSiteKeepsInv ==
    ASSUME Inv, NEW c \in Calls, ReplaceSite(c)
    PROVE  Inv'
<1> DEFINE r == requests[c]
           file == r.query.file
<1>1. r.at = "replaceSites" /\ r.query.mode # "skip"
  BY DEF ReplaceSite
<1>2. PICK s \in SiteConflicts(c) \ Ids(r.newSites) :
          \/ /\ s \in Ids(sites)
             /\ ~SiteWritten(c, s)
             /\ requests' = [requests EXCEPT ![c] =
                    [r EXCEPT !.newSites =
                        Put(r.newSites, s, Adopted(sites, file.sites)[s])]]
             /\ UNCHANGED <<sites, secrets>>
          \/ Refuses(c, "error")
  BY DEF ReplaceSite
<1>3. CASE Refuses(c, "error")
  BY <1>1, <1>3, RefusalKeepsInv, StatusNames
<1> DEFINE row == Adopted(sites, file.sites)[s]
           new == Put(r.newSites, s, row)
           q == [r EXCEPT !.newSites = new]
<1>4. CASE /\ s \in Ids(sites)
           /\ ~SiteWritten(c, s)
           /\ requests' = [requests EXCEPT ![c] = q]
           /\ UNCHANGED <<sites, secrets>>
  <2>1. r \in Request /\ Sound(r) /\ Fits(r, sites, secrets)
    BY <1>1, Asked DEF Inv
  <2>2. r.at \in Importing
    BY <1>1 DEF Importing
  <2>3. /\ file.sites \in SiteTable
        /\ r.sitesRead \in SiteTable
        /\ r.newSites \in SiteTable
    BY <2>1, <2>2, ImportingFile
  <2>4. s \in Ids(file.sites) /\ s \in Ids(r.sitesRead)
    BY <1>2 DEF SiteConflicts, Conflicts
  <2>5. s \in Sites /\ sites \in SiteTable
    BY <2>3, <2>4, IdsOfTables DEF Inv, TypeOK
  <2>6. row \in SiteRow
    <3>1. /\ Adopted(sites, file.sites) \in SiteTable
          /\ s \in Ids(Adopted(sites, file.sites))
      BY <2>3, <2>4, <2>5, AdoptedRow
    <3>2. QED
      BY <2>5, <3>1, IdsOfTables DEF SiteTable
  <2> HIDE DEF row
  <2>7. /\ new \in SiteTable
        /\ Ids(new) = Ids(r.newSites) \cup {s}
        /\ new[s] = row
        /\ \A t \in Sites \ {s} : new[t] = r.newSites[t]
    <3>1. new[s] = row
      BY <2>3, <2>5 DEF SiteTable, Put
    <3> HIDE DEF new
    <3>2. new = Put(r.newSites, s, row)
      BY DEF new
    <3>3. QED
      BY <2>3, <2>5, <2>6, <3>1, <3>2, SitePut
  <2> HIDE DEF new
  <2>8. q \in Request
    BY <2>1, <2>7 DEF Request
  <2>9. /\ q.at = r.at /\ q.query = r.query /\ q.answer = r.answer
        /\ q.sitesRead = r.sitesRead /\ q.secretsRead = r.secretsRead
        /\ q.newSites = new /\ q.newSecrets = r.newSecrets
    BY <2>1 DEF Request
  <2> HIDE DEF q
  <2>10. r.newSecrets = NoSecrets
    BY <1>1, <2>1 DEF Sound, Staged
  <2>11. Staged(q)
    BY <2>1, <2>2, <2>9 DEF Sound, Staged
  <2>12. Admitted(q)
    BY <2>1, <2>9 DEF Sound, Admitted
  <2>13. Written(q)
    BY <1>1, <2>1, <2>2, <2>4, <2>7, <2>9 DEF Sound, Written, Due
  <2>14. Fits(q, sites, secrets)
    <3>1. ASSUME NEW t \in Ids(q.newSites)
          PROVE  /\ q.newSites[t] = Adopted(sites, file.sites)[t]
                 /\ t \in Ids(sites) <=> t \in Ids(r.sitesRead)
      <4>1. CASE t = s
        BY <1>4, <2>4, <2>7, <2>9, <4>1 DEF row
      <4>2. CASE t # s
        <5>1. t \in Ids(r.newSites) /\ t \in Sites
          BY <2>3, <2>7, <2>9, <4>2, IdsOfTables
        <5>2. q.newSites[t] = r.newSites[t]
          BY <2>7, <2>9, <4>2, <5>1
        <5>3. QED
          BY <2>1, <2>2, <5>1, <5>2 DEF Fits
      <4>3. QED
        BY <4>1, <4>2
    <3>2. QED
      BY <2>9, <2>10, <3>1, IdsOfTables DEF Fits
  <2>15. ASSUME NEW d \in Calls \ {c}
         PROVE  Apart(q, requests[d])
    <3>1. s \notin Ids(requests[d].newSites)
      BY <1>4, Free
    <3>2. Apart(r, requests[d])
      BY DEF Inv, ImportsApart, Apart
    <3>3. QED
      BY <2>7, <2>9, <3>1, <3>2 DEF Apart
  <2>16. QED
    BY <1>4, <2>8, <2>11, <2>12, <2>13, <2>14, <2>15, MoveKeepsInv DEF Sound
<1>5. QED
  BY <1>2, <1>3, <1>4

LEMMA OverlayRows ==
    /\ \A siteTable, rows \in SiteTable :
           /\ Overlay(siteTable, rows) \in SiteTable
           /\ Ids(Overlay(siteTable, rows)) = Ids(siteTable) \cup Ids(rows)
           /\ \A s \in Sites : Overlay(siteTable, rows)[s] =
                                   IF rows[s] # None THEN rows[s] ELSE siteTable[s]
    /\ \A secretTable, rows \in SecretTable :
           /\ Overlay(secretTable, rows) \in SecretTable
           /\ Ids(Overlay(secretTable, rows)) = Ids(secretTable) \cup Ids(rows)
           /\ \A x \in Secrets : Overlay(secretTable, rows)[x] =
                                   IF rows[x] # None THEN rows[x] ELSE secretTable[x]
<1>1. ASSUME NEW table \in SiteTable, NEW rows \in SiteTable
      PROVE  /\ Overlay(table, rows) \in SiteTable
             /\ Ids(Overlay(table, rows)) = Ids(table) \cup Ids(rows)
             /\ \A s \in Sites : Overlay(table, rows)[s] =
                                     IF rows[s] # None THEN rows[s] ELSE table[s]
  <2>1. Overlay(table, rows) =
            [s \in Sites |-> IF rows[s] # None THEN rows[s] ELSE table[s]]
    BY DEF Overlay, SiteTable
  <2>2. Overlay(table, rows) \in SiteTable
    BY <2>1 DEF SiteTable
  <2>3. \A s \in Sites : Overlay(table, rows)[s] =
                             IF rows[s] # None THEN rows[s] ELSE table[s]
    BY <2>1
  <2>4. /\ Ids(Overlay(table, rows)) = {s \in Sites : Overlay(table, rows)[s] # None}
        /\ Ids(table) = {s \in Sites : table[s] # None}
        /\ Ids(rows) = {s \in Sites : rows[s] # None}
    BY <2>2, IdsOfTables
  <2>5. QED
    BY <2>2, <2>3, <2>4
<1>2. ASSUME NEW table \in SecretTable, NEW rows \in SecretTable
      PROVE  /\ Overlay(table, rows) \in SecretTable
             /\ Ids(Overlay(table, rows)) = Ids(table) \cup Ids(rows)
             /\ \A x \in Secrets : Overlay(table, rows)[x] =
                                     IF rows[x] # None THEN rows[x] ELSE table[x]
  <2>1. Overlay(table, rows) =
            [x \in Secrets |-> IF rows[x] # None THEN rows[x] ELSE table[x]]
    BY DEF Overlay, SecretTable
  <2>2. Overlay(table, rows) \in SecretTable
    BY <2>1 DEF SecretTable
  <2>3. \A x \in Secrets : Overlay(table, rows)[x] =
                             IF rows[x] # None THEN rows[x] ELSE table[x]
    BY <2>1
  <2>4. /\ Ids(Overlay(table, rows)) = {x \in Secrets : Overlay(table, rows)[x] # None}
        /\ Ids(table) = {x \in Secrets : table[x] # None}
        /\ Ids(rows) = {x \in Secrets : rows[x] # None}
    BY <2>2, IdsOfTables
  <2>5. QED
    BY <2>2, <2>3, <2>4
<1>3. QED
  BY <1>1, <1>2

LEMMA FreshRows ==
    /\ \A rows, read \in SiteTable :
           /\ Fresh(rows, read) \in SiteTable
           /\ Ids(Fresh(rows, read)) = Ids(rows) \ Ids(read)
           /\ \A s \in Ids(Fresh(rows, read)) : Fresh(rows, read)[s] = rows[s]
    /\ \A rows, read \in SecretTable :
           /\ Fresh(rows, read) \in SecretTable
           /\ Ids(Fresh(rows, read)) = Ids(rows) \ Ids(read)
           /\ \A x \in Ids(Fresh(rows, read)) : Fresh(rows, read)[x] = rows[x]
<1>1. ASSUME NEW rows \in SiteTable, NEW read \in SiteTable
      PROVE  /\ Fresh(rows, read) \in SiteTable
             /\ Ids(Fresh(rows, read)) = Ids(rows) \ Ids(read)
             /\ \A s \in Ids(Fresh(rows, read)) : Fresh(rows, read)[s] = rows[s]
  <2>1. Fresh(rows, read) =
            [s \in Sites |-> IF s \in Ids(rows) \ Ids(read) THEN rows[s] ELSE None]
    BY DEF Fresh, Only, SiteTable
  <2>2. Fresh(rows, read) \in SiteTable
    BY <2>1 DEF SiteTable
  <2>3. /\ Ids(Fresh(rows, read)) = {s \in Sites : Fresh(rows, read)[s] # None}
        /\ Ids(rows) = {s \in Sites : rows[s] # None}
    BY <2>2, IdsOfTables
  <2>4. QED
    BY <2>1, <2>2, <2>3
<1>2. ASSUME NEW rows \in SecretTable, NEW read \in SecretTable
      PROVE  /\ Fresh(rows, read) \in SecretTable
             /\ Ids(Fresh(rows, read)) = Ids(rows) \ Ids(read)
             /\ \A x \in Ids(Fresh(rows, read)) : Fresh(rows, read)[x] = rows[x]
  <2>1. Fresh(rows, read) =
            [x \in Secrets |-> IF x \in Ids(rows) \ Ids(read) THEN rows[x] ELSE None]
    BY DEF Fresh, Only, SecretTable
  <2>2. Fresh(rows, read) \in SecretTable
    BY <2>1 DEF SecretTable
  <2>3. /\ Ids(Fresh(rows, read)) = {x \in Secrets : Fresh(rows, read)[x] # None}
        /\ Ids(rows) = {x \in Secrets : rows[x] # None}
    BY <2>2, IdsOfTables
  <2>4. QED
    BY <2>1, <2>2, <2>3
<1>3. QED
  BY <1>1, <1>2


LEMMA CreateSitesKeepsInv ==
    ASSUME Inv, NEW c \in Calls, CreateSites(c)
    PROVE  Inv'
<1> DEFINE r == requests[c]
           file == r.query.file
           fresh == NewSites(c)
           new == Overlay(r.newSites, fresh)
           q == [r EXCEPT !.at = "replaceSecrets", !.newSites = new]
<1>1. r.at = "replaceSites" /\ SitesReplaced(c)
  BY DEF CreateSites
<1>2. CASE Refuses(c, "error")
  BY <1>1, <1>2, RefusalKeepsInv, StatusNames
<1>3. CASE /\ \A s \in Ids(fresh) : s \notin Ids(sites) /\ ~SiteWritten(c, s)
           /\ requests' = [requests EXCEPT ![c] = q]
           /\ UNCHANGED <<sites, secrets>>
  <2>1. r \in Request /\ Sound(r) /\ Fits(r, sites, secrets)
    BY <1>1, Asked DEF Inv
  <2>2. r.at \in Importing
    BY <1>1 DEF Importing
  <2>3. /\ file.sites \in SiteTable
        /\ r.sitesRead \in SiteTable
        /\ r.newSites \in SiteTable
    BY <2>1, <2>2, ImportingFile
  <2>4. /\ fresh \in SiteTable
        /\ Ids(fresh) = Ids(file.sites) \ Ids(r.sitesRead)
        /\ \A s \in Ids(fresh) : fresh[s] = file.sites[s]
    BY <2>3, FreshRows DEF NewSites
  <2> HIDE DEF fresh
  <2>5. /\ new \in SiteTable
        /\ Ids(new) = Ids(r.newSites) \cup Ids(fresh)
        /\ \A s \in Sites : new[s] = IF fresh[s] # None THEN fresh[s]
                                     ELSE r.newSites[s]
    BY <2>3, <2>4, OverlayRows
  <2> HIDE DEF new
  <2>6. "replaceSecrets" \in Stages
    BY DEF Stages
  <2>7. q \in Request
    BY <2>1, <2>5, <2>6 DEF Request
  <2>8. /\ q.at = "replaceSecrets" /\ q.query = r.query /\ q.answer = r.answer
        /\ q.sitesRead = r.sitesRead /\ q.secretsRead = r.secretsRead
        /\ q.newSites = new /\ q.newSecrets = r.newSecrets
    BY <2>1 DEF Request
  <2> HIDE DEF q
  <2>9. q.newSecrets = NoSecrets
    BY <1>1, <2>1, <2>8 DEF Sound, Staged
  <2>10. Staged(q)
    BY <1>1, <2>1, <2>2, <2>8 DEF Sound, Staged, Importing
  <2>11. Admitted(q)
    BY <2>1, <2>2, <2>8 DEF Sound, Admitted
  <2>12. /\ Ids(r.newSites) \subseteq Due(r, file.sites, r.sitesRead)
         /\ Ids(r.newSites) \subseteq Ids(r.sitesRead)
    BY <1>1, <2>1, <2>2 DEF Sound, Written
  <2>13. Ids(q.newSites) = Due(q, file.sites, q.sitesRead)
    <3>1. CASE r.query.mode = "skip"
      BY <2>4, <2>5, <2>8, <2>12, <3>1 DEF Due
    <3>2. CASE r.query.mode # "skip"
      <4>1. Ids(file.sites) \cap Ids(r.sitesRead) \subseteq Ids(r.newSites)
        BY <1>1, <3>2 DEF SitesReplaced, SiteConflicts, Conflicts
      <4>2. QED
        BY <2>4, <2>5, <2>8, <2>12, <3>2, <4>1 DEF Due
    <3>3. QED
      BY <3>1, <3>2
  <2>14. Written(q)
    BY <2>8, <2>9, <2>13, IdsOfTables DEF Written
  <2>15. Fits(q, sites, secrets)
    <3>1. ASSUME NEW s \in Ids(q.newSites)
          PROVE  /\ q.newSites[s] = Adopted(sites, file.sites)[s]
                 /\ s \in Ids(sites) <=> s \in Ids(r.sitesRead)
      <4>1. s \in Sites /\ sites \in SiteTable
        BY <2>5, <2>8, IdsOfTables DEF Inv, TypeOK
      <4>2. CASE s \in Ids(fresh)
        <5>1. q.newSites[s] = file.sites[s]
          BY <2>4, <2>5, <2>8, <4>1, <4>2, IdsOfTables
        <5>2. s \notin Ids(sites) /\ sites[s] = None
          BY <1>3, <4>1, <4>2, IdsOfTables
        <5>3. Adopted(sites, file.sites)[s] = file.sites[s]
          <6>1. file.sites[s] = None \/ sites[s] = None
            BY <5>2
          <6> HIDE DEF file
          <6>2. QED
            BY <2>3, <4>1, <6>1, AdoptedRow
        <5>4. QED
          BY <2>4, <4>2, <5>1, <5>2, <5>3
      <4>3. CASE s \notin Ids(fresh)
        <5>1. s \in Ids(r.newSites) /\ fresh[s] = None
          BY <2>4, <2>5, <2>8, <4>1, <4>3, IdsOfTables
        <5>2. q.newSites[s] = r.newSites[s]
          BY <2>5, <2>8, <4>1, <5>1
        <5>3. QED
          BY <2>1, <2>2, <5>1, <5>2 DEF Fits
      <4>4. QED
        BY <4>2, <4>3
    <3>2. QED
      BY <2>8, <2>9, <3>1, IdsOfTables DEF Fits
  <2>16. ASSUME NEW d \in Calls \ {c}
         PROVE  Apart(q, requests[d])
    <3>1. \A s \in Ids(fresh) : s \notin Ids(requests[d].newSites)
      BY <1>3, Free
    <3>2. Apart(r, requests[d])
      BY DEF Inv, ImportsApart, Apart
    <3>3. QED
      BY <2>5, <2>8, <3>1, <3>2 DEF Apart
  <2>17. QED
    BY <1>3, <2>7, <2>10, <2>11, <2>14, <2>15, <2>16, MoveKeepsInv DEF Sound
<1>4. QED
  BY <1>2, <1>3 DEF CreateSites

LEMMA ReplaceSecretKeepsInv ==
    ASSUME Inv, NEW c \in Calls, ReplaceSecret(c)
    PROVE  Inv'
<1> DEFINE r == requests[c]
           file == r.query.file
<1>1. r.at = "replaceSecrets" /\ r.query.mode # "skip"
  BY DEF ReplaceSecret
<1>2. PICK x \in SecretConflicts(c) \ Ids(r.newSecrets) :
          \/ /\ x \in Ids(secrets)
             /\ ~SecretWritten(c, x)
             /\ Refers(c, file.secrets[x].site)
             /\ requests' = [requests EXCEPT ![c] =
                    [r EXCEPT !.newSecrets =
                        Put(r.newSecrets, x, file.secrets[x])]]
             /\ UNCHANGED <<sites, secrets>>
          \/ Refuses(c, "error")
  BY DEF ReplaceSecret
<1>3. CASE Refuses(c, "error")
  BY <1>1, <1>3, RefusalKeepsInv, StatusNames
<1> DEFINE row == file.secrets[x]
           new == Put(r.newSecrets, x, row)
           q == [r EXCEPT !.newSecrets = new]
<1>4. CASE /\ x \in Ids(secrets)
           /\ ~SecretWritten(c, x)
           /\ Refers(c, row.site)
           /\ requests' = [requests EXCEPT ![c] = q]
           /\ UNCHANGED <<sites, secrets>>
  <2>1. r \in Request /\ Sound(r) /\ Fits(r, sites, secrets)
    BY <1>1, Asked DEF Inv
  <2>2. r.at \in Importing
    BY <1>1 DEF Importing
  <2>3. /\ file.secrets \in SecretTable
        /\ r.secretsRead \in SecretTable
        /\ r.newSecrets \in SecretTable
    BY <2>1, <2>2, ImportingFile
  <2>4. x \in Ids(file.secrets) /\ x \in Ids(r.secretsRead)
    BY <1>2 DEF SecretConflicts, Conflicts
  <2>5. x \in Secrets /\ row \in SecretRow
    BY <2>3, <2>4, IdsOfTables DEF SecretTable
  <2> HIDE DEF row
  <2>6. /\ new \in SecretTable
        /\ Ids(new) = Ids(r.newSecrets) \cup {x}
        /\ new[x] = row
        /\ \A y \in Secrets \ {x} : new[y] = r.newSecrets[y]
    <3> HIDE DEF new
    <3>1. new = Put(r.newSecrets, x, row)
      BY DEF new
    <3>2. QED
      BY <2>3, <2>5, <3>1, SecretPut
  <2> HIDE DEF new
  <2>7. q \in Request
    BY <2>1, <2>6 DEF Request
  <2>8. /\ q.at = r.at /\ q.query = r.query /\ q.answer = r.answer
        /\ q.sitesRead = r.sitesRead /\ q.secretsRead = r.secretsRead
        /\ q.newSites = r.newSites /\ q.newSecrets = new
    BY <2>1 DEF Request
  <2> HIDE DEF q
  <2>9. Staged(q)
    BY <1>1, <2>1, <2>2, <2>8 DEF Sound, Staged
  <2>10. Admitted(q)
    BY <2>1, <2>8 DEF Sound, Admitted
  <2>11. Written(q)
    BY <1>1, <2>1, <2>2, <2>4, <2>6, <2>8 DEF Sound, Written, Due
  <2>12. Fits(q, sites, secrets)
    <3>1. ASSUME NEW y \in Ids(q.newSecrets)
          PROVE  /\ q.newSecrets[y] = file.secrets[y]
                 /\ y \in Ids(secrets) <=> y \in Ids(r.secretsRead)
                 /\ q.newSecrets[y].site \in Ids(sites) \cup Ids(q.newSites)
      <4>1. CASE y = x
        BY <1>4, <2>4, <2>6, <2>8, <4>1 DEF row, Refers
      <4>2. CASE y # x
        <5>1. y \in Ids(r.newSecrets) /\ y \in Secrets
          BY <2>3, <2>6, <2>8, <4>2, IdsOfTables
        <5>2. q.newSecrets[y] = r.newSecrets[y]
          BY <2>6, <2>8, <4>2, <5>1
        <5>3. QED
          BY <2>1, <2>2, <2>8, <5>1, <5>2 DEF Fits
      <4>3. QED
        BY <4>1, <4>2
    <3>2. QED
      BY <2>1, <2>2, <2>8, <3>1 DEF Fits
  <2>13. ASSUME NEW d \in Calls \ {c}
         PROVE  Apart(q, requests[d])
    <3>1. x \notin Ids(requests[d].newSecrets)
      BY <1>4, Free
    <3>2. Apart(r, requests[d])
      BY DEF Inv, ImportsApart, Apart
    <3>3. QED
      BY <2>6, <2>8, <3>1, <3>2 DEF Apart
  <2>14. QED
    BY <1>4, <2>7, <2>9, <2>10, <2>11, <2>12, <2>13, MoveKeepsInv DEF Sound
<1>5. QED
  BY <1>2, <1>3, <1>4

LEMMA CreateSecretsKeepsInv ==
    ASSUME Inv, NEW c \in Calls, CreateSecrets(c)
    PROVE  Inv'
<1> DEFINE r == requests[c]
           file == r.query.file
           fresh == NewSecrets(c)
           new == Overlay(r.newSecrets, fresh)
           q == [r EXCEPT !.at = "commit", !.newSecrets = new]
<1>1. r.at = "replaceSecrets" /\ SecretsReplaced(c)
  BY DEF CreateSecrets
<1>2. CASE Refuses(c, "error")
  BY <1>1, <1>2, RefusalKeepsInv, StatusNames
<1>3. CASE /\ \A x \in Ids(fresh) : /\ x \notin Ids(secrets)
                                   /\ ~SecretWritten(c, x)
                                   /\ Refers(c, fresh[x].site)
           /\ requests' = [requests EXCEPT ![c] = q]
           /\ UNCHANGED <<sites, secrets>>
  <2>1. r \in Request /\ Sound(r) /\ Fits(r, sites, secrets)
    BY <1>1, Asked DEF Inv
  <2>2. r.at \in Importing
    BY <1>1 DEF Importing
  <2>3. /\ file.secrets \in SecretTable
        /\ r.secretsRead \in SecretTable
        /\ r.newSecrets \in SecretTable
    BY <2>1, <2>2, ImportingFile
  <2>4. /\ fresh \in SecretTable
        /\ Ids(fresh) = Ids(file.secrets) \ Ids(r.secretsRead)
        /\ \A x \in Ids(fresh) : fresh[x] = file.secrets[x]
    BY <2>3, FreshRows DEF NewSecrets
  <2> HIDE DEF fresh
  <2>5. /\ new \in SecretTable
        /\ Ids(new) = Ids(r.newSecrets) \cup Ids(fresh)
        /\ \A x \in Secrets : new[x] = IF fresh[x] # None THEN fresh[x]
                                       ELSE r.newSecrets[x]
    BY <2>3, <2>4, OverlayRows
  <2> HIDE DEF new
  <2>6. "commit" \in Stages
    BY DEF Stages
  <2>7. q \in Request
    BY <2>1, <2>5, <2>6 DEF Request
  <2>8. /\ q.at = "commit" /\ q.query = r.query /\ q.answer = r.answer
        /\ q.sitesRead = r.sitesRead /\ q.secretsRead = r.secretsRead
        /\ q.newSites = r.newSites /\ q.newSecrets = new
    BY <2>1 DEF Request
  <2> HIDE DEF q
  <2>9. Staged(q)
    BY <1>1, <2>1, <2>2, <2>8 DEF Sound, Staged, Importing
  <2>10. Admitted(q)
    BY <2>1, <2>2, <2>8 DEF Sound, Admitted
  <2>11. /\ Ids(r.newSites) = Due(r, file.sites, r.sitesRead)
         /\ Ids(r.newSecrets) \subseteq Due(r, file.secrets, r.secretsRead)
         /\ Ids(r.newSecrets) \subseteq Ids(r.secretsRead)
    BY <1>1, <2>1, <2>2 DEF Sound, Written
  <2>12. Ids(q.newSecrets) = Due(q, file.secrets, q.secretsRead)
    <3>1. CASE r.query.mode = "skip"
      BY <2>4, <2>5, <2>8, <2>11, <3>1 DEF Due
    <3>2. CASE r.query.mode # "skip"
      <4>1. Ids(file.secrets) \cap Ids(r.secretsRead) \subseteq Ids(r.newSecrets)
        BY <1>1, <3>2 DEF SecretsReplaced, SecretConflicts, Conflicts
      <4>2. QED
        BY <2>4, <2>5, <2>8, <2>11, <3>2, <4>1 DEF Due
    <3>3. QED
      BY <3>1, <3>2
  <2>13. Written(q)
    BY <2>8, <2>11, <2>12 DEF Written, Due
  <2>14. Fits(q, sites, secrets)
    <3>1. ASSUME NEW x \in Ids(q.newSecrets)
          PROVE  /\ q.newSecrets[x] = file.secrets[x]
                 /\ x \in Ids(secrets) <=> x \in Ids(r.secretsRead)
                 /\ q.newSecrets[x].site \in Ids(sites) \cup Ids(q.newSites)
      <4>1. x \in Secrets
        BY <2>5, <2>8, IdsOfTables
      <4>2. CASE x \in Ids(fresh)
        <5>1. q.newSecrets[x] = fresh[x] /\ fresh[x] = file.secrets[x]
          BY <2>4, <2>5, <2>8, <4>1, <4>2, IdsOfTables
        <5>2. /\ x \notin Ids(secrets)
              /\ fresh[x].site \in Ids(sites) \cup Ids(r.newSites)
          BY <1>3, <4>2 DEF Refers
        <5>3. QED
          BY <2>4, <2>8, <4>2, <5>1, <5>2
      <4>3. CASE x \notin Ids(fresh)
        <5>1. x \in Ids(r.newSecrets) /\ fresh[x] = None
          BY <2>4, <2>5, <2>8, <4>1, <4>3, IdsOfTables
        <5>2. q.newSecrets[x] = r.newSecrets[x]
          BY <2>5, <2>8, <4>1, <5>1
        <5>3. QED
          BY <2>1, <2>2, <2>8, <5>1, <5>2 DEF Fits
      <4>4. QED
        BY <4>2, <4>3
    <3>2. QED
      BY <2>1, <2>2, <2>8, <3>1 DEF Fits
  <2>15. ASSUME NEW d \in Calls \ {c}
         PROVE  Apart(q, requests[d])
    <3>1. \A x \in Ids(fresh) : x \notin Ids(requests[d].newSecrets)
      BY <1>3, Free
    <3>2. Apart(r, requests[d])
      BY DEF Inv, ImportsApart, Apart
    <3>3. QED
      BY <2>5, <2>8, <3>1, <3>2 DEF Apart
  <2>16. QED
    BY <1>3, <2>7, <2>9, <2>10, <2>13, <2>14, <2>15, MoveKeepsInv DEF Sound
<1>4. QED
  BY <1>2, <1>3 DEF CreateSecrets

LEMMA CommitKeepsInv ==
    ASSUME Inv, NEW c \in Calls, Commit(c)
    PROVE  Inv'
<1> DEFINE r == requests[c]
           written == Ids(r.newSites) \cup Ids(r.newSecrets)
<1>1. /\ r.at = "commit"
      /\ sites' = Overlay(sites, r.newSites)
      /\ secrets' = Overlay(secrets, r.newSecrets)
      /\ Answers(c, Success(written))
  BY DEF Commit
<1>2. r \in Request /\ Sound(r) /\ Fits(r, sites, secrets) /\ r.at \in Importing
  BY <1>1, Asked DEF Inv, Importing
<1>3. /\ r.newSites \in SiteTable /\ r.newSecrets \in SecretTable
      /\ sites \in SiteTable /\ secrets \in SecretTable
  BY <1>2 DEF Inv, TypeOK, Request
<1>4. /\ sites' \in SiteTable
      /\ Ids(sites') = Ids(sites) \cup Ids(r.newSites)
      /\ \A s \in Sites : sites'[s] = IF r.newSites[s] # None THEN r.newSites[s]
                                      ELSE sites[s]
  BY <1>1, <1>3, OverlayRows
<1>5. /\ secrets' \in SecretTable
      /\ Ids(secrets') = Ids(secrets) \cup Ids(r.newSecrets)
      /\ \A x \in Secrets : secrets'[x] =
                  IF r.newSecrets[x] # None THEN r.newSecrets[x] ELSE secrets[x]
  BY <1>1, <1>3, OverlayRows
<1>6. Closed(sites', secrets')
  <2> SUFFICES ASSUME NEW x \in Ids(secrets')
               PROVE  secrets'[x].site \in Ids(sites')
    BY DEF Closed
  <2>1. x \in Secrets
    BY <1>5, IdsOfTables
  <2>2. CASE x \in Ids(r.newSecrets)
    <3>1. secrets'[x] = r.newSecrets[x]
      BY <1>3, <1>5, <2>1, <2>2, IdsOfTables
    <3>2. r.newSecrets[x].site \in Ids(sites) \cup Ids(r.newSites)
      BY <1>2, <2>2 DEF Fits
    <3>3. QED
      BY <1>4, <3>1, <3>2
  <2>3. CASE x \notin Ids(r.newSecrets)
    <3>1. x \in Ids(secrets) /\ secrets'[x] = secrets[x]
      BY <1>3, <1>5, <2>1, <2>3, IdsOfTables
    <3>2. secrets[x].site \in Ids(sites)
      BY <3>1 DEF Inv, EverySecretHasItsSite, Closed
    <3>3. QED
      BY <1>4, <3>1, <3>2
  <2>4. QED
    BY <2>2, <2>3
<1>7. ASSUME NEW d \in Calls \ {c}
      PROVE  Keeps(requests[d], sites, secrets, sites', secrets')
  <2>1. Apart(r, requests[d])
    BY DEF Inv, ImportsApart, Apart
  <2>2. /\ Ids(requests[d].newSites) \subseteq Sites
        /\ Ids(requests[d].newSecrets) \subseteq Secrets
    BY WrittenByOthers
  <2>3. ASSUME NEW s \in Ids(requests[d].newSites)
        PROVE  /\ s \in Ids(sites') <=> s \in Ids(sites)
               /\ sites'[s] = sites[s]
    <3>1. s \in Sites /\ s \notin Ids(r.newSites)
      BY <2>1, <2>2 DEF Apart
    <3>2. QED
      BY <1>3, <1>4, <3>1, IdsOfTables
  <2>4. ASSUME NEW x \in Ids(requests[d].newSecrets)
        PROVE  x \in Ids(secrets') <=> x \in Ids(secrets)
    <3>1. x \in Secrets /\ x \notin Ids(r.newSecrets)
      BY <2>1, <2>2 DEF Apart
    <3>2. QED
      BY <1>5, <3>1
  <2>5. QED
    BY <1>4, <2>3, <2>4 DEF Keeps
<1>8. Success(written) \in Answer
  <2>1. written \in SUBSET (Sites \cup Secrets)
    BY <1>3, IdsOfTables
  <2>2. QED
    BY <2>1, AnswerTypes
<1> HIDE DEF written
<1>9. QED
  BY <1>1, <1>4, <1>5, <1>6, <1>7, <1>8, AnswerKeepsInv

-----------------------------------------------------------------------------
(* The safety theorems.                                                    *)

LEMMA StepsKeepInv ==
    ASSUME Inv, NEW c \in Calls, Step(c)
    PROVE  Inv'
<1>1. CASE Abort(c)
  BY <1>1, AbortKeepsInv
<1>2. CASE ListSites(c) \/ CreateSite(c) \/ UpdateSite(c) \/ RemoveSite(c)
  BY <1>2, ListSitesKeepsInv, CreateSiteKeepsInv, UpdateSiteKeepsInv,
     RemoveSiteKeepsInv
<1>3. CASE EnsureSite(c) \/ ListBySite(c) \/ ShowDetail(c) \/ CreateSecret(c)
  BY <1>3, EnsureSiteKeepsInv, ListBySiteKeepsInv, ShowDetailKeepsInv,
     CreateSecretKeepsInv
<1>4. CASE UpdateSecret(c) \/ RemoveSecret(c)
  BY <1>4, UpdateSecretKeepsInv, RemoveSecretKeepsInv
<1>5. CASE ReadSites(c) \/ ReadSecrets(c) \/ Export(c)
  BY <1>5, ReadSitesKeepsInv, ReadSecretsKeepsInv, ExportKeepsInv
<1>6. CASE Import(c)
  BY <1>6, RefuseOpenFileKeepsInv, DecideImportKeepsInv, ReplaceSiteKeepsInv,
     CreateSitesKeepsInv, ReplaceSecretKeepsInv, CreateSecretsKeepsInv,
     CommitKeepsInv
     DEF Import
<1>7. QED
  BY <1>1, <1>2, <1>3, <1>4, <1>5, <1>6 DEF Step

LEMMA NextKeepsInv == Inv /\ [Next]_vars => Inv'
<1> SUFFICES ASSUME Inv, [Next]_vars PROVE Inv'
  OBVIOUS
<1>1. CASE Next
  BY <1>1, SendKeepsInv, StepsKeepInv, ReceiveKeepsInv DEF Next
<1>2. CASE UNCHANGED vars
  <2>1. /\ TypeOK' /\ EverySecretHasItsSite' /\ ImportsApart'
    BY <1>2 DEF Inv, vars, TypeOK, EverySecretHasItsSite, ImportsApart
  <2>2. \A c \in Calls : Sound(requests'[c]) /\ Fits(requests'[c], sites', secrets')
    BY <1>2 DEF Inv, vars
  <2>3. \A c \in Calls : Sound(requests[c])' /\ Fits(requests[c], sites, secrets)'
    BY <2>2 DEF Sound, Staged, Admitted, Written, Due, Fits
  <2>4. QED
    BY <2>1, <2>3 DEF Inv
<1>3. QED
  BY <1>1, <1>2

LEMMA Invariance == Spec => []Inv
<1>1. Init => Inv
  BY InitInv
<1>2. Inv /\ [Next]_vars => Inv'
  BY NextKeepsInv
<1>3. QED
  BY <1>1, <1>2, PTL DEF Spec

(* Tables, requests and what transactions have written keep their types.   *)
THEOREM TypeCorrect == Spec => []TypeOK
<1>1. Inv => TypeOK
  BY DEF Inv
<1>2. QED
  BY <1>1, Invariance, PTL

(* Whatever requests race, no secret is ever left without its site: not by *)
(* a creation whose site is removed after ensureSite(), and not by an      *)
(* import whose rows others change or remove while it runs.                *)
THEOREM NoOrphans == Spec => []EverySecretHasItsSite
<1>1. Inv => EverySecretHasItsSite
  BY DEF Inv
<1>2. QED
  BY <1>1, Invariance, PTL

-----------------------------------------------------------------------------
(* The refinement.  A request takes its effect at the step that answers    *)
(* it; every other step is one of its reads, or is not seen at all.        *)

LEMMA CallsOf ==
    /\ DOMAIN atomicCalls = Calls
    /\ \A c \in Calls :
           /\ atomicCalls[c] = AtomicCall(requests[c])
           /\ atomicCalls[c].query = requests[c].query
           /\ atomicCalls[c].answer = requests[c].answer
           /\ atomicCalls[c].sitesRead = requests[c].sitesRead
           /\ atomicCalls[c].secretsRead = requests[c].secretsRead
BY DEF atomicCalls, AtomicCall

LEMMA InitRefines == Init => Atomic!Init
<1> SUFFICES ASSUME Init PROVE Atomic!Init
  OBVIOUS
<1>1. \A c \in Calls : AtomicCall(requests[c]) = Atomic!Idle
  BY DEF Init, Idle, AtomicCall, Atomic!Idle
<1>2. atomicCalls = [c \in Calls |-> Atomic!Idle]
  BY <1>1 DEF atomicCalls
<1>3. QED
  BY <1>2 DEF Init, NoSites, NoSecrets, Atomic!Init

(* The abstract specification speaks of the same tables and answers.       *)
LEMMA SameStore ==
    /\ \A rows : Atomic!Ids(rows) = Ids(rows)
    /\ \A rows, read : Atomic!Fresh(rows, read) = Fresh(rows, read)
    /\ \A rows, read : Atomic!Conflicts(rows, read) = Conflicts(rows, read)
    /\ \A rows, others : Atomic!Overlay(rows, others) = Overlay(rows, others)
    /\ \A rows, others : Atomic!Adopted(rows, others) = Adopted(rows, others)
    /\ \A rows, others : Atomic!Closed(rows, others) <=> Closed(rows, others)
    /\ \A rows, s : Atomic!SecretsOf(rows, s) = SecretsOf(rows, s)
    /\ \A rows, s : Atomic!Cascade(rows, s) = Cascade(rows, s)
    /\ \A rows, b : Atomic!Newborn(rows, b) <=> Newborn(rows, b)
BY DEF Atomic!Ids, Ids, Atomic!Fresh, Fresh, Atomic!Only, Only,
       Atomic!Conflicts, Conflicts, Atomic!Overlay, Overlay, Atomic!Adopted,
       Adopted, Atomic!Closed, Closed, Atomic!SecretsOf, SecretsOf,
       Atomic!Cascade, Cascade, Atomic!Newborn, Newborn

LEMMA SameAnswers ==
    /\ \A status : Atomic!Refusal(status) = Refusal(status)
    /\ \A ids : Atomic!Success(ids) = Success(ids)
    /\ \A row : Atomic!Found(row) = Found(row)
    /\ \A file : Atomic!Backup(file) = Backup(file)
    /\ Atomic!Query = Query
    /\ Atomic!Births = Births
BY DEF Atomic!Refusal, Refusal, Atomic!Success, Success, Atomic!Found, Found,
       Atomic!Backup, Backup, Atomic!Query, Query, Atomic!Births, Births,
       Atomic!Ops, Ops, Atomic!Modes, Modes, Atomic!File, File,
       Atomic!SiteTable, SiteTable, Atomic!SecretTable, SecretTable,
       Atomic!SiteRow, SiteRow, Atomic!SecretRow, SecretRow

LEMMA AnswerRefines ==
    ASSUME Inv, NEW c \in Calls, NEW a, Answers(c, a)
    PROVE  Atomic!Answers(c, a)
<1>1. requests' = [requests EXCEPT ![c] = Answered(requests[c], a)]
  BY DEF Answers
<1>2. requests \in [Calls -> Request]
  BY DEF Inv, TypeOK
<1>3. /\ requests'[c] = Answered(requests[c], a)
      /\ \A d \in Calls \ {c} : requests'[d] = requests[d]
  BY <1>1, <1>2
<1>4. AtomicCall(requests'[c]) = [AtomicCall(requests[c]) EXCEPT !.answer = a]
  BY <1>3 DEF AtomicCall, Answered
<1>5. atomicCalls' = [d \in Calls |-> AtomicCall(requests'[d])]
  BY DEF atomicCalls, AtomicCall
<1>6. atomicCalls = [d \in Calls |-> AtomicCall(requests[d])]
  BY DEF atomicCalls
<1>7. atomicCalls' = [atomicCalls EXCEPT ![c] =
                         [AtomicCall(requests[c]) EXCEPT !.answer = a]]
  <2> HIDE DEF AtomicCall
  <2>1. QED
    BY <1>3, <1>4, <1>5, <1>6
<1>8. QED
  BY <1>6, <1>7 DEF Atomic!Answers

LEMMA RefusalRefines ==
    ASSUME Inv, NEW c \in Calls, NEW status, Refuses(c, status)
    PROVE  Atomic!Refuses(c, status)
BY AnswerRefines, SameAnswers DEF Refuses, Atomic!Refuses


LEMMA Served ==
    ASSUME Inv, NEW c \in Calls, Pending(c), NEW q, q = requests[c].query,
           \/ Atomic!Refuses(c, "error")
           \/ q.op = "listSites" /\ Atomic!ListSites(c)
           \/ q.op = "createSite" /\ Atomic!CreateSite(c, q)
           \/ q.op = "updateSite" /\ Atomic!UpdateSite(c, q)
           \/ q.op = "removeSite" /\ Atomic!RemoveSite(c, q)
           \/ q.op = "listSecrets" /\ Atomic!ListSecrets(c, q)
           \/ q.op = "detail" /\ Atomic!ShowDetail(c, q)
           \/ q.op = "createSecret" /\ Atomic!CreateSecret(c, q)
           \/ q.op = "updateSecret" /\ Atomic!UpdateSecret(c, q)
           \/ q.op = "removeSecret" /\ Atomic!RemoveSecret(c, q)
           \/ /\ q.op \in {"export", "import"}
              /\ Atomic!ReadSites(c) \/ Atomic!ReadSecrets(c)
           \/ q.op = "export" /\ Atomic!Export(c)
           \/ q.op = "import" /\ Atomic!Import(c, q)
    PROVE  Atomic!Serve(c)
<1>1. requests[c].at # "idle" /\ requests[c].at # "answered"
  BY DEF Pending
<1>2. q # None /\ requests[c].answer = None
  BY <1>1, Asked DEF Sound, Staged
<1>3. atomicCalls[c].query = q /\ atomicCalls[c].answer = None
  BY <1>2, CallsOf
<1>4. QED
  BY <1>2, <1>3 DEF Atomic!Serve

LEMMA AtCalled ==
    ASSUME NEW c \in Calls, requests[c].at \in {"called", "siteFound"} \cup Importing
    PROVE  Pending(c)
BY DEF Pending, Importing

LEMMA AbortRefines ==
    ASSUME Inv, NEW c \in Calls, Abort(c)
    PROVE  Atomic!Serve(c)
BY RefusalRefines, Served DEF Abort

LEMMA ListSitesRefines ==
    ASSUME Inv, NEW c \in Calls, ListSites(c)
    PROVE  Atomic!Serve(c)
<1>1. Atomic!ListSites(c)
  BY AnswerRefines, SameStore, SameAnswers DEF ListSites, Atomic!ListSites
<1>2. QED
  BY <1>1, AtCalled, Served DEF ListSites, Op

LEMMA CreateSiteRefines ==
    ASSUME Inv, NEW c \in Calls, CreateSite(c)
    PROVE  Atomic!Serve(c)
<1> DEFINE q == requests[c].query
<1>1. Atomic!CreateSite(c, q)
  <2>1. PICK s \in Sites \ Ids(sites), b \in Births :
            /\ Newborn(sites, b)
            /\ sites' = [sites EXCEPT ![s] = [label |-> q.label, born |-> b]]
            /\ Answers(c, Success({s}))
    BY DEF CreateSite
  <2>2. Atomic!Answers(c, Success({s}))
    BY <2>1, AnswerRefines
  <2>3. UNCHANGED secrets
    BY DEF CreateSite
  <2>4. QED
    BY <2>1, <2>2, <2>3, SameStore, SameAnswers DEF Atomic!CreateSite
<1>2. QED
  BY <1>1, AtCalled, Served DEF CreateSite, Op

LEMMA UpdateSiteRefines ==
    ASSUME Inv, NEW c \in Calls, UpdateSite(c)
    PROVE  Atomic!Serve(c)
<1> DEFINE q == requests[c].query
           s == q.site
<1>1. CASE Refuses(c, "notFound") /\ s \notin Ids(sites)
  BY <1>1, RefusalRefines, SameStore, AtCalled, Served
     DEF UpdateSite, Op, Atomic!UpdateSite
<1>2. CASE /\ s \in Ids(sites)
           /\ sites' = [sites EXCEPT ![s] = [@ EXCEPT !.label = q.label]]
           /\ Answers(c, Success({s}))
           /\ UNCHANGED secrets
  <2>1. sites' = [sites EXCEPT ![s].label = q.label]
    BY <1>2
  <2>2. Atomic!Answers(c, Success({s}))
    BY <1>2, AnswerRefines
  <2>3. Atomic!UpdateSite(c, q)
    BY <1>2, <2>1, <2>2, SameStore, SameAnswers DEF Atomic!UpdateSite
  <2>4. QED
    BY <2>3, AtCalled, Served DEF UpdateSite, Op
<1>3. QED
  BY <1>1, <1>2 DEF UpdateSite

LEMMA RemoveSiteRefines ==
    ASSUME Inv, NEW c \in Calls, RemoveSite(c)
    PROVE  Atomic!Serve(c)
<1> DEFINE q == requests[c].query
           s == q.site
<1>1. CASE Refuses(c, "notFound") /\ s \notin Ids(sites)
  BY <1>1, RefusalRefines, SameStore, AtCalled, Served
     DEF RemoveSite, Op, Atomic!RemoveSite
<1>2. CASE /\ s \in Ids(sites)
           /\ sites' = [sites EXCEPT ![s] = None]
           /\ secrets' = Cascade(secrets, s)
           /\ Answers(c, Success({}))
  <2>1. Atomic!Answers(c, Success({}))
    BY <1>2, AnswerRefines
  <2>2. Atomic!RemoveSite(c, q)
    BY <1>2, <2>1, SameStore, SameAnswers DEF Atomic!RemoveSite
  <2>3. QED
    BY <2>2, AtCalled, Served DEF RemoveSite, Op
<1>3. QED
  BY <1>1, <1>2 DEF RemoveSite

LEMMA ListBySiteRefines ==
    ASSUME Inv, NEW c \in Calls, ListBySite(c)
    PROVE  Atomic!Serve(c)
<1> DEFINE q == requests[c].query
<1>1. Atomic!ListSecrets(c, q)
  BY AnswerRefines, SameStore, SameAnswers DEF ListBySite, Atomic!ListSecrets
<1>2. QED
  BY <1>1, AtCalled, Served DEF ListBySite, Op

LEMMA ShowDetailRefines ==
    ASSUME Inv, NEW c \in Calls, ShowDetail(c)
    PROVE  Atomic!Serve(c)
<1> DEFINE q == requests[c].query
           x == q.secret
<1>1. CASE Refuses(c, "notFound") /\ x \notin Ids(secrets)
  BY <1>1, RefusalRefines, SameStore, AtCalled, Served
     DEF ShowDetail, Op, Atomic!ShowDetail
<1>2. CASE /\ x \in Ids(secrets)
           /\ Answers(c, Found(secrets[x]))
           /\ UNCHANGED <<sites, secrets>>
  <2>1. Atomic!ShowDetail(c, q)
    BY <1>2, AnswerRefines, SameStore, SameAnswers DEF Atomic!ShowDetail
  <2>2. QED
    BY <2>1, AtCalled, Served DEF ShowDetail, Op
<1>3. QED
  BY <1>1, <1>2 DEF ShowDetail

LEMMA CreateSecretRefines ==
    ASSUME Inv, NEW c \in Calls, CreateSecret(c)
    PROVE  Atomic!Serve(c)
<1> DEFINE q == requests[c].query
           s == q.site
<1>1. CASE Refuses(c, "error")
  BY <1>1, RefusalRefines, AtCalled, Served DEF CreateSecret
<1>2. ASSUME s \in Ids(sites), UNCHANGED sites,
             NEW x \in Secrets \ Ids(secrets),
             secrets' = [secrets EXCEPT ![x] = [site |-> s, body |-> q.body]],
             Answers(c, Success({x}))
      PROVE  Atomic!Serve(c)
  <2>1. Atomic!Answers(c, Success({x}))
    BY <1>2, AnswerRefines
  <2>2. Atomic!CreateSecret(c, q)
    BY <1>2, <2>1, SameStore, SameAnswers DEF Atomic!CreateSecret
  <2>3. QED
    BY <2>2, AtCalled, Served DEF CreateSecret, Op
<1>3. QED
  BY <1>1, <1>2 DEF CreateSecret

LEMMA UpdateSecretRefines ==
    ASSUME Inv, NEW c \in Calls, UpdateSecret(c)
    PROVE  Atomic!Serve(c)
<1> DEFINE q == requests[c].query
           x == q.secret
<1>1. CASE Refuses(c, "notFound") /\ x \notin Ids(secrets)
  BY <1>1, RefusalRefines, SameStore, AtCalled, Served
     DEF UpdateSecret, Op, Atomic!UpdateSecret
<1>2. CASE /\ x \in Ids(secrets)
           /\ secrets' = [secrets EXCEPT ![x] = [@ EXCEPT !.body = q.body]]
           /\ Answers(c, Success({x}))
           /\ UNCHANGED sites
  <2>1. secrets' = [secrets EXCEPT ![x].body = q.body]
    BY <1>2
  <2>2. Atomic!Answers(c, Success({x}))
    BY <1>2, AnswerRefines
  <2>3. Atomic!UpdateSecret(c, q)
    BY <1>2, <2>1, <2>2, SameStore, SameAnswers DEF Atomic!UpdateSecret
  <2>4. QED
    BY <2>3, AtCalled, Served DEF UpdateSecret, Op
<1>3. QED
  BY <1>1, <1>2 DEF UpdateSecret

LEMMA RemoveSecretRefines ==
    ASSUME Inv, NEW c \in Calls, RemoveSecret(c)
    PROVE  Atomic!Serve(c)
<1> DEFINE q == requests[c].query
           x == q.secret
<1>1. CASE Refuses(c, "notFound") /\ x \notin Ids(secrets)
  BY <1>1, RefusalRefines, SameStore, AtCalled, Served
     DEF RemoveSecret, Op, Atomic!RemoveSecret
<1>2. CASE /\ x \in Ids(secrets)
           /\ secrets' = [secrets EXCEPT ![x] = None]
           /\ Answers(c, Success({}))
           /\ UNCHANGED sites
  <2>1. Atomic!Answers(c, Success({}))
    BY <1>2, AnswerRefines
  <2>2. Atomic!RemoveSecret(c, q)
    BY <1>2, <2>1, SameStore, SameAnswers DEF Atomic!RemoveSecret
  <2>3. QED
    BY <2>2, AtCalled, Served DEF RemoveSecret, Op
<1>3. QED
  BY <1>1, <1>2 DEF RemoveSecret


(* Steps of a request that its client does not see.                        *)
LEMMA Hidden ==
    ASSUME Inv, NEW c \in Calls, NEW q,
           requests' = [requests EXCEPT ![c] = q],
           q.query = requests[c].query, q.answer = requests[c].answer,
           q.sitesRead = requests[c].sitesRead,
           q.secretsRead = requests[c].secretsRead,
           UNCHANGED <<sites, secrets>>
    PROVE  UNCHANGED Atomic!vars
<1>1. requests \in [Calls -> Request]
  BY DEF Inv, TypeOK
<1>2. requests'[c] = q /\ \A d \in Calls \ {c} : requests'[d] = requests[d]
  BY <1>1
<1>3. \A d \in Calls : AtomicCall(requests'[d]) = AtomicCall(requests[d])
  BY <1>2 DEF AtomicCall
<1>4. atomicCalls' = [d \in Calls |-> AtomicCall(requests'[d])]
  BY DEF atomicCalls, AtomicCall
<1>5. atomicCalls' = atomicCalls
  <2>1. atomicCalls = [d \in Calls |-> AtomicCall(requests[d])]
    BY DEF atomicCalls
  <2> HIDE DEF AtomicCall
  <2>2. QED
    BY <1>3, <1>4, <2>1
<1>6. QED
  BY <1>5 DEF Atomic!vars

LEMMA EnsureSiteRefines ==
    ASSUME Inv, NEW c \in Calls, EnsureSite(c)
    PROVE  Atomic!Serve(c) \/ UNCHANGED Atomic!vars
<1> DEFINE r == requests[c]
           q == [r EXCEPT !.at = "siteFound"]
<1>1. requests[c].at = "called" /\ Op(c) \in {"listSecrets", "createSecret"}
  BY DEF EnsureSite
<1>2. CASE requests' = [requests EXCEPT ![c] = q] /\ UNCHANGED <<sites, secrets>>
  <2>1. r \in Request
    BY <1>1, Asked
  <2>2. /\ q.query = r.query /\ q.answer = r.answer
        /\ q.sitesRead = r.sitesRead /\ q.secretsRead = r.secretsRead
    BY <2>1 DEF Request
  <2> HIDE DEF q
  <2>3. QED
    BY <1>2, <2>2, Hidden
<1>3. CASE Refuses(c, "notFound") /\ r.query.site \notin Ids(sites)
  <2>1. Atomic!Refuses(c, "notFound") /\ r.query.site \notin Atomic!Ids(sites)
    BY <1>3, RefusalRefines, SameStore
  <2>2. CASE Op(c) = "listSecrets"
    BY <1>1, <2>1, <2>2, AtCalled, Served DEF Op, Atomic!ListSecrets
  <2>3. CASE Op(c) = "createSecret"
    BY <1>1, <2>1, <2>3, AtCalled, Served DEF Op, Atomic!CreateSecret
  <2>4. QED
    BY <1>1, <2>2, <2>3
<1>4. QED
  BY <1>2, <1>3 DEF EnsureSite

LEMMA ReadRefines ==
    ASSUME Inv, NEW c \in Calls, NEW q, requests' = [requests EXCEPT ![c] = q],
           q.query = requests[c].query, q.answer = requests[c].answer
    PROVE  /\ q.secretsRead = requests[c].secretsRead =>
                  atomicCalls' =
                      [atomicCalls EXCEPT ![c].sitesRead = q.sitesRead]
           /\ q.sitesRead = requests[c].sitesRead =>
                  atomicCalls' =
                      [atomicCalls EXCEPT ![c].secretsRead = q.secretsRead]
<1>1. requests \in [Calls -> Request]
  BY DEF Inv, TypeOK
<1>2. requests'[c] = q /\ \A d \in Calls \ {c} : requests'[d] = requests[d]
  BY <1>1
<1>3. atomicCalls' = [d \in Calls |-> AtomicCall(requests'[d])]
  BY DEF atomicCalls, AtomicCall
<1>4. atomicCalls = [d \in Calls |-> AtomicCall(requests[d])]
  BY DEF atomicCalls
<1>5. ASSUME q.secretsRead = requests[c].secretsRead
      PROVE  atomicCalls' = [atomicCalls EXCEPT ![c].sitesRead = q.sitesRead]
  <2>1. AtomicCall(requests'[c]) =
            [AtomicCall(requests[c]) EXCEPT !.sitesRead = q.sitesRead]
    BY <1>2, <1>5 DEF AtomicCall
  <2>2. atomicCalls' = [atomicCalls EXCEPT ![c] =
                [AtomicCall(requests[c]) EXCEPT !.sitesRead = q.sitesRead]]
    <3> HIDE DEF AtomicCall
    <3>1. QED
      BY <1>2, <1>3, <1>4, <2>1
  <2>3. QED
    BY <1>4, <2>2
<1>6. ASSUME q.sitesRead = requests[c].sitesRead
      PROVE  atomicCalls' = [atomicCalls EXCEPT ![c].secretsRead = q.secretsRead]
  <2>1. AtomicCall(requests'[c]) =
            [AtomicCall(requests[c]) EXCEPT !.secretsRead = q.secretsRead]
    BY <1>2, <1>6 DEF AtomicCall
  <2>2. atomicCalls' = [atomicCalls EXCEPT ![c] =
                [AtomicCall(requests[c]) EXCEPT !.secretsRead = q.secretsRead]]
    <3> HIDE DEF AtomicCall
    <3>1. QED
      BY <1>2, <1>3, <1>4, <2>1
  <2>3. QED
    BY <1>4, <2>2
<1>7. QED
  BY <1>5, <1>6

LEMMA ReadSitesRefines ==
    ASSUME Inv, NEW c \in Calls, ReadSites(c)
    PROVE  Atomic!Serve(c)
<1> DEFINE r == requests[c]
           q == [r EXCEPT !.sitesRead = sites]
<1>1. /\ r.at = "called" /\ Op(c) \in {"export", "import"} /\ r.sitesRead = None
      /\ requests' = [requests EXCEPT ![c] = q]
      /\ UNCHANGED <<sites, secrets>>
  BY DEF ReadSites
<1>2. r \in Request
  BY <1>1, Asked
<1>3. /\ q.query = r.query /\ q.answer = r.answer
      /\ q.secretsRead = r.secretsRead /\ q.sitesRead = sites
  BY <1>2 DEF Request
<1> HIDE DEF q
<1>4. atomicCalls' = [atomicCalls EXCEPT ![c].sitesRead = q.sitesRead]
  BY <1>1, <1>3, ReadRefines
<1>5. Atomic!ReadSites(c)
  BY <1>1, <1>3, <1>4, CallsOf DEF Atomic!ReadSites
<1>6. QED
  BY <1>1, <1>5, AtCalled, Served DEF Op

LEMMA ReadSecretsRefines ==
    ASSUME Inv, NEW c \in Calls, ReadSecrets(c)
    PROVE  Atomic!Serve(c)
<1> DEFINE r == requests[c]
           q == [r EXCEPT !.secretsRead = secrets]
<1>1. /\ r.at = "called" /\ Op(c) \in {"export", "import"} /\ r.secretsRead = None
      /\ requests' = [requests EXCEPT ![c] = q]
      /\ UNCHANGED <<sites, secrets>>
  BY DEF ReadSecrets
<1>2. r \in Request
  BY <1>1, Asked
<1>3. /\ q.query = r.query /\ q.answer = r.answer
      /\ q.sitesRead = r.sitesRead /\ q.secretsRead = secrets
  BY <1>2 DEF Request
<1> HIDE DEF q
<1>4. atomicCalls' = [atomicCalls EXCEPT ![c].secretsRead = q.secretsRead]
  BY <1>1, <1>3, ReadRefines
<1>5. Atomic!ReadSecrets(c)
  BY <1>1, <1>3, <1>4, CallsOf DEF Atomic!ReadSecrets
<1>6. QED
  BY <1>1, <1>5, AtCalled, Served DEF Op

LEMMA ExportRefines ==
    ASSUME Inv, NEW c \in Calls, Export(c)
    PROVE  Atomic!Serve(c)
<1> DEFINE file == [sites |-> requests[c].sitesRead,
                    secrets |-> requests[c].secretsRead]
<1>1. /\ requests[c].at = "called" /\ Op(c) = "export" /\ HasRead(c)
      /\ Answers(c, Backup(file)) /\ UNCHANGED <<sites, secrets>>
  BY DEF Export
<1>2. Atomic!Answers(c, Backup(file))
  BY <1>1, AnswerRefines
<1>3. Atomic!HasRead(c)
  BY <1>1, CallsOf DEF HasRead, Atomic!HasRead
<1>4. Atomic!Export(c)
  BY <1>1, <1>2, <1>3, CallsOf, SameAnswers DEF Atomic!Export
<1>5. QED
  BY <1>1, <1>4, AtCalled, Served DEF Op

LEMMA RefuseOpenFileRefines ==
    ASSUME Inv, NEW c \in Calls, RefuseOpenFile(c)
    PROVE  Atomic!Serve(c)
<1> DEFINE q == requests[c].query
<1>1. requests[c].at = "called" /\ Op(c) = "import" /\ ~FileClosed(c)
  BY DEF RefuseOpenFile
<1>2. ~Atomic!Closed(q.file.sites, q.file.secrets)
  BY <1>1, SameStore DEF FileClosed
<1>3. Atomic!Refuses(c, "invalid")
  BY RefusalRefines DEF RefuseOpenFile
<1>4. Atomic!Import(c, q)
  BY <1>2, <1>3 DEF Atomic!Import
<1>5. QED
  BY <1>1, <1>4, AtCalled, Served DEF Op

LEMMA DecideImportRefines ==
    ASSUME Inv, NEW c \in Calls, DecideImport(c)
    PROVE  Atomic!Serve(c) \/ UNCHANGED Atomic!vars
<1> DEFINE r == requests[c]
           k == r.query
           q == [r EXCEPT !.at = "replaceSites"]
<1>1. r.at = "called" /\ Op(c) = "import" /\ HasRead(c)
  BY DEF DecideImport
<1>2. CASE /\ k.mode = "reject"
           /\ SiteConflicts(c) # {} \/ SecretConflicts(c) # {}
           /\ Refuses(c, "conflict")
  <2>1. Atomic!Refuses(c, "conflict")
    BY <1>2, RefusalRefines
  <2>2. \/ Atomic!Conflicts(k.file.sites, atomicCalls[c].sitesRead) # {}
        \/ Atomic!Conflicts(k.file.secrets, atomicCalls[c].secretsRead) # {}
    BY <1>2, CallsOf, SameStore DEF SiteConflicts, SecretConflicts
  <2>3. Atomic!HasRead(c)
    BY <1>1, CallsOf DEF HasRead, Atomic!HasRead
  <2>4. Atomic!Import(c, k)
    BY <1>2, <2>1, <2>2, <2>3 DEF Atomic!Import
  <2>5. QED
    BY <1>1, <2>4, AtCalled, Served DEF Op
<1>3. CASE requests' = [requests EXCEPT ![c] = q] /\ UNCHANGED <<sites, secrets>>
  <2>1. r \in Request
    BY <1>1, Asked
  <2>2. /\ q.query = r.query /\ q.answer = r.answer
        /\ q.sitesRead = r.sitesRead /\ q.secretsRead = r.secretsRead
    BY <2>1 DEF Request
  <2> HIDE DEF q
  <2>3. QED
    BY <1>3, <2>2, Hidden
<1>4. QED
  BY <1>2, <1>3 DEF DecideImport

LEMMA ErrorRefines ==
    ASSUME Inv, NEW c \in Calls, requests[c].at \in Importing, Refuses(c, "error")
    PROVE  Atomic!Serve(c)
BY RefusalRefines, AtCalled, Served

LEMMA ReplaceSiteRefines ==
    ASSUME Inv, NEW c \in Calls, ReplaceSite(c)
    PROVE  Atomic!Serve(c) \/ UNCHANGED Atomic!vars
<1> DEFINE r == requests[c]
<1>1. r.at = "replaceSites"
  BY DEF ReplaceSite
<1>2. CASE Refuses(c, "error")
  BY <1>1, <1>2, ErrorRefines DEF Importing
<1>3. ASSUME NEW new,
             requests' = [requests EXCEPT ![c] = [r EXCEPT !.newSites = new]],
             UNCHANGED <<sites, secrets>>
      PROVE  UNCHANGED Atomic!vars
  <2> DEFINE q == [r EXCEPT !.newSites = new]
  <2>1. r \in Request
    BY <1>1, Asked
  <2>2. /\ q.query = r.query /\ q.answer = r.answer
        /\ q.sitesRead = r.sitesRead /\ q.secretsRead = r.secretsRead
    BY <2>1 DEF Request
  <2>3. requests' = [requests EXCEPT ![c] = q]
    BY <1>3
  <2> HIDE DEF q
  <2>4. QED
    BY <1>3, <2>2, <2>3, Hidden
<1>4. QED
  BY <1>2, <1>3 DEF ReplaceSite

LEMMA CreateSitesRefines ==
    ASSUME Inv, NEW c \in Calls, CreateSites(c)
    PROVE  Atomic!Serve(c) \/ UNCHANGED Atomic!vars
<1> DEFINE r == requests[c]
           q == [r EXCEPT !.at = "replaceSecrets",
                          !.newSites = Overlay(r.newSites, NewSites(c))]
<1>1. r.at = "replaceSites"
  BY DEF CreateSites
<1>2. CASE Refuses(c, "error")
  BY <1>1, <1>2, ErrorRefines DEF Importing
<1>3. CASE requests' = [requests EXCEPT ![c] = q] /\ UNCHANGED <<sites, secrets>>
  <2>1. r \in Request
    BY <1>1, Asked
  <2>2. /\ q.query = r.query /\ q.answer = r.answer
        /\ q.sitesRead = r.sitesRead /\ q.secretsRead = r.secretsRead
    BY <2>1 DEF Request
  <2> HIDE DEF q
  <2>3. QED
    BY <1>3, <2>2, Hidden
<1>4. QED
  BY <1>2, <1>3 DEF CreateSites

LEMMA ReplaceSecretRefines ==
    ASSUME Inv, NEW c \in Calls, ReplaceSecret(c)
    PROVE  Atomic!Serve(c) \/ UNCHANGED Atomic!vars
<1> DEFINE r == requests[c]
<1>1. r.at = "replaceSecrets"
  BY DEF ReplaceSecret
<1>2. CASE Refuses(c, "error")
  BY <1>1, <1>2, ErrorRefines DEF Importing
<1>3. ASSUME NEW new,
             requests' = [requests EXCEPT ![c] = [r EXCEPT !.newSecrets = new]],
             UNCHANGED <<sites, secrets>>
      PROVE  UNCHANGED Atomic!vars
  <2> DEFINE q == [r EXCEPT !.newSecrets = new]
  <2>1. r \in Request
    BY <1>1, Asked
  <2>2. /\ q.query = r.query /\ q.answer = r.answer
        /\ q.sitesRead = r.sitesRead /\ q.secretsRead = r.secretsRead
    BY <2>1 DEF Request
  <2>3. requests' = [requests EXCEPT ![c] = q]
    BY <1>3
  <2> HIDE DEF q
  <2>4. QED
    BY <1>3, <2>2, <2>3, Hidden
<1>4. QED
  BY <1>2, <1>3 DEF ReplaceSecret

LEMMA CreateSecretsRefines ==
    ASSUME Inv, NEW c \in Calls, CreateSecrets(c)
    PROVE  Atomic!Serve(c) \/ UNCHANGED Atomic!vars
<1> DEFINE r == requests[c]
           q == [r EXCEPT !.at = "commit",
                          !.newSecrets = Overlay(r.newSecrets, NewSecrets(c))]
<1>1. r.at = "replaceSecrets"
  BY DEF CreateSecrets
<1>2. CASE Refuses(c, "error")
  BY <1>1, <1>2, ErrorRefines DEF Importing
<1>3. CASE requests' = [requests EXCEPT ![c] = q] /\ UNCHANGED <<sites, secrets>>
  <2>1. r \in Request
    BY <1>1, Asked
  <2>2. /\ q.query = r.query /\ q.answer = r.answer
        /\ q.sitesRead = r.sitesRead /\ q.secretsRead = r.secretsRead
    BY <2>1 DEF Request
  <2> HIDE DEF q
  <2>3. QED
    BY <1>3, <2>2, Hidden
<1>4. QED
  BY <1>2, <1>3 DEF CreateSecrets

LEMMA SameRows ==
    /\ \A rows, others \in SiteTable :
           /\ Ids(rows) = Ids(others)
           /\ \A s \in Ids(rows) : rows[s] = others[s]
           => rows = others
    /\ \A rows, others \in SecretTable :
           /\ Ids(rows) = Ids(others)
           /\ \A x \in Ids(rows) : rows[x] = others[x]
           => rows = others
<1>1. ASSUME NEW rows \in SiteTable, NEW others \in SiteTable,
             Ids(rows) = Ids(others), \A s \in Ids(rows) : rows[s] = others[s]
      PROVE  rows = others
  <2>1. \A s \in Sites : rows[s] = others[s]
    BY <1>1, IdsOfTables
  <2>2. QED
    BY <2>1 DEF SiteTable
<1>2. ASSUME NEW rows \in SecretTable, NEW others \in SecretTable,
             Ids(rows) = Ids(others), \A x \in Ids(rows) : rows[x] = others[x]
      PROVE  rows = others
  <2>1. \A x \in Secrets : rows[x] = others[x]
    BY <1>2, IdsOfTables
  <2>2. QED
    BY <2>1 DEF SecretTable
<1>3. QED
  BY <1>1, <1>2

(* What an import leaves when it commits, mode by mode.                    *)
LEMMA CommittedRows ==
    ASSUME Inv, NEW c \in Calls, requests[c].at = "commit",
           NEW file, file = requests[c].query.file
    PROVE  /\ requests[c].query.mode = "reject" =>
                  /\ Ids(file.sites) \cap Ids(sites) = {}
                  /\ Ids(file.secrets) \cap Ids(secrets) = {}
                  /\ requests[c].newSites = file.sites
                  /\ requests[c].newSecrets = file.secrets
           /\ requests[c].query.mode = "skip" =>
                  /\ Ids(requests[c].newSites) \cap Ids(sites) = {}
                  /\ Ids(requests[c].newSecrets) \cap Ids(secrets) = {}
                  /\ requests[c].newSites =
                         Fresh(file.sites, requests[c].sitesRead)
                  /\ requests[c].newSecrets =
                         Fresh(file.secrets, requests[c].secretsRead)
           /\ requests[c].query.mode = "replace" =>
                  /\ requests[c].newSites = Adopted(sites, file.sites)
                  /\ requests[c].newSecrets = file.secrets
<1> DEFINE r == requests[c]
<1>1. r \in Request /\ Sound(r) /\ Fits(r, sites, secrets) /\ r.at \in Importing
  BY Asked DEF Inv, Importing
<1>2. /\ file.sites \in SiteTable /\ file.secrets \in SecretTable
      /\ r.sitesRead \in SiteTable /\ r.secretsRead \in SecretTable
      /\ r.newSites \in SiteTable /\ r.newSecrets \in SecretTable
  BY <1>1, ImportingFile
<1>3. sites \in SiteTable /\ secrets \in SecretTable
  BY DEF Inv, TypeOK
<1>4. /\ Ids(r.newSites) = Due(r, file.sites, r.sitesRead)
      /\ Ids(r.newSecrets) = Due(r, file.secrets, r.secretsRead)
  BY <1>1 DEF Sound, Written
<1>5. /\ \A s \in Ids(r.newSites) :
             /\ r.newSites[s] = Adopted(sites, file.sites)[s]
             /\ s \in Ids(sites) <=> s \in Ids(r.sitesRead)
      /\ \A x \in Ids(r.newSecrets) :
             /\ r.newSecrets[x] = file.secrets[x]
             /\ x \in Ids(secrets) <=> x \in Ids(r.secretsRead)
  BY <1>1 DEF Fits
<1>6. ASSUME NEW s \in Ids(r.newSites), s \notin Ids(sites)
      PROVE  r.newSites[s] = file.sites[s]
  <2>1. s \in Sites /\ sites[s] = None
    BY <1>2, <1>3, <1>6, IdsOfTables
  <2>2. /\ sites \in SiteTable /\ file.sites \in SiteTable /\ s \in Sites
        /\ file.sites[s] = None \/ sites[s] = None
    BY <1>2, <1>3, <2>1
  <2>3. Adopted(sites, file.sites)[s] = file.sites[s]
    BY <2>2, AdoptedRow
  <2>4. QED
    BY <1>5, <2>3
<1>7. CASE r.query.mode = "reject"
  <2>1. /\ Ids(r.newSites) = Ids(file.sites)
        /\ Ids(r.newSecrets) = Ids(file.secrets)
    BY <1>4, <1>7 DEF Due
  <2>2. /\ Ids(file.sites) \cap Ids(r.sitesRead) = {}
        /\ Ids(file.secrets) \cap Ids(r.secretsRead) = {}
    BY <1>1, <1>7 DEF Sound, Admitted, Conflicts
  <2>3. /\ Ids(file.sites) \cap Ids(sites) = {}
        /\ Ids(file.secrets) \cap Ids(secrets) = {}
    BY <1>5, <2>1, <2>2
  <2>4. r.newSites = file.sites
    BY <1>2, <1>6, <2>1, <2>3, SameRows
  <2>5. r.newSecrets = file.secrets
    BY <1>2, <1>5, <2>1, SameRows
  <2>6. QED
    BY <1>7, <2>3, <2>4, <2>5
<1>8. CASE r.query.mode = "skip"
  <2> DEFINE freshSites == Fresh(file.sites, r.sitesRead)
             freshSecrets == Fresh(file.secrets, r.secretsRead)
  <2>1. /\ Ids(r.newSites) = Ids(file.sites) \ Ids(r.sitesRead)
        /\ Ids(r.newSecrets) = Ids(file.secrets) \ Ids(r.secretsRead)
    BY <1>4, <1>8 DEF Due
  <2>2. /\ Ids(r.newSites) \cap Ids(sites) = {}
        /\ Ids(r.newSecrets) \cap Ids(secrets) = {}
    BY <1>5, <2>1
  <2>3. /\ freshSites \in SiteTable
        /\ Ids(freshSites) = Ids(file.sites) \ Ids(r.sitesRead)
        /\ \A s \in Ids(freshSites) : freshSites[s] = file.sites[s]
        /\ freshSecrets \in SecretTable
        /\ Ids(freshSecrets) = Ids(file.secrets) \ Ids(r.secretsRead)
        /\ \A x \in Ids(freshSecrets) : freshSecrets[x] = file.secrets[x]
    BY <1>2, FreshRows
  <2> HIDE DEF freshSites, freshSecrets
  <2>4. r.newSites = freshSites
    <3>1. \A s \in Ids(r.newSites) : r.newSites[s] = freshSites[s]
      BY <1>6, <2>1, <2>2, <2>3
    <3>2. r.newSites \in SiteTable /\ freshSites \in SiteTable
      BY <1>2, <2>3
    <3>3. Ids(r.newSites) = Ids(freshSites)
      BY <2>1, <2>3
    <3>4. QED
      BY <3>1, <3>2, <3>3, SameRows
  <2>5. r.newSecrets = freshSecrets
    <3>1. \A x \in Ids(r.newSecrets) : r.newSecrets[x] = freshSecrets[x]
      BY <1>5, <2>1, <2>3
    <3>2. r.newSecrets \in SecretTable /\ freshSecrets \in SecretTable
      BY <1>2, <2>3
    <3>3. Ids(r.newSecrets) = Ids(freshSecrets)
      BY <2>1, <2>3
    <3>4. QED
      BY <3>1, <3>2, <3>3, SameRows
  <2>6. QED
    BY <1>8, <2>2, <2>4, <2>5 DEF freshSites, freshSecrets
<1>9. CASE r.query.mode = "replace"
  <2>1. /\ Ids(r.newSites) = Ids(file.sites)
        /\ Ids(r.newSecrets) = Ids(file.secrets)
    BY <1>4, <1>9 DEF Due
  <2>2. /\ Adopted(sites, file.sites) \in SiteTable
        /\ Ids(Adopted(sites, file.sites)) = Ids(file.sites)
    <3>1. CASE Sites = {}
      BY <1>2, <3>1, IdsOfTables DEF Adopted, SiteTable
    <3>2. CASE Sites # {}
      <4>1. Adopted(sites, file.sites) \in SiteTable
        BY <1>2, <1>3, <3>2, AdoptedRow
      <4>2. \A s \in Sites :
                s \in Ids(Adopted(sites, file.sites)) <=> s \in Ids(file.sites)
        BY <1>2, <1>3, AdoptedRow
      <4>3. /\ Ids(Adopted(sites, file.sites)) \subseteq Sites
            /\ Ids(file.sites) \subseteq Sites
        BY <1>2, <4>1, IdsOfTables
      <4>4. QED
        BY <4>1, <4>2, <4>3
    <3>3. QED
      BY <3>1, <3>2
  <2>3. r.newSites = Adopted(sites, file.sites)
    BY <1>2, <1>5, <2>1, <2>2, SameRows
  <2>4. r.newSecrets = file.secrets
    BY <1>2, <1>5, <2>1, SameRows
  <2>5. QED
    BY <1>9, <2>3, <2>4
<1>10. QED
  BY <1>7, <1>8, <1>9

LEMMA CommitRefines ==
    ASSUME Inv, NEW c \in Calls, Commit(c)
    PROVE  Atomic!Serve(c)
<1> DEFINE r == requests[c]
           q == r.query
           answer == Success(Ids(r.newSites) \cup Ids(r.newSecrets))
<1>1. /\ r.at = "commit"
      /\ sites' = Overlay(sites, r.newSites)
      /\ secrets' = Overlay(secrets, r.newSecrets)
      /\ Answers(c, answer)
  BY DEF Commit
<1>2. r \in Request /\ Sound(r) /\ r.at \in Importing
  BY <1>1, Asked DEF Importing
<1>3. /\ q.op = "import" /\ q.mode \in Modes
      /\ Atomic!HasRead(c)
      /\ Atomic!Closed(q.file.sites, q.file.secrets)
  <2>1. /\ r.sitesRead # None /\ r.secretsRead # None
        /\ Closed(q.file.sites, q.file.secrets)
    BY <1>2 DEF Sound, Admitted
  <2>2. q.op = "import" /\ q.mode \in Modes
    BY <1>2, ImportingFile
  <2>3. QED
    BY <2>1, <2>2, CallsOf, SameStore DEF Atomic!HasRead
<1>4. /\ sites' = Atomic!Overlay(sites, r.newSites)
      /\ secrets' = Atomic!Overlay(secrets, r.newSecrets)
      /\ Atomic!Answers(c, Atomic!Success(Atomic!Ids(r.newSites)
                                          \cup Atomic!Ids(r.newSecrets)))
  <2>1. Atomic!Answers(c, answer)
    BY <1>1, AnswerRefines
  <2>2. Atomic!Success(Atomic!Ids(r.newSites) \cup Atomic!Ids(r.newSecrets)) =
            answer
    BY SameStore, SameAnswers
  <2>3. QED
    BY <1>1, <2>1, <2>2, SameStore
<1>5. Atomic!Import(c, q)
  <2>1. CASE q.mode = "reject"
    <3>1. /\ r.newSites = q.file.sites /\ r.newSecrets = q.file.secrets
          /\ Atomic!Absent(q.file.sites, sites)
          /\ Atomic!Absent(q.file.secrets, secrets)
      BY <1>1, <2>1, CommittedRows, SameStore DEF Atomic!Absent
    <3>2. QED
      BY <1>3, <1>4, <2>1, <3>1 DEF Atomic!Import
  <2>2. CASE q.mode = "skip"
    <3>1. /\ r.newSites = Atomic!Fresh(q.file.sites, atomicCalls[c].sitesRead)
          /\ r.newSecrets =
                 Atomic!Fresh(q.file.secrets, atomicCalls[c].secretsRead)
          /\ Atomic!Absent(r.newSites, sites)
          /\ Atomic!Absent(r.newSecrets, secrets)
      BY <1>1, <2>2, CommittedRows, CallsOf, SameStore DEF Atomic!Absent
    <3>2. QED
      BY <1>3, <1>4, <2>2, <3>1 DEF Atomic!Import
  <2>3. CASE q.mode = "replace"
    <3>1. /\ r.newSites = Atomic!Adopted(sites, q.file.sites)
          /\ r.newSecrets = q.file.secrets
      BY <1>1, <2>3, CommittedRows, SameStore
    <3>2. QED
      BY <1>3, <1>4, <2>3, <3>1 DEF Atomic!Import
  <2>4. QED
    BY <1>3, <2>1, <2>2, <2>3 DEF Modes
<1>6. QED
  BY <1>2, <1>3, <1>5, AtCalled, Served

LEMMA SendRefines ==
    ASSUME Inv, NEW c \in Calls, Send(c)
    PROVE  Atomic!Invoke(c)
<1>1. PICK k \in Queries :
          requests' = [requests EXCEPT ![c] =
                          [Idle EXCEPT !.at = "called", !.query = k]]
  BY DEF Send
<1> DEFINE q == [Idle EXCEPT !.at = "called", !.query = k]
<1>2. /\ requests[c].at = "idle" /\ UNCHANGED <<sites, secrets>>
  BY DEF Send
<1>3. requests \in [Calls -> Request] /\ Staged(requests[c])
  BY DEF Inv, TypeOK, Sound
<1>4. AtomicCall(requests[c]) = Atomic!Idle
  BY <1>2, <1>3 DEF Staged, AtomicCall, Atomic!Idle
<1>5. AtomicCall(q) = [Atomic!Idle EXCEPT !.query = k]
  BY DEF Idle, AtomicCall, Atomic!Idle
<1> HIDE DEF q
<1>6. requests'[c] = q /\ \A d \in Calls \ {c} : requests'[d] = requests[d]
  BY <1>1, <1>3 DEF q
<1>7. /\ atomicCalls = [d \in Calls |-> AtomicCall(requests[d])]
      /\ atomicCalls' = [d \in Calls |-> AtomicCall(requests'[d])]
  BY DEF atomicCalls, AtomicCall
<1>8. atomicCalls' = [atomicCalls EXCEPT ![c] = [Atomic!Idle EXCEPT !.query = k]]
  <2> HIDE DEF AtomicCall
  <2>1. QED
    BY <1>5, <1>6, <1>7
<1>9. atomicCalls[c] = Atomic!Idle
  BY <1>4, <1>7
<1>10. atomicCalls'[c].query = k
  BY <1>8, <1>7 DEF Atomic!Idle
<1>11. k \in Atomic!Query
  BY QueriesAssumption, SameAnswers
<1>12. atomicCalls' = [atomicCalls EXCEPT ![c].query = k]
  BY <1>8, <1>9
<1>13. QED
  BY <1>2, <1>9, <1>10, <1>11, <1>12 DEF Atomic!Invoke

LEMMA ReceiveRefines ==
    ASSUME Inv, NEW c \in Calls, Receive(c)
    PROVE  Atomic!Return(c)
<1>1. /\ requests[c].at = "answered" /\ UNCHANGED <<sites, secrets>>
      /\ requests' = [requests EXCEPT ![c] = Idle]
  BY DEF Receive
<1>2. requests \in [Calls -> Request] /\ Staged(requests[c])
  BY DEF Inv, TypeOK, Sound
<1>3. requests[c].answer # None
  BY <1>1, <1>2 DEF Staged
<1>4. AtomicCall(Idle) = Atomic!Idle
  BY DEF Idle, AtomicCall, Atomic!Idle
<1>5. requests'[c] = Idle /\ \A d \in Calls \ {c} : requests'[d] = requests[d]
  BY <1>1, <1>2
<1>6. /\ atomicCalls = [d \in Calls |-> AtomicCall(requests[d])]
      /\ atomicCalls' = [d \in Calls |-> AtomicCall(requests'[d])]
  BY DEF atomicCalls, AtomicCall
<1>7. atomicCalls' = [atomicCalls EXCEPT ![c] = Atomic!Idle]
  <2> HIDE DEF AtomicCall
  <2>1. QED
    BY <1>4, <1>5, <1>6
<1>8. QED
  BY <1>1, <1>3, <1>7, CallsOf DEF Atomic!Return

LEMMA StepRefines ==
    ASSUME Inv, NEW c \in Calls, Step(c)
    PROVE  Atomic!Serve(c) \/ UNCHANGED Atomic!vars
<1>1. CASE Abort(c)
  BY <1>1, AbortRefines
<1>2. CASE ListSites(c) \/ CreateSite(c) \/ UpdateSite(c) \/ RemoveSite(c)
  BY <1>2, ListSitesRefines, CreateSiteRefines, UpdateSiteRefines,
     RemoveSiteRefines
<1>3. CASE EnsureSite(c) \/ ListBySite(c) \/ ShowDetail(c) \/ CreateSecret(c)
  BY <1>3, EnsureSiteRefines, ListBySiteRefines, ShowDetailRefines,
     CreateSecretRefines
<1>4. CASE UpdateSecret(c) \/ RemoveSecret(c)
  BY <1>4, UpdateSecretRefines, RemoveSecretRefines
<1>5. CASE ReadSites(c) \/ ReadSecrets(c) \/ Export(c)
  BY <1>5, ReadSitesRefines, ReadSecretsRefines, ExportRefines
<1>6. CASE Import(c)
  BY <1>6, RefuseOpenFileRefines, DecideImportRefines, ReplaceSiteRefines,
     CreateSitesRefines, ReplaceSecretRefines, CreateSecretsRefines,
     CommitRefines
     DEF Import
<1>7. QED
  BY <1>1, <1>2, <1>3, <1>4, <1>5, <1>6 DEF Step

LEMMA NextRefines == Inv /\ [Next]_vars => [Atomic!Next]_(Atomic!vars)
<1> SUFFICES ASSUME Inv, [Next]_vars PROVE Atomic!Next \/ UNCHANGED Atomic!vars
  OBVIOUS
<1>1. CASE Next
  <2>1. PICK c \in Calls : Send(c) \/ Step(c) \/ Receive(c)
    BY <1>1 DEF Next
  <2>2. \/ Atomic!Invoke(c) \/ Atomic!Serve(c) \/ Atomic!Return(c)
        \/ UNCHANGED Atomic!vars
    BY <2>1, SendRefines, StepRefines, ReceiveRefines
  <2>3. QED
    BY <2>2 DEF Atomic!Next
<1>2. CASE UNCHANGED vars
  <2>1. requests' = requests /\ UNCHANGED <<sites, secrets>>
    BY <1>2 DEF vars
  <2>2. atomicCalls' = atomicCalls
    BY <2>1 DEF atomicCalls, AtomicCall
  <2>3. QED
    BY <2>1, <2>2 DEF Atomic!vars
<1>3. QED
  BY <1>1, <1>2

(* The API implements AtomicVault: a client cannot tell its requests from  *)
(* ones that act on both tables at one moment, or fail and do nothing.     *)
(* This is about every interleaving of the statements of the handlers of   *)
(* sites, secrets and backups, the transaction of an import among them.    *)
THEOREM ActsAsOneStep == Spec => ActsAtOnce
<1>1. Init => Atomic!Init
  BY InitRefines
<1>2. Inv /\ [Next]_vars => [Atomic!Next]_(Atomic!vars)
  BY NextRefines
<1>3. QED
  BY <1>1, <1>2, Invariance, PTL DEF Spec, ActsAtOnce, Atomic!Spec
=============================================================================
