------------------------------- MODULE Auth ---------------------------------
(***************************************************************************)
(* The authentication service of the API (apps/api/src/auth): passkey      *)
(* registration, login, recovery, logout and the session guard, with       *)
(* several HTTP requests in flight.                                        *)
(*                                                                         *)
(* A handler runs without interruption between two awaits, so it is split  *)
(* there: a step of JavaScript up to the next query, the query itself at   *)
(* the database, the JavaScript that continues with the rows it read.  The *)
(* process may restart between any two steps: its memory is lost, the      *)
(* committed rows stay.                                                    *)
(***************************************************************************)
EXTENDS AuthMemory

CONSTANTS
    Requests,           \* requests that can be in flight together
    Credentials,        \* WebauthnCredential rows that can exist together
    VaultKeys,          \* vault keys (VK) that clients generate
    Endpoints,          \* the endpoints that are called
    OverlappingOnboarding,  \* two onboarding clients may register at once
    OnboardingCookies,      \* an onboarding screen may share a logged-in jar
    BootstrapToken,     \* is BOOTSTRAP_TOKEN set on the server?
    Production          \* is NODE_ENV "production"?

ASSUME RowAssumption == None \notin Credentials \cup VaultKeys

ASSUME SwitchAssumption ==
    /\ OverlappingOnboarding \in BOOLEAN
    /\ OnboardingCookies \in BOOLEAN
    /\ BootstrapToken \in BOOLEAN
    /\ Production \in BOOLEAN

VARIABLES
    sessions,           \* session token -> ticks left
    recoverySessions,   \* recovery token -> ticks left
    challenges,         \* kind of ceremony -> challenge slot
    backoff,            \* BackoffService
    optionsHits,        \* AuthService.optionsHits
    recoveryHits,       \* AuthService.recoveryHits
    credentials,        \* table WebauthnCredential: row -> the key it wraps
    recoveryWrap,       \* table RecoveryWrap: the key the singleton row wraps
    requests,           \* the requests in flight
    recoveryUses        \* history: registrations committed under a recovery token

memory == <<sessions, recoverySessions, challenges, backoff, optionsHits, recoveryHits>>
tables == <<credentials, recoveryWrap>>
vars == <<memory, tables, requests, recoveryUses>>

-----------------------------------------------------------------------------
(* A request in flight. *)

(* Where a request waits.  A "find", "count", "delete", "commit" or        *)
(* "update" waits for the database; the others for the event loop.         *)
AtDatabase == {"ro.find", "rv.count", "rv.delete", "rv.commit", "lo.find",
               "lv.find", "lv.update", "cv.find"}
AtEventLoop == {"ro.found", "rv.counted", "rv.committed", "lo.found",
                "lv.found", "lv.updated", "cv.found"}

Request ==
    [at : {"idle"} \cup AtDatabase \cup AtEventLoop,
     authenticated : BOOLEAN,                   \* canRegister(req)
     isRecovery : BOOLEAN,                      \* isRecoverySession(req)
     recoveryToken : RecoveryTokens \cup {None},  \* its sm_recovery cookie
     challenge : Challenges \cup {None},        \* the challenge its client signed
     key : VaultKeys \cup {None},               \* the key dto.wrappedVkPrf wraps
     fresh : BOOLEAN,                           \* that key was generated for it
     recovery : BOOLEAN,                        \* dto.recovery is present
     credential : Credentials \cup {None},      \* the row it creates or names
     found : BOOLEAN,                           \* its last query returned rows
     doomed : SUBSET Credentials]               \* rows its deleteMany() saw

Idle ==
    [at |-> "idle", authenticated |-> FALSE, isRecovery |-> FALSE,
     recoveryToken |-> None, challenge |-> None, key |-> None, fresh |-> FALSE,
     recovery |-> FALSE, credential |-> None, found |-> FALSE, doomed |-> {}]

At(r, place) == requests[r].at = place

Goes(r, place) == requests' = [requests EXCEPT ![r].at = place]

Replies(r) == requests' = [requests EXCEPT ![r] = Idle]

-----------------------------------------------------------------------------
(* What clients may send.  A cookie that is not live is as good as none.   *)

SessionCookies == {t \in Tokens : Live(sessions, t)} \cup {None}
RecoveryCookies == {t \in RecoveryTokens : Live(recoverySessions, t)} \cup {None}

Rows == {c \in Credentials : credentials[c] # None}
Registered == Rows # {}

(* Keys that unlocked clients hold: those the server's rows wrap. *)
KeysInUse == ({credentials[c] : c \in Credentials} \cup {recoveryWrap}) \ {None}

(* A challenge, a session token and a recovery token nobody has seen, and  *)
(* a credential id no row and no request names.                            *)
FreshChallenges ==
    Challenges \ ({challenges[k].value : k \in Kinds}
                    \cup {requests[r].challenge : r \in Requests})
FreshTokens == {t \in Tokens : ~Live(sessions, t)}
FreshRecoveryTokens ==
    {t \in RecoveryTokens : ~Live(recoverySessions, t)}
        \ {requests[r].recoveryToken : r \in Requests}
FreshCredentials ==
    (Credentials \ Rows)
        \ UNION {{requests[r].credential} \cup requests[r].doomed : r \in Requests}

(* A client signs the challenge that is pending when it sends, or one that *)
(* will never be pending again (an older one, a forged one).               *)
Signed(kind) == {challenges[kind].value, None}

(* An onboarding client generates a key nobody holds.  Its screen may have *)
(* been open since the vault was empty, whatever the vault holds now.      *)
FreshKeys ==
    IF \A r \in Requests : requests[r].fresh => OverlappingOnboarding
    THEN VaultKeys \ (KeysInUse \cup {requests[r].key : r \in Requests})
    ELSE {}

(* Mutant: an attempt refused while blocked starts the block anew. *)
RefusedAndExtended ==
    Blocked(backoff) /\ backoff' = [backoff EXCEPT !.left = BackoffDuration]

(* isBlocked() answers true: 429, and nothing changes. *)
Refused == Blocked(backoff) /\ UNCHANGED backoff

-----------------------------------------------------------------------------
Init ==
    /\ sessions = [t \in Tokens |-> 0]
    /\ recoverySessions = [t \in RecoveryTokens |-> 0]
    /\ challenges = [k \in Kinds |-> EmptySlot]
    /\ backoff = NoBackoff
    /\ optionsHits = NoHits
    /\ recoveryHits = NoHits
    /\ credentials = [c \in Credentials |-> None]
    /\ recoveryWrap = None
    /\ requests = [r \in Requests |-> Idle]
    /\ recoveryUses = [t \in RecoveryTokens |-> 0]

-----------------------------------------------------------------------------
(* POST /auth/register/options *)

(* The controller evaluates both cookies before the service's first await. *)
RegisterOptions(r) ==
    /\ "registerOptions" \in Endpoints
    /\ At(r, "idle")
    /\ \E tok \in SessionCookies, rtok \in RecoveryCookies :
        /\ sessions' = Touched(sessions, tok)
        /\ requests' = [requests EXCEPT ![r] =
                [Idle EXCEPT !.at = "ro.find",
                             !.authenticated = tok # None \/ rtok # None]]
    /\ UNCHANGED <<recoverySessions, challenges, backoff, optionsHits,
                   recoveryHits, tables, recoveryUses>>

(* findMany() and count() on WebauthnCredential. *)
CountCredentials(r) ==
    /\ \/ At(r, "ro.find") /\ requests' =
            [requests EXCEPT ![r].at = "ro.found", ![r].found = Registered]
       \/ At(r, "rv.count") /\ requests' =
            [requests EXCEPT ![r].at = "rv.counted", ![r].found = Registered]
       \/ At(r, "lo.find") /\ requests' =
            [requests EXCEPT ![r].at = "lo.found", ![r].found = Registered]
    /\ UNCHANGED <<memory, tables, recoveryUses>>

(* assertRegisterAllowed(): a first registration, or a session. *)
RegisterAllowed(q) == ~q.found \/ q.authenticated

RegisterOptionsReply(r) ==
    /\ At(r, "ro.found")
    /\ \/ /\ ~RegisterAllowed(requests[r])
          /\ UNCHANGED <<challenges, optionsHits>>
       \/ /\ RegisterAllowed(requests[r])
          /\ HitsInWindow(optionsHits) >= OptionsMax
          /\ UNCHANGED <<challenges, optionsHits>>
       \/ /\ RegisterAllowed(requests[r])
          /\ HitsInWindow(optionsHits) < OptionsMax
          /\ optionsHits' = HitRecorded(optionsHits)
          /\ \E c \in FreshChallenges :
                challenges' = ChallengeSet(challenges, "register", c)
    /\ Replies(r)
    /\ UNCHANGED <<sessions, recoverySessions, backoff, recoveryHits, tables, recoveryUses>>

-----------------------------------------------------------------------------
(* POST /auth/register/verify *)

(* The body: an onboarding client sends a fresh key, a client that holds   *)
(* the vault key sends that one.                                           *)
RegisterBodies ==
    [key : FreshKeys, fresh : {TRUE}, recovery : BOOLEAN]
        \cup [key : KeysInUse, fresh : {FALSE}, recovery : BOOLEAN]

RegisterVerify(r) ==
    /\ "registerVerify" \in Endpoints
    /\ At(r, "idle")
    /\ \E tok \in SessionCookies, rtok \in RecoveryCookies,
          body \in RegisterBodies, c \in Signed("register") :
        /\ body.fresh => OnboardingCookies \/ (tok = None /\ rtok = None)
        /\ sessions' = Touched(sessions, tok)
        /\ requests' = [requests EXCEPT ![r] =
                [Idle EXCEPT !.at = "rv.count",
                             !.authenticated = tok # None \/ rtok # None,
                             !.isRecovery = rtok # None,
                             !.recoveryToken = rtok,
                             !.challenge = c,
                             !.key = body.key,
                             !.fresh = body.fresh,
                             !.recovery = body.recovery]]
    /\ UNCHANGED <<recoverySessions, challenges, backoff, optionsHits,
                   recoveryHits, tables, recoveryUses>>

(* assertBootstrapToken(), for a first registration only: refuses while    *)
(* blocked; refuses without counting when the server has no token; counts  *)
(* a missing or a wrong token as a failure.                                *)
BootstrapRefused(q) ==
    /\ ~q.found
    /\ \/ Refused
       \/ ~Blocked(backoff) /\ ~BootstrapToken /\ backoff' = AfterCheck(backoff)
       \/ /\ ~Blocked(backoff) /\ BootstrapToken
          /\ backoff' = FailureRecorded(AfterCheck(backoff))

BootstrapPassed(q) ==
    \/ q.found /\ UNCHANGED backoff
    \/ ~q.found /\ ~Blocked(backoff) /\ BootstrapToken /\ backoff' = AfterCheck(backoff)

(* Mutant: the check is missing. *)
RecoveryWrapOptional(q) == TRUE

(* The recovery wrap may be left out of the body unless this is the first  *)
(* registration.                                                           *)
RecoveryWrapGiven(q) == q.found \/ q.recovery

(* verifyRegistrationResponse(): the client signed the consumed challenge. *)
Verified(q, kind) ==
    /\ Consumed(challenges, kind) # None
    /\ q.challenge = Consumed(challenges, kind)

RegisterVerifyAdmit(r) ==
    LET q == requests[r] IN
    /\ At(r, "rv.counted")
    /\ \/ /\ ~RegisterAllowed(q)
          /\ Replies(r)
          /\ UNCHANGED <<backoff, challenges>>
       \/ /\ RegisterAllowed(q)
          /\ BootstrapRefused(q)
          /\ Replies(r)
          /\ UNCHANGED challenges
       \/ /\ RegisterAllowed(q)
          /\ BootstrapPassed(q)
          /\ challenges' = AfterConsume(challenges, "register")
          /\ IF RecoveryWrapGiven(q) /\ Verified(q, "register")
             THEN Goes(r, IF q.isRecovery THEN "rv.delete" ELSE "rv.commit")
             ELSE Replies(r)
    /\ UNCHANGED <<sessions, recoverySessions, optionsHits, recoveryHits, tables, recoveryUses>>

(* Mutant: the deletion is not part of the transaction. *)
RegisterDeleteAlone(r) ==
    /\ At(r, "rv.delete")
    /\ requests' = [requests EXCEPT ![r].at = "rv.commit"]
    /\ credentials' = [c \in Credentials |-> None]
    /\ UNCHANGED <<memory, recoveryWrap, recoveryUses>>

(* deleteMany() of the recovery transaction.  Under READ COMMITTED it      *)
(* removes the rows committed when it starts; the removal shows when the   *)
(* transaction commits.                                                    *)
RegisterDelete(r) ==
    /\ At(r, "rv.delete")
    /\ requests' = [requests EXCEPT ![r].at = "rv.commit", ![r].doomed = Rows]
    /\ UNCHANGED <<memory, tables, recoveryUses>>

(* The rows after the transaction: the new one, and of the old ones those  *)
(* it did not delete.                                                      *)
RowsAfter(q, new) ==
    [c \in Credentials |->
        IF c = new THEN q.key ELSE IF c \in q.doomed THEN None ELSE credentials[c]]

WrapAfter(q) == IF q.recovery THEN q.key ELSE recoveryWrap

RegisterCommit(r) ==
    LET q == requests[r] IN
    /\ At(r, "rv.commit")
    /\ \E new \in FreshCredentials :
        /\ credentials' = RowsAfter(q, new)
        /\ requests' = [requests EXCEPT ![r].at = "rv.committed",
                                        ![r].credential = new,
                                        ![r].doomed = {}]
    /\ recoveryWrap' = WrapAfter(q)
    /\ recoveryUses' =
        IF q.isRecovery
        THEN [recoveryUses EXCEPT ![q.recoveryToken] = @ + 1]
        ELSE recoveryUses
    /\ UNCHANGED memory

(* The service resets the back-off; the controller revokes the recovery    *)
(* token if it is still live and issues a session.                         *)
RegisterVerifyReply(r) ==
    LET q == requests[r] IN
    /\ At(r, "rv.committed")
    /\ backoff' = NoBackoff
    /\ recoverySessions' = Revoked(recoverySessions, q.recoveryToken)
    /\ \E t \in FreshTokens : sessions' = Issued(sessions, t)
    /\ Replies(r)
    /\ UNCHANGED <<challenges, optionsHits, recoveryHits, tables, recoveryUses>>

-----------------------------------------------------------------------------
(* POST /auth/login/options *)

LoginOptions(r) ==
    /\ "loginOptions" \in Endpoints
    /\ At(r, "idle")
    /\ \/ /\ HitsInWindow(optionsHits) >= OptionsMax
          /\ UNCHANGED <<optionsHits, requests>>
       \/ /\ HitsInWindow(optionsHits) < OptionsMax
          /\ optionsHits' = HitRecorded(optionsHits)
          /\ Goes(r, "lo.find")
    /\ UNCHANGED <<sessions, recoverySessions, challenges, backoff,
                   recoveryHits, tables, recoveryUses>>

LoginOptionsReply(r) ==
    /\ At(r, "lo.found")
    /\ \/ /\ ~requests[r].found
          /\ UNCHANGED challenges
       \/ /\ requests[r].found
          /\ \E c \in FreshChallenges :
                challenges' = ChallengeSet(challenges, "login", c)
    /\ Replies(r)
    /\ UNCHANGED <<sessions, recoverySessions, backoff, optionsHits,
                   recoveryHits, tables, recoveryUses>>

-----------------------------------------------------------------------------
(* POST /auth/login/verify *)

(* Refused while blocked.  Otherwise a malformed id or a missing challenge *)
(* is a failure; a well-formed request takes the challenge and looks its   *)
(* credential up.                                                          *)
LoginVerify(r) ==
    /\ "loginVerify" \in Endpoints
    /\ At(r, "idle")
    /\ \/ /\ Refused
          /\ UNCHANGED <<challenges, requests>>
       \/ /\ ~Blocked(backoff)
          /\ backoff' = FailureRecorded(AfterCheck(backoff))
          /\ UNCHANGED <<challenges, requests>>
       \/ /\ ~Blocked(backoff)
          /\ challenges' = AfterConsume(challenges, "login")
          /\ IF Consumed(challenges, "login") = None
             THEN /\ backoff' = FailureRecorded(AfterCheck(backoff))
                  /\ UNCHANGED requests
             ELSE /\ backoff' = AfterCheck(backoff)
                  /\ \E c \in Credentials, signed \in Signed("login") :
                        requests' = [requests EXCEPT ![r] =
                            [Idle EXCEPT !.at = "lv.find",
                                         !.challenge = signed,
                                         !.credential = c]]
    /\ UNCHANGED <<sessions, recoverySessions, optionsHits, recoveryHits, tables, recoveryUses>>

LoginFind(r) ==
    /\ At(r, "lv.find")
    /\ requests' = [requests EXCEPT ![r].at = "lv.found",
                                    ![r].found = requests[r].credential \in Rows]
    /\ UNCHANGED <<memory, tables, recoveryUses>>

(* An unknown credential or a failed verification is a failure. *)
LoginCheck(r) ==
    LET q == requests[r] IN
    /\ At(r, "lv.found")
    /\ IF q.found /\ q.challenge # None
       THEN Goes(r, "lv.update") /\ UNCHANGED backoff
       ELSE Replies(r) /\ backoff' = FailureRecorded(backoff)
    /\ UNCHANGED <<sessions, recoverySessions, challenges, optionsHits,
                   recoveryHits, tables, recoveryUses>>

(* The counter update names the row: if it is gone the update throws, the  *)
(* reply is an error and no session is issued.                             *)
LoginUpdate(r) ==
    /\ At(r, "lv.update")
    /\ IF requests[r].credential \in Rows THEN Goes(r, "lv.updated") ELSE Replies(r)
    /\ UNCHANGED <<memory, tables, recoveryUses>>

LoginVerifyReply(r) ==
    /\ At(r, "lv.updated")
    /\ backoff' = NoBackoff
    /\ \E t \in FreshTokens : sessions' = Issued(sessions, t)
    /\ Replies(r)
    /\ UNCHANGED <<recoverySessions, challenges, optionsHits, recoveryHits,
                   tables, recoveryUses>>

-----------------------------------------------------------------------------
(* POST /auth/recovery/verify *)

RecoveryVerify(r) ==
    /\ "recoveryVerify" \in Endpoints
    /\ At(r, "idle")
    /\ \/ /\ Refused
          /\ UNCHANGED <<recoveryHits, requests>>
       \/ /\ ~Blocked(backoff)
          /\ backoff' = AfterCheck(backoff)
          /\ HitsInWindow(recoveryHits) >= RecoveryMax
          /\ UNCHANGED <<recoveryHits, requests>>
       \/ /\ ~Blocked(backoff)
          /\ backoff' = AfterCheck(backoff)
          /\ HitsInWindow(recoveryHits) < RecoveryMax
          /\ recoveryHits' = HitRecorded(recoveryHits)
          /\ Goes(r, "cv.find")
    /\ UNCHANGED <<sessions, recoverySessions, challenges, optionsHits, tables, recoveryUses>>

RecoveryFind(r) ==
    /\ At(r, "cv.find")
    /\ requests' = [requests EXCEPT ![r].at = "cv.found",
                                    ![r].found = recoveryWrap # None]
    /\ UNCHANGED <<memory, tables, recoveryUses>>

(* No wrap: 404.  A wrong code is a failure; the right one resets the      *)
(* back-off and issues a recovery token.                                   *)
RecoveryVerifyReply(r) ==
    /\ At(r, "cv.found")
    /\ \/ /\ ~requests[r].found
          /\ UNCHANGED <<backoff, recoverySessions, recoveryUses>>
       \/ /\ requests[r].found
          /\ backoff' = FailureRecorded(backoff)
          /\ UNCHANGED <<recoverySessions, recoveryUses>>
       \/ /\ requests[r].found
          /\ backoff' = NoBackoff
          /\ \E t \in FreshRecoveryTokens :
                /\ recoverySessions' = RecoveryIssued(recoverySessions, t)
                /\ recoveryUses' = [recoveryUses EXCEPT ![t] = 0]
    /\ Replies(r)
    /\ UNCHANGED <<sessions, challenges, optionsHits, recoveryHits, tables>>

-----------------------------------------------------------------------------
(* Handlers without an await. *)

(* POST /auth/logout revokes the tokens of this request's own cookies. *)
Logout ==
    /\ "logout" \in Endpoints
    /\ \E tok \in SessionCookies, rtok \in RecoveryCookies :
        /\ sessions' = Revoked(sessions, tok)
        /\ recoverySessions' = Revoked(recoverySessions, rtok)
    /\ UNCHANGED <<challenges, backoff, optionsHits, recoveryHits, tables,
                   requests, recoveryUses>>

(* GET /auth/status and AuthGuard.canActivate() on every protected route. *)
AuthenticatedRequest ==
    /\ "guarded" \in Endpoints
    /\ \E tok \in SessionCookies : sessions' = Touched(sessions, tok)
    /\ UNCHANGED <<recoverySessions, challenges, backoff, optionsHits,
                   recoveryHits, tables, requests, recoveryUses>>

(* POST /auth/dev/login: a session without WebAuthn, not in production. *)
DevLogin ==
    /\ "devLogin" \in Endpoints
    /\ ~Production
    /\ \E t \in FreshTokens : sessions' = Issued(sessions, t)
    /\ UNCHANGED <<recoverySessions, challenges, backoff, optionsHits,
                   recoveryHits, tables, requests, recoveryUses>>

-----------------------------------------------------------------------------
(* The surroundings. *)

(* A query fails (connection, constraint, time-out): the transaction is    *)
(* rolled back and the handler throws.                                     *)
DatabaseError(r) ==
    /\ requests[r].at \in AtDatabase
    /\ Replies(r)
    /\ UNCHANGED <<memory, tables, recoveryUses>>

Tick ==
    /\ sessions' = [t \in Tokens |-> Elapse(sessions[t])]
    /\ recoverySessions' = [t \in RecoveryTokens |-> Elapse(recoverySessions[t])]
    /\ challenges' = [k \in Kinds |-> [challenges[k] EXCEPT !.left = Elapse(@)]]
    /\ backoff' = [backoff EXCEPT !.left = Elapse(@)]
    /\ optionsHits' = HitsElapsed(optionsHits)
    /\ recoveryHits' = HitsElapsed(recoveryHits)
    /\ UNCHANGED <<tables, requests, recoveryUses>>

(* The process stops and starts again: memory and requests are gone. *)
Restart ==
    /\ "restart" \in Endpoints
    /\ sessions' = [t \in Tokens |-> 0]
    /\ recoverySessions' = [t \in RecoveryTokens |-> 0]
    /\ challenges' = [k \in Kinds |-> EmptySlot]
    /\ backoff' = NoBackoff
    /\ optionsHits' = NoHits
    /\ recoveryHits' = NoHits
    /\ requests' = [r \in Requests |-> Idle]
    /\ UNCHANGED <<tables, recoveryUses>>

-----------------------------------------------------------------------------
RequestStep(r) ==
    \/ RegisterOptions(r) \/ RegisterOptionsReply(r)
    \/ CountCredentials(r)
    \/ RegisterVerify(r) \/ RegisterVerifyAdmit(r) \/ RegisterDelete(r)
    \/ RegisterCommit(r) \/ RegisterVerifyReply(r)
    \/ LoginOptions(r) \/ LoginOptionsReply(r)
    \/ LoginVerify(r) \/ LoginFind(r) \/ LoginCheck(r) \/ LoginUpdate(r)
    \/ LoginVerifyReply(r)
    \/ RecoveryVerify(r) \/ RecoveryFind(r) \/ RecoveryVerifyReply(r)
    \/ DatabaseError(r)

Next ==
    \/ \E r \in Requests : RequestStep(r)
    \/ Logout \/ AuthenticatedRequest \/ DevLogin
    \/ Tick \/ Restart

Spec == Init /\ [][Next]_vars

(* Time passes; nothing else is promised: requests come from a user, and   *)
(* a handler may wait for the database for ever.                           *)
FairSpec == Spec /\ WF_vars(Tick)
=============================================================================
