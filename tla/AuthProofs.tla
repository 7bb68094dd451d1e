----------------------------- MODULE AuthProofs -----------------------------
(***************************************************************************)
(* Proofs about the authentication service, for any number of requests in  *)
(* flight, tokens, challenges, credentials and vault keys.                 *)
(***************************************************************************)
EXTENDS AuthProperties, FiniteSetTheorems, TLAPS

-----------------------------------------------------------------------------
(* Types of the operators on the process memory. *)

LEMMA ElapseType ==
    ASSUME NEW n \in Nat, NEW left \in 0..n
    PROVE  Elapse(left) \in 0..n /\ Elapse(left) <= left
BY DEF Elapse

LEMMA SessionMapType ==
    ASSUME NEW map \in SessionMap, NEW t \in Tokens \cup {None}
    PROVE  /\ Touched(map, t) \in SessionMap
           /\ Revoked(map, t) \in SessionMap
           /\ t # None => Issued(map, t) \in SessionMap
BY NoneAssumption, DurationAssumption
   DEF SessionMap, Touched, Revoked, Issued, Live

LEMMA RecoveryMapType ==
    ASSUME NEW map \in RecoveryMap, NEW t \in RecoveryTokens \cup {None}
    PROVE  /\ Revoked(map, t) \in RecoveryMap
           /\ t # None => RecoveryIssued(map, t) \in RecoveryMap
BY NoneAssumption, DurationAssumption
   DEF RecoveryMap, Revoked, RecoveryIssued

LEMMA SlotsType ==
    ASSUME NEW slots \in [Kinds -> Slot], NEW kind \in Kinds
    PROVE  /\ AfterConsume(slots, kind) \in [Kinds -> Slot]
           /\ Consumed(slots, kind) \in Challenges \cup {None}
           /\ \A c \in Challenges : ChallengeSet(slots, kind, c) \in [Kinds -> Slot]
BY DurationAssumption
   DEF Slot, EmptySlot, AfterConsume, Consumed, ChallengeSet

LEMMA BackoffType ==
    ASSUME NEW b \in Backoff
    PROVE  /\ NoBackoff \in Backoff
           /\ AfterCheck(b) \in Backoff
           /\ FailureRecorded(b) \in Backoff
           /\ FailureRecorded(AfterCheck(b)) \in Backoff
<1>1. NoBackoff \in Backoff
  BY DurationAssumption DEF Backoff, NoBackoff
<1>2. AfterCheck(b) \in Backoff
  BY <1>1 DEF AfterCheck
<1>3. ASSUME NEW d \in Backoff PROVE FailureRecorded(d) \in Backoff
  BY DurationAssumption DEF Backoff, FailureRecorded
<1>4. QED
  BY <1>1, <1>2, <1>3

LEMMA HitMapType ==
    ASSUME NEW hits \in HitMap
    PROVE  /\ NoHits \in HitMap
           /\ HitRecorded(hits) \in HitMap
           /\ HitsElapsed(hits) \in HitMap
BY DurationAssumption DEF HitMap, NoHits, HitRecorded, HitsElapsed

(* The values memory has after a start of the process. *)
LEMMA StartType ==
    /\ [t \in Tokens |-> 0] \in SessionMap
    /\ [t \in RecoveryTokens |-> 0] \in RecoveryMap
    /\ [k \in Kinds |-> EmptySlot] \in [Kinds -> Slot]
    /\ NoBackoff \in Backoff
    /\ NoHits \in HitMap
BY DurationAssumption
   DEF SessionMap, RecoveryMap, EmptySlot, Slot, NoBackoff, Backoff, NoHits, HitMap

(* Replies and moves keep the requests well typed. *)
LEMMA IdleType == Idle \in Request
BY DEF Idle, Request

LEMMA RequestsType ==
    ASSUME requests \in [Requests -> Request], NEW r \in Requests
    PROVE  /\ Replies(r) => requests' \in [Requests -> Request]
           /\ \A place \in {"idle"} \cup AtDatabase \cup AtEventLoop :
                Goes(r, place) => requests' \in [Requests -> Request]
           /\ \A q \in Request :
                requests' = [requests EXCEPT ![r] = q]
                    => requests' \in [Requests -> Request]
BY IdleType DEF Replies, Goes, Request

LEMMA AnswerType ==
    ASSUME requests \in [Requests -> Request], NEW r \in Requests,
           NEW place \in AtDatabase \cup AtEventLoop,
           NEW found \in BOOLEAN,
           requests' = [requests EXCEPT ![r].at = place, ![r].found = found]
    PROVE  requests' \in [Requests -> Request]
<1>1. [requests[r] EXCEPT !.at = place, !.found = found] \in Request
  BY DEF Request
<1>2. requests' = [requests EXCEPT ![r] = [requests[r] EXCEPT !.at = place, !.found = found]]
  OBVIOUS
<1>3. QED
  BY <1>1, <1>2

-----------------------------------------------------------------------------
(* Every state of every behaviour is well typed. *)
LEMMA TypeStep == TypeOK /\ [Next]_vars => TypeOK'
<1> SUFFICES ASSUME TypeOK, [Next]_vars PROVE TypeOK'
  OBVIOUS
<1> USE NoneAssumption, RowAssumption
<1>1. ASSUME NEW r \in Requests, RegisterOptions(r) PROVE TypeOK'
  <2>1. PICK tok \in SessionCookies, rtok \in RecoveryCookies :
            /\ sessions' = Touched(sessions, tok)
            /\ requests' = [requests EXCEPT ![r] =
                    [Idle EXCEPT !.at = "ro.find",
                                 !.authenticated = tok # None \/ rtok # None]]
    BY <1>1 DEF RegisterOptions
  <2>2. [Idle EXCEPT !.at = "ro.find",
                     !.authenticated = tok # None \/ rtok # None] \in Request
    BY DEF Idle, Request, AtDatabase
  <2>3. requests' \in [Requests -> Request]
    BY <2>1, <2>2 DEF TypeOK
  <2>4. sessions' \in SessionMap
    BY <2>1, SessionMapType DEF TypeOK, SessionCookies
  <2>5. QED
    BY <1>1, <2>3, <2>4 DEF RegisterOptions, TypeOK, tables
<1>2. ASSUME NEW r \in Requests, CountCredentials(r) PROVE TypeOK'
  BY <1>2
     DEF CountCredentials, Request, AtDatabase, AtEventLoop, Registered, Rows, TypeOK, memory, tables
<1>3. ASSUME NEW r \in Requests, RegisterOptionsReply(r) PROVE TypeOK'
  <2>1. requests' \in [Requests -> Request]
    BY <1>3, RequestsType DEF RegisterOptionsReply, TypeOK
  <2>2. challenges' \in [Kinds -> Slot]
    BY <1>3, SlotsType DEF RegisterOptionsReply, FreshChallenges, Kinds, TypeOK
  <2>3. optionsHits' \in HitMap
    BY <1>3, HitMapType DEF RegisterOptionsReply, TypeOK
  <2>4. QED
    BY <1>3, <2>1, <2>2, <2>3 DEF RegisterOptionsReply, TypeOK, tables
<1>4. ASSUME NEW r \in Requests, RegisterVerify(r) PROVE TypeOK'
  <2>1. PICK tok \in SessionCookies, rtok \in RecoveryCookies,
             body \in RegisterBodies, c \in Signed("register") :
            /\ body.fresh => OnboardingCookies \/ (tok = None /\ rtok = None)
            /\ sessions' = Touched(sessions, tok)
            /\ requests' = [requests EXCEPT ![r] =
                    [Idle EXCEPT !.at = "rv.count",
                                 !.authenticated = tok # None \/ rtok # None,
                                 !.isRecovery = rtok # None,
                                 !.recoveryToken = rtok,
                                 !.challenge = c,
                                 !.key = body.key,
                                 !.fresh = body.fresh,
                                 !.recovery = body.recovery]]
    BY <1>4, Zenon DEF RegisterVerify
  <2>2. /\ rtok \in RecoveryTokens \cup {None}
        /\ c \in Challenges \cup {None}
        /\ body.key \in VaultKeys \cup {None}
        /\ body.fresh \in BOOLEAN
        /\ body.recovery \in BOOLEAN
    BY DEF RecoveryCookies, Signed, Kinds, Slot, RegisterBodies, FreshKeys, KeysInUse, TypeOK
  <2>3. [Idle EXCEPT !.at = "rv.count",
                     !.authenticated = tok # None \/ rtok # None,
                     !.isRecovery = rtok # None,
                     !.recoveryToken = rtok,
                     !.challenge = c,
                     !.key = body.key,
                     !.fresh = body.fresh,
                     !.recovery = body.recovery] \in Request
    BY <2>2 DEF Idle, Request, AtDatabase
  <2>4. requests' \in [Requests -> Request]
    BY <2>1, <2>3 DEF TypeOK
  <2>5. sessions' \in SessionMap
    BY <2>1, SessionMapType DEF TypeOK, SessionCookies
  <2>6. QED
    BY <1>4, <2>4, <2>5 DEF RegisterVerify, TypeOK, tables
<1>5. ASSUME NEW r \in Requests, RegisterVerifyAdmit(r) PROVE TypeOK'
  BY <1>5, RequestsType, SlotsType, BackoffType
     DEF RegisterVerifyAdmit, BootstrapRefused, BootstrapPassed, Refused, Kinds, AtDatabase, AtEventLoop, TypeOK, memory, tables
<1>6. ASSUME NEW r \in Requests, RegisterDelete(r) PROVE TypeOK'
  <2>1. [requests[r] EXCEPT !.at = "rv.commit", !.doomed = Rows] \in Request
    <3>1. requests[r] \in Request /\ Rows \in SUBSET Credentials
      BY DEF Rows, TypeOK
    <3>2. QED
      BY <3>1 DEF Request, AtDatabase
  <2>2. requests' \in [Requests -> Request]
    <3>1. requests' = [requests EXCEPT ![r] =
              [requests[r] EXCEPT !.at = "rv.commit", !.doomed = Rows]]
      BY <1>6 DEF RegisterDelete, TypeOK
    <3>2. QED
      BY <2>1, <3>1 DEF TypeOK
  <2>3. QED
    BY <1>6, <2>2 DEF RegisterDelete, TypeOK, memory, tables
<1>7. ASSUME NEW r \in Requests, RegisterCommit(r) PROVE TypeOK'
  BY <1>7
     DEF RegisterCommit, RowsAfter, WrapAfter, FreshCredentials, Rows, Request, AtDatabase, AtEventLoop, TypeOK, memory, tables
<1>8. ASSUME NEW r \in Requests, RegisterVerifyReply(r) PROVE TypeOK'
  <2>1. requests' \in [Requests -> Request]
    BY <1>8, RequestsType DEF RegisterVerifyReply, TypeOK
  <2>2. /\ requests[r].recoveryToken \in RecoveryTokens \cup {None}
        /\ requests[r].credential \in Credentials \cup {None}
    BY DEF TypeOK, Request
  <2>3. recoverySessions' \in RecoveryMap
    BY <1>8, <2>2, RecoveryMapType DEF RegisterVerifyReply, TypeOK
  <2>4. sessions' \in SessionMap
    BY <1>8, <2>2, SessionMapType DEF RegisterVerifyReply, FreshTokens, TypeOK
  <2>5. QED
    BY <1>8, <2>1, <2>3, <2>4, StartType DEF RegisterVerifyReply, TypeOK, tables
<1>9. ASSUME NEW r \in Requests, LoginOptions(r) PROVE TypeOK'
  BY <1>9, RequestsType, HitMapType
     DEF LoginOptions, AtDatabase, AtEventLoop, TypeOK, memory, tables
<1>10. ASSUME NEW r \in Requests, LoginOptionsReply(r) PROVE TypeOK'
  <2>1. requests' \in [Requests -> Request]
    BY <1>10, RequestsType DEF LoginOptionsReply, TypeOK
  <2>2. challenges' \in [Kinds -> Slot]
    <3>1. \A c \in Challenges :
             ChallengeSet(challenges, "login", c) \in [Kinds -> Slot]
      BY SlotsType DEF Kinds, TypeOK
    <3>2. QED
      BY <1>10, <3>1 DEF LoginOptionsReply, FreshChallenges, TypeOK
  <2>3. QED
    BY <1>10, <2>1, <2>2 DEF LoginOptionsReply, TypeOK, tables
<1>11. ASSUME NEW r \in Requests, LoginVerify(r) PROVE TypeOK'
  <2>1. challenges' \in [Kinds -> Slot]
    BY <1>11, SlotsType DEF LoginVerify, Kinds, TypeOK
  <2>2. backoff' \in Backoff
    BY <1>11, BackoffType DEF LoginVerify, Refused, TypeOK
  <2>3. ASSUME NEW c \in Credentials, NEW signed \in Signed("login")
        PROVE  [Idle EXCEPT !.at = "lv.find",
                            !.challenge = signed,
                            !.credential = c] \in Request
    BY DEF Signed, Kinds, Slot, Idle, Request, AtDatabase, TypeOK
  <2>4. requests' \in [Requests -> Request]
    <3>1. CASE UNCHANGED requests
      BY <3>1 DEF TypeOK
    <3>2. CASE ~ UNCHANGED requests
      <4>1. PICK c \in Credentials, signed \in Signed("login") :
                requests' = [requests EXCEPT ![r] =
                    [Idle EXCEPT !.at = "lv.find",
                                 !.challenge = signed,
                                 !.credential = c]]
        BY <1>11, <3>2, Zenon DEF LoginVerify
      <4>2. QED
        BY <2>3, <4>1 DEF TypeOK
    <3>3. QED
      BY <3>1, <3>2
  <2>5. QED
    BY <1>11, <2>1, <2>2, <2>4 DEF LoginVerify, TypeOK, tables
<1>12. ASSUME NEW r \in Requests, LoginFind(r) PROVE TypeOK'
  <2>1. requests' \in [Requests -> Request]
    <3>1. (requests[r].credential \in Rows) \in BOOLEAN
      OBVIOUS
    <3>2. "lv.found" \in AtDatabase \cup AtEventLoop
      BY DEF AtEventLoop
    <3>3. requests' = [requests EXCEPT ![r].at = "lv.found",
                                       ![r].found = requests[r].credential \in Rows]
      BY <1>12, Zenon DEF LoginFind
    <3>4. requests \in [Requests -> Request]
      BY DEF TypeOK
    <3>5. QED
      BY <3>1, <3>2, <3>3, <3>4, AnswerType, Zenon
  <2>2. QED
    BY <1>12, <2>1 DEF LoginFind, TypeOK, memory, tables
<1>13. ASSUME NEW r \in Requests, LoginCheck(r) PROVE TypeOK'
  BY <1>13, RequestsType, BackoffType
     DEF LoginCheck, AtDatabase, AtEventLoop, TypeOK, memory, tables
<1>14. ASSUME NEW r \in Requests, LoginUpdate(r) PROVE TypeOK'
  BY <1>14, RequestsType
     DEF LoginUpdate, AtDatabase, AtEventLoop, TypeOK, memory, tables
<1>15. ASSUME NEW r \in Requests, LoginVerifyReply(r) PROVE TypeOK'
  <2>1. requests' \in [Requests -> Request]
    BY <1>15, RequestsType DEF LoginVerifyReply, TypeOK
  <2>2. requests[r].credential \in Credentials \cup {None}
    BY DEF TypeOK, Request
  <2>3. sessions' \in SessionMap
    BY <1>15, <2>2, SessionMapType DEF LoginVerifyReply, FreshTokens, TypeOK
  <2>4. QED
    BY <1>15, <2>1, <2>3, StartType DEF LoginVerifyReply, TypeOK, tables
<1>16. ASSUME NEW r \in Requests, RecoveryVerify(r) PROVE TypeOK'
  BY <1>16, RequestsType, HitMapType, BackoffType
     DEF RecoveryVerify, Refused, AtDatabase, AtEventLoop, TypeOK, memory, tables
<1>17. ASSUME NEW r \in Requests, RecoveryFind(r) PROVE TypeOK'
  <2>1. requests' \in [Requests -> Request]
    BY <1>17, AnswerType, (recoveryWrap # None) \in BOOLEAN
       DEF RecoveryFind, TypeOK, AtEventLoop
  <2>2. QED
    BY <1>17, <2>1 DEF RecoveryFind, TypeOK, memory, tables
<1>18. ASSUME NEW r \in Requests, RecoveryVerifyReply(r) PROVE TypeOK'
  <2>1. requests' \in [Requests -> Request]
    BY <1>18, RequestsType DEF RecoveryVerifyReply, TypeOK
  <2>2. backoff' \in Backoff
    BY <1>18, BackoffType DEF RecoveryVerifyReply, TypeOK
  <2>3. recoverySessions' \in RecoveryMap /\ recoveryUses' \in [RecoveryTokens -> Nat]
    BY <1>18, RecoveryMapType DEF RecoveryVerifyReply, FreshRecoveryTokens, TypeOK
  <2>4. QED
    BY <1>18, <2>1, <2>2, <2>3 DEF RecoveryVerifyReply, TypeOK, tables
<1>19. ASSUME NEW r \in Requests, DatabaseError(r) PROVE TypeOK'
  BY <1>19, RequestsType
     DEF DatabaseError, TypeOK, memory, tables
<1>20. CASE Logout
  BY <1>20, SessionMapType, RecoveryMapType
     DEF Logout, SessionCookies, RecoveryCookies, TypeOK, memory, tables
<1>21. CASE AuthenticatedRequest
  BY <1>21, SessionMapType
     DEF AuthenticatedRequest, SessionCookies, TypeOK, memory, tables
<1>22. CASE DevLogin
  BY <1>22, SessionMapType
     DEF DevLogin, FreshTokens, TypeOK, memory, tables
<1>23. CASE Restart
  BY <1>23, StartType, IdleType
     DEF Restart, TypeOK, tables
<1>24. CASE Tick
  <2>1. sessions' \in SessionMap /\ recoverySessions' \in RecoveryMap
    BY <1>24, ElapseType, DurationAssumption DEF Tick, TypeOK, SessionMap, RecoveryMap
  <2>2. challenges' \in [Kinds -> Slot]
    BY <1>24, ElapseType, DurationAssumption DEF Tick, TypeOK, Slot
  <2>3. backoff' \in Backoff
    BY <1>24, ElapseType, DurationAssumption DEF Tick, TypeOK, Backoff
  <2>4. optionsHits' \in HitMap /\ recoveryHits' \in HitMap
    BY <1>24, HitMapType DEF Tick, TypeOK
  <2>5. QED
    BY <1>24, <2>1, <2>2, <2>3, <2>4 DEF Tick, TypeOK, tables
<1>25. CASE UNCHANGED vars
  BY <1>25 DEF vars, TypeOK, memory, tables
<1>26. QED
  BY <1>1, <1>2, <1>3, <1>4, <1>5, <1>6, <1>7, <1>8, <1>9, <1>10, <1>11, <1>12, <1>13, <1>14, <1>15, <1>16, <1>17, <1>18, <1>19, <1>20, <1>21, <1>22, <1>23, <1>24, <1>25
     DEF Next, RequestStep

(* TypeOK of AuthProperties: every variable has its type in every state.   *)
THEOREM TypeCorrect == Spec => []TypeOK
<1>1. Init => TypeOK
  BY IdleType, StartType DEF Init, TypeOK
<1>2. QED
  BY <1>1, TypeStep, PTL DEF Spec

-----------------------------------------------------------------------------
(* Registrations in flight, and those past their checks. *)
Registering(r) ==
    requests[r].at \in {"rv.count", "rv.counted", "rv.delete", "rv.commit"}
Admitted(r) == requests[r].at \in {"rv.delete", "rv.commit"}

(* RecoverableOnceRegistered made inductive: a registration that found the *)
(* table non-empty found a wrap with it, and one that is admitted brings a *)
(* wrap or does not need to.                                               *)
RecoverableRequest(r) ==
    /\ Registering(r) => requests[r].key # None
    /\ At(r, "rv.counted") /\ requests[r].found => recoveryWrap # None
    /\ Admitted(r) => recoveryWrap # None \/ requests[r].recovery

RecoverableInv ==
    /\ RecoverableOnceRegistered
    /\ \A r \in Requests : RecoverableRequest(r)

(* VaultKeyAgreement made inductive, for clients that onboard one at a     *)
(* time and without a session: a client that holds a key holds the one the *)
(* vault has, and an onboarding client that passes the checks finds the    *)
(* vault still empty when it commits.                                      *)
HolderInv(r) ==
    /\ requests[r].key = recoveryWrap
    /\ At(r, "rv.counted") => requests[r].found
    /\ Admitted(r) => requests[r].authenticated

OnboardingInv(r) ==
    /\ ~requests[r].authenticated
    /\ ~requests[r].isRecovery
    /\ ~At(r, "rv.delete")
    /\ At(r, "rv.counted") /\ ~requests[r].found => ~Registered
    /\ At(r, "rv.commit") => ~Registered /\ requests[r].recovery

OneKeyRequest(r) ==
    Registering(r) =>
        IF requests[r].fresh THEN OnboardingInv(r) ELSE HolderInv(r)

OneKeyInv ==
    /\ VaultKeyAgreement
    /\ recoveryWrap # None => Registered
    /\ \A r \in Requests : OneKeyRequest(r)
    /\ \A r, s \in Requests :
          /\ Registering(r) /\ requests[r].fresh
          /\ Registering(s) /\ requests[s].fresh
          => r = s

-----------------------------------------------------------------------------
(* The steps that matter to a registration: its own; any other step leaves *)
(* the tables alone and brings no request into a registration.             *)
RegistrationStep(r) ==
    \/ RegisterVerify(r)
    \/ At(r, "rv.count") /\ CountCredentials(r)
    \/ RegisterVerifyAdmit(r)
    \/ RegisterDelete(r)
    \/ RegisterCommit(r)

Aside ==
    /\ UNCHANGED tables
    /\ \A s \in Requests : requests'[s] = requests[s] \/ ~Registering(s)'

LEMMA AsideIfUnchanged ==
    UNCHANGED <<tables, requests>> => Aside
BY DEF Aside

LEMMA AsideIfMoved ==
    ASSUME TypeOK, NEW r \in Requests, NEW q,
           q.at \notin {"rv.count", "rv.counted", "rv.delete", "rv.commit"},
           UNCHANGED tables,
           requests' = [requests EXCEPT ![r] = q]
    PROVE  Aside
<1>1. \A s \in Requests : requests'[s] = IF s = r THEN q ELSE requests[s]
  BY DEF TypeOK
<1>2. QED
  BY <1>1 DEF Aside, Registering

LEMMA AsideIfReplies ==
    ASSUME TypeOK, NEW r \in Requests, UNCHANGED tables, Replies(r)
    PROVE  Aside
<1>1. Idle.at \notin {"rv.count", "rv.counted", "rv.delete", "rv.commit"}
  BY DEF Idle
<1>2. QED
  BY <1>1, AsideIfMoved DEF Replies

LEMMA AsideIfGoes ==
    ASSUME TypeOK, NEW r \in Requests, UNCHANGED tables,
           NEW place \in {"lo.find", "lv.update", "lv.updated", "cv.find"},
           Goes(r, place)
    PROVE  Aside
<1>1. \A s \in Requests :
        requests'[s].at = IF s = r THEN place ELSE requests[s].at
  BY DEF Goes, TypeOK, Request
<1>2. \A s \in Requests \ {r} : requests'[s] = requests[s]
  BY DEF Goes, TypeOK
<1>3. QED
  BY <1>1, <1>2 DEF Aside, Registering

LEMMA AsideIfAnswered ==
    ASSUME TypeOK, NEW r \in Requests, UNCHANGED tables,
           NEW place \in {"ro.found", "lo.found", "lv.found", "cv.found"},
           NEW found,
           requests' = [requests EXCEPT ![r].at = place, ![r].found = found]
    PROVE  Aside
<1>1. \A s \in Requests :
        requests'[s].at = IF s = r THEN place ELSE requests[s].at
  BY DEF TypeOK, Request
<1>2. \A s \in Requests \ {r} : requests'[s] = requests[s]
  BY DEF TypeOK
<1>3. QED
  BY <1>1, <1>2 DEF Aside, Registering

LEMMA StepsOfRegistration ==
    TypeOK /\ [Next]_vars => Aside \/ \E r \in Requests : RegistrationStep(r)
<1> SUFFICES ASSUME TypeOK, [Next]_vars,
                    ~ \E r \in Requests : RegistrationStep(r)
             PROVE  Aside
  OBVIOUS
<1>1. ASSUME NEW r \in Requests, RegisterOptions(r) PROVE Aside
  <2>1. PICK tok \in SessionCookies, rtok \in RecoveryCookies :
            requests' = [requests EXCEPT ![r] =
                    [Idle EXCEPT !.at = "ro.find",
                                 !.authenticated = tok # None \/ rtok # None]]
    BY <1>1, Zenon DEF RegisterOptions
  <2>2. [Idle EXCEPT !.at = "ro.find",
                     !.authenticated = tok # None \/ rtok # None].at = "ro.find"
    BY DEF Idle
  <2>3. UNCHANGED tables
    BY <1>1 DEF RegisterOptions
  <2>4. QED
    BY <2>1, <2>2, <2>3, AsideIfMoved
<1>2. ASSUME NEW r \in Requests, CountCredentials(r) PROVE Aside
  <2>1. UNCHANGED tables
    BY <1>2 DEF CountCredentials
  <2>2. PICK place \in {"ro.found", "lo.found"} :
            requests' = [requests EXCEPT ![r].at = place, ![r].found = Registered]
    BY <1>2 DEF CountCredentials, RegistrationStep
  <2>3. QED
    BY <2>1, <2>2, AsideIfAnswered
<1>3. ASSUME NEW r \in Requests, RegisterOptionsReply(r) PROVE Aside
  BY <1>3, AsideIfReplies DEF RegisterOptionsReply
<1>4. ASSUME NEW r \in Requests, RegisterVerifyReply(r) PROVE Aside
  BY <1>4, AsideIfReplies DEF RegisterVerifyReply
<1>5. ASSUME NEW r \in Requests, LoginOptions(r) PROVE Aside
  BY <1>5, AsideIfUnchanged, AsideIfGoes DEF LoginOptions
<1>6. ASSUME NEW r \in Requests, LoginOptionsReply(r) PROVE Aside
  BY <1>6, AsideIfReplies DEF LoginOptionsReply
<1>7. ASSUME NEW r \in Requests, LoginVerify(r) PROVE Aside
  <2>1. UNCHANGED tables
    BY <1>7 DEF LoginVerify
  <2>2. CASE UNCHANGED requests
    BY <2>1, <2>2, AsideIfUnchanged
  <2>3. CASE ~ UNCHANGED requests
    <3>1. PICK c \in Credentials, signed \in Signed("login") :
              requests' = [requests EXCEPT ![r] =
                  [Idle EXCEPT !.at = "lv.find",
                               !.challenge = signed,
                               !.credential = c]]
      BY <1>7, <2>3, Zenon DEF LoginVerify
    <3>2. [Idle EXCEPT !.at = "lv.find",
                       !.challenge = signed,
                       !.credential = c].at = "lv.find"
      BY DEF Idle
    <3>3. QED
      BY <2>1, <3>1, <3>2, AsideIfMoved
  <2>4. QED
    BY <2>2, <2>3
<1>8. ASSUME NEW r \in Requests, LoginFind(r) PROVE Aside
  BY <1>8, AsideIfAnswered DEF LoginFind
<1>9. ASSUME NEW r \in Requests, LoginCheck(r) PROVE Aside
  BY <1>9, AsideIfGoes, AsideIfReplies DEF LoginCheck
<1>10. ASSUME NEW r \in Requests, LoginUpdate(r) PROVE Aside
  BY <1>10, AsideIfGoes, AsideIfReplies DEF LoginUpdate
<1>11. ASSUME NEW r \in Requests, LoginVerifyReply(r) PROVE Aside
  BY <1>11, AsideIfReplies DEF LoginVerifyReply
<1>12. ASSUME NEW r \in Requests, RecoveryVerify(r) PROVE Aside
  BY <1>12, AsideIfUnchanged, AsideIfGoes DEF RecoveryVerify
<1>13. ASSUME NEW r \in Requests, RecoveryFind(r) PROVE Aside
  BY <1>13, AsideIfAnswered DEF RecoveryFind
<1>14. ASSUME NEW r \in Requests, RecoveryVerifyReply(r) PROVE Aside
  BY <1>14, AsideIfReplies DEF RecoveryVerifyReply
<1>15. ASSUME NEW r \in Requests, DatabaseError(r) PROVE Aside
  BY <1>15, AsideIfReplies DEF DatabaseError
<1>16. CASE Logout \/ AuthenticatedRequest \/ DevLogin \/ Tick \/ UNCHANGED vars
  BY <1>16, AsideIfUnchanged DEF Logout, AuthenticatedRequest, DevLogin, Tick, vars
<1>17. CASE Restart
  BY <1>17 DEF Restart, Aside, Registering, Idle
<1>18. QED
  BY <1>1, <1>2, <1>3, <1>4, <1>5, <1>6, <1>7, <1>8, <1>9, <1>10, <1>11, <1>12,
     <1>13, <1>14, <1>15, <1>16, <1>17
     DEF Next, RequestStep, RegistrationStep

(* What the steps of a registration do, request by request. *)
LEMMA RegisterVerifyEffect ==
    ASSUME TypeOK, NEW r \in Requests, RegisterVerify(r)
    PROVE  /\ UNCHANGED tables
           /\ \A s \in Requests \ {r} : requests'[s] = requests[s]
           /\ At(r, "rv.count")'
           /\ requests'[r].key # None
           /\ ~requests'[r].fresh => requests'[r].key \in KeysInUse
           /\ requests'[r].fresh =>
                /\ ~OverlappingOnboarding => \A s \in Requests : ~requests[s].fresh
                /\ ~OnboardingCookies => /\ ~requests'[r].authenticated
                                         /\ ~requests'[r].isRecovery
<1>1. PICK tok \in SessionCookies, rtok \in RecoveryCookies,
           body \in RegisterBodies, c \in Signed("register") :
        /\ body.fresh => OnboardingCookies \/ (tok = None /\ rtok = None)
        /\ sessions' = Touched(sessions, tok)
        /\ requests' = [requests EXCEPT ![r] =
                [Idle EXCEPT !.at = "rv.count",
                             !.authenticated = tok # None \/ rtok # None,
                             !.isRecovery = rtok # None,
                             !.recoveryToken = rtok,
                             !.challenge = c,
                             !.key = body.key,
                             !.fresh = body.fresh,
                             !.recovery = body.recovery]]
  BY Zenon DEF RegisterVerify
<1>2. /\ requests'[r].at = "rv.count"
      /\ requests'[r].authenticated = (tok # None \/ rtok # None)
      /\ requests'[r].isRecovery = (rtok # None)
      /\ requests'[r].key = body.key
      /\ requests'[r].fresh = body.fresh
  BY <1>1 DEF TypeOK, Idle
<1>3. \A s \in Requests \ {r} : requests'[s] = requests[s]
  BY <1>1 DEF TypeOK
<1>4. \/ body.fresh = TRUE /\ body.key \in FreshKeys
      \/ body.fresh = FALSE /\ body.key \in KeysInUse
  BY DEF RegisterBodies
<1>5. body.key # None
  BY <1>4, RowAssumption DEF FreshKeys, KeysInUse
<1>6. UNCHANGED tables
  BY DEF RegisterVerify
<1>7. body.fresh /\ ~OverlappingOnboarding => \A s \in Requests : ~requests[s].fresh
  BY <1>4 DEF FreshKeys
<1>8. QED
  BY <1>1, <1>2, <1>3, <1>4, <1>5, <1>6, <1>7 DEF At

KeepsBody(r) ==
    /\ requests'[r].key = requests[r].key
    /\ requests'[r].fresh = requests[r].fresh
    /\ requests'[r].recovery = requests[r].recovery
    /\ requests'[r].authenticated = requests[r].authenticated
    /\ requests'[r].isRecovery = requests[r].isRecovery

LEMMA CountEffect ==
    ASSUME TypeOK, NEW r \in Requests, At(r, "rv.count"), CountCredentials(r)
    PROVE  /\ UNCHANGED tables
           /\ \A s \in Requests \ {r} : requests'[s] = requests[s]
           /\ requests'[r].at = "rv.counted"
           /\ requests'[r].found = Registered
           /\ KeepsBody(r)
<1>1. requests' = [requests EXCEPT ![r].at = "rv.counted", ![r].found = Registered]
  BY DEF CountCredentials, At
<1>2. QED
  BY <1>1 DEF CountCredentials, TypeOK, Request, KeepsBody

LEMMA AdmitEffect ==
    ASSUME TypeOK, NEW r \in Requests, RegisterVerifyAdmit(r)
    PROVE  /\ UNCHANGED tables
           /\ At(r, "rv.counted")
           /\ \A s \in Requests \ {r} : requests'[s] = requests[s]
           /\ \/ requests'[r].at = "idle"
              \/ /\ RegisterAllowed(requests[r])
                 /\ RecoveryWrapGiven(requests[r])
                 /\ requests'[r].at =
                        IF requests[r].isRecovery THEN "rv.delete" ELSE "rv.commit"
                 /\ KeepsBody(r)
<1>1. \/ Replies(r)
      \/ /\ RegisterAllowed(requests[r])
         /\ RecoveryWrapGiven(requests[r])
         /\ Goes(r, IF requests[r].isRecovery THEN "rv.delete" ELSE "rv.commit")
  BY DEF RegisterVerifyAdmit
<1>2. UNCHANGED tables /\ At(r, "rv.counted")
  BY DEF RegisterVerifyAdmit
<1>3. CASE Replies(r)
  BY <1>2, <1>3 DEF Replies, Idle, TypeOK
<1>4. CASE ~Replies(r)
  BY <1>1, <1>2, <1>4 DEF Goes, TypeOK, Request, KeepsBody
<1>5. QED
  BY <1>3, <1>4

LEMMA DeleteEffect ==
    ASSUME TypeOK, NEW r \in Requests, RegisterDelete(r)
    PROVE  /\ UNCHANGED tables
           /\ At(r, "rv.delete")
           /\ \A s \in Requests \ {r} : requests'[s] = requests[s]
           /\ requests'[r].at = "rv.commit"
           /\ KeepsBody(r)
<1>1. requests' = [requests EXCEPT ![r].at = "rv.commit", ![r].doomed = Rows]
  BY DEF RegisterDelete
<1>2. QED
  BY <1>1 DEF RegisterDelete, TypeOK, Request, KeepsBody

LEMMA CommitEffect ==
    ASSUME TypeOK, NEW r \in Requests, RegisterCommit(r)
    PROVE  /\ At(r, "rv.commit")
           /\ \A s \in Requests \ {r} : requests'[s] = requests[s]
           /\ ~Registering(r)'
           /\ recoveryWrap' = WrapAfter(requests[r])
           /\ \E new \in Credentials :
                credentials' = RowsAfter(requests[r], new)
<1>1. PICK new \in FreshCredentials :
        /\ credentials' = RowsAfter(requests[r], new)
        /\ requests' = [requests EXCEPT ![r].at = "rv.committed",
                                        ![r].credential = new,
                                        ![r].doomed = {}]
  BY Zenon DEF RegisterCommit
<1>2. requests'[r].at = "rv.committed"
  BY <1>1 DEF TypeOK, Request
<1>3. \A s \in Requests \ {r} : requests'[s] = requests[s]
  BY <1>1 DEF TypeOK
<1>4. QED
  BY <1>1, <1>2, <1>3 DEF RegisterCommit, FreshCredentials, Registering

-----------------------------------------------------------------------------
(* Recoverability, for all constants. *)
LEMMA RecoverableKept ==
    ASSUME NEW s \in Requests, RecoverableRequest(s), UNCHANGED tables,
           requests'[s] = requests[s] \/ ~Registering(s)'
    PROVE  RecoverableRequest(s)'
BY DEF RecoverableRequest, Registering, Admitted, At, tables

LEMMA RecoverableStep ==
    TypeOK /\ RecoverableInv /\ [Next]_vars => RecoverableInv'
<1> SUFFICES ASSUME TypeOK, RecoverableInv, [Next]_vars PROVE RecoverableInv'
  OBVIOUS
<1>1. UNCHANGED tables => RecoverableOnceRegistered'
  BY DEF RecoverableInv, RecoverableOnceRegistered, tables, Registered, Rows
<1>2. CASE Aside
  BY <1>1, <1>2, RecoverableKept DEF Aside, RecoverableInv
<1>3. ASSUME NEW r \in Requests,
             UNCHANGED tables,
             \A s \in Requests \ {r} : requests'[s] = requests[s],
             RecoverableRequest(r)'
      PROVE  RecoverableInv'
  BY <1>1, <1>3, RecoverableKept DEF RecoverableInv
<1>4. ASSUME NEW r \in Requests, RegisterVerify(r) PROVE RecoverableInv'
  <2>1. RecoverableRequest(r)'
    BY <1>4, RegisterVerifyEffect DEF RecoverableRequest, Admitted, At
  <2>2. QED
    BY <1>3, <1>4, <2>1, RegisterVerifyEffect
<1>5. ASSUME NEW r \in Requests, At(r, "rv.count"), CountCredentials(r)
      PROVE  RecoverableInv'
  <2>1. RecoverableRequest(r)'
    BY <1>5, CountEffect
       DEF RecoverableInv, RecoverableOnceRegistered, RecoverableRequest, KeepsBody,
           Registering, Admitted, At, tables
  <2>2. QED
    BY <1>3, <1>5, <2>1, CountEffect
<1>6. ASSUME NEW r \in Requests, RegisterVerifyAdmit(r) PROVE RecoverableInv'
  <2>1. RecoverableRequest(r)'
    BY <1>6, AdmitEffect
       DEF RecoverableInv, RecoverableRequest, KeepsBody, RecoveryWrapGiven,
           Registering, Admitted, At, tables
  <2>2. QED
    BY <1>3, <1>6, <2>1, AdmitEffect
<1>7. ASSUME NEW r \in Requests, RegisterDelete(r) PROVE RecoverableInv'
  <2>1. RecoverableRequest(r)'
    BY <1>7, DeleteEffect
       DEF RecoverableInv, RecoverableRequest, KeepsBody,
           Registering, Admitted, At, tables
  <2>2. QED
    BY <1>3, <1>7, <2>1, DeleteEffect
<1>8. ASSUME NEW r \in Requests, RegisterCommit(r) PROVE RecoverableInv'
  <2>1. recoveryWrap' # None
    BY <1>8, CommitEffect
       DEF WrapAfter, RecoverableInv, RecoverableRequest, Registering, Admitted, At
  <2>2. \A s \in Requests : RecoverableRequest(s)'
    BY <1>8, <2>1, CommitEffect
       DEF RecoverableInv, RecoverableRequest, Registering, Admitted, At
  <2>3. QED
    BY <2>1, <2>2 DEF RecoverableInv, RecoverableOnceRegistered
<1>9. QED
  BY <1>2, <1>4, <1>5, <1>6, <1>7, <1>8, StepsOfRegistration DEF RegistrationStep

LEMMA RecoverableInit == Init => RecoverableInv
BY DEF Init, RecoverableInv, RecoverableRequest, RecoverableOnceRegistered,
       Registered, Rows, Registering, Admitted, At, Idle

(* RecoverableOnceRegistered holds in every state, however registrations   *)
(* overlap and whatever session their clients share: no interleaving of    *)
(* registerVerify() leaves a passkey without a recovery wrap.              *)
THEOREM AlwaysRecoverable == Spec => []RecoverableOnceRegistered
<1>1. RecoverableInv => RecoverableOnceRegistered
  BY DEF RecoverableInv
<1>2. QED
  BY <1>1, RecoverableInit, TypeCorrect, RecoverableStep, PTL DEF Spec

(* NeverUnregistered: no step empties a table that has rows, because a     *)
(* recovery registration deletes and creates in one transaction.           *)
THEOREM RegisteredForEver == Spec => NeverUnregistered
<1>1. TypeOK /\ RecoverableInv /\ [Next]_vars => [Registered => Registered']_vars
  <2> SUFFICES ASSUME TypeOK, RecoverableInv, [Next]_vars, Registered
               PROVE  Registered'
    OBVIOUS
  <2>1. CASE UNCHANGED credentials
    BY <2>1 DEF Registered, Rows
  <2>2. ASSUME NEW r \in Requests, RegisterCommit(r) PROVE Registered'
    <3>1. PICK new \in Credentials : credentials' = RowsAfter(requests[r], new)
      BY <2>2, CommitEffect
    <3>2. credentials'[new] = requests[r].key
      BY <3>1 DEF RowsAfter
    <3>3. requests[r].key # None
      BY <2>2, CommitEffect DEF RecoverableInv, RecoverableRequest, Registering, At
    <3>4. QED
      BY <3>2, <3>3 DEF Registered, Rows
  <2>3. QED
    BY <2>1, <2>2, StepsOfRegistration, RegisterVerifyEffect, CountEffect,
       AdmitEffect, DeleteEffect
       DEF RegistrationStep, Aside, tables
<1>2. QED
  BY <1>1, RecoverableInit, TypeCorrect, RecoverableStep, PTL DEF Spec, NeverUnregistered

-----------------------------------------------------------------------------
(* One vault key, for clients that onboard one at a time and signed out.   *)
OneAtATime == ~OverlappingOnboarding /\ ~OnboardingCookies

Onboarding(r) == Registering(r) /\ requests[r].fresh

LEMMA OneKeyKept ==
    ASSUME NEW s \in Requests, OneKeyRequest(s), UNCHANGED tables,
           requests'[s] = requests[s] \/ ~Registering(s)'
    PROVE  OneKeyRequest(s)'
BY DEF OneKeyRequest, OnboardingInv, HolderInv, Registering, Admitted, At, tables,
       Registered, Rows

(* A step that leaves the tables alone needs a look at its own request only. *)
LEMMA OneKeyLocal ==
    ASSUME OneKeyInv, NEW r \in Requests,
           UNCHANGED tables,
           \A s \in Requests \ {r} : requests'[s] = requests[s],
           OneKeyRequest(r)',
           Onboarding(r)' => \A s \in Requests \ {r} : ~Onboarding(s)
    PROVE  OneKeyInv'
<1>1. VaultKeyAgreement' /\ (recoveryWrap # None => Registered)'
  BY DEF OneKeyInv, VaultKeyAgreement, tables, Registered, Rows
<1>2. \A s \in Requests : OneKeyRequest(s)'
  BY OneKeyKept DEF OneKeyInv
<1>3. ASSUME NEW s \in Requests, NEW u \in Requests, Onboarding(s)', Onboarding(u)'
      PROVE  s = u
  BY <1>3 DEF OneKeyInv, Onboarding, Registering
<1>4. QED
  BY <1>1, <1>2, <1>3 DEF OneKeyInv, Onboarding

LEMMA OneKeyStep ==
    ASSUME OneAtATime
    PROVE  TypeOK /\ RecoverableInv /\ OneKeyInv /\ [Next]_vars => OneKeyInv'
<1> SUFFICES ASSUME TypeOK, RecoverableInv, OneKeyInv, [Next]_vars PROVE OneKeyInv'
  OBVIOUS
<1>1. CASE Aside
  <2>1. VaultKeyAgreement' /\ (recoveryWrap # None => Registered)'
    BY <1>1 DEF Aside, OneKeyInv, VaultKeyAgreement, tables, Registered, Rows
  <2>2. \A s \in Requests : OneKeyRequest(s)'
    BY <1>1, OneKeyKept DEF Aside, OneKeyInv
  <2>3. ASSUME NEW s \in Requests, NEW u \in Requests, Onboarding(s)', Onboarding(u)'
        PROVE  s = u
    BY <1>1, <2>3 DEF Aside, OneKeyInv, Onboarding, Registering
  <2>4. QED
    BY <2>1, <2>2, <2>3 DEF OneKeyInv, Onboarding
<1>2. ASSUME NEW r \in Requests, RegisterVerify(r) PROVE OneKeyInv'
  <2>1. CASE requests'[r].fresh
    <3>1. \A s \in Requests : ~requests[s].fresh
      BY <1>2, <2>1, RegisterVerifyEffect DEF OneAtATime
    <3>2. OneKeyRequest(r)'
      BY <1>2, <2>1, RegisterVerifyEffect DEF OneAtATime, OneKeyRequest, OnboardingInv, At
    <3>3. QED
      BY <1>2, <3>1, <3>2, RegisterVerifyEffect, OneKeyLocal DEF Onboarding
  <2>2. CASE ~requests'[r].fresh
    <3>1. KeysInUse \subseteq {recoveryWrap}
      BY DEF OneKeyInv, VaultKeyAgreement, KeysInUse, Rows
    <3>2. OneKeyRequest(r)'
      BY <1>2, <2>2, <3>1, RegisterVerifyEffect
         DEF OneKeyRequest, HolderInv, Admitted, At, tables
    <3>3. QED
      BY <1>2, <2>2, <3>2, RegisterVerifyEffect, OneKeyLocal DEF Onboarding
  <2>3. QED
    BY <2>1, <2>2
<1>3. ASSUME NEW r \in Requests, KeepsBody(r), Registering(r),
             \A s \in Requests \ {r} : requests'[s] = requests[s]
      PROVE  Onboarding(r)' => \A s \in Requests \ {r} : ~Onboarding(s)
  BY <1>3 DEF KeepsBody, OneKeyInv, Onboarding
<1>4. ASSUME NEW r \in Requests, At(r, "rv.count"), CountCredentials(r)
      PROVE  OneKeyInv'
  <2>1. Registering(r)
    BY <1>4 DEF Registering, At
  <2>2. Registered' = Registered /\ recoveryWrap' = recoveryWrap
    BY <1>4, CountEffect DEF tables, Registered, Rows
  <2>3. ~requests[r].fresh => Registered
    BY <2>1 DEF OneKeyInv, OneKeyRequest, HolderInv, RecoverableInv, RecoverableRequest
  <2>4. OneKeyRequest(r)'
    BY <1>4, <2>1, <2>2, <2>3, CountEffect
       DEF OneKeyInv, OneKeyRequest, OnboardingInv, HolderInv, Admitted, At, KeepsBody
  <2>5. QED
    BY <1>3, <1>4, <2>1, <2>4, CountEffect, OneKeyLocal
<1>5. ASSUME NEW r \in Requests, RegisterVerifyAdmit(r) PROVE OneKeyInv'
  <2>1. Registering(r) /\ At(r, "rv.counted")
    BY <1>5, AdmitEffect DEF Registering, At
  <2>2. Registered' = Registered /\ recoveryWrap' = recoveryWrap
    BY <1>5, AdmitEffect DEF tables, Registered, Rows
  <2>3. CASE requests'[r].at = "idle"
    BY <1>5, <2>3, AdmitEffect, OneKeyLocal DEF OneKeyRequest, Onboarding, Registering
  <2>4. CASE requests'[r].at # "idle"
    <3>1. /\ RegisterAllowed(requests[r])
          /\ RecoveryWrapGiven(requests[r])
          /\ requests'[r].at =
                IF requests[r].isRecovery THEN "rv.delete" ELSE "rv.commit"
          /\ KeepsBody(r)
      BY <1>5, <2>4, AdmitEffect
    <3>2. OneKeyRequest(r)'
      BY <2>1, <2>2, <3>1
         DEF OneKeyInv, OneKeyRequest, OnboardingInv, HolderInv, Admitted, At,
             KeepsBody, RegisterAllowed, RecoveryWrapGiven
    <3>3. QED
      BY <1>3, <1>5, <2>1, <3>1, <3>2, AdmitEffect, OneKeyLocal
  <2>5. QED
    BY <2>3, <2>4
<1>6. ASSUME NEW r \in Requests, RegisterDelete(r) PROVE OneKeyInv'
  <2>1. Registering(r) /\ At(r, "rv.delete")
    BY <1>6, DeleteEffect DEF Registering, At
  <2>2. Registered' = Registered /\ recoveryWrap' = recoveryWrap
    BY <1>6, DeleteEffect DEF tables, Registered, Rows
  <2>3. OneKeyRequest(r)'
    BY <1>6, <2>1, <2>2, DeleteEffect
       DEF OneKeyInv, OneKeyRequest, OnboardingInv, HolderInv, Admitted, At, KeepsBody
  <2>4. QED
    BY <1>3, <1>6, <2>1, <2>3, DeleteEffect, OneKeyLocal
<1>7. ASSUME NEW r \in Requests, RegisterCommit(r) PROVE OneKeyInv'
  <2>1. Registering(r) /\ At(r, "rv.commit")
    BY <1>7, CommitEffect DEF Registering, At
  <2>2. PICK new \in Credentials : credentials' = RowsAfter(requests[r], new)
    BY <1>7, CommitEffect
  <2>3. requests[r].key # None
    BY <2>1 DEF RecoverableInv, RecoverableRequest
  <2>4. credentials'[new] = requests[r].key
    BY <2>2 DEF RowsAfter
  <2>5. Registered'
    BY <2>3, <2>4 DEF Registered, Rows
  <2>6. /\ recoveryWrap' = requests[r].key
        /\ \A c \in Credentials : credentials[c] \in {None, requests[r].key}
    <3>1. CASE requests[r].fresh
      BY <1>7, <2>1, <3>1, CommitEffect
         DEF OneKeyInv, OneKeyRequest, OnboardingInv, At, WrapAfter, Registered, Rows
    <3>2. CASE ~requests[r].fresh
      BY <1>7, <2>1, <3>2, CommitEffect
         DEF OneKeyInv, OneKeyRequest, HolderInv, WrapAfter, VaultKeyAgreement, Rows
    <3>3. QED
      BY <3>1, <3>2
  <2>7. VaultKeyAgreement'
    BY <2>2, <2>6 DEF VaultKeyAgreement, Rows, RowsAfter
  <2>8. ASSUME NEW s \in Requests PROVE OneKeyRequest(s)'
    <3>1. CASE s = r
      BY <1>7, <3>1, CommitEffect DEF OneKeyRequest
    <3>2. CASE s # r /\ Registering(s)
      <4>1. requests'[s] = requests[s]
        BY <1>7, <3>2, CommitEffect
      <4>2. CASE requests[s].fresh
        <5>1. ~requests[r].fresh
          BY <2>1, <3>2, <4>2 DEF OneKeyInv
        <5>2. Registered
          BY <2>1, <2>3, <5>1 DEF OneKeyInv, OneKeyRequest, HolderInv
        <5>3. QED
          BY <2>5, <3>2, <4>1, <4>2, <5>2
             DEF OneKeyInv, OneKeyRequest, OnboardingInv, Registering, At
      <4>3. CASE ~requests[s].fresh
        <5>1. Registered
          BY <3>2, <4>3
             DEF OneKeyInv, OneKeyRequest, HolderInv, RecoverableInv, RecoverableRequest
        <5>2. ~requests[r].fresh
          BY <2>1, <5>1 DEF OneKeyInv, OneKeyRequest, OnboardingInv, At
        <5>3. requests[r].key = recoveryWrap
          BY <2>1, <5>2 DEF OneKeyInv, OneKeyRequest, HolderInv
        <5>4. QED
          BY <2>6, <3>2, <4>1, <4>3, <5>3
             DEF OneKeyInv, OneKeyRequest, HolderInv, Registering, Admitted, At
      <4>4. QED
        BY <4>2, <4>3
    <3>3. CASE s # r /\ ~Registering(s)
      BY <1>7, <3>3, CommitEffect DEF OneKeyRequest, Registering
    <3>4. QED
      BY <3>1, <3>2, <3>3
  <2>9. ASSUME NEW s \in Requests, NEW u \in Requests, Onboarding(s)', Onboarding(u)'
        PROVE  s = u
    BY <1>7, <2>9, CommitEffect DEF OneKeyInv, Onboarding, Registering
  <2>10. QED
    BY <2>5, <2>7, <2>8, <2>9 DEF OneKeyInv, Onboarding
<1>8. QED
  BY <1>1, <1>2, <1>4, <1>5, <1>6, <1>7, StepsOfRegistration DEF RegistrationStep

LEMMA OneKeyInit == Init => OneKeyInv
BY DEF Init, OneKeyInv, OneKeyRequest, VaultKeyAgreement, Rows, Registering, Idle

(* VaultKeyAgreement: with one onboarding client at a time, and none that  *)
(* carries a session, every row the server ever stores wraps one key,      *)
(* whatever device additions and recovery registrations do meanwhile.      *)
THEOREM OneVaultKey ==
    ASSUME OneAtATime
    PROVE  Spec => []VaultKeyAgreement
<1>1. OneKeyInv => VaultKeyAgreement
  BY DEF OneKeyInv
<1>2. TypeOK /\ RecoverableInv /\ OneKeyInv /\ [Next]_vars => OneKeyInv'
  BY OneKeyStep
<1>3. QED
  BY <1>1, <1>2, OneKeyInit, RecoverableInit, RecoverableStep, TypeCorrect, PTL
     DEF Spec

(* DeviceAdditionAuthenticated, under the same condition: a credential     *)
(* joins a registered vault only through a request that had a session.     *)
THEOREM AdditionsAuthenticated ==
    ASSUME OneAtATime
    PROVE  Spec => DeviceAdditionAuthenticated
<1>1. OneKeyInv =>
        \A r \in Requests :
            At(r, "rv.commit") /\ Registered => requests[r].authenticated
  BY DEF OneKeyInv, OneKeyRequest, OnboardingInv, HolderInv, Registering, Admitted, At
<1>2. TypeOK /\ RecoverableInv /\ OneKeyInv /\ [Next]_vars => OneKeyInv'
  BY OneKeyStep
<1>3. OneKeyInv =>
        [\A r \in Requests :
            At(r, "rv.commit") /\ requests'[r].at = "rv.committed" /\ Registered
                => requests[r].authenticated]_vars
  BY <1>1
<1>4. QED
  BY <1>2, <1>3, OneKeyInit, RecoverableInit, RecoverableStep, TypeCorrect, PTL
     DEF Spec, DeviceAdditionAuthenticated

-----------------------------------------------------------------------------
(***************************************************************************)
(* The limits on guessing: a challenge serves one response, and the        *)
(* back-off counter is bounded, for any number of requests in flight.      *)
(***************************************************************************)

-----------------------------------------------------------------------------
(* One challenge, one response.  A spent challenge is in no slot because   *)
(* consume() empties the slot before the verification is awaited; that     *)
(* only helps while the two slots never hold the same challenge.           *)

SlotsDiffer ==
    \A k, l \in Kinds :
        k # l /\ challenges[k].value = challenges[l].value =>
            challenges[k].value = None

SpentInv == ChallengeSpentOnce /\ SlotsDiffer

(* What a slot holds after a step: what it held, nothing, or a challenge   *)
(* nobody has seen.                                                        *)
SlotsKept ==
    \A k \in Kinds :
        challenges'[k].value \in
            {challenges[k].value, None} \cup FreshChallenges

(* A request that holds a spent challenge held it before.                  *)
HoldersKept ==
    \A r \in Requests :
        HoldsSpent(r)' =>
            HoldsSpent(r) /\ requests'[r].challenge = requests[r].challenge

LEMMA SpentKept ==
    ASSUME SpentInv, SlotsKept, HoldersKept, SlotsDiffer'
    PROVE  SpentInv'
<1>1. ASSUME NEW r \in Requests, HoldsSpent(r)', NEW k \in Kinds
      PROVE  challenges'[k].value # requests'[r].challenge
  <2>1. HoldsSpent(r) /\ requests'[r].challenge = requests[r].challenge
    BY <1>1 DEF HoldersKept
  <2>2. /\ challenges[k].value # requests[r].challenge
        /\ requests[r].challenge # None
    BY <2>1 DEF SpentInv, ChallengeSpentOnce, HoldsSpent
  <2>3. requests[r].challenge \notin FreshChallenges
    BY DEF FreshChallenges
  <2>4. QED
    BY <2>1, <2>2, <2>3 DEF SlotsKept
<1>2. ASSUME NEW r \in Requests, HoldsSpent(r)',
             NEW s \in Requests \ {r}, HoldsSpent(s)'
      PROVE  requests'[s].challenge # requests'[r].challenge
  <2>1. /\ HoldsSpent(r) /\ requests'[r].challenge = requests[r].challenge
        /\ HoldsSpent(s) /\ requests'[s].challenge = requests[s].challenge
    BY <1>2 DEF HoldersKept
  <2>2. QED
    BY <2>1 DEF SpentInv, ChallengeSpentOnce
<1>3. ChallengeSpentOnce'
  BY <1>1, <1>2 DEF ChallengeSpentOnce
<1>4. QED
  BY <1>3 DEF SpentInv

(* A request takes the challenge of a slot, and the slot is emptied.       *)
LEMMA SpentTaken ==
    ASSUME TypeOK, SpentInv, NEW r \in Requests, NEW kind \in Kinds,
           challenges' = AfterConsume(challenges, kind),
           \A s \in Requests \ {r} : requests'[s] = requests[s],
           HoldsSpent(r)' => requests'[r].challenge = challenges[kind].value
    PROVE  SpentInv'
<1>1. /\ challenges'[kind].value = None
      /\ \A k \in Kinds \ {kind} : challenges'[k] = challenges[k]
  BY DEF AfterConsume, EmptySlot, TypeOK
<1>2. SlotsDiffer'
  BY <1>1 DEF SlotsDiffer, SpentInv
<1>3. \A s \in Requests \ {r} : HoldsSpent(s)' <=> HoldsSpent(s)
  BY DEF HoldsSpent
<1>4. ASSUME HoldsSpent(r)'
      PROVE  /\ requests'[r].challenge = challenges[kind].value
             /\ challenges[kind].value # None
  BY <1>4 DEF HoldsSpent
<1>5. ASSUME NEW s \in Requests, HoldsSpent(s)', NEW k \in Kinds
      PROVE  challenges'[k].value # requests'[s].challenge
  <2>1. CASE s = r
    <3>1. k # kind => challenges'[k].value # challenges[kind].value
      BY <1>1, <1>4, <1>5, <2>1 DEF SlotsDiffer, SpentInv
    <3>2. QED
      BY <1>1, <1>4, <1>5, <2>1, <3>1
  <2>2. CASE s # r
    <3>1. HoldsSpent(s) /\ requests'[s] = requests[s]
      BY <1>3, <1>5, <2>2
    <3>2. /\ challenges[k].value # requests[s].challenge
          /\ requests[s].challenge # None
      BY <3>1 DEF SpentInv, ChallengeSpentOnce, HoldsSpent
    <3>3. QED
      BY <1>1, <3>1, <3>2
  <2>3. QED
    BY <2>1, <2>2
<1>6. ASSUME NEW s \in Requests, HoldsSpent(s)',
             NEW t \in Requests \ {s}, HoldsSpent(t)'
      PROVE  requests'[t].challenge # requests'[s].challenge
  <2>1. ASSUME NEW u \in Requests \ {r}, HoldsSpent(u)
        PROVE  requests[u].challenge # challenges[kind].value
    BY <2>1 DEF SpentInv, ChallengeSpentOnce
  <2>2. CASE s # r /\ t # r
    BY <1>3, <1>6, <2>2 DEF SpentInv, ChallengeSpentOnce
  <2>3. CASE s = r
    BY <1>3, <1>4, <1>6, <2>1, <2>3
  <2>4. CASE t = r
    BY <1>3, <1>4, <1>6, <2>1, <2>4
  <2>5. QED
    BY <2>2, <2>3, <2>4
<1>7. ChallengeSpentOnce'
  BY <1>5, <1>6 DEF ChallengeSpentOnce
<1>8. QED
  BY <1>2, <1>7 DEF SpentInv

(* A new challenge is in the other slot no more than in a request.         *)
LEMMA FreshSet ==
    ASSUME TypeOK, SpentInv, NEW kind \in Kinds, NEW c \in FreshChallenges,
           challenges' = ChallengeSet(challenges, kind, c)
    PROVE  SlotsKept /\ SlotsDiffer'
<1>1. /\ challenges'[kind].value = c
      /\ \A k \in Kinds \ {kind} : challenges'[k] = challenges[k]
  BY DEF ChallengeSet, TypeOK
<1>2. \A k \in Kinds : challenges[k].value # c
  BY DEF FreshChallenges
<1>3. SlotsKept
  BY <1>1 DEF SlotsKept
<1>4. SlotsDiffer'
  BY <1>1, <1>2 DEF SpentInv, SlotsDiffer
<1>5. QED
  BY <1>3, <1>4

LEMMA SameSlots ==
    ASSUME SpentInv, UNCHANGED challenges
    PROVE  SlotsKept /\ SlotsDiffer'
BY DEF SlotsKept, SlotsDiffer, SpentInv

(* Steps of a request that bring it no spent challenge.                    *)
SpentPlaces ==
    {"rv.delete", "rv.commit", "rv.committed", "lv.find", "lv.found",
     "lv.update", "lv.updated"}

LEMMA HoldersIfMoved ==
    ASSUME TypeOK, NEW r \in Requests, NEW q,
           requests' = [requests EXCEPT ![r] = q],
           \/ q.at \notin SpentPlaces
           \/ requests[r].at \in SpentPlaces /\ q.challenge = requests[r].challenge
    PROVE  HoldersKept
<1>1. requests'[r] = q /\ \A s \in Requests \ {r} : requests'[s] = requests[s]
  BY DEF TypeOK
<1>2. QED
  BY <1>1 DEF HoldersKept, HoldsSpent, SpentPlaces

LEMMA HoldersIfReplies ==
    ASSUME TypeOK, NEW r \in Requests, Replies(r)
    PROVE  HoldersKept
<1>1. Idle.at \notin SpentPlaces
  BY DEF Idle, SpentPlaces
<1>2. QED
  BY <1>1, HoldersIfMoved DEF Replies

LEMMA HoldersIfGoes ==
    ASSUME TypeOK, NEW r \in Requests, NEW place, Goes(r, place),
           place \notin SpentPlaces \/ requests[r].at \in SpentPlaces
    PROVE  HoldersKept
<1>1. /\ requests'[r].at = place
      /\ requests'[r].challenge = requests[r].challenge
      /\ \A s \in Requests \ {r} : requests'[s] = requests[s]
  BY DEF Goes, TypeOK, Request
<1>2. QED
  BY <1>1 DEF HoldersKept, HoldsSpent, SpentPlaces

LEMMA HoldersIfAnswered ==
    ASSUME TypeOK, NEW r \in Requests, NEW place, NEW found,
           requests' = [requests EXCEPT ![r].at = place, ![r].found = found],
           place \notin SpentPlaces \/ requests[r].at \in SpentPlaces
    PROVE  HoldersKept
<1>1. /\ requests'[r].at = place
      /\ requests'[r].challenge = requests[r].challenge
      /\ \A s \in Requests \ {r} : requests'[s] = requests[s]
  BY DEF TypeOK, Request
<1>2. QED
  BY <1>1 DEF HoldersKept, HoldsSpent, SpentPlaces

LEMMA HoldersIfUnchanged ==
    UNCHANGED requests => HoldersKept
BY DEF HoldersKept, HoldsSpent

LEMMA SpentStep == TypeOK /\ SpentInv /\ [Next]_vars => SpentInv'
<1> SUFFICES ASSUME TypeOK, SpentInv, [Next]_vars PROVE SpentInv'
  OBVIOUS
<1>1. ASSUME NEW r \in Requests, RegisterOptions(r) PROVE SpentInv'
  <2>1. PICK tok \in SessionCookies, rtok \in RecoveryCookies :
            requests' = [requests EXCEPT ![r] =
                    [Idle EXCEPT !.at = "ro.find",
                                 !.authenticated = tok # None \/ rtok # None]]
    BY <1>1, Zenon DEF RegisterOptions
  <2>2. [Idle EXCEPT !.at = "ro.find",
                     !.authenticated = tok # None \/ rtok # None].at = "ro.find"
    BY DEF Idle
  <2>3. HoldersKept
    BY <2>1, <2>2, HoldersIfMoved DEF SpentPlaces
  <2>4. QED
    BY <1>1, <2>3, SameSlots, SpentKept DEF RegisterOptions
<1>2. ASSUME NEW r \in Requests, CountCredentials(r) PROVE SpentInv'
  <2>1. PICK place \in {"ro.found", "rv.counted", "lo.found"} :
            requests' = [requests EXCEPT ![r].at = place, ![r].found = Registered]
    BY <1>2 DEF CountCredentials
  <2>2. HoldersKept
    BY <2>1, HoldersIfAnswered DEF SpentPlaces
  <2>3. QED
    BY <1>2, <2>2, SameSlots, SpentKept DEF CountCredentials, memory
<1>3. ASSUME NEW r \in Requests, RegisterOptionsReply(r) PROVE SpentInv'
  <2>1. HoldersKept
    BY <1>3, HoldersIfReplies DEF RegisterOptionsReply
  <2>2. SlotsKept /\ SlotsDiffer'
    BY <1>3, FreshSet, SameSlots DEF RegisterOptionsReply, Kinds
  <2>3. QED
    BY <2>1, <2>2, SpentKept
<1>4. ASSUME NEW r \in Requests, RegisterVerify(r) PROVE SpentInv'
  <2>1. requests'[r].at = "rv.count"
    BY <1>4, RegisterVerifyEffect DEF At
  <2>2. \A s \in Requests \ {r} : requests'[s] = requests[s]
    BY <1>4, RegisterVerifyEffect
  <2>3. HoldersKept
    BY <2>1, <2>2 DEF HoldersKept, HoldsSpent
  <2>4. QED
    BY <1>4, <2>3, SameSlots, SpentKept DEF RegisterVerify
<1>5. ASSUME NEW r \in Requests, RegisterVerifyAdmit(r) PROVE SpentInv'
  <2>1. CASE UNCHANGED challenges /\ Replies(r)
    BY <2>1, HoldersIfReplies, SameSlots, SpentKept
  <2>2. CASE challenges' = AfterConsume(challenges, "register")
    <3>1. \A s \in Requests \ {r} : requests'[s] = requests[s]
      BY <1>5, AdmitEffect
    <3>2. HoldsSpent(r)' => requests'[r].challenge = challenges["register"].value
      <4>1. CASE Replies(r)
        BY <4>1 DEF Replies, TypeOK, HoldsSpent, Idle
      <4>2. CASE /\ Verified(requests[r], "register")
                 /\ Goes(r, IF requests[r].isRecovery THEN "rv.delete" ELSE "rv.commit")
        <5>1. requests'[r].challenge = requests[r].challenge
          BY <4>2 DEF Goes, TypeOK, Request
        <5>2. requests[r].challenge = challenges["register"].value
          BY <4>2 DEF Verified, Consumed
        <5>3. QED
          BY <5>1, <5>2
      <4>3. QED
        BY <1>5, <4>1, <4>2 DEF RegisterVerifyAdmit
    <3>3. "register" \in Kinds
      BY DEF Kinds
    <3>4. QED
      BY <2>2, <3>1, <3>2, <3>3, SpentTaken
  <2>3. QED
    BY <1>5, <2>1, <2>2 DEF RegisterVerifyAdmit
<1>6. ASSUME NEW r \in Requests, RegisterDelete(r) PROVE SpentInv'
  <2>1. requests' = [requests EXCEPT ![r].at = "rv.commit", ![r].doomed = Rows]
    BY <1>6 DEF RegisterDelete
  <2>2. /\ requests'[r].challenge = requests[r].challenge
        /\ \A s \in Requests \ {r} : requests'[s] = requests[s]
    BY <2>1 DEF TypeOK, Request
  <2>3. At(r, "rv.delete")
    BY <1>6 DEF RegisterDelete
  <2>4. HoldersKept
    BY <2>2, <2>3 DEF HoldersKept, HoldsSpent, At
  <2>5. QED
    BY <1>6, <2>4, SameSlots, SpentKept DEF RegisterDelete, memory
<1>7. ASSUME NEW r \in Requests, RegisterCommit(r) PROVE SpentInv'
  <2>1. PICK new \in FreshCredentials :
            requests' = [requests EXCEPT ![r].at = "rv.committed",
                                         ![r].credential = new,
                                         ![r].doomed = {}]
    BY <1>7, Zenon DEF RegisterCommit
  <2>2. /\ requests'[r].challenge = requests[r].challenge
        /\ \A s \in Requests \ {r} : requests'[s] = requests[s]
    BY <2>1 DEF TypeOK, Request
  <2>3. At(r, "rv.commit")
    BY <1>7 DEF RegisterCommit
  <2>4. HoldersKept
    BY <2>2, <2>3 DEF HoldersKept, HoldsSpent, At
  <2>5. QED
    BY <1>7, <2>4, SameSlots, SpentKept DEF RegisterCommit, memory
<1>8. ASSUME NEW r \in Requests, RegisterVerifyReply(r) PROVE SpentInv'
  BY <1>8, HoldersIfReplies, SameSlots, SpentKept DEF RegisterVerifyReply
<1>9. ASSUME NEW r \in Requests, LoginOptions(r) PROVE SpentInv'
  <2>1. HoldersKept
    BY <1>9, HoldersIfGoes, HoldersIfUnchanged DEF LoginOptions, SpentPlaces
  <2>2. QED
    BY <1>9, <2>1, SameSlots, SpentKept DEF LoginOptions
<1>10. ASSUME NEW r \in Requests, LoginOptionsReply(r) PROVE SpentInv'
  <2>1. HoldersKept
    BY <1>10, HoldersIfReplies DEF LoginOptionsReply
  <2>2. SlotsKept /\ SlotsDiffer'
    BY <1>10, FreshSet, SameSlots DEF LoginOptionsReply, Kinds
  <2>3. QED
    BY <2>1, <2>2, SpentKept
<1>11. ASSUME NEW r \in Requests, LoginVerify(r) PROVE SpentInv'
  <2>1. CASE UNCHANGED <<challenges, requests>>
    BY <2>1, HoldersIfUnchanged, SameSlots, SpentKept
  <2>2. CASE ~UNCHANGED <<challenges, requests>>
    <3>1. challenges' = AfterConsume(challenges, "login")
      BY <1>11, <2>2 DEF LoginVerify
    <3>2. CASE UNCHANGED requests
      <4>1. At(r, "idle")
        BY <1>11 DEF LoginVerify
      <4>2. ~HoldsSpent(r)'
        BY <3>2, <4>1 DEF HoldsSpent, At
      <4>3. "login" \in Kinds
        BY DEF Kinds
      <4>4. QED
        BY <3>1, <3>2, <4>2, <4>3, SpentTaken
    <3>3. CASE ~UNCHANGED requests
      <4>1. PICK c \in Credentials, signed \in Signed("login") :
                requests' = [requests EXCEPT ![r] =
                    [Idle EXCEPT !.at = "lv.find",
                                 !.challenge = signed,
                                 !.credential = c]]
        BY <1>11, <3>3, Zenon DEF LoginVerify
      <4>2. /\ requests'[r].challenge = signed
            /\ \A s \in Requests \ {r} : requests'[s] = requests[s]
        BY <4>1 DEF TypeOK, Idle
      <4>3. HoldsSpent(r)' => requests'[r].challenge = challenges["login"].value
        BY <4>2 DEF HoldsSpent, Signed
      <4>4. "login" \in Kinds
        BY DEF Kinds
      <4>5. QED
        BY <3>1, <4>2, <4>3, <4>4, SpentTaken
    <3>4. QED
      BY <3>2, <3>3
  <2>3. QED
    BY <2>1, <2>2
<1>12. ASSUME NEW r \in Requests, LoginFind(r) PROVE SpentInv'
  <2>1. HoldersKept
    BY <1>12, HoldersIfAnswered DEF LoginFind, SpentPlaces, At
  <2>2. QED
    BY <1>12, <2>1, SameSlots, SpentKept DEF LoginFind, memory
<1>13. ASSUME NEW r \in Requests, LoginCheck(r) PROVE SpentInv'
  <2>1. HoldersKept
    BY <1>13, HoldersIfGoes, HoldersIfReplies DEF LoginCheck, SpentPlaces, At
  <2>2. QED
    BY <1>13, <2>1, SameSlots, SpentKept DEF LoginCheck
<1>14. ASSUME NEW r \in Requests, LoginUpdate(r) PROVE SpentInv'
  <2>1. HoldersKept
    BY <1>14, HoldersIfGoes, HoldersIfReplies DEF LoginUpdate, SpentPlaces, At
  <2>2. QED
    BY <1>14, <2>1, SameSlots, SpentKept DEF LoginUpdate, memory
<1>15. ASSUME NEW r \in Requests, LoginVerifyReply(r) PROVE SpentInv'
  BY <1>15, HoldersIfReplies, SameSlots, SpentKept DEF LoginVerifyReply
<1>16. ASSUME NEW r \in Requests, RecoveryVerify(r) PROVE SpentInv'
  <2>1. HoldersKept
    BY <1>16, HoldersIfGoes, HoldersIfUnchanged DEF RecoveryVerify, SpentPlaces
  <2>2. QED
    BY <1>16, <2>1, SameSlots, SpentKept DEF RecoveryVerify
<1>17. ASSUME NEW r \in Requests, RecoveryFind(r) PROVE SpentInv'
  <2>1. HoldersKept
    BY <1>17, HoldersIfAnswered DEF RecoveryFind, SpentPlaces
  <2>2. QED
    BY <1>17, <2>1, SameSlots, SpentKept DEF RecoveryFind, memory
<1>18. ASSUME NEW r \in Requests, RecoveryVerifyReply(r) PROVE SpentInv'
  BY <1>18, HoldersIfReplies, SameSlots, SpentKept DEF RecoveryVerifyReply
<1>19. ASSUME NEW r \in Requests, DatabaseError(r) PROVE SpentInv'
  BY <1>19, HoldersIfReplies, SameSlots, SpentKept DEF DatabaseError, memory
<1>20. CASE Logout \/ AuthenticatedRequest \/ DevLogin \/ UNCHANGED vars
  BY <1>20, HoldersIfUnchanged, SameSlots, SpentKept
     DEF Logout, AuthenticatedRequest, DevLogin, vars, memory
<1>21. CASE Restart
  BY <1>21 DEF Restart, SpentInv, ChallengeSpentOnce, SlotsDiffer, HoldsSpent,
     Idle, EmptySlot
<1>22. CASE Tick
  <2>1. \A k \in Kinds : challenges'[k].value = challenges[k].value
    BY <1>22 DEF Tick, TypeOK, Slot
  <2>2. SlotsKept /\ SlotsDiffer'
    BY <2>1 DEF SlotsKept, SlotsDiffer, SpentInv
  <2>3. QED
    BY <1>22, <2>2, HoldersIfUnchanged, SpentKept DEF Tick
<1>23. QED
  BY <1>1, <1>2, <1>3, <1>4, <1>5, <1>6, <1>7, <1>8, <1>9, <1>10, <1>11, <1>12,
     <1>13, <1>14, <1>15, <1>16, <1>17, <1>18, <1>19, <1>20, <1>21, <1>22
     DEF Next, RequestStep

(* ChallengeSpentOnce: a challenge that a request has consumed verifies no *)
(* other response and waits in no slot, however registrations, logins and  *)
(* restarts interleave (challenge.service.ts: consume()).                  *)
THEOREM OneResponsePerChallenge == Spec => []ChallengeSpentOnce
<1>1. Init => SpentInv
  BY DEF Init, SpentInv, ChallengeSpentOnce, SlotsDiffer, HoldsSpent, Idle,
     EmptySlot
<1>2. SpentInv => ChallengeSpentOnce
  BY DEF SpentInv
<1>3. QED
  BY <1>1, <1>2, TypeCorrect, SpentStep, PTL DEF Spec


-----------------------------------------------------------------------------
(* The counter.  A request that may still fail has been admitted already;  *)
(* counting these together with the failures gives a bound that every step *)
(* keeps: a failure is counted when its request leaves, and a request is   *)
(* admitted only below the limit.                                          *)

GuessPlaces == {"lv.find", "lv.found", "cv.find", "cv.found"}

Guessing == {r \in Requests : requests[r].at \in GuessPlaces}

FailuresInv ==
    /\ backoff.failures + Cardinality(Guessing)
            <= MaxLoginFailures - 1 + Cardinality(Requests)
    /\ backoff.failures >= MaxLoginFailures => backoff.armed

LEMMA GuessingCount ==
    ASSUME IsFiniteSet(Requests)
    PROVE  /\ IsFiniteSet(Guessing)
           /\ Cardinality(Guessing) \in Nat
           /\ Cardinality(Requests) \in Nat
           /\ Cardinality(Guessing) <= Cardinality(Requests)
<1>1. Guessing \in SUBSET Requests
  BY DEF Guessing
<1>2. IsFiniteSet(Guessing) /\ Cardinality(Guessing) <= Cardinality(Requests)
  BY <1>1, FS_Subset
<1>3. QED
  BY <1>2, FS_CardinalityType

LEMMA GuessingNextCount ==
    ASSUME IsFiniteSet(Requests)
    PROVE  /\ IsFiniteSet(Guessing')
           /\ Cardinality(Guessing') \in Nat
           /\ Cardinality(Requests) \in Nat
           /\ Cardinality(Guessing') <= Cardinality(Requests)
<1>1. Guessing' \in SUBSET Requests
  BY DEF Guessing
<1>2. IsFiniteSet(Guessing') /\ Cardinality(Guessing') <= Cardinality(Requests)
  BY <1>1, FS_Subset
<1>3. QED
  BY <1>2, FS_CardinalityType

(* A set that has lost an element is smaller.                              *)
LEMMA FewerLeft ==
    ASSUME NEW S, IsFiniteSet(S), NEW T \in SUBSET S, NEW x \in S, x \notin T
    PROVE  Cardinality(T) <= Cardinality(S) - 1
<1>1. IsFiniteSet(S \ {x}) /\ Cardinality(S \ {x}) = Cardinality(S) - 1
  BY FS_RemoveElement
<1>2. T \in SUBSET (S \ {x})
  OBVIOUS
<1>3. QED
  BY <1>1, <1>2, FS_Subset

(* The four ways a step treats the counter.                                *)
LEMMA CountLow ==
    ASSUME IsFiniteSet(Requests), backoff'.failures \in Nat,
           backoff'.failures <= MaxLoginFailures - 1
    PROVE  FailuresInv'
BY GuessingNextCount, LimitAssumption DEF FailuresInv

LEMMA CountKept ==
    ASSUME IsFiniteSet(Requests), FailuresInv, backoff.failures \in Nat,
           backoff'.failures = backoff.failures, backoff'.armed = backoff.armed,
           Guessing' \subseteq Guessing
    PROVE  FailuresInv'
<1>1. Cardinality(Guessing') <= Cardinality(Guessing)
  BY GuessingCount, FS_Subset
<1>2. QED
  BY <1>1, GuessingCount, GuessingNextCount, LimitAssumption DEF FailuresInv

LEMMA CountUsed ==
    ASSUME IsFiniteSet(Requests), FailuresInv, backoff \in Backoff,
           backoff' = FailureRecorded(backoff), Guessing' \subseteq Guessing,
           NEW r \in Guessing, r \notin Guessing'
    PROVE  FailuresInv'
<1>1. Cardinality(Guessing') <= Cardinality(Guessing) - 1
  BY GuessingCount, FewerLeft
<1>2. /\ backoff'.failures = backoff.failures + 1
      /\ backoff'.failures >= MaxLoginFailures => backoff'.armed
  BY LimitAssumption DEF FailureRecorded, Backoff
<1>3. backoff.failures \in Nat
  BY DEF Backoff
<1>4. QED
  BY <1>1, <1>2, <1>3, GuessingCount, GuessingNextCount, LimitAssumption
     DEF FailuresInv

LEMMA CheckedLow ==
    ASSUME FailuresInv, backoff \in Backoff
    PROVE  /\ AfterCheck(backoff) \in Backoff
           /\ AfterCheck(backoff).failures <= MaxLoginFailures - 1
BY LimitAssumption, DurationAssumption
   DEF FailuresInv, AfterCheck, NoBackoff, Backoff

LEMMA CountTried ==
    ASSUME IsFiniteSet(Requests), FailuresInv, backoff \in Backoff,
           backoff' = FailureRecorded(AfterCheck(backoff)),
           NEW r \in Requests, r \notin Guessing'
    PROVE  FailuresInv'
<1>1. Guessing' \in SUBSET Requests
  BY DEF Guessing
<1>2. Cardinality(Guessing') <= Cardinality(Requests) - 1
  BY <1>1, FewerLeft
<1>3. /\ AfterCheck(backoff).failures \in Nat
      /\ AfterCheck(backoff).failures <= MaxLoginFailures - 1
  BY CheckedLow DEF Backoff
<1>4. /\ backoff'.failures = AfterCheck(backoff).failures + 1
      /\ backoff'.failures >= MaxLoginFailures => backoff'.armed
  BY CheckedLow, LimitAssumption DEF FailureRecorded, Backoff
<1>5. QED
  BY <1>2, <1>3, <1>4, GuessingNextCount, LimitAssumption DEF FailuresInv

(* Which steps bring no new guesser, as for the holders above.             *)
LEMMA GuessersIfMoved ==
    ASSUME TypeOK, NEW r \in Requests, NEW q,
           requests' = [requests EXCEPT ![r] = q],
           q.at \notin GuessPlaces
    PROVE  Guessing' \subseteq Guessing /\ r \notin Guessing'
<1>1. requests'[r] = q /\ \A s \in Requests \ {r} : requests'[s] = requests[s]
  BY DEF TypeOK
<1>2. QED
  BY <1>1 DEF Guessing

LEMMA GuessersIfReplies ==
    ASSUME TypeOK, NEW r \in Requests, Replies(r)
    PROVE  Guessing' \subseteq Guessing /\ r \notin Guessing'
<1>1. Idle.at \notin GuessPlaces
  BY DEF Idle, GuessPlaces
<1>2. QED
  BY <1>1, GuessersIfMoved DEF Replies

LEMMA GuessersIfGoes ==
    ASSUME TypeOK, NEW r \in Requests, NEW place, Goes(r, place),
           place \notin GuessPlaces
    PROVE  Guessing' \subseteq Guessing
<1>1. /\ requests'[r].at = place
      /\ \A s \in Requests \ {r} : requests'[s] = requests[s]
  BY DEF Goes, TypeOK, Request
<1>2. QED
  BY <1>1 DEF Guessing

LEMMA GuessersIfAnswered ==
    ASSUME TypeOK, NEW r \in Requests, NEW place, NEW found,
           requests' = [requests EXCEPT ![r].at = place, ![r].found = found],
           place \notin GuessPlaces \/ requests[r].at \in GuessPlaces
    PROVE  Guessing' \subseteq Guessing
<1>1. /\ requests'[r].at = place
      /\ \A s \in Requests \ {r} : requests'[s] = requests[s]
  BY DEF TypeOK, Request
<1>2. QED
  BY <1>1 DEF Guessing

LEMMA GuessersIfUnchanged ==
    UNCHANGED requests => Guessing' \subseteq Guessing
BY DEF Guessing

LEMMA FailuresStep ==
    ASSUME IsFiniteSet(Requests), TypeOK, FailuresInv, [Next]_vars
    PROVE  FailuresInv'
<1> backoff \in Backoff /\ backoff.failures \in Nat
  BY DEF TypeOK, Backoff
<1>1. ASSUME UNCHANGED backoff, Guessing' \subseteq Guessing PROVE FailuresInv'
  BY <1>1, CountKept
<1>2. ASSUME backoff' = AfterCheck(backoff) PROVE FailuresInv'
  <2>1. /\ backoff'.failures \in Nat
        /\ backoff'.failures <= MaxLoginFailures - 1
    BY <1>2, CheckedLow DEF Backoff
  <2>2. QED
    BY <2>1, CountLow
<1>3. ASSUME backoff' = NoBackoff PROVE FailuresInv'
  <2>1. backoff'.failures \in Nat /\ backoff'.failures <= MaxLoginFailures - 1
    BY <1>3, LimitAssumption DEF NoBackoff
  <2>2. QED
    BY <2>1, CountLow
<1>4. ASSUME NEW r \in Requests, RegisterOptions(r) PROVE FailuresInv'
  <2>1. PICK tok \in SessionCookies, rtok \in RecoveryCookies :
            requests' = [requests EXCEPT ![r] =
                    [Idle EXCEPT !.at = "ro.find",
                                 !.authenticated = tok # None \/ rtok # None]]
    BY <1>4, Zenon DEF RegisterOptions
  <2>2. [Idle EXCEPT !.at = "ro.find",
                     !.authenticated = tok # None \/ rtok # None].at = "ro.find"
    BY DEF Idle
  <2>3. Guessing' \subseteq Guessing
    BY <2>1, <2>2, GuessersIfMoved DEF GuessPlaces
  <2>4. QED
    BY <1>1, <1>4, <2>3 DEF RegisterOptions
<1>5. ASSUME NEW r \in Requests, CountCredentials(r) PROVE FailuresInv'
  <2>1. PICK place \in {"ro.found", "rv.counted", "lo.found"} :
            requests' = [requests EXCEPT ![r].at = place, ![r].found = Registered]
    BY <1>5 DEF CountCredentials
  <2>2. Guessing' \subseteq Guessing
    BY <2>1, GuessersIfAnswered DEF GuessPlaces
  <2>3. QED
    BY <1>1, <1>5, <2>2 DEF CountCredentials, memory
<1>6. ASSUME NEW r \in Requests, RegisterVerify(r) PROVE FailuresInv'
  <2>1. requests'[r].at = "rv.count"
    BY <1>6, RegisterVerifyEffect DEF At
  <2>2. \A s \in Requests \ {r} : requests'[s] = requests[s]
    BY <1>6, RegisterVerifyEffect
  <2>3. Guessing' \subseteq Guessing
    BY <2>1, <2>2 DEF Guessing, GuessPlaces
  <2>4. QED
    BY <1>1, <1>6, <2>3 DEF RegisterVerify
<1>7. ASSUME NEW r \in Requests, RegisterVerifyAdmit(r) PROVE FailuresInv'
  <2>1. Guessing' \subseteq Guessing
    <3>1. CASE Replies(r)
      BY <3>1, GuessersIfReplies
    <3>2. CASE Goes(r, IF requests[r].isRecovery THEN "rv.delete" ELSE "rv.commit")
      BY <3>2, GuessersIfGoes DEF GuessPlaces
    <3>3. QED
      BY <1>7, <3>1, <3>2 DEF RegisterVerifyAdmit
  <2>2. CASE UNCHANGED backoff
    BY <1>1, <2>1, <2>2
  <2>3. CASE backoff' = AfterCheck(backoff)
    BY <1>2, <2>3
  <2>4. CASE /\ Replies(r)
             /\ backoff' = FailureRecorded(AfterCheck(backoff))
    BY <2>4, GuessersIfReplies, CountTried
  <2>5. QED
    BY <1>7, <2>2, <2>3, <2>4
       DEF RegisterVerifyAdmit, BootstrapRefused, BootstrapPassed, Refused
<1>8. ASSUME NEW r \in Requests, RegisterDelete(r) PROVE FailuresInv'
  <2>1. requests' = [requests EXCEPT ![r].at = "rv.commit", ![r].doomed = Rows]
    BY <1>8 DEF RegisterDelete
  <2>2. /\ requests'[r].at = "rv.commit"
        /\ \A s \in Requests \ {r} : requests'[s] = requests[s]
    BY <2>1 DEF TypeOK, Request
  <2>3. Guessing' \subseteq Guessing
    BY <2>2 DEF Guessing, GuessPlaces
  <2>4. QED
    BY <1>1, <1>8, <2>3 DEF RegisterDelete, memory
<1>9. ASSUME NEW r \in Requests, RegisterCommit(r) PROVE FailuresInv'
  <2>1. PICK new \in FreshCredentials :
            requests' = [requests EXCEPT ![r].at = "rv.committed",
                                         ![r].credential = new,
                                         ![r].doomed = {}]
    BY <1>9, Zenon DEF RegisterCommit
  <2>2. /\ requests'[r].at = "rv.committed"
        /\ \A s \in Requests \ {r} : requests'[s] = requests[s]
    BY <2>1 DEF TypeOK, Request
  <2>3. Guessing' \subseteq Guessing
    BY <2>2 DEF Guessing, GuessPlaces
  <2>4. QED
    BY <1>1, <1>9, <2>3 DEF RegisterCommit, memory
<1>10. ASSUME NEW r \in Requests, LoginOptions(r) PROVE FailuresInv'
  <2>1. Guessing' \subseteq Guessing
    BY <1>10, GuessersIfGoes, GuessersIfUnchanged DEF LoginOptions, GuessPlaces
  <2>2. QED
    BY <1>1, <1>10, <2>1 DEF LoginOptions
<1>11. ASSUME NEW r \in Requests, RegisterOptionsReply(r) \/ LoginOptionsReply(r)
       PROVE  FailuresInv'
  BY <1>1, <1>11, GuessersIfReplies DEF RegisterOptionsReply, LoginOptionsReply
<1>12. ASSUME NEW r \in Requests, LoginVerify(r) PROVE FailuresInv'
  <2>1. CASE UNCHANGED <<backoff, requests>>
    BY <1>1, <2>1, GuessersIfUnchanged
  <2>2. CASE backoff' = AfterCheck(backoff)
    BY <1>2, <2>2
  <2>3. CASE /\ UNCHANGED requests
             /\ backoff' = FailureRecorded(AfterCheck(backoff))
    <3>1. At(r, "idle")
      BY <1>12 DEF LoginVerify
    <3>2. r \notin Guessing'
      BY <2>3, <3>1 DEF Guessing, GuessPlaces, At
    <3>3. QED
      BY <2>3, <3>2, CountTried
  <2>4. QED
    BY <1>12, <2>1, <2>2, <2>3 DEF LoginVerify, Refused
<1>13. ASSUME NEW r \in Requests, LoginFind(r) PROVE FailuresInv'
  <2>1. Guessing' \subseteq Guessing
    BY <1>13, GuessersIfAnswered DEF LoginFind, GuessPlaces, At
  <2>2. QED
    BY <1>1, <1>13, <2>1 DEF LoginFind, memory
<1>14. ASSUME NEW r \in Requests, LoginCheck(r) PROVE FailuresInv'
  <2>1. CASE Replies(r) /\ backoff' = FailureRecorded(backoff)
    <3>1. r \in Guessing
      BY <1>14 DEF LoginCheck, At, Guessing, GuessPlaces
    <3>2. QED
      BY <2>1, <3>1, GuessersIfReplies, CountUsed
  <2>2. CASE Goes(r, "lv.update") /\ UNCHANGED backoff
    <3>1. Guessing' \subseteq Guessing
      BY <2>2, GuessersIfGoes DEF GuessPlaces
    <3>2. QED
      BY <1>1, <2>2, <3>1
  <2>3. QED
    BY <1>14, <2>1, <2>2 DEF LoginCheck
<1>15. ASSUME NEW r \in Requests, LoginUpdate(r) PROVE FailuresInv'
  <2>1. Guessing' \subseteq Guessing
    BY <1>15, GuessersIfGoes, GuessersIfReplies DEF LoginUpdate, GuessPlaces
  <2>2. QED
    BY <1>1, <1>15, <2>1 DEF LoginUpdate, memory
<1>16. ASSUME NEW r \in Requests, RegisterVerifyReply(r) \/ LoginVerifyReply(r)
       PROVE  FailuresInv'
  BY <1>3, <1>16 DEF RegisterVerifyReply, LoginVerifyReply
<1>17. ASSUME NEW r \in Requests, RecoveryVerify(r) PROVE FailuresInv'
  <2>1. CASE UNCHANGED <<backoff, requests>>
    BY <1>1, <2>1, GuessersIfUnchanged
  <2>2. CASE backoff' = AfterCheck(backoff)
    BY <1>2, <2>2
  <2>3. QED
    BY <1>17, <2>1, <2>2 DEF RecoveryVerify, Refused
<1>18. ASSUME NEW r \in Requests, RecoveryFind(r) PROVE FailuresInv'
  <2>1. Guessing' \subseteq Guessing
    BY <1>18, GuessersIfAnswered DEF RecoveryFind, GuessPlaces, At
  <2>2. QED
    BY <1>1, <1>18, <2>1 DEF RecoveryFind, memory
<1>19. ASSUME NEW r \in Requests, RecoveryVerifyReply(r) PROVE FailuresInv'
  <2>1. Replies(r)
    BY <1>19 DEF RecoveryVerifyReply
  <2>2. CASE UNCHANGED backoff
    BY <1>1, <2>1, <2>2, GuessersIfReplies
  <2>3. CASE backoff' = NoBackoff
    BY <1>3, <2>3
  <2>4. CASE backoff' = FailureRecorded(backoff)
    <3>1. r \in Guessing
      BY <1>19 DEF RecoveryVerifyReply, At, Guessing, GuessPlaces
    <3>2. QED
      BY <2>1, <2>4, <3>1, GuessersIfReplies, CountUsed
  <2>5. QED
    BY <1>19, <2>2, <2>3, <2>4 DEF RecoveryVerifyReply
<1>20. ASSUME NEW r \in Requests, DatabaseError(r) PROVE FailuresInv'
  BY <1>1, <1>20, GuessersIfReplies DEF DatabaseError, memory
<1>21. CASE Logout \/ AuthenticatedRequest \/ DevLogin \/ UNCHANGED vars
  BY <1>1, <1>21, GuessersIfUnchanged
     DEF Logout, AuthenticatedRequest, DevLogin, vars, memory
<1>22. CASE Tick
  <2>1. /\ backoff'.failures = backoff.failures
        /\ backoff'.armed = backoff.armed
    BY <1>22 DEF Tick, Backoff
  <2>2. Guessing' \subseteq Guessing
    BY <1>22, GuessersIfUnchanged DEF Tick
  <2>3. QED
    BY <2>1, <2>2, CountKept
<1>23. CASE Restart
  BY <1>3, <1>23 DEF Restart
<1>24. QED
  BY <1>4, <1>5, <1>6, <1>7, <1>8, <1>9, <1>10, <1>11, <1>12, <1>13, <1>14,
     <1>15, <1>16, <1>17, <1>18, <1>19, <1>20, <1>21, <1>22, <1>23
     DEF Next, RequestStep

(* FailuresBounded: requests admitted together may all fail after the      *)
(* block has begun, but no failure is counted without an admission, so the *)
(* counter passes the limit by less than the requests in flight            *)
(* (backoff.service.ts: isBlocked(), recordFailure()).                     *)
THEOREM GuessingBounded ==
    ASSUME IsFiniteSet(Requests)
    PROVE  Spec => []FailuresBounded
<1>1. Init => FailuresInv
  <2> SUFFICES ASSUME Init PROVE FailuresInv
    OBVIOUS
  <2>1. backoff.failures = 0
    BY DEF Init, NoBackoff
  <2>2. QED
    BY <2>1, GuessingCount, LimitAssumption DEF FailuresInv
<1>2. TypeOK /\ FailuresInv /\ [Next]_vars => FailuresInv'
  BY FailuresStep
<1>3. TypeOK /\ FailuresInv => FailuresBounded
  <2> SUFFICES ASSUME TypeOK, FailuresInv PROVE FailuresBounded
    OBVIOUS
  <2>1. backoff.failures \in Nat
    BY DEF TypeOK, Backoff
  <2>2. QED
    BY <2>1, GuessingCount, LimitAssumption DEF FailuresInv, FailuresBounded
<1>4. QED
  BY <1>1, <1>2, <1>3, TypeCorrect, PTL DEF Spec

=============================================================================
