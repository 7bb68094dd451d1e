--------------------------- MODULE AuthProperties ---------------------------
(***************************************************************************)
(* What the authentication service promises, stated on module Auth.        *)
(***************************************************************************)
EXTENDS Auth

(* Every variable has its type. *)
TypeOK ==
    /\ sessions \in SessionMap
    /\ recoverySessions \in RecoveryMap
    /\ challenges \in [Kinds -> Slot]
    /\ backoff \in Backoff
    /\ optionsHits \in HitMap
    /\ recoveryHits \in HitMap
    /\ credentials \in [Credentials -> VaultKeys \cup {None}]
    /\ recoveryWrap \in VaultKeys \cup {None}
    /\ requests \in [Requests -> Request]
    /\ recoveryUses \in [RecoveryTokens -> Nat]

-----------------------------------------------------------------------------
(* A vault with a passkey can always be recovered: the first registration  *)
(* stores a recovery wrap with its credential and nothing removes it, even *)
(* though the emptiness of the table is read long before the transaction   *)
(* that relies on it (registerVerify).                                     *)
RecoverableOnceRegistered == Registered => recoveryWrap # None

(* A registered vault never looks empty again, not even between the        *)
(* deletion and the creation of a recovery registration: an empty table    *)
(* would reopen the first registration.                                    *)
NeverUnregistered == [][Registered => Registered']_vars

(* Every passkey and the recovery code open the same vault: all rows wrap  *)
(* one vault key.  A second key would make what one device writes          *)
(* unreadable to the others.                                               *)
VaultKeyAgreement == \A c \in Rows : credentials[c] = recoveryWrap

(* A credential joins a vault that has one already only through a request  *)
(* that carried a live session or recovery session (assertRegisterAllowed). *)
DeviceAdditionAuthenticated ==
    [][\A r \in Requests :
          At(r, "rv.commit") /\ requests'[r].at = "rv.committed" /\ Registered
             => requests[r].authenticated]_vars

(* A recovery session is good for one registration (session.service.ts:    *)
(* "registration allowed once").                                           *)
RecoverySessionOneShot == \A t \in RecoveryTokens : recoveryUses[t] <= 1

-----------------------------------------------------------------------------
(* Requests that hold a challenge they have consumed. *)
HoldsSpent(r) ==
    /\ requests[r].challenge # None
    /\ requests[r].at \in {"rv.delete", "rv.commit", "rv.committed",
                           "lv.find", "lv.found", "lv.update", "lv.updated"}

(* A challenge verifies one response: once a request has consumed it, it   *)
(* is in no slot, and no other request is being verified against it.       *)
ChallengeSpentOnce ==
    \A r \in Requests : HoldsSpent(r) =>
        /\ \A k \in Kinds : challenges[k].value # requests[r].challenge
        /\ \A s \in Requests \ {r} :
              HoldsSpent(s) => requests[s].challenge # requests[r].challenge

(* Guessing is bounded: the requests that were admitted together may fail  *)
(* after the block has begun, but no further one is admitted, so the       *)
(* counter never runs past the limit by more than the requests in flight.  *)
FailuresBounded ==
    backoff.failures <= MaxLoginFailures - 1 + Cardinality(Requests)

(* A block always ends, however often clients keep trying: refused         *)
(* attempts do not extend it.                                              *)
BlockEventuallyLifts == Blocked(backoff) ~> ~Blocked(backoff)
=============================================================================
