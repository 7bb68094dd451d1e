------------------------------- MODULE MCAuth -------------------------------
(* Small instances of Auth for TLC. *)
EXTENDS AuthProperties, TLC

Symmetry ==
    Permutations(Requests) \cup Permutations(Tokens)
        \cup Permutations(RecoveryTokens) \cup Permutations(Challenges)
        \cup Permutations(Credentials) \cup Permutations(VaultKeys)

RegisterEndpoints == {"registerOptions", "registerVerify", "recoveryVerify"}
SessionEndpoints ==
    {"loginOptions", "loginVerify", "recoveryVerify",
     "logout", "guarded", "devLogin", "restart"}

(* A vault with one passkey, after a restart. *)
RegisteredInit ==
    \E c \in Credentials, k \in VaultKeys :
        /\ sessions = [t \in Tokens |-> 0]
        /\ recoverySessions = [t \in RecoveryTokens |-> 0]
        /\ challenges = [kind \in Kinds |-> EmptySlot]
        /\ backoff = NoBackoff
        /\ optionsHits = NoHits
        /\ recoveryHits = NoHits
        /\ credentials = [d \in Credentials |-> IF d = c THEN k ELSE None]
        /\ recoveryWrap = k
        /\ requests = [r \in Requests |-> Idle]
        /\ recoveryUses = [t \in RecoveryTokens |-> 0]

RegisteredSpec == RegisteredInit /\ [][Next]_vars

(* Time passes; nothing else is promised. *)
RegisteredFairSpec == RegisteredSpec /\ WF_vars(Tick)
=============================================================================
