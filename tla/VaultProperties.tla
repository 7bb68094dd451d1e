-------------------------- MODULE VaultProperties --------------------------
(***************************************************************************)
(* What the vault API must not get wrong.                                  *)
(***************************************************************************)
EXTENDS Vault

TypeOK ==
    /\ sites \in SiteTable
    /\ secrets \in SecretTable
    /\ requests \in [Calls -> Request]

(* Every secret belongs to a site that exists (docs/ssot/password-vault.md *)
(* INV-1), although ensureSite() looks at an earlier moment than the       *)
(* insert and an import writes sites and secrets while others are removed. *)
EverySecretHasItsSite == Closed(sites, secrets)

-----------------------------------------------------------------------------
(* The API implements AtomicVault: whatever the steps in between, each     *)
(* request looks as if it had acted at one moment, an import as if it had  *)
(* written all of its rows at once, under the rule of its mode, or none.   *)

AtomicCall(r) ==
    [query |-> r.query, answer |-> r.answer, sitesRead |-> r.sitesRead,
     secretsRead |-> r.secretsRead]

atomicCalls == [c \in Calls |-> AtomicCall(requests[c])]

Atomic == INSTANCE AtomicVault WITH calls <- atomicCalls

ActsAtOnce == Atomic!Spec
=============================================================================
