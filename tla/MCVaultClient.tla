--------------------------- MODULE MCVaultClient ---------------------------
(* Instances of the vault's pages for TLC.                                 *)
EXTENDS VaultClientProperties

CONSTANTS s1, s2, x1

(* A backup of a site and a password older than anything made here.        *)
Older ==
    [sites |-> [s \in Sites |->
                    IF s = s2 THEN [label |-> CHOOSE l \in Labels : TRUE,
                                    born |-> 1]
                    ELSE None],
     secrets |-> [x \in Secrets |->
                    IF x = x1 THEN [site |-> s2, body |-> CHOOSE b \in Bodies : TRUE]
                    ELSE None]]
OlderBackups == {Older}
NoBackups == {}
=============================================================================
