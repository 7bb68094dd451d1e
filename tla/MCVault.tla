------------------------------ MODULE MCVault ------------------------------
(* Instances of the vault API for TLC.                                     *)
EXTENDS VaultProperties, TLC

CONSTANTS s1, s2, x1, x2, l1, l2, b1, b2

(* A backup of one site with its secret, and one whose secret has lost its *)
(* site.  The ids s2 and x2 are for rows the API creates.                  *)
OneSite ==
    [sites |-> [s \in Sites |->
                    IF s = s1 THEN [label |-> l2, born |-> 1] ELSE None],
     secrets |-> [x \in Secrets |->
                    IF x = x1 THEN [site |-> s1, body |-> b2] ELSE None]]
Open == [OneSite EXCEPT !.sites = NoSites]

Asks(op) == [op |-> op] @@ NoQuery

WriteQueries ==
    {[Asks("createSite") EXCEPT !.label = l1],
     [Asks("removeSite") EXCEPT !.site = s1],
     [Asks("createSecret") EXCEPT !.site = s1, !.body = b1],
     [Asks("removeSecret") EXCEPT !.secret = x1]}
    \cup {[Asks("import") EXCEPT !.file = OneSite, !.mode = m] : m \in Modes}

OtherQueries ==
    {Asks("listSites"), Asks("export"),
     [Asks("updateSite") EXCEPT !.site = s1, !.label = l1],
     [Asks("listSecrets") EXCEPT !.site = s1],
     [Asks("detail") EXCEPT !.secret = x1],
     [Asks("updateSecret") EXCEPT !.secret = x1, !.body = b1],
     [Asks("import") EXCEPT !.file = Open, !.mode = "replace"]}

AllQueries == WriteQueries \cup OtherQueries
Symmetry == Permutations(Calls)
=============================================================================
