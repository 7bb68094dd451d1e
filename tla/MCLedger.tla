------------------------------ MODULE MCLedger ------------------------------
(* Small instances of Ledger for TLC.                                      *)
EXTENDS LedgerProperties, TLC

Symmetry ==
    Permutations(Templates) \cup Permutations(Expenses)
        \cup Permutations(Loads) \cup Permutations(Tabs)

AllOperations == Kinds \cup {"monthPasses"}

(* Enough kinds to have every call of a script fail or lose its reply.     *)
FaultOperations == {"single", "fixed", "convert", "edit", "unfix"}

(* What two tabs may do to one row.                                        *)
RaceOperations == {"single", "move", "convert"}

(* Saves that touch the rows of a template while its months are loaded.    *)
LoadedOperations == {"fixed", "edit", "deleteMonth", "monthPasses"}
=============================================================================
