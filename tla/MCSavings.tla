----------------------------- MODULE MCSavings -----------------------------
(* An instance of the savings tab, the budget and the categories for TLC.  *)
EXTENDS SavingsProperties

CONSTANTS n1, sav, inv, etc

Empty ==
    [born |-> 0, fixed |-> {sav, inv}, users |-> {}, incomes |-> {}, accounts |-> {},
     box |-> {}, positions |-> {}]

(* Rows of an earlier version: a budget in two rows, a base; a fixed       *)
(* category has been added since.                                          *)
Lived ==
    [Empty EXCEPT
        !.born = 4, !.fixed = {sav, inv},
        !.incomes = {[id |-> 1, amount |-> 1], [id |-> 2, amount |-> 1]},
        !.accounts = {[id |-> 3, name |-> n1, base |-> 1, goal |-> 0]},
        !.positions = {[id |-> 4, base |-> 1, rate |-> None]}]

Unreadable ==
    [Lived EXCEPT !.positions = {[id |-> 4, base |-> Corrupt, rate |-> None]}]

ManyDatabases == {Empty, Lived, Unreadable}
FixedCodes == {sav, inv, etc}
OneEach ==
    {[code |-> sav, item |-> n1, amount |-> 1],
     [code |-> inv, item |-> n1, amount |-> 1]}
=============================================================================
