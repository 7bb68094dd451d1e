------------------------------- MODULE MCGate -------------------------------
(* Instances of the gate for TLC.                                          *)
EXTENDS GateProperties, TLC

Symmetry == Permutations(Calls) \cup Permutations(Tokens)
=============================================================================
