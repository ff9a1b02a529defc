--------------------------- MODULE MCCConfigApp ---------------------------
(* CConfigApp for TLC: instances and commands are interchangeable. *)
EXTENDS CConfigApp, TLC

Symmetry == Permutations(Instances) \cup Permutations(Commands)
===========================================================================
