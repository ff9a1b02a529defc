--------------------------- MODULE MCConfigStorage --------------------------
(***************************************************************************)
(* An instance of ConfigStorage: two commands on two keys, on both         *)
(* storages and with and without integrity checks.                         *)
(***************************************************************************)
EXTENDS ConfigStorage

CONSTANT a
=============================================================================
