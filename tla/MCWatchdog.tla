----------------------------- MODULE MCWatchdog -----------------------------
(* Model checking of Watchdog: bounds come from the cfg files. *)
EXTENDS Watchdog
=============================================================================
