---------------------------- MODULE MCLifecycle -----------------------------
(***************************************************************************)
(* The processes that a PID file leads to, in two machines that share no   *)
(* state: an instance with its keepers (Lifecycle), and the HTTP daemon    *)
(* (Daemon).                                                               *)
(***************************************************************************)
EXTENDS Lifecycle, Daemon

VARIABLE machine  \* what a behaviour follows: "lifecycle" or "daemon"

\* Both machines begin at rest, and one of them stays so.
SumInit == machine \in {"lifecycle", "daemon"} /\ Init /\ DaemonInit

SumNext ==
    /\ UNCHANGED machine
    /\ \/ machine = "lifecycle" /\ Next /\ UNCHANGED daemonVars
       \/ machine = "daemon" /\ DaemonNext /\ UNCHANGED vars

SumSpec == SumInit /\ [][SumNext]_<<machine, vars, daemonVars>>

\* The fairness of both; at rest nothing that is fair can happen.
SumFairSpec == SumSpec /\ Fairness /\ DaemonFairness
=============================================================================
