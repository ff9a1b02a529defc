----------------------------- MODULE Supervisor -----------------------------
(***************************************************************************)
(* What `tt start --watchdog` promises to the outside, without goroutines, *)
(* channels or timers: a service process is launched again and again until *)
(* a stop is accepted; after that it is never launched again, it dies, and *)
(* the supervisor ends.  Watchdog.tla is shown to implement this module.   *)
(***************************************************************************)

VARIABLES
    up,        \* the service process exists (running, or dead but not waited for)
    stopping,  \* a stop request has been accepted
    over       \* the supervisor itself has ended

vars == <<up, stopping, over>>

Init ==
    /\ up = FALSE
    /\ stopping = FALSE
    /\ over = FALSE

\* The service is only launched by a supervisor that nobody asked to stop.
Launch ==
    /\ ~up /\ ~stopping /\ ~over
    /\ up' = TRUE
    /\ UNCHANGED <<stopping, over>>

Die ==
    /\ up
    /\ up' = FALSE
    /\ UNCHANGED <<stopping, over>>

AcceptStop ==
    /\ ~stopping /\ ~over
    /\ stopping' = TRUE
    /\ UNCHANGED <<up, over>>

\* The supervisor never ends while the service exists.
Finish ==
    /\ ~up /\ ~over
    /\ over' = TRUE
    /\ UNCHANGED <<up, stopping>>

Next == Launch \/ Die \/ AcceptStop \/ Finish

Safety == Init /\ [][Next]_vars

\* An accepted stop is carried out: the service dies and the supervisor ends.
Spec == Safety /\ WF_vars(stopping /\ (Die \/ Finish))
=============================================================================
