------------------------------ MODULE Watchdog ------------------------------
(***************************************************************************)
(* One watchdog process (cli/running/watchdog.go) with the instance process *)
(* it controls (base_instance.go, process_controller.go).                  *)
(*                                                                         *)
(* Four threads of control share the state below:                          *)
(*   - the main goroutine, Watchdog.Start, at program point `main';        *)
(*   - the signal handling goroutine of startSignalHandling (`handler');   *)
(*   - the integrity goroutine of startIntegrityChecks (`integ');          *)
(*   - the goroutine that StopWithSignal spawns to Wait for the process.   *)
(* The environment sends signals and the instance process may die at any   *)
(* moment.                                                                 *)
(***************************************************************************)
EXTENDS Naturals

CONSTANTS
    MaxSignals,     \* bound: signals sent to the watchdog in one behaviour
    MaxRestarts,    \* bound: times the instance is recreated
    WithIntegrity   \* integrityCheckPeriod # 0

ASSUME WatchdogAssumption ==
    /\ MaxSignals \in Nat
    /\ MaxRestarts \in Nat
    /\ WithIntegrity \in BOOLEAN

VARIABLES
    main,        \* program point of Watchdog.Start
    handler,     \* program point of the signal handling goroutine
    integ,       \* program point of the integrity goroutine
    wait,        \* progress of processController.Wait, per caller
    notified,    \* signal.Notify is in force (else the default disposition)
    sigChan,     \* sigChan of capacity 1: "empty" or the buffered signal
    cancelled,   \* watchdogCtx has been cancelled
    shouldStop,  \* wd.shouldStop
    inst,        \* the instance process
    done,        \* processController.done
    pending,     \* signals the instance process has been sent by StopWithSignal
    chld,        \* a SIGCHLD for the dead instance is on its way
    sent,        \* number of signals sent so far
    stopSent,    \* history: a stop signal was sent to this watchdog
    restarts     \* number of times the instance was recreated

vars == <<main, handler, integ, wait, notified, sigChan, cancelled, shouldStop,
          inst, done, pending, chld, sent, stopSent, restarts>>

-----------------------------------------------------------------------------
\* SIGTERM is handled like SIGINT and is not kept apart.
StopSignals == {"INT", "QUIT"}
SentSignals == StopSignals \cup {"HUP", "USR1"}
Signals     == SentSignals \cup {"CHLD"}

\* Without Notify the Go runtime ends the process on these and ignores the rest.
FatalByDefault == StopSignals \cup {"HUP"}

MainPoints == {"create", "reset1", "notify1", "integrity1", "preStart", "preFailed",
               "loop", "starting", "waiting", "cancel", "barrier", "check", "sleep",
               "recreate", "integrity2", "reset2", "notify2", "exited", "killed"}
HandlerPoints == {"none", "select", "lock", "isAlive", "stop", "send", "await",
                  "awaitKill", "forward", "ended"}
IntegPoints == {"none", "select", "report", "ended"}
Waiters == {"main", "stopper"}
WaitPoints == {"idle", "called", "checked", "locked", "reaped", "returned"}

\* The watchdog process exists; its goroutines run only then.
Up == main \notin {"exited", "killed"}

\* processController.IsAlive: signal 0 reaches a process until it is waited for.
IsAlive == ~done /\ inst \in {"running", "zombie"}

\* doneBarrier.Wait() returns: both goroutines have called Done.
BarrierOpen == handler \in {"none", "ended"} /\ integ \in {"none", "ended"}

\* stopMutex is held by the main goroutine from the check to the end of Start.
StopMutexFree == main # "starting"

WaitMutexFree == \A w \in Waiters : wait[w] \notin {"locked", "reaped"}

Init ==
    /\ main = "create"
    /\ handler = "none"
    /\ integ = "none"
    /\ wait = [w \in Waiters |-> "idle"]
    /\ notified = FALSE
    /\ sigChan = "empty"
    /\ cancelled = FALSE
    /\ shouldStop = FALSE
    /\ inst = "none"
    /\ done = FALSE
    /\ pending = {}
    /\ chld = FALSE
    /\ sent = 0
    /\ stopSent = FALSE
    /\ restarts = 0

-----------------------------------------------------------------------------
\* The environment.

\* A signal reaches the process: into the channel unless it is full, or the
\* default disposition when nothing is notified.
Deliver(s) ==
    \/ /\ notified
       /\ sigChan' = IF sigChan = "empty" THEN s ELSE sigChan
       /\ UNCHANGED main
    \/ /\ ~notified
       /\ main' = IF s \in FatalByDefault THEN "killed" ELSE main
       /\ UNCHANGED sigChan

SendSignal(s) ==
    /\ Up
    /\ sent < MaxSignals
    /\ Deliver(s)
    /\ sent' = sent + 1
    /\ stopSent' = (stopSent \/ s \in StopSignals)
    /\ UNCHANGED <<handler, integ, wait, notified, cancelled, shouldStop, inst, done,
                   pending, chld, restarts>>

DeliverChild ==
    /\ Up /\ chld
    /\ chld' = FALSE
    /\ Deliver("CHLD")
    /\ UNCHANGED <<handler, integ, wait, notified, cancelled, shouldStop, inst, done,
                   pending, sent, stopSent, restarts>>

\* The instance process ends on its own or because it obeys a signal.
InstanceExit ==
    /\ inst = "running"
    /\ inst' = "zombie"
    /\ chld' = TRUE
    /\ UNCHANGED <<main, handler, integ, wait, notified, sigChan, cancelled, shouldStop,
                   done, pending, sent, stopSent, restarts>>

\* SIGKILL cannot be ignored.
InstanceKilled == "kill" \in pending /\ InstanceExit

-----------------------------------------------------------------------------
\* processController.Wait, called by the main goroutine and by StopWithSignal.

WaitVarsRest == <<main, handler, integ, notified, sigChan, cancelled, shouldStop, pending,
                  chld, sent, stopSent, restarts>>

\* `done' is read without the mutex.
WaitCall(w) ==
    /\ Up
    /\ wait[w] = "called"
    /\ wait' = [wait EXCEPT ![w] = IF done THEN "returned" ELSE "checked"]
    /\ UNCHANGED <<inst, done>>
    /\ UNCHANGED WaitVarsRest

WaitLock(w) ==
    /\ Up
    /\ wait[w] = "checked"
    /\ WaitMutexFree
    /\ wait' = [wait EXCEPT ![w] = "locked"]
    /\ UNCHANGED <<inst, done>>
    /\ UNCHANGED WaitVarsRest

\* Faulty variant: an interrupted wait is taken for the end of the process.
WaitReapInterrupted(w) ==
    /\ Up
    /\ wait[w] = "locked"
    /\ inst' = IF inst = "zombie" THEN "reaped" ELSE inst
    /\ wait' = [wait EXCEPT ![w] = "returned"]
    /\ UNCHANGED done
    /\ UNCHANGED WaitVarsRest

\* Cmd.Wait reaps the dead process, or fails at once when that was already done.
WaitReap(w) ==
    /\ Up
    /\ wait[w] = "locked"
    /\ \/ /\ inst = "zombie"
          /\ inst' = "reaped"
          /\ wait' = [wait EXCEPT ![w] = "reaped"]
       \/ /\ inst = "reaped"
          /\ UNCHANGED inst
          /\ wait' = [wait EXCEPT ![w] = "returned"]
    /\ UNCHANGED done
    /\ UNCHANGED WaitVarsRest

\* `done' is only set when the process exited cleanly.
WaitReturn(w) ==
    /\ Up
    /\ wait[w] = "reaped"
    /\ done' \in BOOLEAN
    /\ wait' = [wait EXCEPT ![w] = "returned"]
    /\ UNCHANGED inst
    /\ UNCHANGED WaitVarsRest

WaitNext(w) == WaitCall(w) \/ WaitLock(w) \/ WaitReap(w) \/ WaitReturn(w)

-----------------------------------------------------------------------------
\* The signal handling goroutine.

HandlerVarsRest == <<main, integ, notified, cancelled, inst, done, chld, sent, stopSent,
                     restarts>>

HandlerReceive ==
    /\ Up
    /\ handler = "select"
    /\ sigChan # "empty"
    /\ handler' = IF sigChan \in StopSignals THEN "lock" ELSE "forward"
    /\ sigChan' = "empty"
    /\ UNCHANGED <<wait, shouldStop, pending>>
    /\ UNCHANGED HandlerVarsRest

HandlerDone ==
    /\ Up
    /\ handler = "select"
    /\ cancelled
    /\ handler' = "ended"
    /\ UNCHANGED <<wait, shouldStop, pending, sigChan>>
    /\ UNCHANGED HandlerVarsRest

\* Faulty variant: shouldStop is set without taking stopMutex.
HandlerAcceptStopUnlocked ==
    /\ Up
    /\ handler = "lock"
    /\ shouldStop' = TRUE
    /\ handler' = "isAlive"
    /\ UNCHANGED <<wait, pending, sigChan>>
    /\ UNCHANGED HandlerVarsRest

HandlerAcceptStop ==
    /\ Up
    /\ handler = "lock"
    /\ StopMutexFree
    /\ shouldStop' = TRUE
    /\ handler' = "isAlive"
    /\ UNCHANGED <<wait, pending, sigChan>>
    /\ UNCHANGED HandlerVarsRest

HandlerIsAlive ==
    /\ Up
    /\ handler = "isAlive"
    /\ handler' = IF IsAlive THEN "stop" ELSE "select"
    /\ UNCHANGED <<wait, shouldStop, pending, sigChan>>
    /\ UNCHANGED HandlerVarsRest

\* SIGHUP rotates the log; SIGHUP and every other signal go to a live instance.
HandlerForward ==
    /\ Up
    /\ handler = "forward"
    /\ handler' = "select"
    /\ UNCHANGED <<wait, shouldStop, pending, sigChan>>
    /\ UNCHANGED HandlerVarsRest

\* StopWithSignal: leave when the process is dead, else spawn the goroutine that
\* waits for it.
StopSpawn ==
    /\ Up
    /\ handler = "stop"
    /\ IF IsAlive
       THEN /\ handler' = "send"
            /\ wait' = [wait EXCEPT !["stopper"] = "called"]
       ELSE /\ handler' = "select"
            /\ UNCHANGED wait
    /\ UNCHANGED <<shouldStop, pending, sigChan>>
    /\ UNCHANGED HandlerVarsRest

StopSend ==
    /\ Up
    /\ handler = "send"
    /\ IF inst = "reaped"
       THEN /\ handler' = "select"
            /\ UNCHANGED pending
       ELSE /\ handler' = "await"
            /\ pending' = pending \cup {"stop"}
    /\ UNCHANGED <<wait, shouldStop, sigChan>>
    /\ UNCHANGED HandlerVarsRest

\* Faulty variant: the timeout gives up without SIGKILL.
StopTimeoutNoKill ==
    /\ Up
    /\ handler = "await"
    /\ handler' = "select"
    /\ UNCHANGED <<wait, shouldStop, pending, sigChan>>
    /\ UNCHANGED HandlerVarsRest

StopTimeout ==
    /\ Up
    /\ handler = "await"
    /\ IF inst = "reaped"
       THEN /\ handler' = "select"
            /\ UNCHANGED pending
       ELSE /\ handler' = "awaitKill"
            /\ pending' = pending \cup {"kill"}
    /\ UNCHANGED <<wait, shouldStop, sigChan>>
    /\ UNCHANGED HandlerVarsRest

\* Faulty variant: waitDone is only written after a clean exit of the process.
StopWaitDoneClean ==
    /\ Up
    /\ handler \in {"await", "awaitKill"}
    /\ wait["stopper"] = "returned" /\ done
    /\ handler' = "select"
    /\ UNCHANGED <<wait, shouldStop, pending, sigChan>>
    /\ UNCHANGED HandlerVarsRest

StopWaitDone ==
    /\ Up
    /\ handler \in {"await", "awaitKill"}
    /\ wait["stopper"] = "returned"
    /\ handler' = "select"
    /\ UNCHANGED <<wait, shouldStop, pending, sigChan>>
    /\ UNCHANGED HandlerVarsRest

-----------------------------------------------------------------------------
\* The integrity goroutine.

IntegrityStep(from, to) ==
    /\ Up
    /\ integ = from
    /\ integ' = to
    /\ UNCHANGED <<main, handler, wait, notified, sigChan, cancelled, shouldStop, inst,
                   done, pending, chld, sent, stopSent, restarts>>

IntegrityFailed == IntegrityStep("select", "report")
\* SIGUSR2 to the instance, if it has been started; then the goroutine is over.
IntegrityReport == IntegrityStep("report", "ended")
IntegrityDone   == cancelled /\ IntegrityStep("select", "ended")

-----------------------------------------------------------------------------
\* The main goroutine.

MainVarsRest == <<wait, notified, sigChan, cancelled, shouldStop, inst, done, pending,
                  chld, sent, stopSent, restarts>>

MainStep(from, to) ==
    /\ main = from
    /\ main' = to

\* A call that may fail; the watchdog returns on failure.
MayExit(from) ==
    /\ MainStep(from, "exited")
    /\ UNCHANGED <<handler, integ>>
    /\ UNCHANGED MainVarsRest

CreateInstance ==
    /\ MainStep("create", "reset1")
    /\ UNCHANGED <<handler, integ>>
    /\ UNCHANGED MainVarsRest

\* signal.Reset: the default disposition until Notify.
ResetSignals(from, to) ==
    /\ MainStep(from, to)
    /\ notified' = FALSE
    /\ UNCHANGED <<handler, integ, wait, sigChan, cancelled, shouldStop, inst, done,
                   pending, chld, sent, stopSent, restarts>>

\* signal.Notify on the new channel; the goroutine is started.
StartSignalHandling(from, to) ==
    /\ MainStep(from, to)
    /\ notified' = TRUE
    /\ sigChan' = "empty"
    /\ handler' = "select"
    /\ UNCHANGED <<integ, wait, cancelled, shouldStop, inst, done, pending, chld, sent,
                   stopSent, restarts>>

StartIntegrityChecks(from, to) ==
    /\ MainStep(from, to)
    /\ integ' = IF WithIntegrity THEN "select" ELSE integ
    /\ UNCHANGED handler
    /\ UNCHANGED MainVarsRest

\* preStartAction (the creation of the PID file) succeeds.
PreStart ==
    /\ MainStep("preStart", "loop")
    /\ UNCHANGED <<handler, integ>>
    /\ UNCHANGED MainVarsRest

\* It fails: cancel, wait for the goroutines, return the error.
PreStartFailed ==
    /\ MainStep("preStart", "preFailed")
    /\ cancelled' = TRUE
    /\ UNCHANGED <<handler, integ, wait, notified, sigChan, shouldStop, inst, done,
                   pending, chld, sent, stopSent, restarts>>

PreFailedReturn == BarrierOpen /\ MayExit("preFailed")

\* Faulty variant: shouldStop is not tested before the start.
LoopCheckBlind ==
    /\ MainStep("loop", "starting")
    /\ UNCHANGED <<handler, integ>>
    /\ UNCHANGED MainVarsRest

\* Lock stopMutex and test shouldStop.
LoopCheck ==
    /\ MainStep("loop", IF shouldStop THEN "exited" ELSE "starting")
    /\ UNCHANGED <<handler, integ>>
    /\ UNCHANGED MainVarsRest

\* instance.Start under stopMutex; Wait is called next.
StartInstance ==
    /\ MainStep("starting", "waiting")
    /\ inst' = "running"
    /\ done' = FALSE
    /\ pending' = {}
    /\ wait' = [wait EXCEPT !["main"] = "called"]
    /\ UNCHANGED <<handler, integ, notified, sigChan, cancelled, shouldStop, chld, sent,
                   stopSent, restarts>>

StartFailed == MayExit("starting")

\* Wait returned (its error is only logged): cancel the context.
CancelContext ==
    /\ MainStep("waiting", "barrier")
    /\ wait["main"] = "returned"
    /\ cancelled' = TRUE
    /\ UNCHANGED <<handler, integ, wait, notified, sigChan, shouldStop, inst, done,
                   pending, chld, sent, stopSent, restarts>>

BarrierWait ==
    /\ MainStep("barrier", "check")
    /\ BarrierOpen
    /\ UNCHANGED <<handler, integ>>
    /\ UNCHANGED MainVarsRest

\* IsRestartable fails or says no, shouldStop is set, or UpdateLogger fails.
CheckBreak == MayExit("check")

CheckRestart ==
    /\ MainStep("check", "sleep")
    /\ ~shouldStop
    /\ restarts < MaxRestarts
    /\ UNCHANGED <<handler, integ>>
    /\ UNCHANGED MainVarsRest

\* After the restart timeout shouldStop is cleared.
SleepDone ==
    /\ MainStep("sleep", "recreate")
    /\ shouldStop' = FALSE
    /\ UNCHANGED <<handler, integ, wait, notified, sigChan, cancelled, inst, done,
                   pending, chld, sent, stopSent, restarts>>

\* A new Instance object without a process, and a fresh context.
RecreateInstance ==
    /\ MainStep("recreate", "integrity2")
    /\ inst' = "none"
    /\ done' = FALSE
    /\ pending' = {}
    /\ wait' = [w \in Waiters |-> "idle"]
    /\ cancelled' = FALSE
    /\ restarts' = restarts + 1
    /\ UNCHANGED <<handler, integ, notified, sigChan, shouldStop, chld, sent, stopSent>>

MainNext ==
    \/ CreateInstance \/ MayExit("create")
    \/ ResetSignals("reset1", "notify1")
    \/ StartSignalHandling("notify1", "integrity1")
    \/ StartIntegrityChecks("integrity1", "preStart")
    \/ PreStart \/ PreStartFailed \/ PreFailedReturn
    \/ LoopCheck \/ StartInstance \/ StartFailed
    \/ CancelContext \/ BarrierWait \/ CheckBreak \/ CheckRestart
    \/ SleepDone \/ RecreateInstance \/ MayExit("recreate")
    \/ StartIntegrityChecks("integrity2", "reset2")
    \/ ResetSignals("reset2", "notify2")
    \/ StartSignalHandling("notify2", "loop")

HandlerNext ==
    \/ HandlerReceive \/ HandlerDone \/ HandlerAcceptStop \/ HandlerIsAlive
    \/ HandlerForward \/ StopSpawn \/ StopSend \/ StopWaitDone

IntegrityNext == IntegrityFailed \/ IntegrityReport \/ IntegrityDone

\* The process has ended.
Ended == ~Up /\ UNCHANGED vars

Next ==
    \/ \E s \in SentSignals : SendSignal(s)
    \/ DeliverChild
    \/ InstanceExit
    \/ \E w \in Waiters : WaitNext(w)
    \/ HandlerNext
    \/ StopTimeout
    \/ IntegrityNext
    \/ MainNext
    \/ Ended

Spec == Init /\ [][Next]_vars

\* Goroutines are scheduled, timers expire, SIGKILL is effective.  Nothing makes
\* the instance end by itself or obey another signal.
Fairness ==
    /\ WF_vars(MainNext)
    /\ WF_vars(HandlerNext)
    /\ WF_vars(StopTimeout)
    /\ WF_vars(IntegrityReport \/ IntegrityDone)
    /\ WF_vars(InstanceKilled)
    /\ \A w \in Waiters : WF_vars(WaitNext(w))

FairSpec == Spec /\ Fairness

-----------------------------------------------------------------------------
\* Every variable stays in its range; in particular the signal channel holds at
\* most one signal, as make(chan os.Signal, 1) in startSignalHandling provides.
TypeOK ==
    /\ main \in MainPoints
    /\ handler \in HandlerPoints
    /\ integ \in IntegPoints
    /\ wait \in [Waiters -> WaitPoints]
    /\ notified \in BOOLEAN
    /\ sigChan \in Signals \cup {"empty"}
    /\ cancelled \in BOOLEAN
    /\ shouldStop \in BOOLEAN
    /\ inst \in {"none", "running", "zombie", "reaped"}
    /\ done \in BOOLEAN
    /\ pending \subseteq {"stop", "kill"}
    /\ chld \in BOOLEAN
    /\ sent \in Nat
    /\ stopSent \in BOOLEAN
    /\ restarts \in Nat

\* However the watchdog ends (a failed call, a stop, a signal that finds no
\* handler), it never leaves an instance process behind.
NeverAbandonsInstance == ~Up => inst \in {"none", "reaped"}

\* Between the barrier and the new goroutines the main loop touches shouldStop,
\* logger and instance without a lock.  No goroutine of the previous round is
\* alive then, and the previous process has been waited for.
QuietRestart ==
    main \in {"check", "sleep", "recreate", "integrity2"} =>
        /\ handler \in {"none", "ended"}
        /\ integ \in {"none", "ended"}
        /\ inst \in {"none", "reaped"}

\* Once the handler has accepted a stop no instance is started any more: the test
\* of shouldStop and instance.Start are one critical section of stopMutex.
NoLaunchAfterStop ==
    [][shouldStop => ~(inst # "running" /\ inst' = "running")]_vars

\* The reset of shouldStop before a restart never forgets an accepted stop.
StopIsSticky == [][shouldStop => shouldStop']_vars

\* An accepted stop ends the watchdog, even when the instance ignores the signal:
\* StopWithSignal falls back to SIGKILL.
AcceptedStopEnds == shouldStop ~> ~Up

\* doneBarrier.Wait never blocks for ever, whatever StopWithSignal, its goroutine
\* and the two callers of Wait are doing when the instance dies.
BarrierPasses == (main = "barrier") ~> (main # "barrier")

\* Every stop signal sent to the watchdog process ends it.  This is what the
\* comment in Watchdog.Start asks of the order of its calls: no signal is to be
\* received before there is a handler for it.
StopSignalEnds == stopSent ~> ~Up

Sup == INSTANCE Supervisor WITH
           up       <- inst \in {"running", "zombie"},
           stopping <- shouldStop,
           over     <- ~Up

\* Watchdog.Start implements the supervisor: no launch after an accepted stop, no
\* end while the instance exists, and every accepted stop is carried out.
ImplementsSupervisor == Sup!Spec
=============================================================================
