------------------------------- MODULE Daemon -------------------------------
(***************************************************************************)
(* The HTTP daemon of tt (cli/daemon, cli/cmd/daemon.go): the commands     *)
(* start, stop and restart, and the processes they start.  A process has   *)
(* a main goroutine (Process.Start and startSignalHandling), a worker      *)
(* (HTTPServer.Start) and, once it is asked to stop, a third goroutine     *)
(* (HTTPServer.Stop).  They meet in a PID file and in a port.              *)
(***************************************************************************)
EXTENDS Naturals

CONSTANTS
    Daemons,      \* the daemon processes
    Users,        \* the tt processes that users run
    Nobody,       \* no process, no file
    MaxBegun,     \* bound: commands in one behaviour
    MaxFaults     \* bound: processes killed, and calls that fail for no reason of the model

ASSUME DaemonAssumption ==
    Nobody \notin Daemons /\ Nobody \notin [by : Daemons, written : BOOLEAN]

VARIABLES
    main,        \* program point of the main goroutine of every daemon
    worker,      \* program point of its worker
    stopper,     \* program point of the goroutine that Stop starts
    signalled,   \* the daemons with a signal in sigTermChan
    port,        \* who listens
    daemonFile,  \* the PID file: Nobody, or who created it and whether its PID is in it
    user,        \* what every user's process does: op, pc, the PID it has read
    begun,       \* number of commands so far
    faults,      \* number of faults so far
    left,        \* history: a daemon has ended otherwise than by Stop
    overlapped   \* history: a start has begun before what it depends on had come to rest

daemonVars == <<main, worker, stopper, signalled, port, daemonFile, user, begun, faults, left, overlapped>>

Idle == [op |-> "none", pc |-> "idle", pid |-> Nobody]

DaemonInit ==
    /\ main = [d \in Daemons |-> "unborn"]
    /\ worker = [d \in Daemons |-> "none"]
    /\ stopper = [d \in Daemons |-> "none"]
    /\ signalled = {} /\ port = Nobody /\ daemonFile = Nobody
    /\ user = [u \in Users |-> Idle]
    /\ begun = 0 /\ faults = 0 /\ left = FALSE /\ overlapped = FALSE

Alive(d) == main[d] \notin {"unborn", "gone"}
Fault == faults < MaxFaults /\ faults' = faults + 1

\* os.Exit and death by a signal: the system closes the port, the PID file stays.
Exit(d) ==
    /\ main' = [main EXCEPT ![d] = "gone"]
    /\ worker' = [worker EXCEPT ![d] = "none"]
    /\ stopper' = [stopper EXCEPT ![d] = "none"]
    /\ signalled' = signalled \ {d}
    /\ port' = IF port = d THEN Nobody ELSE port

Dies(d) == Exit(d) /\ left' = TRUE /\ UNCHANGED <<daemonFile, user, begun, overlapped>>

-----------------------------------------------------------------------------
(* The PID file, for a child that creates it and for a parent that checks it. *)

\* CheckPIDFile, the stat: where the caller goes on.
StatFile(absent) == IF daemonFile = Nobody THEN absent ELSE "read"

\* CheckPIDFile, the reading: a file without a PID, or with that of a living process,
\* is an error.  A file that has gone meanwhile cannot be read either.
ReadFile(fails) ==
    IF daemonFile # Nobody /\ daemonFile.written /\ ~Alive(daemonFile.by) THEN "remove" ELSE fails

\* The main goroutine goes on, and nothing but the PID file may change with it.
MainGoes(d, from, to) ==
    /\ main[d] = from /\ main' = [main EXCEPT ![d] = to]
    /\ UNCHANGED <<worker, stopper, signalled, port, user, begun, faults, left, overlapped>>

\* Process.Start in the child: the logger, which may fail.
NewFileLogger(d) ==
    \/ MainGoes(d, "logger", "stat") /\ UNCHANGED daemonFile
    \/ main[d] = "logger" /\ Fault /\ Dies(d)

\* CreatePIDFile, in its steps; an error ends the process.
CreatePIDFile(d) ==
    \/ MainGoes(d, "stat", StatFile("open")) /\ UNCHANGED daemonFile
    \/ main[d] = "read" /\ ReadFile("fails") = "fails" /\ Dies(d) /\ UNCHANGED faults
    \/ MainGoes(d, "read", "remove") /\ ReadFile("fails") = "remove" /\ UNCHANGED daemonFile
    \/ MainGoes(d, "remove", "open") /\ daemonFile' = Nobody
    \/ MainGoes(d, "open", "write") /\ daemonFile = Nobody
       /\ daemonFile' = [by |-> d, written |-> FALSE]
    \/ main[d] = "open" /\ daemonFile # Nobody /\ Dies(d) /\ UNCHANGED faults
    \/ /\ MainGoes(d, "write", "work")
       /\ daemonFile' = IF daemonFile # Nobody /\ daemonFile.by = d
                        THEN [daemonFile EXCEPT !.written = TRUE] ELSE daemonFile
    \/ main[d] = "write" /\ Fault /\ Dies(d)

\* The worker is started, then startSignalHandling asks for the signals.
StartWorker(d) ==
    /\ main[d] = "work" /\ main' = [main EXCEPT ![d] = "notify"]
    /\ worker' = [worker EXCEPT ![d] = "ip"]
    /\ UNCHANGED <<stopper, signalled, port, daemonFile, user, begun, faults, left, overlapped>>

Notify(d) == MainGoes(d, "notify", "handling") /\ UNCHANGED daemonFile

\* startSignalHandling: a signal starts Stop, which never returns.
BeginStop(d) ==
    /\ main[d] = "handling" /\ d \in signalled
    /\ main' = [main EXCEPT ![d] = "removing"]
    /\ stopper' = [stopper EXCEPT ![d] = "look"]
    /\ signalled' = signalled \ {d}
    /\ UNCHANGED <<worker, port, daemonFile, user, begun, faults, left, overlapped>>

\* Stop removes the PID file, whoever created it, while the server shuts down.
RemoveOwnFile(d) == MainGoes(d, "removing", "awaiting") /\ daemonFile' = Nobody

\* Faulty variant: the worker is waited for as well.
EndStopAfterWorker(d) ==
    /\ main[d] = "awaiting" /\ stopper[d] = "done" /\ worker[d] = "closed"
    /\ Exit(d) /\ UNCHANGED <<daemonFile, user, begun, faults, left, overlapped>>

\* Stop has the answer of the server and ends the process.
EndStop(d) ==
    /\ main[d] = "awaiting" /\ stopper[d] = "done"
    /\ Exit(d) /\ UNCHANGED <<daemonFile, user, begun, faults, left, overlapped>>

MainStep(d) ==
    \/ NewFileLogger(d) \/ CreatePIDFile(d) \/ StartWorker(d) \/ Notify(d)
    \/ BeginStop(d) \/ RemoveOwnFile(d) \/ EndStop(d)

-----------------------------------------------------------------------------
(* The HTTP server. *)

WorkerGoes(d, from, to) ==
    /\ worker[d] = from /\ worker' = [worker EXCEPT ![d] = to]
    /\ UNCHANGED <<main, stopper, signalled, daemonFile, user, begun, faults, left, overlapped>>

\* Shutdown has begun.
Closing(d) == stopper[d] \in {"shutdown", "done"}

\* HTTPServer.Start: the address, the socket, and the loop of Serve, which gives the socket
\* up when Shutdown was called before.  Every other end is fatal.
WorkerStep(d) ==
    \/ WorkerGoes(d, "ip", "listen") /\ UNCHANGED port
    \/ WorkerGoes(d, "listen", "bound") /\ port = Nobody /\ port' = d
    \/ worker[d] = "listen" /\ port # Nobody /\ Dies(d) /\ UNCHANGED faults
    \/ WorkerGoes(d, "bound", "serving") /\ ~Closing(d) /\ UNCHANGED port
    \/ WorkerGoes(d, "bound", "closed") /\ Closing(d) /\ port' = Nobody
    \/ worker[d] \in {"ip", "listen", "serving"} /\ Fault /\ Dies(d)

StopperGoes(d, from, to) ==
    /\ stopper[d] = from /\ stopper' = [stopper EXCEPT ![d] = to]
    /\ UNCHANGED <<main, signalled, daemonFile, user, begun, faults, left, overlapped>>

\* HTTPServer.Stop: a server that is not there yet is an error; the field is read without a
\* lock, so that it may be seen nil when it has been set.
NotStarted(d) == StopperGoes(d, "look", "done") /\ UNCHANGED <<worker, port>>

\* Shutdown closes the listening socket first.
Shutdown(d) ==
    /\ worker[d] \in {"listen", "bound", "serving"}
    /\ StopperGoes(d, "look", "shutdown")
    /\ IF worker[d] = "serving"
       THEN worker' = [worker EXCEPT ![d] = "closed"] /\ port' = Nobody
       ELSE UNCHANGED <<worker, port>>

\* Shutdown waits for the requests that are being answered, at most for the timeout: the tt
\* commands that ServeHTTP runs may outlive the daemon.
ShutdownEnds(d) == StopperGoes(d, "shutdown", "done") /\ UNCHANGED <<worker, port>>

StopperStep(d) == NotStarted(d) \/ Shutdown(d) \/ ShutdownEnds(d)

Killed(d) == Alive(d) /\ Fault /\ Dies(d)

-----------------------------------------------------------------------------
(* The commands. *)

UserGoes(u, next) ==
    /\ user' = [user EXCEPT ![u] = next]
    /\ UNCHANGED <<worker, stopper, port, faults>>
At(u, pc) == user[u].pc = pc
To(u, pc) == [user[u] EXCEPT !.pc = pc]
Starting == [op |-> "start", pc |-> "stat", pid |-> Nobody]

\* A daemon that has neither come up nor ended.
Unsettled(d) == Alive(d) /\ ~(main[d] = "handling" /\ worker[d] = "serving" /\ d \notin signalled)

\* Of several processes that might be the next one it does not matter which one is.
NextOf(S, P(_)) == CHOOSE x \in S : P(x)

RunCommand(u, op) ==
    /\ begun < MaxBegun /\ begun' = begun + 1
    /\ At(u, "idle") /\ u = NextOf(Users, LAMBDA v : At(v, "idle"))
    /\ UserGoes(u, IF op = "start" THEN Starting ELSE [op |-> op, pc |-> "pid", pid |-> Nobody])
    /\ overlapped' = (overlapped \/ \E v \in Users : user[v] # Idle
                                 \/ (op # "stop" /\ \E d \in Daemons : Unsettled(d)))
    /\ UNCHANGED <<main, signalled, daemonFile, left>>

\* getRunningPid: no file, no PID in it or no such process is an error.
StopProcess(u) ==
    /\ At(u, "pid")
    /\ UserGoes(u, IF daemonFile # Nobody /\ daemonFile.written /\ Alive(daemonFile.by)
                   THEN [user[u] EXCEPT !.pc = "kill", !.pid = daemonFile.by] ELSE Idle)
    /\ UNCHANGED <<begun, main, signalled, daemonFile, left, overlapped>>

\* StopProcess, the signal: ignored by a full channel, deadly before Notify, and an error when
\* the process has gone.
Interrupt(u) ==
    LET d == user[u].pid
    IN  /\ At(u, "kill")
        /\ IF Alive(d) /\ main[d] \notin {"handling", "removing", "awaiting"}
           THEN /\ Exit(d) /\ left' = TRUE /\ user' = [user EXCEPT ![u] = To(u, "await")]
                /\ UNCHANGED <<begun, daemonFile, faults, overlapped>>
           ELSE /\ UserGoes(u, IF Alive(d) THEN To(u, "await") ELSE Idle)
                /\ signalled' = IF main[d] = "handling" THEN signalled \cup {d} ELSE signalled
                /\ UNCHANGED <<begun, main, daemonFile, left, overlapped>>

\* Faulty variant: the end of the process is not waited for.
WaitProcessTerminationNot(u) ==
    /\ At(u, "await")
    /\ UserGoes(u, IF user[u].op = "restart" THEN Starting ELSE Idle)
    /\ UNCHANGED <<begun, main, signalled, daemonFile, left, overlapped>>

\* waitProcessTermination; a restart goes on with the start unless the time is over.
WaitProcessTermination(u) ==
    /\ At(u, "await")
    /\ UserGoes(u, IF user[u].op = "restart" /\ ~Alive(user[u].pid) THEN Starting ELSE Idle)
    /\ UNCHANGED <<begun, main, signalled, daemonFile, left, overlapped>>

\* Process.Start in the parent: CheckPIDFile, then the child is started and left alone.
CheckPIDFile(u) ==
    /\ \/ At(u, "stat") /\ UserGoes(u, To(u, StatFile("spawn"))) /\ UNCHANGED daemonFile
       \/ At(u, "read") /\ UNCHANGED daemonFile
          /\ UserGoes(u, IF ReadFile("fails") = "remove" THEN To(u, "remove") ELSE Idle)
       \/ At(u, "remove") /\ UserGoes(u, To(u, "spawn")) /\ daemonFile' = Nobody
    /\ UNCHANGED <<begun, main, signalled, left, overlapped>>

\* The child is started, or cannot be.
StartChild(u) ==
    /\ At(u, "spawn") /\ UserGoes(u, Idle)
    /\ \/ \E d \in Daemons : main[d] = "unborn" /\ main' = [main EXCEPT ![d] = "logger"]
                             /\ d = NextOf(Daemons, LAMBDA e : main[e] = "unborn")
       \/ UNCHANGED main
    /\ UNCHANGED <<begun, signalled, daemonFile, left, overlapped>>

UserStep(u) == StopProcess(u) \/ Interrupt(u) \/ WaitProcessTermination(u) \/ CheckPIDFile(u) \/ StartChild(u)

\* The last of the MaxBegun commands is over.
Done == begun = MaxBegun /\ (\A u \in Users : At(u, "idle")) /\ UNCHANGED daemonVars

DaemonNext ==
    \/ Done
    \/ \E d \in Daemons : MainStep(d) \/ WorkerStep(d) \/ StopperStep(d) \/ Killed(d)
    \/ \E u \in Users : UserStep(u) \/ \E op \in {"start", "stop", "restart"} : RunCommand(u, op)

\* The goroutines of a daemon run; nothing is said about requests, users and faults.
DaemonFairness == \A d \in Daemons : WF_daemonVars(MainStep(d)) /\ WF_daemonVars(StopperStep(d))

DaemonSpec == DaemonInit /\ [][DaemonNext]_daemonVars /\ DaemonFairness

-----------------------------------------------------------------------------
(* Properties. *)

\* Users can rely on the PID file: a daemon that serves is the one it names, so that stop
\* finds it, and a daemon that is about to listen finds the port free, so that a restart does
\* not end without a daemon.  This holds however starts overlap as long as every daemon ends
\* by Stop, and after other ends for users who start one at a time and only when the last one
\* has come up or gone; Stop removes the file while the server is still there
\* (process.go:136), and CheckPIDFile removes a file it has looked at before.
DaemonIsFound ==
    /\ ~overlapped \/ ~left => \A d \in Daemons :
          worker[d] = "serving" /\ main[d] \in {"notify", "handling"} =>
              daemonFile = [by |-> d, written |-> TRUE]
    /\ ~overlapped => \A d \in Daemons : worker[d] = "listen" => port \in {Nobody, d}

\* A daemon that has got a signal ends, at whatever point its three goroutines are: before
\* the server is there, between its socket and its loop, or stopping already.  (The processes
\* are finitely many and do not come back, so this says as much as a leads-to for each.)
SignalEndsDaemon ==
    <>[](\A d \in Daemons : d \notin signalled /\ main[d] \notin {"removing", "awaiting"})
=============================================================================
