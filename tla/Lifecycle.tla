----------------------------- MODULE Lifecycle ------------------------------
(***************************************************************************)
(* The tt commands that start and stop one instance (cli/cmd/start.go,     *)
(* stop.go, restart.go, kill.go, clean.go, cli/running/running.go and      *)
(* cli/replicaset/rebootstrap.go) and the PID file they agree on           *)
(* (cli/process_utils/process_utils.go).                                   *)
(*                                                                         *)
(* A keeper is a process that runs an instance: the watchdog that          *)
(* `tt start' spawns, or `tt start --interactive' itself.  A command is a   *)
(* tt process; it shares with the keepers only the file system and the     *)
(* signals it sends.  Inside, a watchdog behaves as Watchdog.tla says.     *)
(***************************************************************************)
EXTENDS Naturals

CONSTANTS
    Keepers,      \* the processes that may run the instance
    Commands,     \* the tt processes that users run
    Operations,   \* the operations they use
    Exclusive,    \* operations of which users run one at a time (see MayBegin)
    None,         \* no keeper, no file
    MaxCrashes    \* bound: crashes of keepers in one behaviour

AllOperations == {"start", "interactive", "stop", "quit", "restart", "rebootstrap", "kill",
                  "clean"}

\* A PID file: who created it, and what is in it.
File == [by : Keepers, content : {"empty", "pid"}]

ASSUME LifecycleAssumption ==
    /\ Operations \subseteq AllOperations
    /\ Exclusive \subseteq AllOperations
    /\ None \notin Keepers \cup File
    /\ MaxCrashes \in Nat

VARIABLES
    keeper,    \* program point of every keeper
    kind,      \* "watchdog" or "interactive"
    inst,      \* the keepers whose instance process runs
    stopping,  \* the keepers that were asked to stop
    pidFile,   \* the PID file: None, or who created it and what is in it
    console,   \* the console socket: None, or the keeper whose instance made it
    op,        \* the operation of every command, "none" when it has ended
    pc,        \* program point of every command
    target,    \* the process whose PID the command has read
    crashes    \* number of crashes so far

vars == <<keeper, kind, inst, stopping, pidFile, console, op, pc, target, crashes>>

-----------------------------------------------------------------------------
\* CreatePIDFile, from the first stat to the write of the PID.
CreatePoints == {"stat", "read", "remove", "open", "write"}
StartPoints  == {"boot", "undo"} \cup CreatePoints
\* cleanup: stat and remove of the PID file and of the socket.
CleanupPoints == {"statPid", "rmPid", "statSock", "rmSock"}
KeeperPoints == {"unborn", "gone", "killed", "ready", "up"} \cup StartPoints \cup CleanupPoints
CommandPoints == {"idle", "status", "spawn", "read", "signal", "await", "confirm", "wipe"}
                 \cup CleanupPoints

Living(k) == keeper[k] \notin {"unborn", "gone", "killed"}

\* IsProcessAlive of the PID in the file: the watchdog's own PID, or the PID of the
\* instance of an interactive start.
IsProcessAlive(k) == IF kind[k] = "watchdog" THEN Living(k) ELSE k \in inst

\* ProcessStatus: an unreadable PID file counts as "stopped".
ProcessStatus ==
    IF pidFile = None \/ pidFile.content = "empty" THEN "stopped"
    ELSE IF IsProcessAlive(pidFile.by) THEN "running" ELSE "dead"

\* Users run at most one exclusive operation at a time, wait until a keeper that was
\* started has come up or gone, and start nothing next to an interactive start, nor an
\* interactive start next to a watchdog.  With Exclusive = {} they do not care.
MayBegin(o) ==
    o \in Exclusive =>
        /\ \A c \in Commands : op[c] \notin Exclusive
        /\ \A k \in Keepers : keeper[k] \notin StartPoints \cup CleanupPoints
        /\ \A k \in Keepers : Living(k) =>
              /\ o # "interactive"
              /\ o \in {"start", "restart", "rebootstrap"} => kind[k] = "watchdog"

Init ==
    /\ keeper = [k \in Keepers |-> "unborn"]
    /\ kind = [k \in Keepers |-> "watchdog"]
    /\ inst = {}
    /\ stopping = {}
    /\ pidFile = None
    /\ console = None
    /\ op = [c \in Commands |-> "none"]
    /\ pc = [c \in Commands |-> "idle"]
    /\ target = [c \in Commands |-> None]
    /\ crashes = 0

-----------------------------------------------------------------------------
\* The keepers.

KeeperVarsRest == <<kind, stopping, op, pc, target, crashes>>

KeeperStep(k, from, to) ==
    /\ keeper[k] = from
    /\ keeper' = [keeper EXCEPT ![k] = to]

\* Faulty variant: no cleanup after a PID file that could not be created.
AfterFailureKeep(k) == IF kind[k] = "interactive" THEN "undo" ELSE "gone"

\* Where a failure of CreatePIDFile leads: RunInstance has started the instance
\* already and stops it first; Start runs its deferred cleanup.
AfterFailure(k) == IF kind[k] = "interactive" THEN "undo" ELSE "statPid"

\* The instance process is started and makes its console socket.
Launch(k) ==
    /\ inst' = inst \cup {k}
    /\ console' = k

\* RunInstance starts the instance before anything else; the watchdog first runs
\* its pre-start action.  The start may fail.
Boot(k) ==
    /\ \/ /\ kind[k] = "watchdog"
          /\ KeeperStep(k, "boot", "stat")
          /\ UNCHANGED <<inst, console>>
       \/ /\ kind[k] = "interactive"
          /\ KeeperStep(k, "boot", "stat")
          /\ Launch(k)
    /\ UNCHANGED pidFile
    /\ UNCHANGED KeeperVarsRest

\* Start has deferred its cleanup when CreateInstance fails, not when the logger does.
BootFails(k) ==
    /\ \/ KeeperStep(k, "boot", "gone")
       \/ kind[k] = "watchdog" /\ KeeperStep(k, "boot", "statPid")
    /\ UNCHANGED <<inst, console, pidFile>>
    /\ UNCHANGED KeeperVarsRest

\* CheckPIDFile.  A failure of any call but the removal is an error.
StatPIDFile(k) ==
    /\ \/ KeeperStep(k, "stat", IF pidFile = None THEN "open" ELSE "read")
       \/ KeeperStep(k, "stat", AfterFailure(k))
    /\ UNCHANGED <<inst, console, pidFile>>
    /\ UNCHANGED KeeperVarsRest

ReadPIDFile(k) ==
    /\ \/ ProcessStatus = "dead" /\ KeeperStep(k, "read", "remove")
       \/ KeeperStep(k, "read", AfterFailure(k))
    /\ UNCHANGED <<inst, console, pidFile>>
    /\ UNCHANGED KeeperVarsRest

RemovePIDFile(k) ==
    /\ KeeperStep(k, "remove", "open")
    /\ pidFile' = None
    /\ UNCHANGED <<inst, console>>
    /\ UNCHANGED KeeperVarsRest

\* CreatePIDFile: the directory, the file with O_EXCL, then the PID into the file that
\* was opened, whether or not it still has its name.  Each may fail; a file whose PID
\* could not be written stays.
OpenPIDFile(k) ==
    /\ \/ /\ pidFile = None
          /\ KeeperStep(k, "open", "write")
          /\ pidFile' = [by |-> k, content |-> "empty"]
       \/ /\ KeeperStep(k, "open", AfterFailure(k))
          /\ UNCHANGED pidFile
    /\ UNCHANGED <<inst, console>>
    /\ UNCHANGED KeeperVarsRest

\* Faulty variant: the file is created and its PID never written.
WritePIDFileEmpty(k) ==
    /\ KeeperStep(k, "write", IF kind[k] = "interactive" THEN "up" ELSE "ready")
    /\ UNCHANGED <<inst, console, pidFile>>
    /\ UNCHANGED KeeperVarsRest

WritePIDFile(k) ==
    /\ \/ /\ KeeperStep(k, "write", IF kind[k] = "interactive" THEN "up" ELSE "ready")
          /\ pidFile' = IF pidFile # None /\ pidFile.by = k THEN [pidFile EXCEPT !.content = "pid"]
                        ELSE pidFile
       \/ KeeperStep(k, "write", AfterFailure(k)) /\ UNCHANGED pidFile
    /\ UNCHANGED <<inst, console>>
    /\ UNCHANGED KeeperVarsRest

\* The watchdog's loop: start the instance unless a stop was accepted.
StartInstance(k) ==
    /\ k \notin stopping
    /\ KeeperStep(k, "ready", "up")
    /\ Launch(k)
    /\ UNCHANGED pidFile
    /\ UNCHANGED KeeperVarsRest

\* The start fails, or a stop was accepted before it.
NoStart(k) ==
    /\ KeeperStep(k, "ready", "statPid")
    /\ UNCHANGED <<inst, console, pidFile>>
    /\ UNCHANGED KeeperVarsRest

\* The instance process ends: by itself, or stopped by its keeper.
InstanceEnds(k) ==
    /\ k \in inst
    /\ keeper[k] = "up"
    /\ inst' = inst \ {k}
    /\ UNCHANGED <<keeper, console, pidFile>>
    /\ UNCHANGED KeeperVarsRest

\* Wait returns.  Only a watchdog restarts, and only when nobody asked it to stop.
Restart(k) ==
    /\ kind[k] = "watchdog"
    /\ k \notin inst \cup stopping
    /\ KeeperStep(k, "up", "ready")
    /\ UNCHANGED <<inst, console, pidFile>>
    /\ UNCHANGED KeeperVarsRest

\* Faulty variant: the watchdog leaves without waiting for its instance.
LeaveAtOnce(k) ==
    /\ KeeperStep(k, "up", "statPid")
    /\ UNCHANGED <<inst, console, pidFile>>
    /\ UNCHANGED KeeperVarsRest

Leave(k) ==
    /\ k \notin inst
    /\ KeeperStep(k, "up", "statPid")
    /\ UNCHANGED <<inst, console, pidFile>>
    /\ UNCHANGED KeeperVarsRest

\* RunInstance stops its instance when the PID file cannot be created.
Undo(k) ==
    /\ KeeperStep(k, "undo", "statPid")
    /\ inst' = inst \ {k}
    /\ UNCHANGED <<console, pidFile>>
    /\ UNCHANGED KeeperVarsRest

\* cleanup(inst), the deferred call of Start and RunInstance: it removes whatever
\* file has the name at that moment.
KeeperCleanup(k) ==
    /\ \/ /\ KeeperStep(k, "statPid", IF pidFile = None THEN "statSock" ELSE "rmPid")
          /\ UNCHANGED <<pidFile, console>>
       \/ /\ KeeperStep(k, "rmPid", "statSock")
          /\ pidFile' = None
          /\ UNCHANGED console
       \/ /\ KeeperStep(k, "statSock", IF console = None THEN "gone" ELSE "rmSock")
          /\ UNCHANGED <<pidFile, console>>
       \/ /\ KeeperStep(k, "rmSock", "gone")
          /\ console' = None
          /\ UNCHANGED pidFile
    /\ UNCHANGED inst
    /\ UNCHANGED KeeperVarsRest

\* The keeper and its instance die without a chance to clean up.
Crash(k) ==
    /\ Living(k)
    /\ crashes < MaxCrashes
    /\ crashes' = crashes + 1
    /\ keeper' = [keeper EXCEPT ![k] = "killed"]
    /\ inst' = inst \ {k}
    /\ UNCHANGED <<kind, stopping, pidFile, console, op, pc, target>>

KeeperNext(k) ==
    \/ Boot(k) \/ StatPIDFile(k) \/ ReadPIDFile(k) \/ RemovePIDFile(k)
    \/ OpenPIDFile(k) \/ WritePIDFile(k) \/ StartInstance(k) \/ NoStart(k)
    \/ Restart(k) \/ Leave(k) \/ Undo(k) \/ KeeperCleanup(k)

-----------------------------------------------------------------------------
\* The commands.

CommandVarsRest == <<kind, crashes>>

CommandStep(c, from, to) ==
    /\ pc[c] = from
    /\ pc' = [pc EXCEPT ![c] = to]

\* The operation ends: "none" replaces its name.
End(c, from) ==
    /\ CommandStep(c, from, "idle")
    /\ op' = [op EXCEPT ![c] = "none"]
    /\ target' = [target EXCEPT ![c] = None]

\* Faulty variant: rebootstrap does not look at the error of the stop.
StopEndsUnseen(c, from, well) ==
    IF op[c] \in {"restart", "rebootstrap"}
    THEN CommandStep(c, from, IF op[c] = "restart" THEN "status" ELSE "wipe") /\ UNCHANGED <<op, target>>
    ELSE End(c, from)

\* The stop part ends; restart goes on with the start whether it went well or not,
\* rebootstrap goes on with the data only if it did.
StopEnds(c, from, well) ==
    IF op[c] = "restart" \/ (op[c] = "rebootstrap" /\ well)
    THEN CommandStep(c, from, IF op[c] = "restart" THEN "status" ELSE "wipe") /\ UNCHANGED <<op, target>>
    ELSE End(c, from)

Begin(c, o) ==
    /\ op[c] = "none"
    /\ MayBegin(o)
    /\ op' = [op EXCEPT ![c] = o]
    /\ CommandStep(c, "idle",
                   CASE o \in {"start", "clean"} -> "status"
                     [] o = "interactive" -> "spawn"
                     [] OTHER -> "read")
    /\ UNCHANGED <<keeper, inst, stopping, pidFile, console, target>>
    /\ UNCHANGED CommandVarsRest

\* StartWatchdog goes on unless the instance runs, clean only if it is stopped.
CheckStatus(c) ==
    /\ IF op[c] = "clean"
       THEN IF ProcessStatus = "stopped"
            THEN CommandStep(c, "status", "confirm") /\ UNCHANGED <<op, target>>
            ELSE End(c, "status")
       ELSE IF ProcessStatus # "running"
            THEN CommandStep(c, "status", "spawn") /\ UNCHANGED <<op, target>>
            ELSE End(c, "status")
    /\ UNCHANGED <<keeper, inst, stopping, pidFile, console>>
    /\ UNCHANGED CommandVarsRest

\* The keeper process is born and the command ends (an interactive start goes on
\* as the keeper).  Which of the unborn it is makes no difference.
Spawn(c) ==
    /\ \E k \in Keepers :
          /\ KeeperStep(k, "unborn", "boot")
          /\ k = CHOOSE j \in Keepers : keeper[j] = "unborn"
          /\ kind' = [kind EXCEPT ![k] = IF op[c] = "interactive" THEN "interactive"
                                         ELSE "watchdog"]
    /\ End(c, "spawn")
    /\ UNCHANGED <<inst, stopping, pidFile, console, crashes>>

\* The tt binary fails its integrity check or cannot be run.
SpawnFails(c) ==
    /\ End(c, "spawn")
    /\ UNCHANGED <<keeper, inst, stopping, pidFile, console>>
    /\ UNCHANGED CommandVarsRest

\* clean asks for confirmation, then removes the logs and the data of the instance.
Confirm(c) ==
    /\ End(c, "confirm")
    /\ UNCHANGED <<keeper, inst, stopping, pidFile, console>>
    /\ UNCHANGED CommandVarsRest

\* cleanDataFiles of rebootstrap removes the snapshots and logs; an error may stop it.
Wipe(c) ==
    /\ \/ CommandStep(c, "wipe", "status") /\ UNCHANGED <<op, target>>
       \/ End(c, "wipe")
    /\ UNCHANGED <<keeper, inst, stopping, pidFile, console>>
    /\ UNCHANGED CommandVarsRest

\* getRunningPid: the command ends unless the file names a live process.  For Stop, an
\* instance without a PID file is stopped already.
GetRunningPid(c) ==
    /\ \/ /\ ProcessStatus = "running"
          /\ CommandStep(c, "read", "signal")
          /\ target' = [target EXCEPT ![c] = pidFile.by]
          /\ UNCHANGED op
       \/ /\ ProcessStatus # "running"
          /\ StopEnds(c, "read", pidFile = None)
    /\ UNCHANGED <<keeper, inst, stopping, pidFile, console>>
    /\ UNCHANGED CommandVarsRest

\* SIGINT or SIGQUIT.  A watchdog accepts it, or loses it between two rounds (see
\* Watchdog); the instance of an interactive start gets it directly.
SignalStop(c) ==
    /\ pc[c] = "signal" /\ op[c] # "kill"
    /\ \/ /\ IsProcessAlive(target[c])
          /\ CommandStep(c, "signal", "await")
          /\ stopping' \in {stopping, stopping \cup {target[c]}}
          /\ UNCHANGED <<op, target>>
       \/ /\ ~IsProcessAlive(target[c])
          /\ StopEnds(c, "signal", FALSE)
          /\ UNCHANGED stopping
    /\ UNCHANGED <<keeper, inst, pidFile, console>>
    /\ UNCHANGED CommandVarsRest

\* waitProcessTermination: the process has gone, or 30 seconds have.
AwaitTermination(c) ==
    /\ pc[c] = "await"
    /\ \/ /\ ~IsProcessAlive(target[c])
          /\ CommandStep(c, "await", "statSock")
          /\ UNCHANGED <<op, target>>
       \/ /\ IsProcessAlive(target[c])
          /\ StopEnds(c, "await", FALSE)
    /\ UNCHANGED <<keeper, inst, stopping, pidFile, console>>
    /\ UNCHANGED CommandVarsRest

\* KillProcessGroup: the keeper and its instance are in one process group.
SignalKill(c) ==
    /\ pc[c] = "signal" /\ op[c] = "kill"
    /\ \/ /\ IsProcessAlive(target[c])
          /\ CommandStep(c, "signal", "statPid")
          /\ keeper' = [keeper EXCEPT ![target[c]] = "killed"]
          /\ inst' = inst \ {target[c]}
          /\ UNCHANGED <<op, target>>
       \/ /\ ~IsProcessAlive(target[c])
          /\ End(c, "signal")
          /\ UNCHANGED <<keeper, inst>>
    /\ UNCHANGED <<stopping, pidFile, console>>
    /\ UNCHANGED CommandVarsRest

\* cleanup(&run) of Kill; Stop and Quit only remove the console socket.
CommandCleanup(c) ==
    /\ \/ /\ CommandStep(c, "statPid", IF pidFile = None THEN "statSock" ELSE "rmPid")
          /\ UNCHANGED <<pidFile, console, op, target>>
       \/ /\ CommandStep(c, "rmPid", "statSock")
          /\ pidFile' = None
          /\ UNCHANGED <<console, op, target>>
       \/ /\ console # None
          /\ CommandStep(c, "statSock", "rmSock")
          /\ UNCHANGED <<pidFile, console, op, target>>
       \/ /\ console = None
          /\ StopEnds(c, "statSock", TRUE)
          /\ UNCHANGED <<pidFile, console>>
       \/ /\ StopEnds(c, "rmSock", TRUE)
          /\ console' = None
          /\ UNCHANGED pidFile
    /\ UNCHANGED <<keeper, inst, stopping>>
    /\ UNCHANGED CommandVarsRest

CommandNext(c) ==
    \/ CheckStatus(c) \/ Spawn(c) \/ Confirm(c) \/ Wipe(c) \/ GetRunningPid(c) \/ SignalStop(c)
    \/ AwaitTermination(c) \/ SignalKill(c) \/ CommandCleanup(c)

Next ==
    \/ \E k \in Keepers : KeeperNext(k) \/ BootFails(k) \/ InstanceEnds(k) \/ Crash(k)
    \/ \E c \in Commands : CommandNext(c) \/ SpawnFails(c)
    \/ \E c \in Commands, o \in Operations : Begin(c, o)

Spec == Init /\ [][Next]_vars

\* Every process that exists is scheduled; nothing makes an instance end, a process
\* crash or a user begin.
Fairness ==
    /\ \A k \in Keepers : WF_vars(KeeperNext(k))
    /\ \A c \in Commands : WF_vars(CommandNext(c))

FairSpec == Spec /\ Fairness

-----------------------------------------------------------------------------
\* Every variable stays in its range: a PID file always has a creator, and a command
\* signals only a process whose PID it has read.
TypeOK ==
    /\ keeper \in [Keepers -> KeeperPoints]
    /\ kind \in [Keepers -> {"watchdog", "interactive"}]
    /\ inst \subseteq Keepers
    /\ stopping \subseteq Keepers
    /\ pidFile \in File \cup {None}
    /\ console \in Keepers \cup {None}
    /\ op \in [Commands -> AllOperations \cup {"none"}]
    /\ pc \in [Commands -> CommandPoints]
    /\ target \in [Commands -> Keepers \cup {None}]
    /\ crashes \in Nat
    /\ \A c \in Commands : pc[c] \in {"signal", "await"} => target[c] # None

\* Two instances never run on the same data.
AtMostOneInstance == \A j, k \in inst : j = k

\* The PID file always leads to the keeper that is in charge, so that stop, kill and
\* start find it: nobody's cleanup or CheckPIDFile took its file away.  And no instance runs
\* when a command acts on the belief that none does: StartWatchdog before it spawns, clean
\* when the user has answered and rebootstrap after its stop, before they remove the data.
RunningIsRecorded ==
    /\ \A k \in Keepers : keeper[k] \in {"ready", "up"} => pidFile = [by |-> k, content |-> "pid"]
    /\ \A c \in Commands : pc[c] \in {"spawn", "confirm", "wipe"} => inst = {}

\* StartWatchdog spawns nothing while an instance runs: "If an instance is already
\* running don't try to start it again" (running.go).
NoSecondStart ==
    [][(\E k \in Keepers : keeper[k] = "unborn" /\ keeper'[k] = "boot"
                           /\ kind'[k] = "watchdog") => inst = {}]_vars

\* clean and rebootstrap remove the data of an instance that does not run, although clean
\* tests the status before it asks the user, and rebootstrap only waits for a process.
CleanSparesRunning ==
    [][\A c \in Commands : pc[c] \in {"confirm", "wipe"} /\ pc'[c] # pc[c] => inst = {}]_vars

\* A PID file left by a crash, even an empty one that CheckPIDFile refuses, does not
\* survive the next start: it is removed by CheckPIDFile or by the cleanup of the
\* start that fails on it.
Stale == pidFile # None /\ ~Living(pidFile.by)
StaleFileHeals ==
    \A k \in Keepers :
        (keeper[k] = "stat" /\ Stale) ~> (~Stale \/ keeper[k] = "killed")
=============================================================================
