-------------------------- MODULE LifecycleProofs ---------------------------
(***************************************************************************)
(* Proofs about Lifecycle, for any number of watchdogs, commands and       *)
(* crashes, when users follow the discipline below.  Without it the        *)
(* properties fail: TLC finds the counterexamples (see README.md).  At the *)
(* end Daemon, for any users and faults.                                   *)
(***************************************************************************)
EXTENDS Lifecycle, Daemon, TLAPS

\* The steps are first-order unless they cite SMT.
USE Zenon

\* Users run start, restart, rebootstrap, kill and clean one at a time, and no interactive start;
\* stop and quit run at any moment.
Disciplined ==
    /\ {"start", "restart", "rebootstrap", "kill", "clean"} \subseteq Exclusive
    /\ "interactive" \notin Operations

\* A keeper that may hold the PID file or touch it.
HoldPoints == {"ready", "up", "statPid", "rmPid"}
Active(k) == keeper[k] \in StartPoints \cup HoldPoints

Owned(k) == pidFile = [by |-> k, content |-> "pid"]

NoExclusive == \A c \in Commands : op[c] \notin Exclusive

TypeInv ==
    /\ keeper \in [Keepers -> KeeperPoints]
    /\ kind = [k \in Keepers |-> "watchdog"]
    /\ inst \subseteq Keepers
    /\ stopping \subseteq Keepers
    /\ pidFile \in File \cup {None}
    /\ console \in Keepers \cup {None}
    /\ op \in [Commands -> (AllOperations \ {"interactive"}) \cup {"none"}]
    /\ pc \in [Commands -> CommandPoints]
    /\ target \in [Commands -> Keepers \cup {None}]
    /\ crashes \in Nat
    /\ \A c \in Commands : pc[c] \in {"signal", "await"} => target[c] # None

\* What is known of one keeper, by its program point.
KeeperOK(k) ==
    /\ keeper[k] \in StartPoints => NoExclusive
    /\ keeper[k] = "write" => pidFile = [by |-> k, content |-> "empty"]
    /\ keeper[k] \in {"ready", "up"} => Owned(k)
    /\ keeper[k] \in {"statPid", "rmPid"} => Owned(k) \/ NoExclusive
    /\ k \in inst => keeper[k] = "up"

\* What is known of one command: when it is about to act on the belief that nobody
\* holds the PID file, nobody does.
CommandOK(c) ==
    /\ op[c] = "none" => pc[c] = "idle"
    /\ pc[c] = "status" => op[c] \in {"start", "restart", "rebootstrap", "clean"}
    /\ pc[c] = "spawn" => op[c] \in {"start", "restart", "rebootstrap"}
    /\ pc[c] = "confirm" => op[c] = "clean"
    /\ pc[c] = "wipe" => op[c] = "rebootstrap"
    /\ pc[c] \in {"statPid", "rmPid"} => op[c] = "kill"
    /\ pc[c] \in {"spawn", "confirm", "wipe", "statPid", "rmPid"} =>
          \A k \in Keepers : ~Active(k)
    /\ pc[c] \in {"statSock", "rmSock"} /\ op[c] = "rebootstrap" =>
          \A k \in Keepers : ~Active(k)
    /\ pc[c] \in {"signal", "await"} /\ op[c] \in {"kill", "rebootstrap"} =>
          \A k \in Keepers : Active(k) => k = target[c]

\* At most one keeper is active and at most one exclusive command runs.
OneActive == \A j, k \in Keepers : Active(j) /\ Active(k) => j = k
OneExclusive ==
    \A c, d \in Commands : op[c] \in Exclusive /\ op[d] \in Exclusive => c = d

IndInv ==
    /\ TypeInv
    /\ OneActive
    /\ OneExclusive
    /\ \A k \in Keepers : KeeperOK(k)
    /\ \A c \in Commands : CommandOK(c)

-----------------------------------------------------------------------------

\* With no instance and no command of tt, the invariant holds.
LEMMA InitInd == Init => IndInv
  BY LifecycleAssumption, SMT
     DEF Init, IndInv, TypeInv, OneActive, OneExclusive, KeeperOK, CommandOK, Active,
         StartPoints, CreatePoints, HoldPoints, KeeperPoints, CleanupPoints, CommandPoints,
         AllOperations

\* A PID file, empty or written, is a file.
LEMMA Files ==
    ASSUME NEW k \in Keepers, NEW t \in {"empty", "pid"}
    PROVE  /\ [by |-> k, content |-> t] \in File
           /\ [by |-> k, content |-> t] # None
  BY LifecycleAssumption, SMT DEF File

\* The status of the instance is "running" as long as the keeper owns the PID file.
LEMMA OwnedIsRunning ==
    ASSUME TypeInv, NEW k \in Keepers, Owned(k), Living(k)
    PROVE  ProcessStatus = "running" /\ pidFile.by = k
<1>1. pidFile # None /\ pidFile.by = k /\ pidFile.content = "pid"
  BY Files DEF Owned
<1>2. kind[k] = "watchdog"
  BY DEF TypeInv
<1> QED
  BY <1>1, <1>2 DEF ProcessStatus, IsProcessAlive

\* A step of an active keeper disturbs what is known of itself only; so does a step of
\* any other keeper that leaves the PID file alone.
KeeperMove(k) ==
    /\ \E x \in KeeperPoints : keeper' = [keeper EXCEPT ![k] = x]
    /\ UNCHANGED <<op, pc, target>>
    /\ inst' \in {inst, inst \cup {k}, inst \ {k}}
    /\ Active(k)' => Active(k)
    /\ UNCHANGED pidFile \/ Active(k)
    /\ TypeInv'
    /\ KeeperOK(k)'

\* A move of one watchdog leaves the others and the commands what they were.
LEMMA KeeperFrame == ASSUME IndInv, NEW k \in Keepers, KeeperMove(k) PROVE IndInv'
<1> USE DEF KeeperMove
<1>1. \A j \in Keepers : j # k => keeper'[j] = keeper[j] /\ (j \in inst' <=> j \in inst)
  BY SMT DEF IndInv, TypeInv
<1>2. \A j \in Keepers : Active(j)' => Active(j)
  BY <1>1 DEF Active
<1>3. OneActive' /\ OneExclusive'
  BY <1>2 DEF IndInv, OneActive, OneExclusive
<1>4. ASSUME NEW j \in Keepers, j # k PROVE KeeperOK(j)'
  <2>1. CASE UNCHANGED pidFile
    BY <1>1, <1>4, <2>1 DEF IndInv, KeeperOK, Owned, NoExclusive
  <2>2. CASE Active(k)
    <3>1. ~Active(j)
      BY <1>4, <2>2 DEF IndInv, OneActive
    <3>2. j \notin inst
      BY <3>1 DEF IndInv, KeeperOK, Active, HoldPoints
    <3> QED
      BY <1>1, <1>4, <3>1, <3>2 DEF KeeperOK, Active, HoldPoints, StartPoints, CreatePoints
  <2> QED
    BY <2>1, <2>2
<1>5. ASSUME NEW c \in Commands PROVE CommandOK(c)'
  BY <1>2 DEF IndInv, CommandOK
<1> QED
  BY <1>3, <1>4, <1>5 DEF IndInv

\* Every step of a watchdog and of its instance (RunInstance, watchdog.go) keeps the invariant.
LEMMA KeeperInd ==
    ASSUME IndInv, NEW k \in Keepers,
           KeeperNext(k) \/ BootFails(k) \/ InstanceEnds(k) \/ Crash(k)
    PROVE  IndInv'
<1> SUFFICES KeeperMove(k)
  BY KeeperFrame
<1> DEFINE Moves(from, to) == keeper[k] = from /\ keeper' = [keeper EXCEPT ![k] = to]
<1>0. TypeInv /\ KeeperOK(k)
  BY DEF IndInv
<1> USE LifecycleAssumption, <1>0
    DEF KeeperMove, TypeInv, KeeperOK, Owned, Active, StartPoints, CreatePoints, HoldPoints, KeeperPoints,
        CleanupPoints, NoExclusive, KeeperStep, KeeperVarsRest
<1>1. CASE Boot(k)
  BY <1>1 DEF Boot
<1>2. CASE BootFails(k)
  BY <1>2 DEF BootFails
<1>3. CASE StatPIDFile(k)
  BY <1>3 DEF StatPIDFile, AfterFailure
<1>4. CASE ReadPIDFile(k)
  BY <1>4 DEF ReadPIDFile, AfterFailure
<1>5. CASE RemovePIDFile(k)
  BY <1>5 DEF RemovePIDFile
<1>6. CASE OpenPIDFile(k)
  <2>1. CASE pidFile = None /\ pidFile' # pidFile
    <3> DEFINE new == [by |-> k, content |-> "empty"]
    <3>0. new \in File
      BY Files
    <3>1. pidFile' = new /\ Moves("open", "write")
      BY <1>6, <2>1 DEF OpenPIDFile
    <3> QED
      BY <1>6, <3>0, <3>1 DEF OpenPIDFile
  <2>2. CASE Moves("open", AfterFailure(k)) /\ UNCHANGED pidFile
    BY <1>6, <2>2 DEF OpenPIDFile, AfterFailure
  <2> QED
    BY <1>6, <2>1, <2>2, Files DEF OpenPIDFile
<1>7. CASE WritePIDFile(k)
  <2>0. CASE Moves("write", AfterFailure(k)) /\ UNCHANGED pidFile
    BY <1>7, <2>0 DEF WritePIDFile, AfterFailure
  <2> SUFFICES ASSUME ~(Moves("write", AfterFailure(k)) /\ UNCHANGED pidFile) PROVE KeeperMove(k)
    BY <2>0
  <2>1. pidFile = [by |-> k, content |-> "empty"] /\ pidFile # None
    BY <1>7, Files DEF WritePIDFile
  <2>2. pidFile' = [by |-> k, content |-> "pid"] /\ pidFile' \in File
    BY <1>7, <2>1, Files DEF WritePIDFile
  <2>3. Moves("write", "ready")
    BY <1>7 DEF WritePIDFile
  <2> QED
    BY <1>7, <2>2, <2>3, SMT DEF WritePIDFile
<1>8. CASE StartInstance(k)
  BY <1>8 DEF StartInstance, Launch
<1>9. CASE NoStart(k)
  BY <1>9 DEF NoStart
<1>10. CASE InstanceEnds(k)
  <2>1. keeper' = [keeper EXCEPT ![k] = keeper[k]]
    BY <1>10 DEF InstanceEnds
  <2> QED
    BY <1>10, <2>1 DEF InstanceEnds
<1>11. CASE Restart(k)
  BY <1>11 DEF Restart
<1>12. CASE Leave(k)
  BY <1>12 DEF Leave
<1>13. CASE Undo(k)
  BY <1>13 DEF Undo
<1>14. CASE KeeperCleanup(k)
  BY <1>14, ZenonT(60) DEF KeeperCleanup
<1>15. CASE Crash(k)
  BY <1>15, SMT DEF Crash
<1> QED
  BY ONLY <1>1, <1>2, <1>3, <1>4, <1>5, <1>6, <1>7, <1>8, <1>9, <1>10, <1>11, <1>12, <1>13,
          <1>14, <1>15, KeeperNext(k) \/ BootFails(k) \/ InstanceEnds(k) \/ Crash(k), Zenon
     DEF KeeperNext

\* While an exclusive command runs, the only keeper that can be active is the one the
\* PID file names, and it is seen to be running.
LEMMA ActiveIsSeen ==
    ASSUME IndInv, Disciplined, NEW c \in Commands,
           op[c] \in {"start", "restart", "rebootstrap", "kill", "clean"},
           NEW k \in Keepers, Active(k)
    PROVE  ProcessStatus = "running" /\ pidFile.by = k
<1>1. ~NoExclusive
  BY DEF Disciplined, NoExclusive
<1>2. Owned(k) /\ Living(k)
  BY <1>1 DEF IndInv, KeeperOK, Active, HoldPoints, Living
<1> QED
  BY <1>2, OwnedIsRunning DEF IndInv

\* A step of a command that leaves the keepers and the PID file alone, and begins
\* nothing, disturbs what is known of itself only.
CommandMove(c) ==
    /\ \E x \in CommandPoints : pc' = [pc EXCEPT ![c] = x]
    /\ op' = op \/ op' = [op EXCEPT ![c] = "none"]
    /\ \A d \in Commands : d # c => target'[d] = target[d]
    /\ UNCHANGED <<keeper, inst, pidFile>>
    /\ TypeInv'
    /\ CommandOK(c)'

\* A move of one command leaves the watchdogs and the other commands what they were.
LEMMA CommandFrame ==
    ASSUME IndInv, NEW c \in Commands, CommandMove(c)
    PROVE  IndInv'
<1> USE DEF CommandMove
<1>1. \A d \in Commands : op'[d] \in Exclusive => op[d] \in Exclusive
  BY LifecycleAssumption DEF IndInv, TypeInv, AllOperations
<1>2. OneActive' /\ OneExclusive'
  BY <1>1 DEF IndInv, OneActive, OneExclusive, Active
<1>3. NoExclusive => NoExclusive'
  BY <1>1 DEF NoExclusive
<1>4. ASSUME NEW k \in Keepers PROVE KeeperOK(k)'
  BY <1>3 DEF IndInv, KeeperOK, Owned
<1>5. ASSUME NEW d \in Commands, d # c PROVE CommandOK(d)'
  <2>1. pc'[d] = pc[d] /\ op'[d] = op[d] /\ target'[d] = target[d]
    BY <1>5 DEF IndInv, TypeInv
  <2> QED
    BY <2>1 DEF IndInv, CommandOK, Active
<1> QED
  BY <1>2, <1>4, <1>5 DEF IndInv

\* The operation of a command ends.
LEMMA EndInd ==
    ASSUME IndInv, NEW c \in Commands, NEW from, End(c, from),
           UNCHANGED <<keeper, kind, inst, stopping, pidFile, crashes>>,
           console' \in Keepers \cup {None}
    PROVE  IndInv'
<1>1. CommandMove(c)
  BY DEF IndInv, TypeInv, CommandMove, CommandOK, End, CommandStep, CommandPoints
<1> QED
  BY <1>1, CommandFrame

\* The stop part of a command ends.
LEMMA StopEndsInd ==
    ASSUME IndInv, NEW c \in Commands, NEW from, NEW well, StopEnds(c, from, well),
           op[c] = "rebootstrap" /\ well => \A k \in Keepers : ~Active(k),
           UNCHANGED <<keeper, kind, inst, stopping, pidFile, crashes>>,
           console' \in Keepers \cup {None}
    PROVE  IndInv'
<1>1. CASE op[c] = "restart"
  <2>1. CommandMove(c)
    BY <1>1 DEF IndInv, TypeInv, CommandMove, CommandOK, StopEnds, CommandStep, CommandPoints
  <2> QED
    BY <2>1, CommandFrame
<1>2. CASE op[c] = "rebootstrap" /\ well
  <2>1. CommandMove(c)
    BY <1>2 DEF IndInv, TypeInv, CommandMove, CommandOK, StopEnds, CommandStep, CommandPoints, Active
  <2> QED
    BY <2>1, CommandFrame
<1>3. CASE op[c] # "restart" /\ ~(op[c] = "rebootstrap" /\ well)
  BY <1>3, EndInd DEF StopEnds
<1> QED
  BY <1>1, <1>2, <1>3

\* Every step of a command of tt (start, stop, restart, kill and the others) keeps the invariant.
LEMMA CommandInd ==
    ASSUME IndInv, Disciplined, NEW c \in Commands,
           CommandNext(c) \/ SpawnFails(c) \/ \E o \in Operations : Begin(c, o)
    PROVE  IndInv'
<1>0. TypeInv /\ CommandOK(c)
  BY DEF IndInv
<1> USE LifecycleAssumption DEF CommandVarsRest
<1>1. ASSUME NEW o \in Operations, Begin(c, o) PROVE IndInv'
  <2> USE <1>1 DEF Begin, CommandStep
  <2>1. TypeInv'
    BY <1>0 DEF TypeInv, Disciplined, CommandPoints, AllOperations
  <2>2. OneActive'
    BY DEF IndInv, OneActive, Active
  <2>3. o \in Exclusive => NoExclusive /\ \A k \in Keepers : keeper[k] \notin StartPoints \cup CleanupPoints
    BY DEF MayBegin, NoExclusive
  <2>4. \A d \in Commands : op'[d] = IF d = c THEN o ELSE op[d]
    BY <1>0 DEF TypeInv
  <2>5. OneExclusive'
    BY <2>3, <2>4, SMT DEF IndInv, OneExclusive, NoExclusive
  <2>6. o \notin Exclusive => (NoExclusive => NoExclusive')
    BY <2>4 DEF NoExclusive
  <2>7. ASSUME NEW k \in Keepers PROVE KeeperOK(k)'
    BY <2>3, <2>6 DEF IndInv, KeeperOK, Owned, CleanupPoints
  <2>8. ASSUME NEW d \in Commands PROVE CommandOK(d)'
    <3>1. CASE d = c
      BY <1>0, <2>4, <3>1 DEF TypeInv, CommandOK, Disciplined, AllOperations
    <3>2. CASE d # c
      <4>1. pc'[d] = pc[d] /\ op'[d] = op[d] /\ target'[d] = target[d]
        BY <1>0, <2>4, <3>2 DEF TypeInv
      <4> QED
        BY <4>1, ZenonT(60) DEF IndInv, CommandOK, Active
    <3> QED
      BY <3>1, <3>2
  <2> QED
    BY <2>1, <2>2, <2>5, <2>7, <2>8 DEF IndInv
<1>2. CASE CheckStatus(c)
  <2>1. pc[c] = "status" /\ op[c] \in {"start", "restart", "rebootstrap", "clean"}
    BY <1>0, <1>2 DEF CheckStatus, End, CommandStep, CommandOK
  <2>2. ProcessStatus # "running" => \A k \in Keepers : ~Active(k)
    BY <2>1, ActiveIsSeen
  <2>3. CASE End(c, "status")
    BY <1>0, <1>2, <2>3, EndInd DEF CheckStatus, TypeInv
  <2>4. CASE ~End(c, "status")
    <3>1. /\ UNCHANGED <<keeper, inst, pidFile, op, target, kind, stopping, console, crashes>>
          /\ pc' = [pc EXCEPT ![c] = IF op[c] = "clean" THEN "confirm" ELSE "spawn"]
          /\ ProcessStatus # "running"
      BY <1>2, <2>4 DEF CheckStatus, CommandStep
    <3>2. CommandMove(c)
      BY <1>0, <2>1, <2>2, <3>1 DEF CommandMove, TypeInv, CommandOK, CommandPoints, Active
    <3> QED
      BY <3>2, CommandFrame
  <2> QED
    BY <2>3, <2>4
<1>3. CASE Spawn(c)
  <2>1. PICK k \in Keepers :
           /\ keeper[k] = "unborn" /\ keeper' = [keeper EXCEPT ![k] = "boot"]
           /\ kind' = [kind EXCEPT ![k] = "watchdog"]
    BY <1>0, <1>3 DEF Spawn, KeeperStep, End, CommandStep, CommandOK
  <2>2. /\ pc[c] = "spawn" /\ pc' = [pc EXCEPT ![c] = "idle"]
        /\ op' = [op EXCEPT ![c] = "none"]
        /\ target' = [target EXCEPT ![c] = None]
        /\ UNCHANGED <<inst, stopping, pidFile, console, crashes>>
    BY <1>3 DEF Spawn, End, CommandStep
  <2>3. op[c] \in Exclusive /\ \A j \in Keepers : ~Active(j)
    BY <1>0, <2>2 DEF CommandOK, Disciplined
  <2>4. \A d \in Commands : op'[d] \notin Exclusive /\ (d # c => pc'[d] = pc[d] /\ op'[d] = op[d])
    BY <1>0, <2>2, <2>3 DEF IndInv, OneExclusive, TypeInv, AllOperations
  <2>5. \A j \in Keepers : j # k => ~Active(j)' /\ keeper'[j] = keeper[j]
    BY <1>0, <2>1, <2>3 DEF Active, TypeInv
  <2>6. TypeInv'
    BY <1>0, <2>1, <2>2 DEF TypeInv, KeeperPoints, StartPoints, CommandPoints
  <2>7. OneActive' /\ OneExclusive' /\ NoExclusive'
    BY <2>4, <2>5 DEF OneActive, OneExclusive, NoExclusive
  <2>8. ASSUME NEW j \in Keepers PROVE KeeperOK(j)'
    <3>1. j \notin inst
      BY <2>3 DEF IndInv, KeeperOK, Active, HoldPoints
    <3> QED
      BY <1>0, <2>1, <2>2, <2>5, <2>7, <3>1
         DEF TypeInv, KeeperOK, Active, StartPoints, CreatePoints, HoldPoints
  <2>9. ASSUME NEW d \in Commands PROVE CommandOK(d)'
    <3>1. CASE d = c
      BY <1>0, <2>2, <3>1 DEF TypeInv, CommandOK
    <3>2. CASE d # c
      BY <2>2, <2>4, <3>2, SMT DEF IndInv, CommandOK, Disciplined
    <3> QED
      BY <3>1, <3>2
  <2> QED
    BY <2>6, <2>7, <2>8, <2>9 DEF IndInv
<1>4. CASE SpawnFails(c)
  BY <1>0, <1>4, EndInd DEF SpawnFails, TypeInv
<1>5. CASE Confirm(c)
  BY <1>0, <1>5, EndInd DEF Confirm, TypeInv
<1>6. CASE GetRunningPid(c)
  <2>1. CASE ProcessStatus = "running"
    <3>1. pidFile \in File
      BY <1>0, <2>1 DEF ProcessStatus, TypeInv
    <3>2. pidFile.by \in Keepers /\ pidFile.by # None
      BY <3>1 DEF File
    <3>3. op[c] \in {"kill", "rebootstrap"} => \A k \in Keepers : Active(k) => k = pidFile.by
      BY ActiveIsSeen
    <3>4. /\ pc' = [pc EXCEPT ![c] = "signal"] /\ pc[c] = "read"
          /\ target' = [target EXCEPT ![c] = pidFile.by]
          /\ UNCHANGED <<op, keeper, inst, stopping, pidFile, console, kind, crashes>>
      BY <1>6, <2>1 DEF GetRunningPid, CommandStep
    <3>5. CommandMove(c)
      BY <1>0, <3>2, <3>3, <3>4 DEF CommandMove, TypeInv, CommandOK, CommandPoints, Active
    <3> QED
      BY <3>5, CommandFrame
  <2>2. CASE ProcessStatus # "running"
    <3>1. op[c] = "rebootstrap" => \A k \in Keepers : ~Active(k)
      BY <2>2, ActiveIsSeen
    <3>2. PICK well : StopEnds(c, "read", well)
      BY <1>6, <2>2 DEF GetRunningPid
    <3> QED
      BY <1>0, <1>6, <3>1, <3>2, StopEndsInd DEF GetRunningPid, TypeInv
  <2> QED
    BY <2>1, <2>2
<1>7. CASE SignalStop(c)
  <2>1. CASE IsProcessAlive(target[c])
    <3>1. CommandMove(c)
      BY <1>0, <1>7, <2>1
         DEF SignalStop, CommandStep, CommandMove, TypeInv, CommandOK, CommandPoints, Active
    <3> QED
      BY <3>1, CommandFrame
  <2>2. CASE ~IsProcessAlive(target[c])
    BY <1>0, <1>7, <2>2, StopEndsInd DEF SignalStop, TypeInv
  <2> QED
    BY <2>1, <2>2
<1>8. CASE AwaitTermination(c)
  <2>1. CASE ~IsProcessAlive(target[c])
    <3>0. pc[c] = "await" /\ target[c] \in Keepers /\ ~Active(target[c])
      BY <1>0, <1>8, <2>1
         DEF AwaitTermination, TypeInv, IsProcessAlive, Living, Active, StartPoints, CreatePoints,
             HoldPoints
    <3>1. CommandMove(c)
      BY <1>0, <1>8, <2>1, <3>0
         DEF AwaitTermination, CommandStep, CommandMove, TypeInv, CommandOK, CommandPoints,
             CleanupPoints, Active
    <3> QED
      BY <3>1, CommandFrame
  <2>2. CASE IsProcessAlive(target[c])
    BY <1>0, <1>8, <2>2, StopEndsInd DEF AwaitTermination, TypeInv
  <2> QED
    BY <2>1, <2>2
<1>9. CASE SignalKill(c)
  <2>1. CASE IsProcessAlive(target[c])
    <3>1. /\ pc[c] = "signal" /\ op[c] = "kill"
          /\ pc' = [pc EXCEPT ![c] = "statPid"]
          /\ keeper' = [keeper EXCEPT ![target[c]] = "killed"]
          /\ inst' = inst \ {target[c]}
          /\ UNCHANGED <<op, target, stopping, pidFile, console, kind, crashes>>
      BY <1>9, <2>1 DEF SignalKill, CommandStep
    <3>2. target[c] \in Keepers
      BY <1>0, <3>1 DEF TypeInv
    <3>3. \A k \in Keepers : ~Active(k)'
      BY <1>0, <3>1, <3>2
         DEF TypeInv, CommandOK, Active, StartPoints, CreatePoints, HoldPoints
    <3>4. TypeInv'
      BY <1>0, <3>1, <3>2 DEF TypeInv, KeeperPoints, CommandPoints, CleanupPoints
    <3>5. OneActive' /\ OneExclusive'
      BY <3>1, <3>3 DEF IndInv, OneActive, OneExclusive
    <3>6. ASSUME NEW k \in Keepers PROVE KeeperOK(k)'
      <4>1. k \in inst' => keeper'[k] = "up"
        BY <1>0, <3>1, <3>2 DEF IndInv, KeeperOK, TypeInv
      <4> QED
        BY <3>3, <4>1 DEF KeeperOK, Active, StartPoints, CreatePoints, HoldPoints
    <3>7. ASSUME NEW d \in Commands PROVE CommandOK(d)'
      BY <1>0, <3>1, <3>3 DEF IndInv, CommandOK, TypeInv
    <3> QED
      BY <3>4, <3>5, <3>6, <3>7 DEF IndInv
  <2>2. CASE ~IsProcessAlive(target[c])
    BY <1>0, <1>9, <2>2, EndInd DEF SignalKill, TypeInv
  <2> QED
    BY <2>1, <2>2
<1>10. CASE CommandCleanup(c)
  <2>1. CASE pc[c] = "rmPid"
    <3>1. /\ pc' = [pc EXCEPT ![c] = "statSock"] /\ pidFile' = None
          /\ UNCHANGED <<op, target, keeper, inst, stopping, console, kind, crashes>>
      BY <1>10, <2>1 DEF CommandCleanup, StopEnds, End, CommandStep
    <3>2. \A k \in Keepers : ~Active(k)
      BY <1>0, <2>1 DEF CommandOK
    <3>3. TypeInv'
      BY <1>0, <3>1 DEF TypeInv, CommandPoints, CleanupPoints
    <3>4. OneActive' /\ OneExclusive'
      BY <3>1, <3>2 DEF IndInv, OneActive, OneExclusive, Active
    <3>5. ASSUME NEW k \in Keepers PROVE KeeperOK(k)'
      BY <3>1, <3>2 DEF IndInv, KeeperOK, Active, StartPoints, CreatePoints, HoldPoints
    <3>6. ASSUME NEW d \in Commands PROVE CommandOK(d)'
      BY <1>0, <2>1, <3>1, <3>2 DEF IndInv, CommandOK, TypeInv, Active
    <3> QED
      BY <3>3, <3>4, <3>5, <3>6 DEF IndInv
  <2>2. CASE StopEnds(c, "statSock", TRUE) \/ StopEnds(c, "rmSock", TRUE)
    <3>1. /\ UNCHANGED <<keeper, kind, inst, stopping, pidFile, crashes>>
          /\ console' \in Keepers \cup {None}
      BY <1>0, <1>10, <2>2 DEF CommandCleanup, StopEnds, End, CommandStep, TypeInv
    <3>2. op[c] = "rebootstrap" => \A k \in Keepers : ~Active(k)
      BY <1>0, <2>2 DEF StopEnds, End, CommandStep, CommandOK
    <3> QED
      BY <2>2, <3>1, <3>2, StopEndsInd
  <2>3. CASE pc[c] # "rmPid" /\ ~StopEnds(c, "statSock", TRUE) /\ ~StopEnds(c, "rmSock", TRUE)
    <3>1. CommandMove(c)
      BY <1>0, <1>10, <2>3
         DEF CommandCleanup, CommandStep, CommandMove, TypeInv, CommandOK, CommandPoints,
             CleanupPoints, Active
    <3> QED
      BY <3>1, CommandFrame
  <2> QED
    BY <2>1, <2>2, <2>3
<1>11. CASE Wipe(c)
  <2>1. CASE End(c, "wipe")
    BY <1>0, <1>11, <2>1, EndInd DEF Wipe, TypeInv
  <2>2. CASE ~End(c, "wipe")
    <3>1. CommandMove(c)
      BY <1>0, <1>11, <2>2
         DEF Wipe, CommandStep, CommandMove, TypeInv, CommandOK, CommandPoints, Active
    <3> QED
      BY <3>1, CommandFrame
  <2> QED
    BY <2>1, <2>2
<1> QED
  BY ONLY <1>1, <1>2, <1>3, <1>4, <1>5, <1>6, <1>7, <1>8, <1>9, <1>10, <1>11,
          CommandNext(c) \/ SpawnFails(c) \/ \E o \in Operations : Begin(c, o)
     DEF CommandNext

\* Every step of the system keeps the invariant.
LEMMA NextInd == ASSUME IndInv, Disciplined, [Next]_vars PROVE IndInv'
<1>1. CASE Next
  BY <1>1, KeeperInd, CommandInd DEF Next
<1>2. CASE UNCHANGED vars
  BY <1>2 DEF vars, IndInv, TypeInv, OneActive, OneExclusive, KeeperOK, CommandOK, Active,
              Owned, NoExclusive
<1> QED
  BY <1>1, <1>2

\* The invariant always holds.
LEMMA Invariance == ASSUME Disciplined PROVE Spec => []IndInv
<1>1. IndInv /\ [Next]_vars => IndInv'
  BY NextInd
<1> QED
  BY <1>1, InitInd, PTL DEF Spec

-----------------------------------------------------------------------------
\* Two instances never run on the same data, whatever stop, quit, crashes and restarts
\* do at the same time.
THEOREM OneInstance == ASSUME Disciplined PROVE Spec => []AtMostOneInstance
<1>1. IndInv => AtMostOneInstance
  <2> SUFFICES ASSUME IndInv, NEW j \in inst, NEW k \in inst PROVE j = k
    BY DEF AtMostOneInstance
  <2>1. j \in Keepers /\ k \in Keepers /\ keeper[j] = "up" /\ keeper[k] = "up"
    BY DEF IndInv, TypeInv, KeeperOK
  <2>2. Active(j) /\ Active(k)
    BY <2>1 DEF Active, HoldPoints
  <2> QED
    BY <2>1, <2>2 DEF IndInv, OneActive
<1> QED
  BY <1>1, Invariance, PTL

\* The steps that act on the belief that no instance runs.
LEMMA BeliefIsRight ==
    IndInv => \A c \in Commands : pc[c] \in {"spawn", "confirm", "wipe"} => inst = {}
<1> SUFFICES ASSUME IndInv, NEW c \in Commands, pc[c] \in {"spawn", "confirm", "wipe"},
                    NEW k \in inst
             PROVE  FALSE
  OBVIOUS
<1>1. k \in Keepers /\ keeper[k] = "up"
  BY DEF IndInv, TypeInv, KeeperOK
<1>2. Active(k)
  BY <1>1 DEF Active, HoldPoints
<1> QED
  BY <1>1, <1>2 DEF IndInv, CommandOK

\* The watchdog in charge can always be found through the PID file, and no command that
\* believes nothing runs is wrong.
THEOREM KeeperIsRecorded == ASSUME Disciplined PROVE Spec => []RunningIsRecorded
<1>1. IndInv => RunningIsRecorded
  BY BeliefIsRight DEF IndInv, KeeperOK, RunningIsRecorded, Owned
<1> QED
  BY <1>1, Invariance, PTL

\* StartWatchdog never spawns a watchdog while an instance runs.
THEOREM StartIsRefused == ASSUME Disciplined PROVE Spec => NoSecondStart
<1>1. ASSUME IndInv, [Next]_vars, NEW k \in Keepers,
             keeper[k] = "unborn", keeper'[k] = "boot"
      PROVE  inst = {}
  <2>1. ASSUME NEW c \in Commands, Spawn(c) PROVE inst = {}
    <3>1. pc[c] = "spawn"
      BY <2>1 DEF Spawn, End, CommandStep
    <3> QED
      BY <1>1, <3>1, BeliefIsRight
  <2>2. ASSUME NEW c \in Commands, CommandNext(c) \/ SpawnFails(c), ~Spawn(c)
        PROVE  FALSE
    <3>1. UNCHANGED keeper \/ SignalKill(c)
      BY <2>2 DEF CommandNext, SpawnFails, CheckStatus, Confirm, Wipe, GetRunningPid, SignalStop,
         AwaitTermination, CommandCleanup
    <3>2. ~SignalKill(c)
      BY <1>1 DEF SignalKill, IndInv, TypeInv
    <3> QED
      BY <1>1, <3>1, <3>2
  <2>3. ASSUME NEW j \in Keepers,
               KeeperNext(j) \/ BootFails(j) \/ InstanceEnds(j) \/ Crash(j)
        PROVE  FALSE
    <3> USE DEF KeeperStep, AfterFailure, IndInv, TypeInv
    <3>1. ~(BootFails(j) \/ InstanceEnds(j) \/ Crash(j))
      BY <1>1 DEF BootFails, InstanceEnds, Crash
    <3>2. ~(Boot(j) \/ StatPIDFile(j) \/ ReadPIDFile(j) \/ RemovePIDFile(j))
      BY <1>1 DEF Boot, StatPIDFile, ReadPIDFile, RemovePIDFile
    <3>3. ~(OpenPIDFile(j) \/ WritePIDFile(j) \/ StartInstance(j) \/ NoStart(j))
      BY <1>1 DEF OpenPIDFile, WritePIDFile, StartInstance, NoStart
    <3>4. ~(Restart(j) \/ Leave(j) \/ Undo(j) \/ KeeperCleanup(j))
      BY <1>1 DEF Restart, Leave, Undo, KeeperCleanup
    <3> QED
      BY ONLY <2>3, <3>1, <3>2, <3>3, <3>4 DEF KeeperNext
  <2>4. ASSUME NEW c \in Commands, NEW o \in Operations, Begin(c, o) PROVE FALSE
    BY <1>1, <2>4 DEF Begin
  <2>5. CASE UNCHANGED vars
    BY <1>1, <2>5 DEF vars
  <2> QED
    BY <1>1, <2>1, <2>2, <2>3, <2>4, <2>5 DEF Next
<1>2. IndInv /\ [Next]_vars =>
        [(\E k \in Keepers : keeper[k] = "unborn" /\ keeper'[k] = "boot"
                              /\ kind'[k] = "watchdog") => inst = {}]_vars
  BY <1>1
<1> QED
  BY <1>2, Invariance, PTL DEF Spec, NoSecondStart

\* clean and rebootstrap never remove the data of a running instance, although clean asks
\* the user between the test of the status and the removal.
THEOREM CleanIsSafe == ASSUME Disciplined PROVE Spec => CleanSparesRunning
<1>1. IndInv /\ [Next]_vars =>
        [\A c \in Commands : pc[c] \in {"confirm", "wipe"} /\ pc'[c] # pc[c] => inst = {}]_vars
  BY BeliefIsRight
<1> QED
  BY <1>1, Invariance, PTL DEF Spec, CleanSparesRunning

-----------------------------------------------------------------------------
(* The HTTP daemon.                                                        *)

MainPoints == {"unborn", "logger", "stat", "read", "remove", "open", "write", "work",
               "notify", "handling", "removing", "awaiting", "gone"}
WorkerPoints == {"none", "ip", "listen", "bound", "serving", "closed"}
UserPoints == {"idle", "pid", "kill", "await", "stat", "read", "remove", "spawn"}

\* From the creation of the PID file to its removal.
Holding == {"write", "work", "notify", "handling", "removing"}

\* A daemon that has created the PID file still has it.
HolderHasFile ==
    \A d \in Daemons : main[d] \in Holding =>
        daemonFile = [by |-> d, written |-> main[d] # "write"]

\* The worker has been started.
Working == {"notify", "handling", "removing", "awaiting"}

\* The types; a worker is part of a living process, and so is a listener.
DaemonBase ==
    /\ main \in [Daemons -> MainPoints] /\ worker \in [Daemons -> WorkerPoints]
    /\ signalled \subseteq Daemons /\ port \in Daemons \cup {Nobody}
    /\ daemonFile \in [by : Daemons, written : BOOLEAN] \cup {Nobody}
    /\ user \in [Users -> [op : {"none", "start", "stop", "restart"}, pc : UserPoints,
                           pid : Daemons \cup {Nobody}]]
    /\ \A u \in Users : user[u].pc \in {"kill", "await"} => user[u].pid \in Daemons
    /\ left \in BOOLEAN /\ overlapped \in BOOLEAN
    /\ \A d \in Daemons : worker[d] # "none" => main[d] \in Working
    /\ port # Nobody => worker[port] \in {"bound", "serving"}

\* As long as every daemon ends by Stop, a PID file has a holder, and nobody comes to
\* remove the file of a process that has gone.
Orderly ==
    /\ HolderHasFile
    /\ daemonFile # Nobody => main[daemonFile.by] \in Holding
    /\ \A d \in Daemons : main[d] # "remove"
    /\ \A u \in Users : user[u].pc # "remove"

\* As long as no start overlaps what it depends on, one command runs at a time and one
\* daemon at most is alive: a start looks at one that handles signals and has none, it
\* goes on without any, and a stop waits for the one there is.
Sequential ==
    /\ HolderHasFile
    /\ \A u, v \in Users : user[u] # Idle /\ user[v] # Idle => u = v
    /\ \A d, e \in Daemons : Alive(d) /\ Alive(e) => d = e
    /\ \A u \in Users, d \in Daemons : Alive(d) =>
          /\ user[u].pc \in {"stat", "read"} => main[d] = "handling" /\ d \notin signalled
          /\ user[u].pc \notin {"remove", "spawn"}
          /\ user[u].pc \in {"kill", "await"} => user[u].pid = d

\* The inductive invariant of the daemon.
DaemonInv ==
    /\ DaemonBase
    /\ ~left => Orderly
    /\ ~overlapped => Sequential

\* No daemon, no file, no command.
LEMMA DaemonStart == DaemonInit => DaemonInv
<1> SUFFICES ASSUME DaemonInit PROVE DaemonInv
    OBVIOUS
<1>1. DaemonBase
    BY DaemonAssumption DEF DaemonInit, DaemonBase, MainPoints, WorkerPoints, UserPoints, Idle
<1>2. Orderly
    BY DaemonAssumption DEF DaemonInit, Orderly, HolderHasFile, Holding, Idle
<1>3. Sequential
    BY DEF DaemonInit, Sequential, HolderHasFile, Holding, Idle, Alive
<1> QED
    BY <1>1, <1>2, <1>3 DEF DaemonInv

\* The end of a process that does not hold the file, or is not expected to end.
LEMMA ExitStep ==
    ASSUME DaemonInv, NEW d \in Daemons, Exit(d), UNCHANGED <<daemonFile, user, overlapped>>,
           left' \in BOOLEAN, ~left' => ~left /\ main[d] \notin Holding
    PROVE  DaemonInv'
<1> USE DEF DaemonInv
<1>1. DaemonBase'
    BY DaemonAssumption DEF DaemonBase, Exit, Working, MainPoints, WorkerPoints
<1>2. ASSUME ~left' PROVE Orderly'
    BY <1>2 DEF Orderly, HolderHasFile, DaemonBase, Exit, Holding
<1>3. ASSUME ~overlapped' PROVE Sequential'
    BY <1>3, ZenonT(60) DEF Sequential, HolderHasFile, DaemonBase, Exit, Holding, Alive
<1> QED
    BY <1>1, <1>2, <1>3

\* Death for any other reason than Stop.
LEMMA DiesStep ==
    ASSUME DaemonInv, NEW d \in Daemons, Dies(d)
    PROVE  DaemonInv'
BY ExitStep DEF Dies

\* A step of the main goroutine that leaves the file alone and does not begin or end
\* the time in which the file is held.
LEMMA MainKept ==
    ASSUME DaemonInv, NEW d \in Daemons, NEW to \in MainPoints \ {"unborn", "gone"},
           main' = [main EXCEPT ![d] = to], Alive(d),
           main[d] \in Holding <=> to \in Holding, main[d] # "write", to # "write",
           main[d] \in Working => to \in Working, ~left => to # "remove",
           main[d] = "handling" => d \in signalled,
           signalled' \subseteq signalled,
           UNCHANGED <<worker, port, daemonFile, user, left, overlapped>>
    PROVE  DaemonInv'
<1> USE DEF DaemonInv
<1>1. DaemonBase'
    BY DaemonAssumption DEF DaemonBase, Alive
<1>2. ASSUME ~left' PROVE Orderly'
    BY <1>2 DEF Orderly, HolderHasFile, DaemonBase, Alive
<1>3. ASSUME ~overlapped' PROVE Sequential'
    BY <1>3, ZenonT(60) DEF Sequential, HolderHasFile, DaemonBase, Alive
<1> QED
    BY <1>1, <1>2, <1>3

\* A holder's file is there, and it is the holder's.
LEMMA HolderFile ==
    ASSUME HolderHasFile, NEW d \in Daemons, main[d] \in Holding
    PROVE  daemonFile # Nobody /\ daemonFile.by = d
<1> DEFINE b == main[d] # "write"
<1>1. daemonFile = [by |-> d, written |-> b]
    BY DEF HolderHasFile
<1>2. b \in BOOLEAN
    OBVIOUS
<1> HIDE DEF b
<1>3. daemonFile \in [by : Daemons, written : BOOLEAN]
    BY <1>1, <1>2
<1> QED
    BY <1>1, <1>3, DaemonAssumption

\* The main goroutine keeps the invariant.
LEMMA MainInd ==
    ASSUME DaemonInv, NEW d \in Daemons, MainStep(d)
    PROVE  DaemonInv'
<1> USE DEF DaemonInv
<1>1. CASE NewFileLogger(d)
    <2>1. CASE MainGoes(d, "logger", "stat") /\ UNCHANGED daemonFile
        BY <2>1, MainKept DEF MainGoes, Alive, Holding, Working, MainPoints
    <2> QED
        BY <1>1, <2>1, DiesStep DEF NewFileLogger
<1>2. CASE CreatePIDFile(d)
    <2>1. CASE MainGoes(d, "stat", StatFile("open")) /\ UNCHANGED daemonFile
        BY <2>1, MainKept DEF MainGoes, StatFile, Alive, Holding, Working, MainPoints
    <2>2. CASE MainGoes(d, "read", "remove") /\ ReadFile("fails") = "remove" /\ UNCHANGED daemonFile
        <3>1. daemonFile # Nobody /\ ~Alive(daemonFile.by)
            BY <2>2 DEF ReadFile
        <3>2. left
            BY <3>1 DEF Orderly, Alive, Holding
        <3> QED
            BY <2>2, <3>2, MainKept DEF MainGoes, Alive, Holding, Working, MainPoints
    <2>3. CASE MainGoes(d, "remove", "open") /\ daemonFile' = Nobody
        <3>1. DaemonBase'
            BY <2>3 DEF DaemonBase, MainGoes, MainPoints, Working
        <3>2. left'
            BY <2>3 DEF Orderly, MainGoes
        <3>3. ASSUME ~overlapped' PROVE Sequential'
            BY <2>3, <3>3, ZenonT(60) DEF Sequential, HolderHasFile, DaemonBase, MainGoes, Alive, Holding
        <3> QED
            BY <3>1, <3>2, <3>3
    <2>4. CASE /\ MainGoes(d, "open", "write") /\ daemonFile = Nobody
               /\ daemonFile' = [by |-> d, written |-> FALSE]
        <3>1. DaemonBase'
            BY <2>4 DEF DaemonBase, MainGoes, MainPoints, Working
        <3>2. ASSUME NEW e \in Daemons PROVE main[e] \notin Holding \/ (left /\ overlapped)
            BY <2>4, HolderFile DEF Orderly, Sequential, DaemonBase
        <3>3. ASSUME ~left' PROVE Orderly'
            BY <2>4, <3>2, <3>3 DEF Orderly, HolderHasFile, DaemonBase, MainGoes, Holding
        <3>4. ASSUME ~overlapped' PROVE Sequential'
            BY <2>4, <3>2, <3>4 DEF Sequential, HolderHasFile, DaemonBase, MainGoes, Alive, Holding
        <3> QED
            BY <3>1, <3>3, <3>4
    <2>5. CASE /\ MainGoes(d, "write", "work")
               /\ daemonFile' = IF daemonFile # Nobody /\ daemonFile.by = d
                                THEN [daemonFile EXCEPT !.written = TRUE] ELSE daemonFile
        <3>1. DaemonBase'
            BY <2>5 DEF DaemonBase, MainGoes, MainPoints, Working
        <3>2. ASSUME HolderHasFile
              PROVE  daemonFile' = [by |-> d, written |-> TRUE] /\ HolderHasFile'
            <4>1. main[d] \in Holding /\ daemonFile # Nobody /\ daemonFile.by = d
                BY <2>5, <3>2, HolderFile DEF MainGoes, Holding
            <4>2. daemonFile \in [by : Daemons, written : BOOLEAN]
                BY <4>1 DEF DaemonBase
            <4>3. daemonFile' = [by |-> d, written |-> TRUE]
                BY <2>5, <4>1, <4>2
            <4>4. ASSUME NEW e \in Daemons, main'[e] \in Holding PROVE e = d
                <5>1. CASE e # d
                    <6>1. main[e] \in Holding
                        BY <2>5, <4>4, <5>1 DEF MainGoes, DaemonBase
                    <6> QED
                        BY <3>2, <4>1, <6>1, HolderFile
                <5> QED
                    BY <5>1
            <4>5. main'[d] = "work"
                BY <2>5 DEF MainGoes, DaemonBase
            <4> QED
                BY <4>3, <4>4, <4>5 DEF HolderHasFile
        <3>3. ASSUME ~left' PROVE Orderly'
            BY <2>5, <3>2, <3>3 DEF Orderly, DaemonBase, MainGoes, Holding
        <3>4. ASSUME ~overlapped' PROVE Sequential'
            BY <2>5, <3>2, <3>4 DEF Sequential, DaemonBase, MainGoes, Alive, Holding
        <3> QED
            BY <3>1, <3>3, <3>4
    <2> QED
        BY <1>2, <2>1, <2>2, <2>3, <2>4, <2>5, DiesStep DEF CreatePIDFile
<1>3. CASE StartWorker(d)
    <2>1. DaemonBase'
        BY <1>3 DEF DaemonBase, StartWorker, MainPoints, WorkerPoints, Working
    <2>2. ASSUME ~left' PROVE Orderly'
        BY <1>3, <2>2 DEF Orderly, HolderHasFile, DaemonBase, StartWorker, Holding
    <2>3. ASSUME ~overlapped' PROVE Sequential'
        BY <1>3, <2>3 DEF Sequential, HolderHasFile, DaemonBase, StartWorker, Alive, Holding
    <2> QED
        BY <2>1, <2>2, <2>3
<1>4. CASE Notify(d)
    BY <1>4, MainKept DEF Notify, MainGoes, Alive, Holding, Working, MainPoints
<1>5. CASE BeginStop(d)
    BY <1>5, MainKept DEF BeginStop, Alive, Holding, Working, MainPoints
<1>6. CASE RemoveOwnFile(d)
    <2>1. DaemonBase'
        BY <1>6 DEF DaemonBase, RemoveOwnFile, MainGoes, MainPoints, Working
    <2>2. ASSUME NEW e \in Daemons, main[e] \in Holding PROVE e = d \/ (left /\ overlapped)
        BY <1>6, <2>2, SMT DEF Orderly, Sequential, HolderHasFile, RemoveOwnFile, MainGoes, Holding
    <2>3. ASSUME ~left' PROVE Orderly'
        BY <1>6, <2>2, <2>3 DEF Orderly, HolderHasFile, DaemonBase, RemoveOwnFile, MainGoes, Holding
    <2>4. ASSUME ~overlapped' PROVE Sequential'
        BY <1>6, <2>2, <2>4, ZenonT(60) DEF Sequential, HolderHasFile, DaemonBase, RemoveOwnFile, MainGoes, Alive, Holding
    <2> QED
        BY <2>1, <2>3, <2>4
<1>7. CASE EndStop(d)
    BY <1>7, ExitStep DEF EndStop, Holding, DaemonBase
<1> QED
    BY <1>1, <1>2, <1>3, <1>4, <1>5, <1>6, <1>7 DEF MainStep

\* The worker and the goroutine that stops it do not touch the file.
LEMMA ServerInd ==
    ASSUME DaemonInv, NEW d \in Daemons, WorkerStep(d) \/ StopperStep(d)
    PROVE  DaemonInv'
<1> USE DEF DaemonInv
<1>1. ASSUME UNCHANGED <<main, signalled, daemonFile, user, left, overlapped>>, DaemonBase'
      PROVE  DaemonInv'
    BY <1>1 DEF Orderly, Sequential, HolderHasFile, Alive
<1>2. CASE WorkerStep(d)
    <2>1. CASE Dies(d)
        BY <2>1, DiesStep
    <2>2. CASE ~Dies(d)
        <3>1. UNCHANGED <<main, signalled, daemonFile, user, left, overlapped>>
            BY <1>2, <2>2 DEF WorkerStep, WorkerGoes
        <3>2. DaemonBase'
            BY <1>2, <2>2, DaemonAssumption, SMT DEF DaemonBase, WorkerStep, WorkerGoes, WorkerPoints
        <3> QED
            BY <1>1, <3>1, <3>2
    <2> QED
        BY <2>1, <2>2
<1>3. CASE StopperStep(d)
    <2>1. UNCHANGED <<main, signalled, daemonFile, user, left, overlapped>>
        BY <1>3 DEF StopperStep, NotStarted, Shutdown, ShutdownEnds, StopperGoes
    <2>2. DaemonBase'
        BY <1>3, DaemonAssumption
        DEF DaemonBase, StopperStep, NotStarted, Shutdown, ShutdownEnds, StopperGoes, WorkerPoints
    <2> QED
        BY <1>1, <2>1, <2>2
<1> QED
    BY <1>2, <1>3

\* The commands keep the invariant.
LEMMA UserInd ==
    ASSUME DaemonInv, NEW u \in Users, UserStep(u)
    PROVE  DaemonInv'
<1> USE DEF DaemonInv, At, UserGoes
<1>1. CASE StopProcess(u)
    <2>1. DaemonBase'
        BY <1>1, ZenonT(60) DEF DaemonBase, StopProcess, Idle, UserPoints
    <2>2. ASSUME ~left' PROVE Orderly'
        BY <1>1, <2>2, SMT DEF Orderly, HolderHasFile, DaemonBase, StopProcess, Idle
    <2>3. ASSUME ~overlapped' PROVE Sequential'
        BY <1>1, <2>3, SMT DEF Sequential, HolderHasFile, DaemonBase, StopProcess, Idle, Alive
    <2> QED
        BY <2>1, <2>2, <2>3
<1>2. CASE Interrupt(u)
    <2> DEFINE d == user[u].pid
    <2>1. At(u, "kill") /\ d \in Daemons
        BY <1>2 DEF Interrupt, DaemonBase
    <2>2. CASE Alive(d) /\ main[d] \notin {"handling", "removing", "awaiting"}
        <3>1. Exit(d) /\ left' = TRUE /\ user' = [user EXCEPT ![u] = To(u, "await")]
              /\ UNCHANGED <<begun, daemonFile, faults, overlapped>>
            BY <1>2, <2>2 DEF Interrupt
        <3>2. DaemonBase'
            BY <2>1, <3>1, DaemonAssumption, SMT
            DEF DaemonBase, Exit, To, Working, MainPoints, WorkerPoints, UserPoints
        <3>3. ASSUME ~overlapped' PROVE Sequential'
            BY <2>1, <3>1, <3>3, SMT DEF Sequential, HolderHasFile, DaemonBase, Exit, To, Alive, Holding, Idle
        <3> QED
            BY <3>1, <3>2, <3>3
    <2>3. CASE ~(Alive(d) /\ main[d] \notin {"handling", "removing", "awaiting"})
        <3>1. /\ UserGoes(u, IF Alive(d) THEN To(u, "await") ELSE Idle)
              /\ signalled' = IF main[d] = "handling" THEN signalled \cup {d} ELSE signalled
              /\ UNCHANGED <<begun, main, daemonFile, left, overlapped>>
            BY <1>2, <2>3 DEF Interrupt
        <3>2. DaemonBase'
            BY <2>1, <3>1 DEF DaemonBase, To, Idle, UserPoints
        <3>3. ASSUME ~left' PROVE Orderly'
            BY <2>1, <3>1, <3>3 DEF Orderly, HolderHasFile, DaemonBase, To, Idle
        <3>4. ASSUME ~overlapped' PROVE Sequential'
            BY <2>1, <3>1, <3>4, SMT DEF Sequential, HolderHasFile, DaemonBase, To, Alive, Idle
        <3> QED
            BY <3>2, <3>3, <3>4
    <2> QED
        BY <2>2, <2>3
<1>3. CASE WaitProcessTermination(u)
    <2>1. DaemonBase'
        BY <1>3 DEF DaemonBase, WaitProcessTermination, Starting, Idle, UserPoints
    <2>2. ASSUME ~left' PROVE Orderly'
        BY <1>3, <2>2 DEF Orderly, HolderHasFile, DaemonBase, WaitProcessTermination, Starting, Idle
    <2>3. ASSUME ~overlapped' PROVE Sequential'
        BY <1>3, <2>3, SMT
        DEF Sequential, HolderHasFile, DaemonBase, WaitProcessTermination, Starting, Idle, Alive
    <2> QED
        BY <2>1, <2>2, <2>3
<1>4. CASE CheckPIDFile(u)
    <2>1. DaemonBase'
        BY <1>4, SMT DEF DaemonBase, CheckPIDFile, StatFile, To, Idle, UserPoints
    <2>2. ASSUME ~left, ReadFile("fails") = "remove" PROVE FALSE
        BY <2>2 DEF ReadFile, Orderly, Alive, Holding
    <2>3. ASSUME ~left' PROVE Orderly'
        BY <1>4, <2>2, <2>3, SMT DEF Orderly, HolderHasFile, DaemonBase, CheckPIDFile, StatFile, To, Idle
    <2>4. ASSUME ~overlapped' PROVE Sequential'
        <3>1. ~overlapped /\ Sequential
            BY <1>4, <2>4 DEF CheckPIDFile
        <3>2. CASE At(u, "stat") /\ UserGoes(u, To(u, StatFile("spawn"))) /\ UNCHANGED daemonFile
            <4>1. ASSUME daemonFile = Nobody, NEW d \in Daemons PROVE ~Alive(d)
                BY <3>1, <3>2, <4>1, HolderFile DEF Sequential, Holding
            <4> QED
                BY <1>4, <3>1, <3>2, <4>1, SMT
                DEF Sequential, HolderHasFile, DaemonBase, CheckPIDFile, StatFile, To, Idle, Alive
        <3>3. CASE /\ At(u, "read") /\ UNCHANGED daemonFile
                   /\ UserGoes(u, IF ReadFile("fails") = "remove" THEN To(u, "remove") ELSE Idle)
            <4>1. ASSUME ReadFile("fails") = "remove", NEW d \in Daemons PROVE ~Alive(d)
                BY <3>1, <3>3, <4>1, HolderFile DEF Sequential, Holding, ReadFile
            <4> QED
                BY <1>4, <3>1, <3>3, <4>1, SMT
                DEF Sequential, HolderHasFile, DaemonBase, CheckPIDFile, To, Idle, Alive
        <3>4. CASE At(u, "remove") /\ UserGoes(u, To(u, "spawn")) /\ daemonFile' = Nobody
            <4>1. \A d \in Daemons : ~Alive(d)
                BY <3>1, <3>4 DEF Sequential
            <4> QED
                BY <1>4, <3>1, <3>4, <4>1, SMT
                DEF Sequential, HolderHasFile, DaemonBase, CheckPIDFile, To, Idle, Alive, Holding
        <3> QED
            BY <1>4, <3>2, <3>3, <3>4 DEF CheckPIDFile
    <2> QED
        BY <2>1, <2>3, <2>4
<1>5. CASE StartChild(u)
    <2>1. \/ UNCHANGED main
          \/ \E d \in Daemons : main[d] = "unborn" /\ main' = [main EXCEPT ![d] = "logger"]
        BY <1>5 DEF StartChild
    <2>2. DaemonBase'
        BY <1>5, <2>1, ZenonT(60) DEF DaemonBase, StartChild, Idle, UserPoints, MainPoints, Working
    <2>3. ASSUME ~left' PROVE Orderly'
        BY <1>5, <2>1, <2>3, SMT DEF Orderly, HolderHasFile, DaemonBase, StartChild, Idle, Holding
    <2>4. ASSUME ~overlapped' PROVE Sequential'
        BY <1>5, <2>1, <2>4, SMT DEF Sequential, HolderHasFile, DaemonBase, StartChild, Idle, Alive, Holding
    <2> QED
        BY <2>2, <2>3, <2>4
<1> QED
    BY <1>1, <1>2, <1>3, <1>4, <1>5 DEF UserStep

\* A command begins: alone and with the last daemon at rest, or it overlaps.
LEMMA BeginInd ==
    ASSUME DaemonInv, NEW u \in Users, NEW o \in {"start", "stop", "restart"}, RunCommand(u, o)
    PROVE  DaemonInv'
<1> USE DEF DaemonInv, UserGoes
<1> DEFINE next == IF o = "start" THEN Starting ELSE [op |-> o, pc |-> "pid", pid |-> Nobody]
<1>1. /\ user' = [user EXCEPT ![u] = next]
      /\ UNCHANGED <<main, worker, port, signalled, daemonFile, left>>
    BY DEF RunCommand
<1>2. /\ overlapped' \in BOOLEAN
      /\ ~overlapped' => /\ ~overlapped /\ \A v \in Users : user[v] = Idle
                         /\ o # "stop" => \A d \in Daemons : ~Unsettled(d)
    BY DEF RunCommand
<1>3. DaemonBase'
    BY <1>1, <1>2 DEF DaemonBase, Starting, UserPoints
<1>4. ASSUME ~left' PROVE Orderly'
    BY <1>1, <1>4 DEF Orderly, HolderHasFile, DaemonBase, Starting
<1>5. ASSUME ~overlapped' PROVE Sequential'
    <2>1. ~overlapped /\ (\A v \in Users : user[v] = Idle) /\ (o = "start" => \A d \in Daemons : ~Unsettled(d))
        BY <1>2, <1>5
    <2> QED
        BY <1>1, <2>1, SMT DEF Sequential, HolderHasFile, DaemonBase, Starting, Idle, Alive, Unsettled
<1> QED
    BY <1>3, <1>4, <1>5

\* The inductive invariant of the daemon holds for any number of processes, users,
\* commands and faults.
THEOREM DaemonInvariance == DaemonSpec => []DaemonInv
<1>1. DaemonInv /\ [DaemonNext]_daemonVars => DaemonInv'
    <2> SUFFICES ASSUME DaemonInv, [DaemonNext]_daemonVars PROVE DaemonInv'
        OBVIOUS
    <2>1. CASE UNCHANGED daemonVars
        BY <2>1 DEF daemonVars, DaemonInv, DaemonBase, Orderly, Sequential, HolderHasFile, Alive
    <2>2. ASSUME NEW d \in Daemons, MainStep(d) \/ WorkerStep(d) \/ StopperStep(d) \/ Killed(d)
          PROVE  DaemonInv'
        BY <2>2, MainInd, ServerInd, DiesStep DEF Killed
    <2>3. ASSUME NEW u \in Users, UserStep(u)
          PROVE  DaemonInv'
        BY <2>3, UserInd
    <2>4. ASSUME NEW u \in Users, NEW o \in {"start", "stop", "restart"}, RunCommand(u, o)
          PROVE  DaemonInv'
        BY <2>4, BeginInd
    <2> QED
        BY <2>1, <2>2, <2>3, <2>4 DEF DaemonNext, Done
<1> QED
    BY <1>1, DaemonStart, PTL DEF DaemonSpec

\* A serving daemon is the one the PID file names (process.go: CreatePIDFile, Stop), and
\* the next one finds the port free: for any number of processes, users, commands and
\* faults, as long as either all daemons end by Stop or the starts do not overlap.
THEOREM DaemonFound == DaemonSpec => []DaemonIsFound
<1>1. DaemonInv => DaemonIsFound
    <2> SUFFICES ASSUME DaemonInv PROVE DaemonIsFound
        OBVIOUS
    <2>1. ASSUME HolderHasFile, NEW d \in Daemons, main[d] \in {"notify", "handling"}
          PROVE  daemonFile = [by |-> d, written |-> TRUE]
        <3>1. main[d] \in Holding /\ (main[d] # "write") = TRUE
            BY <2>1 DEF Holding
        <3> QED
            BY <2>1, <3>1 DEF HolderHasFile
    <2>2. ~overlapped \/ ~left => HolderHasFile
        BY DEF DaemonInv, Orderly, Sequential
    <2>3. ASSUME ~overlapped, NEW d \in Daemons, worker[d] = "listen"
          PROVE  port \in {Nobody, d}
        <3>1. ASSUME port # Nobody PROVE port = d
            <4>1. port \in Daemons /\ worker[port] \in {"bound", "serving"}
                BY <3>1 DEF DaemonInv, DaemonBase
            <4>2. Alive(port) /\ Alive(d)
                BY <2>3, <4>1 DEF DaemonInv, DaemonBase, Working, Alive
            <4> QED
                BY <2>3, <4>1, <4>2 DEF DaemonInv, Sequential
        <3> QED
            BY <3>1
    <2> QED
        BY <2>1, <2>2, <2>3 DEF DaemonIsFound
<1> QED
    BY <1>1, DaemonInvariance, PTL
=============================================================================
