-------------------------- MODULE ApplicationProofs -------------------------
(***************************************************************************)
(* What the watchdog of an instance guarantees, for every bound on signals *)
(* and restarts and with or without the integrity goroutine; what          *)
(* packTagSet guarantees for any set of tags; and what the commands on an  *)
(* application guarantee for any templates, jobs, instances, failures and  *)
(* kills, and any number of commands at a time.                            *)
(***************************************************************************)
EXTENDS Watchdog, TagSet, Application, TLAPS

-----------------------------------------------------------------------------
(* The watchdog.  The safety properties are not inductive: they hold       *)
(* because of where the main goroutine is when a goroutine exists, a signal*)
(* is notified, or a stop may be accepted.  IndInv states that             *)
(* correspondence.                                                         *)

\* No signal handling goroutine exists at these points of the main goroutine.
BeforeHandler == {"create", "reset1", "notify1"}
BetweenRounds == {"check", "sleep", "recreate", "integrity2", "reset2", "notify2"}

\* TypeOK in two parts: the flags, whose values the propositional provers handle,
\* and the rest.
FlagsOK ==
    /\ notified \in BOOLEAN
    /\ cancelled \in BOOLEAN
    /\ shouldStop \in BOOLEAN
    /\ done \in BOOLEAN
    /\ chld \in BOOLEAN
    /\ stopSent \in BOOLEAN

PointsOK ==
    /\ main \in MainPoints
    /\ handler \in HandlerPoints
    /\ integ \in IntegPoints
    /\ wait \in [Waiters -> WaitPoints]
    /\ sigChan \in Signals \cup {"empty"}
    /\ inst \in {"none", "running", "zombie", "reaped"}
    /\ pending \subseteq {"stop", "kill"}
    /\ sent \in Nat
    /\ restarts \in Nat

\* The inductive invariant.
IndInv ==
    /\ PointsOK
    /\ main \in BeforeHandler \cup BetweenRounds => handler \in {"none", "ended"}
    /\ main \in BeforeHandler \cup {"integrity1", "check", "sleep", "recreate", "integrity2"}
          => integ \in {"none", "ended"}
    /\ main \in BeforeHandler \cup (BetweenRounds \ {"check"}) \cup {"starting"} => ~shouldStop
    /\ ~notified => main \in BeforeHandler \cup {"notify2", "exited", "killed"}
    /\ done => inst = "reaped"
    /\ wait["main"] = "returned" => inst = "reaped"
    /\ main = "waiting" => inst # "none"
    /\ main \in {"barrier", "check", "sleep", "recreate"} => inst = "reaped"
    /\ inst \in {"running", "zombie"} => main = "waiting"
    /\ main \in BeforeHandler \cup {"integrity1", "preStart", "preFailed", "loop", "starting",
                                    "integrity2", "reset2", "notify2"}
          => inst = "none"
    /\ \A w \in Waiters : wait[w] = "reaped" => inst = "reaped"

\* A watchdog that has not started satisfies the invariant.
LEMMA InitInd == Init => IndInv
  BY WatchdogAssumption
     DEF Init, IndInv, PointsOK, MainPoints, HandlerPoints, IntegPoints, Waiters, WaitPoints,
         Signals, SentSignals, StopSignals, BeforeHandler, BetweenRounds

\* Every step of Start, of the signal handler and of the goroutines keeps the invariant.
LEMMA NextInd == IndInv /\ [Next]_vars => IndInv'
<1> SUFFICES ASSUME IndInv, [Next]_vars PROVE IndInv'
  OBVIOUS
<1> USE WatchdogAssumption DEF IndInv, PointsOK, MainPoints, HandlerPoints, IntegPoints,
        Waiters, WaitPoints, Signals, SentSignals, StopSignals, BeforeHandler,
        BetweenRounds, Up
<1>1. ASSUME NEW s \in SentSignals, SendSignal(s) PROVE IndInv'
  BY <1>1 DEF SendSignal, Deliver, FatalByDefault
<1>2. CASE DeliverChild
  BY <1>2 DEF DeliverChild, Deliver, FatalByDefault
<1>3. CASE InstanceExit
  BY <1>3 DEF InstanceExit
<1>4. ASSUME NEW w \in Waiters, WaitNext(w) PROVE IndInv'
  <2> USE DEF WaitVarsRest
  <2>1. CASE WaitCall(w) BY <2>1 DEF WaitCall
  <2>2. CASE WaitLock(w) BY <2>2 DEF WaitLock
  <2>3. CASE WaitReap(w) BY <2>3 DEF WaitReap
  <2>4. CASE WaitReturn(w) BY <2>4 DEF WaitReturn
  <2> QED BY <1>4, <2>1, <2>2, <2>3, <2>4 DEF WaitNext
<1>6. CASE HandlerNext
  <2> USE DEF HandlerVarsRest
  <2>1. CASE HandlerReceive BY <2>1 DEF HandlerReceive
  <2>2. CASE HandlerDone BY <2>2 DEF HandlerDone
  <2>3. CASE HandlerAcceptStop BY <2>3 DEF HandlerAcceptStop, StopMutexFree
  <2>4. CASE HandlerIsAlive BY <2>4 DEF HandlerIsAlive
  <2>5. CASE HandlerForward BY <2>5 DEF HandlerForward
  <2>6. CASE StopSpawn BY <2>6 DEF StopSpawn
  <2>7. CASE StopSend
    <3>1. CASE inst = "reaped" BY <2>7, <3>1, ZenonT(60) DEF StopSend
    <3>2. CASE inst # "reaped"
      <4>1. handler = "send" /\ handler' = "await" /\ pending' = pending \cup {"stop"}
        BY <2>7, <3>2 DEF StopSend
      <4>2. pending' \subseteq {"stop", "kill"}
        BY <4>1
      <4>3. UNCHANGED <<main, integ, wait, sigChan, inst, sent, restarts, notified, shouldStop, done>>
        BY <2>7 DEF StopSend
      <4> QED BY ONLY IndInv, <4>1, <4>2, <4>3
          DEF IndInv, PointsOK, HandlerPoints, Waiters, BeforeHandler, BetweenRounds
    <3> QED BY <3>1, <3>2
  <2>8. CASE StopWaitDone BY <2>8 DEF StopWaitDone
  <2> QED BY <1>6, <2>1, <2>2, <2>3, <2>4, <2>5, <2>6, <2>7, <2>8 DEF HandlerNext
<1>7. CASE StopTimeout
  <2>1. handler = "await" /\ handler' \in {"select", "awaitKill"}
    BY <1>7 DEF StopTimeout
  <2>2. pending' = pending \/ pending' = pending \cup {"kill"}
    BY <1>7 DEF StopTimeout
  <2>3. pending' \subseteq {"stop", "kill"}
    BY <2>2, ZenonT(60)
  <2>4. UNCHANGED <<main, integ, wait, sigChan, inst, sent, restarts, notified, shouldStop, done>>
    BY <1>7 DEF StopTimeout, HandlerVarsRest
  <2> QED BY ONLY IndInv, <2>1, <2>3, <2>4
      DEF IndInv, PointsOK, HandlerPoints, Waiters, BeforeHandler, BetweenRounds
<1>8. CASE IntegrityNext
  <2> USE DEF IntegrityStep
  <2>1. CASE IntegrityFailed BY <2>1 DEF IntegrityFailed
  <2>2. CASE IntegrityReport BY <2>2 DEF IntegrityReport
  <2>3. CASE IntegrityDone BY <2>3, SMTT(30) DEF IntegrityDone
  <2> QED BY <1>8, <2>1, <2>2, <2>3 DEF IntegrityNext
<1>9. CASE MainNext
  <2> USE DEF MainStep, MainVarsRest
  <2>1. CASE CreateInstance BY <2>1 DEF CreateInstance
  <2>2. ASSUME NEW from \in {"create", "recreate", "check", "starting", "preFailed"},
               MayExit(from)
        PROVE  IndInv'
    BY <2>2 DEF MayExit
  <2>3. CASE ResetSignals("reset1", "notify1") BY <2>3 DEF ResetSignals
  <2>4. CASE ResetSignals("reset2", "notify2") BY <2>4 DEF ResetSignals
  <2>5. CASE StartSignalHandling("notify1", "integrity1") BY <2>5 DEF StartSignalHandling
  <2>6. CASE StartSignalHandling("notify2", "loop") BY <2>6 DEF StartSignalHandling
  <2>7. CASE StartIntegrityChecks("integrity1", "preStart") BY <2>7 DEF StartIntegrityChecks
  <2>8. CASE StartIntegrityChecks("integrity2", "reset2") BY <2>8 DEF StartIntegrityChecks
  <2>9. CASE PreStart BY <2>9 DEF PreStart
  <2>10. CASE PreStartFailed BY <2>10 DEF PreStartFailed
  <2>11. CASE LoopCheck BY <2>11 DEF LoopCheck
  <2>12. CASE StartInstance BY <2>12 DEF StartInstance
  <2>13. CASE CancelContext BY <2>13 DEF CancelContext
  <2>14. CASE BarrierWait BY <2>14 DEF BarrierWait, BarrierOpen
  <2>15. CASE CheckRestart BY <2>15 DEF CheckRestart
  <2>16. CASE SleepDone BY <2>16 DEF SleepDone
  <2>17. CASE RecreateInstance BY <2>17 DEF RecreateInstance
  <2> QED BY ONLY <1>9, <2>1, <2>2, <2>3, <2>4, <2>5, <2>6, <2>7, <2>8, <2>9, <2>10, <2>11,
             <2>12, <2>13, <2>14, <2>15, <2>16, <2>17, ZenonT(60)
          DEF MainNext, PreFailedReturn, StartFailed, CheckBreak
<1>10. CASE UNCHANGED vars
  BY <1>10 DEF vars
<1> QED
  BY <1>1, <1>2, <1>3, <1>4, <1>6, <1>7, <1>8, <1>9, <1>10 DEF Next, Ended

\* The invariant always holds.
LEMMA Invariance == Spec => []IndInv
  BY InitInd, NextInd, PTL DEF Spec
-----------------------------------------------------------------------------

\* Every step keeps the flags of the watchdog Boolean.
LEMMA FlagsInd == FlagsOK /\ [Next]_vars => FlagsOK'
<1> SUFFICES ASSUME FlagsOK, [Next]_vars PROVE FlagsOK'
  OBVIOUS
<1> USE DEF FlagsOK
<1>1. ASSUME NEW s \in SentSignals, SendSignal(s) PROVE FlagsOK'
  BY <1>1, Zenon DEF SendSignal
<1>2. CASE DeliverChild
  BY <1>2, Zenon DEF DeliverChild
<1>3. CASE InstanceExit
  BY <1>3, Zenon DEF InstanceExit
<1>4. ASSUME NEW w \in Waiters, WaitNext(w) PROVE FlagsOK'
  BY <1>4, Zenon DEF WaitNext, WaitVarsRest, WaitCall, WaitLock, WaitReap, WaitReturn
<1>6. CASE HandlerNext \/ StopTimeout
  BY <1>6, Zenon DEF HandlerNext, HandlerVarsRest, HandlerReceive, HandlerDone,
     HandlerAcceptStop, HandlerIsAlive, HandlerForward, StopSpawn, StopSend, StopWaitDone,
     StopTimeout
<1>7. CASE IntegrityNext
  BY <1>7, Zenon DEF IntegrityNext, IntegrityFailed, IntegrityReport, IntegrityDone, IntegrityStep
<1>8. CASE MainNext
  BY <1>8, Zenon DEF MainNext, MainVarsRest, CreateInstance, MayExit, ResetSignals,
     StartSignalHandling, StartIntegrityChecks, PreStart, PreStartFailed, PreFailedReturn,
     LoopCheck, StartInstance, StartFailed, CancelContext, BarrierWait, CheckBreak,
     CheckRestart, SleepDone, RecreateInstance
<1>9. CASE UNCHANGED vars
  BY <1>9, Zenon DEF vars
<1> QED
  BY <1>1, <1>2, <1>3, <1>4, <1>6, <1>7, <1>8, <1>9 DEF Next, Ended

\* TypeOK of Watchdog: in particular the signal channel never holds more than the
\* one signal it has room for.
THEOREM TypeCorrect == Spec => []TypeOK
<1>1. Init => FlagsOK
  BY Zenon DEF Init, FlagsOK
<1>2. PointsOK /\ FlagsOK => TypeOK
  BY Zenon DEF PointsOK, FlagsOK, TypeOK
<1>3. IndInv => PointsOK
  BY DEF IndInv
<1> QED
  BY <1>1, <1>2, <1>3, FlagsInd, Invariance, PTL DEF Spec

\* The watchdog never ends with an instance process left behind, on any path out
\* of Watchdog.Start and for any signal that finds no handler.
THEOREM NoOrphan == Spec => []NeverAbandonsInstance
<1>1. IndInv => NeverAbandonsInstance
  BY DEF IndInv, PointsOK, NeverAbandonsInstance, Up
<1> QED
  BY <1>1, Invariance, PTL

\* The unlocked accesses of the main loop between two rounds are exclusive.
THEOREM RestartIsQuiet == Spec => []QuietRestart
<1>1. IndInv => QuietRestart
  BY DEF IndInv, PointsOK, QuietRestart, BeforeHandler, BetweenRounds
<1> QED
  BY <1>1, Invariance, PTL

-----------------------------------------------------------------------------
\* What one step may do to the instance and to an accepted stop.
LEMMA StepFacts ==
    IndInv /\ [Next]_vars =>
        /\ shouldStop => shouldStop'
        /\ inst # "running" /\ inst' = "running" => ~shouldStop
<1> SUFFICES ASSUME IndInv, [Next]_vars
             PROVE  /\ shouldStop => shouldStop'
                    /\ inst # "running" /\ inst' = "running" => ~shouldStop
  OBVIOUS
<1> USE DEF IndInv, BeforeHandler, BetweenRounds
<1>1. CASE StartInstance
  BY <1>1 DEF StartInstance, MainStep
<1>2. CASE SleepDone
  BY <1>2 DEF SleepDone, MainStep
<1>3. ASSUME ~StartInstance, ~SleepDone
      PROVE  UNCHANGED shouldStop \/ shouldStop'
  <2>1. ASSUME NEW w \in Waiters, WaitNext(w) PROVE UNCHANGED shouldStop
    BY <2>1 DEF WaitNext, WaitVarsRest, WaitCall, WaitLock, WaitReap, WaitReturn
  <2>2. CASE HandlerNext \/ StopTimeout
    BY <2>2 DEF HandlerNext, HandlerReceive, HandlerDone, HandlerAcceptStop, HandlerIsAlive,
       HandlerForward, StopSpawn, StopSend, StopWaitDone, StopTimeout
  <2>3. CASE IntegrityNext
    BY <2>3, SMTT(30) DEF IntegrityNext, IntegrityFailed, IntegrityReport, IntegrityDone, IntegrityStep
  <2>4. CASE MainNext
    BY <1>3, <2>4, ZenonT(60) DEF MainNext, MainVarsRest, CreateInstance, MayExit, ResetSignals,
       StartSignalHandling, StartIntegrityChecks, PreStart, PreStartFailed, PreFailedReturn,
       LoopCheck, StartFailed, CancelContext, BarrierWait, CheckBreak, CheckRestart,
       RecreateInstance
  <2> QED
    BY <2>1, <2>2, <2>3, <2>4
       DEF Next, SendSignal, DeliverChild, InstanceExit, Ended, vars
<1>4. ASSUME ~StartInstance, ~SleepDone
      PROVE  UNCHANGED inst \/ inst' # "running"
  <2>1. ASSUME NEW w \in Waiters, WaitNext(w) PROVE UNCHANGED inst \/ inst' # "running"
    BY <2>1, SMTT(30) DEF WaitNext, WaitCall, WaitLock, WaitReap, WaitReturn
  <2>2. CASE HandlerNext \/ StopTimeout
    BY <2>2 DEF HandlerNext, HandlerReceive, HandlerDone, HandlerAcceptStop, HandlerIsAlive,
       HandlerForward, StopSpawn, StopSend, StopWaitDone, StopTimeout, HandlerVarsRest
  <2>3. CASE IntegrityNext
    BY <2>3, SMTT(30) DEF IntegrityNext, IntegrityFailed, IntegrityReport, IntegrityDone, IntegrityStep
  <2>4. CASE MainNext
    BY <1>4, <2>4, ZenonT(60) DEF MainNext, MainVarsRest, CreateInstance, MayExit, ResetSignals,
       StartSignalHandling, StartIntegrityChecks, PreStart, PreStartFailed, PreFailedReturn,
       LoopCheck, StartFailed, CancelContext, BarrierWait, CheckBreak, CheckRestart,
       RecreateInstance
  <2> QED
    BY <2>1, <2>2, <2>3, <2>4
       DEF Next, SendSignal, DeliverChild, InstanceExit, Ended, vars
<1> QED
  BY <1>1, <1>2, <1>3, <1>4

\* No instance is started once a stop has been accepted.
THEOREM StopPreventsLaunch == Spec => NoLaunchAfterStop
<1>1. IndInv /\ [Next]_vars
        => [shouldStop => ~(inst # "running" /\ inst' = "running")]_vars
  BY StepFacts
<1> QED
  BY <1>1, Invariance, PTL DEF Spec, NoLaunchAfterStop

\* The main loop's reset of shouldStop never forgets an accepted stop.
THEOREM StopIsRemembered == Spec => StopIsSticky
<1>1. IndInv /\ [Next]_vars => [shouldStop => shouldStop']_vars
  BY StepFacts
<1> QED
  BY <1>1, Invariance, PTL DEF Spec, StopIsSticky

-----------------------------------------------------------------------------
\* The refinement of Supervisor.  Alive and HasEnded are its `up' and `over'.
Alive == inst \in {"running", "zombie"}
HasEnded  == ~Up

\* A step of the watchdog that Supervisor does not see.
Hidden == UNCHANGED shouldStop /\ (Alive' <=> Alive) /\ (HasEnded' <=> HasEnded)

\* A step of the watchdog is hidden, starts the instance, ends it, asks it to stop, or is the last.
LEMMA StepKinds ==
    IndInv /\ FlagsOK /\ [Next]_vars =>
        \/ Hidden
        \/ /\ ~Alive /\ ~shouldStop /\ ~HasEnded
           /\ Alive' /\ UNCHANGED shouldStop /\ ~HasEnded'
        \/ Alive /\ ~Alive' /\ UNCHANGED shouldStop /\ (HasEnded' <=> HasEnded)
        \/ ~HasEnded /\ shouldStop' = TRUE /\ (Alive' <=> Alive) /\ ~HasEnded'
        \/ ~Alive /\ ~HasEnded /\ HasEnded' /\ ~Alive' /\ UNCHANGED shouldStop
<1> DEFINE Goal == \/ Hidden
                   \/ /\ ~Alive /\ ~shouldStop /\ ~HasEnded
                      /\ Alive' /\ UNCHANGED shouldStop /\ ~HasEnded'
                   \/ Alive /\ ~Alive' /\ UNCHANGED shouldStop /\ (HasEnded' <=> HasEnded)
                   \/ ~HasEnded /\ shouldStop' = TRUE /\ (Alive' <=> Alive) /\ ~HasEnded'
                   \/ ~Alive /\ ~HasEnded /\ HasEnded' /\ ~Alive' /\ UNCHANGED shouldStop
<1> SUFFICES ASSUME IndInv, FlagsOK, [Next]_vars PROVE Goal
  OBVIOUS
<1> USE DEF IndInv, PointsOK, BeforeHandler, BetweenRounds, Hidden, Alive, HasEnded, Up
<1>1. ASSUME NEW s \in SentSignals, SendSignal(s) PROVE Goal
  BY <1>1 DEF SendSignal, Deliver
<1>2. CASE DeliverChild
  BY <1>2 DEF DeliverChild, Deliver
<1>3. CASE InstanceExit
  BY <1>3 DEF InstanceExit
<1>4. ASSUME NEW w \in Waiters, WaitNext(w) PROVE Goal
  BY <1>4, SMTT(30) DEF WaitNext, WaitVarsRest, WaitCall, WaitLock, WaitReap, WaitReturn
<1>5. CASE HandlerNext \/ StopTimeout
  BY <1>5 DEF HandlerNext, HandlerReceive, HandlerDone, HandlerAcceptStop, HandlerIsAlive,
     HandlerForward, StopSpawn, StopSend, StopWaitDone, StopTimeout, HandlerVarsRest
<1>6. CASE IntegrityNext
  BY <1>6 DEF IntegrityNext, IntegrityFailed, IntegrityReport, IntegrityDone, IntegrityStep
<1>7. CASE MainNext
  <2> USE DEF MainStep, MainVarsRest
  <2>1. CASE StartInstance BY <2>1 DEF StartInstance
  <2>2. CASE SleepDone
    <3>1. ~shouldStop /\ shouldStop' = FALSE BY <2>2 DEF SleepDone
    <3>2. UNCHANGED shouldStop BY <3>1, Zenon DEF FlagsOK
    <3> QED BY <2>2, <3>2 DEF SleepDone
  <2>3. CASE LoopCheck BY <2>3 DEF LoopCheck
  <2>4. CASE RecreateInstance BY <2>4 DEF RecreateInstance
  <2>5. ASSUME NEW from \in {"create", "recreate", "check", "starting", "preFailed"},
               MayExit(from)
        PROVE  Goal
    BY <2>5, SMTT(30) DEF MayExit
  <2>6. CASE \/ CreateInstance \/ PreStart \/ PreStartFailed \/ CancelContext
             \/ BarrierWait \/ CheckRestart
             \/ ResetSignals("reset1", "notify1") \/ ResetSignals("reset2", "notify2")
    BY <2>6 DEF CreateInstance, PreStart, PreStartFailed, CancelContext, BarrierWait,
       CheckRestart, ResetSignals
  <2>7. CASE \/ StartSignalHandling("notify1", "integrity1")
             \/ StartSignalHandling("notify2", "loop")
             \/ StartIntegrityChecks("integrity1", "preStart")
             \/ StartIntegrityChecks("integrity2", "reset2")
    BY <2>7 DEF StartSignalHandling, StartIntegrityChecks
  <2> HIDE DEF Goal
  <2> QED
    BY ONLY <1>7, <2>1, <2>2, <2>3, <2>4, <2>5, <2>6, <2>7
       DEF MainNext, PreFailedReturn, StartFailed, CheckBreak
<1>8. CASE UNCHANGED vars
  BY <1>8 DEF vars
<1> HIDE DEF Goal
<1>9. Goal
  BY ONLY [Next]_vars, <1>1, <1>2, <1>3, <1>4, <1>5, <1>6, <1>7, <1>8 DEF Next, Ended
<1> QED
  BY <1>9 DEF Goal

\* A hidden step is none of the supervisor.
LEMMA Unseen ==
    ASSUME UNCHANGED shouldStop, Alive' <=> Alive, HasEnded' <=> HasEnded
    PROVE  UNCHANGED Sup!vars
<1>1. UNCHANGED (inst \in {"running", "zombie"})
  BY DEF Alive
<1>2. UNCHANGED (~Up)
  BY DEF HasEnded
<1> QED
  BY <1>1, <1>2, Zenon DEF Sup!vars

\* Watchdog.Start implements the safety part of Supervisor: launches only while no
\* stop is accepted, and no end while the instance exists.
THEOREM RefinesSupervisor == Spec => Sup!Safety
<1>1. Init => Sup!Init
  BY DEF Init, Sup!Init, Up
<1>2. IndInv /\ FlagsOK /\ [Next]_vars => [Sup!Next]_(Sup!vars)
  <2> SUFFICES ASSUME IndInv, FlagsOK, [Next]_vars PROVE [Sup!Next]_(Sup!vars)
    OBVIOUS
  <2>1. shouldStop \in BOOLEAN
    BY Zenon DEF FlagsOK
  <2> USE DEF Alive, HasEnded
  <2>2. CASE Hidden
    <3>1. UNCHANGED Sup!vars BY <2>2, Unseen DEF Hidden
    <3> QED BY <3>1
  <2>3. CASE /\ ~Alive /\ ~shouldStop /\ ~HasEnded
             /\ Alive' /\ UNCHANGED shouldStop /\ ~HasEnded'
    <3>1. Sup!Launch BY <2>3 DEF Sup!Launch
    <3> QED BY <3>1 DEF Sup!Next
  <2>4. CASE Alive /\ ~Alive' /\ UNCHANGED shouldStop /\ (HasEnded' <=> HasEnded)
    <3>1. Sup!Die BY <2>4 DEF Sup!Die
    <3> QED BY <3>1 DEF Sup!Next
  <2>5. CASE ~HasEnded /\ shouldStop' = TRUE /\ (Alive' <=> Alive) /\ ~HasEnded'
    <3>1. CASE shouldStop
      <4>1. UNCHANGED Sup!vars
        <5>1. UNCHANGED shouldStop BY <2>1, <2>5, <3>1, Zenon
        <5> QED BY <2>5, <5>1, Unseen
      <4> QED BY <4>1
    <3>2. CASE ~shouldStop
      <4>1. Sup!AcceptStop BY <2>5, <3>2 DEF Sup!AcceptStop
      <4> QED BY <4>1 DEF Sup!Next
    <3> QED BY <3>1, <3>2
  <2>6. CASE ~Alive /\ ~HasEnded /\ HasEnded' /\ ~Alive' /\ UNCHANGED shouldStop
    <3>1. Sup!Finish BY <2>6 DEF Sup!Finish
    <3> QED BY <3>1 DEF Sup!Next
  <2> QED
    BY ONLY IndInv, FlagsOK, [Next]_vars, StepKinds, <2>2, <2>3, <2>4, <2>5, <2>6
<1>3. Init => FlagsOK
  BY Zenon DEF Init, FlagsOK
<1> QED
  BY <1>1, <1>2, <1>3, FlagsInd, Invariance, PTL DEF Spec, Sup!Safety

-----------------------------------------------------------------------------
(* The tags of a package.                                                  *)

\* An entry of the index.
IndexEntry == [id : Nat, type : TagTypes, offset : Nat, count : Nat, size : Nat]

\* The types of the tags, the data and the index.
TagTypeOK ==
    /\ tagTodo \in Seq(Tag)
    /\ tagData \in Nat
    /\ tagIndex \in Seq(IndexEntry)

\* The inductive invariant: the types of the buffers, and what is to be shown.
TagInv == TagTypeOK /\ TagsReadBack

\* alignData pads up to the next multiple of a boundary, and never cuts.
LEMMA AlignLemma ==
    ASSUME NEW len \in Nat, NEW b \in {1, 2, 4, 8}
    PROVE  /\ AlignData(len, b) \in Nat
           /\ AlignData(len, b) >= len
           /\ AlignData(len, b) % b = 0
<1>1. CASE b = 1
  BY <1>1 DEF AlignData
<1>2. CASE b = 2
  BY <1>2 DEF AlignData
<1>3. CASE b = 4
  BY <1>3 DEF AlignData
<1>4. CASE b = 8
  BY <1>4 DEF AlignData
<1> QED
  BY <1>1, <1>2, <1>3, <1>4

\* The boundaries of the format.
LEMMA BoundaryType == \A type : Boundary(type) \in {1, 2, 4, 8}
BY DEF Boundary

\* What packTag writes has a length.
LEMMA PackedType ==
    ASSUME NEW tag \in Tag
    PROVE  PackedSize(tag) \in Nat /\ PackedCount(tag) \in Nat
<1>1. tag.count \in Nat /\ tag.chars \in Nat /\ tag.type \in TagTypes
  BY DEF Tag
<1>2. PackedCount(tag) \in Nat
  BY <1>1 DEF PackedCount
<1>3. PackedSize(tag) \in Nat
  BY <1>1 DEF PackedSize, TagTypes
<1> QED
  BY <1>2, <1>3

\* One more tag keeps what was packed before readable, and is readable itself.
LEMMA PackTagInd == TagInv /\ PackTag => TagInv'
<1> SUFFICES ASSUME TagInv, PackTag PROVE TagInv'
  OBVIOUS
<1> DEFINE tag == Head(tagTodo)
           start == AlignData(tagData, Boundary(tag.type))
           entry == TagIndexEntry(tag, start)
<1>1. /\ tagTodo # <<>> /\ tagTodo' = Tail(tagTodo)
      /\ tagIndex' = Append(tagIndex, entry)
      /\ tagData' = start + PackedSize(tag)
  BY DEF PackTag
<1>2. tag \in Tag /\ tagTodo' \in Seq(Tag)
  BY <1>1 DEF TagInv, TagTypeOK
<1>3. start \in Nat /\ start >= tagData /\ start % Boundary(tag.type) = 0
  BY AlignLemma, BoundaryType, ZenonT(60) DEF TagInv, TagTypeOK
<1>4. PackedSize(tag) \in Nat /\ PackedCount(tag) \in Nat
  BY <1>2, PackedType
<1>5. /\ entry \in IndexEntry
      /\ entry.offset = start /\ entry.size = PackedSize(tag) /\ entry.type = tag.type
  BY <1>2, <1>3, <1>4, ZenonT(60) DEF TagIndexEntry, IndexEntry, Tag
<1> HIDE DEF tag, start, entry
<1>6. TagTypeOK'
  BY <1>1, <1>2, <1>3, <1>4, <1>5 DEF TagInv, TagTypeOK
<1>7. /\ Len(tagIndex') = Len(tagIndex) + 1 /\ tagIndex'[Len(tagIndex) + 1] = entry
      /\ \A i \in 1..Len(tagIndex) : tagIndex'[i] = tagIndex[i] /\ tagIndex[i] \in IndexEntry
      /\ Len(tagIndex) \in Nat
  BY <1>1, <1>5 DEF TagInv, TagTypeOK
<1>8. ASSUME NEW i \in 1..Len(tagIndex)
      PROVE  /\ tagIndex[i].offset \in Nat /\ tagIndex[i].size \in Nat
             /\ tagIndex[i].offset % Boundary(tagIndex[i].type) = 0
             /\ tagIndex[i].offset + tagIndex[i].size <= tagData
             /\ \A j \in 1..(i - 1) : tagIndex[j].offset + tagIndex[j].size <= tagIndex[i].offset
  BY <1>7 DEF TagInv, TagsReadBack, IndexEntry
<1>9. ASSUME NEW i \in 1..Len(tagIndex) PROVE tagIndex[i].offset + tagIndex[i].size <= start
  BY <1>3, <1>8 DEF TagInv, TagTypeOK
<1>10. ASSUME NEW i \in 1..(Len(tagIndex) + 1)
       PROVE  /\ tagIndex'[i].offset % Boundary(tagIndex'[i].type) = 0
              /\ tagIndex'[i].offset + tagIndex'[i].size <= tagData'
              /\ \A j \in 1..(i - 1) : tagIndex'[j].offset + tagIndex'[j].size <= tagIndex'[i].offset
  <2>1. CASE i \in 1..Len(tagIndex)
    <3>1. tagIndex[i].offset + tagIndex[i].size <= tagData'
      <4>1. tagIndex[i].offset \in Nat /\ tagIndex[i].size \in Nat
        BY <1>8, <2>1
      <4>2. tagIndex[i].offset + tagIndex[i].size <= start
        BY <1>9, <2>1
      <4>3. tagData' = start + PackedSize(tag)
        BY <1>1
      <4> QED
        BY <1>3, <1>4, <4>1, <4>2, <4>3
    <3>2. \A j \in 1..(i - 1) : j \in 1..Len(tagIndex)
      BY <1>7, <2>1
    <3> QED
      BY <1>7, <1>8, <2>1, <3>1, <3>2, ZenonT(60)
  <2>2. CASE i = Len(tagIndex) + 1
    <3>1. tagIndex'[i] = entry
      BY <1>7, <2>2
    <3>2. \A j \in 1..(i - 1) : j \in 1..Len(tagIndex)
      BY <1>7, <2>2
    <3>3. \A j \in 1..(i - 1) : tagIndex'[j].offset + tagIndex'[j].size <= start
      BY <1>7, <1>9, <3>2
    <3> QED
      BY <1>1, <1>3, <1>4, <1>5, <3>1, <3>3
  <2> QED
    BY <1>7, <2>1, <2>2
<1>11. TagsReadBack'
  BY <1>7, <1>10 DEF TagsReadBack
<1> QED
  BY <1>6, <1>11 DEF TagInv

\* packTagSet, for every set of tags of any lengths: a reader finds each tag at an aligned
\* offset, inside the data area and apart from the others.
THEOREM TagsAreReadBack == TagSpec => []TagsReadBack
<1>1. TagInit => TagInv
  BY TagSetsAssumption DEF TagInit, TagInv, TagTypeOK, TagsReadBack
<1>2. TagInv /\ [TagNext]_tagVars => TagInv'
  <2> SUFFICES ASSUME TagInv, [TagNext]_tagVars PROVE TagInv'
    OBVIOUS
  <2>1. CASE PackTag
    BY <2>1, PackTagInd
  <2>2. CASE PackTagFails
    BY <2>2 DEF PackTagFails, TagInv, TagTypeOK, TagsReadBack
  <2>3. CASE UNCHANGED tagVars
    BY <2>3 DEF tagVars, TagInv, TagTypeOK, TagsReadBack
  <2> QED
    BY <2>1, <2>2, <2>3 DEF TagNext
<1>3. TagInv => TagsReadBack
  BY DEF TagInv
<1> QED
  BY <1>1, <1>2, <1>3, PTL DEF TagSpec

-----------------------------------------------------------------------------
(* The commands on an application.                                         *)

\* The steps are first-order unless they cite SMT.
USE Zenon

\* The types.
FileNames == {"init.lua", "tt.pre-build", "log", "snap"} \cup
             UNION {Names(Templates[t].files) : t \in DOMAIN Templates}
Entries == [name : FileNames, body : {"raw", "plain", "a", "x", "user", "data"}]
YamlFile == [from : {"absent", "old", "skipped", "cartridge", "ctl", "default"},
             enabled : {".", "instances.enabled", "ctl.enabled"}]
Points == {"idle", "init", "load", "create", "cli", "temp", "copy template", "manifest",
           "collect", "pre", "render", "post", "cleanup", "move", "copy", "enable", "link",
           "unlink", "symlink", "message", "build", "pre-build", "make", "post-build", "clean",
           "status", "confirm", "remove"}
Ran == {"make", "tt.pre-build", "cartridge.pre-build", "tt.post-build", "cartridge.post-build"}
       \X {"tty", "null"}

JobRecord ==
    [pc : Points, args : Jobs \cup {NoArgs}, cfg : YamlFile,
     var : Values, manifest : BOOLEAN, dir : {"", "env", "app", "other"}, i : 1..Len(Instances),
     files : SUBSET Entries, ran : Seq(Ran), out : {"tty", "null"},
     cwd : {"env", "app", "other"}, up : SUBSET Insts, fresh : BOOLEAN,
     res : {"ok", "error", "killed", "cancelled"}]

AppTypeOK ==
    /\ place \in Places /\ ttyaml \in YamlFile /\ hurts \in Nat
    /\ alive \subseteq Insts /\ data \in [Insts -> SUBSET Entries]
    /\ job \in [Procs -> JobRecord]
    /\ scratch = [p \in Procs |-> scratch[p]]

\* The steps of create, from the temporary directory to the last file that is copied:
\* before the variables are collected, before the files are rendered, and after it.
Unread == {"copy template", "manifest"}
Unrendered == {"manifest", "collect", "pre", "render"}
Complete == {"post", "cleanup", "move", "copy"}
Copying == {"copy template"} \cup Unrendered \cup Complete
Earlier == {"create", "cli", "temp"} \cup Unread

\* What a create has at its program point: c is the point, manifest, files and var are
\* those of its state, and s is its temporary directory.
StageAt(c, template, manifest, files, var, s) ==
    LET t == Templates[template]
        ok == t.manifest = "ok"
    IN  /\ c \notin Copying => s = None
        /\ c \in Earlier => ~manifest
        /\ c \in (Earlier \cup Copying) \ {"copy"} => files = {}
        /\ c \in Copying \ {"copy template"} => template \in DOMAIN Templates
        /\ c \in Unrendered => s \subseteq t.files
        /\ c \in Complete => s \subseteq Contents(t.files) /\ \A f, g \in s : f.name = g.name => f = g
        /\ c \in Copying \ Unread => (manifest <=> ok)
        /\ c \in {"collect", "pre", "post", "cleanup"} => ok
        /\ c \in Copying \ Unread /\ ok => \A f \in s : f.name # "MANIFEST.yaml"
        /\ c \in {"pre", "render"} \cup Complete /\ ok /\ t.re => var = "a"
        /\ c \in {"render"} \cup Complete /\ ok => \A f \in s : f.name # t.pre
        /\ c \in Complete \ {"post"} /\ ok => \A f \in s : f.name # t.post
        /\ c \in {"move", "copy"} /\ t.include # {} /\ ok => \A f \in s : f.name \in t.include
        /\ c \in Complete /\ ok /\ t.re => \A f \in s : f.body # "x"
        /\ c = "copy" => files \subseteq s

StageOf(j, s) == StageAt(j.pc, j.args.template, j.manifest, j.files, j.var, s)

\* What a build has: stdout is elsewhere only around luarocks.
BuildOf(j) ==
    /\ j.pc \notin {"pre-build", "make", "post-build"} => j.out = "tty" /\ j.cwd = "env"
    /\ j.pc # "make" => j.out = "tty"
    /\ \A n \in 1..Len(j.ran) : j.ran[n][1] # "make" => j.ran[n][2] = "tty"

\* What a clean has: the instances that have run all the time still run, and its turn is
\* not one of them.
CleanOf(j, live) ==
    /\ j.up \subseteq live
    /\ j.pc \in {"confirm", "remove"} => Instances[j.i] \notin j.up

\* What a create that has copied files knows of the application.
SparesOf(j, a) ==
    j.pc = "copy" /\ ~j.args.force /\ j.fresh => a = IF j.files = {} THEN None ELSE j.files

\* A file that may be in an application.
GoodFile(f) ==
    /\ \/ f.name \in Names(UserApp)
       \/ \E t \in DOMAIN Templates : f.name \in Names(Finished(Templates[t]))
    /\ f.body # "raw"
    /\ f.body = "x" => \E t \in DOMAIN Templates :
          /\ f.name \in Names(Templates[t].files)
          /\ ~(Templates[t].re /\ Templates[t].manifest = "ok")

JobOf(j, s, live) == StageOf(j, s) /\ BuildOf(j) /\ CleanOf(j, live)

\* The inductive invariant.
AppInv ==
    /\ AppTypeOK
    /\ \A p \in Procs : JobOf(job[p], scratch[p], alive) /\ SparesOf(job[p], app)
    /\ app # None => \A f \in app : GoodFile(f)

-----------------------------------------------------------------------------
(* Steps that change one command only.                                     *)

\* The state of a command that has not begun or is over.
LEMMA QuietType == Quiet \in JobRecord /\ NoFile \in YamlFile
<1>1. 1 \in 1..Len(Instances)
    <2>1. Instances \in Seq(STRING) /\ Instances # <<>>
        BY AppAssumption
    <2> QED
        BY <2>1, SMT
<1>2. <<>> \in Seq(Ran)
    BY SMT
<1>3. NoFile \in YamlFile
    BY DEF NoFile, YamlFile
<1> QED
    BY <1>1, <1>2, <1>3 DEF Quiet, JobRecord, Values, Points

\* A step of p that leaves the application and the instances alone.
LEMMA Frame ==
    ASSUME AppInv, NEW p \in Procs, NEW j \in JobRecord, NEW s,
           job' = [job EXCEPT ![p] = j], scratch' = [scratch EXCEPT ![p] = s],
           JobOf(j, s, alive), SparesOf(j, app), UNCHANGED <<place, app, alive>>,
           ttyaml' \in YamlFile,
           data' \in [Insts -> SUBSET Entries], hurts' \in Nat
    PROVE  AppInv'
<1>1. AppTypeOK'
    BY DEF AppInv, AppTypeOK
<1>2. ASSUME NEW q \in Procs
      PROVE  JobOf(job'[q], scratch'[q], alive') /\ SparesOf(job'[q], app')
    <2>1. CASE q = p
        <3>1. job'[q] = j /\ scratch'[q] = s
            BY <2>1 DEF AppInv, AppTypeOK
        <3>2. QED
            BY <3>1
    <2>2. CASE q # p
        <3>1. job'[q] = job[q] /\ scratch'[q] = scratch[q]
            BY <2>2 DEF AppInv, AppTypeOK
        <3>2. QED
            BY <3>1 DEF AppInv
    <2>3. QED
        BY <2>1, <2>2
<1>3. (app # None => \A f \in app : GoodFile(f))'
    BY DEF AppInv, GoodFile
<1>4. QED
    BY <1>1, <1>2, <1>3 DEF AppInv

\* The same when only the command's own state changes.
LEMMA InnerStep ==
    ASSUME AppInv, NEW p \in Procs, NEW j \in JobRecord, Inner(p, j),
           JobOf(j, scratch[p], alive), SparesOf(j, app)
    PROVE  AppInv'
<1>1. scratch' = [scratch EXCEPT ![p] = scratch[p]]
    BY DEF Inner, AppInv, AppTypeOK
<1>2. UNCHANGED <<place, app, alive, ttyaml, data, hurts>> /\ job' = [job EXCEPT ![p] = j]
    BY DEF Inner, Goto, World
<1>3. QED
    BY <1>1, <1>2, Frame DEF AppInv, AppTypeOK

\* Outside of create nothing but the end of the temporary directory is to be shown.
LEMMA Elsewhere ==
    ASSUME NEW j, j.pc \notin Copying, j.pc \notin Earlier
    PROVE  StageOf(j, None) /\ SparesOf(j, app)
BY DEF StageOf, StageAt, SparesOf, Copying, Complete, Unrendered, Earlier, Unread

\* A command that is over.
Over(j) == j \in JobRecord /\ j.pc = "idle" /\ j.out = "tty" /\ j.cwd = "env" /\ j.up = {}

\* The end of a command.
LEMMA OverIsFine ==
    ASSUME NEW j, Over(j), \A n \in 1..Len(j.ran) : j.ran[n][1] # "make" => j.ran[n][2] = "tty"
    PROVE  JobOf(j, None, alive) /\ SparesOf(j, app)
<1>1. StageOf(j, None) /\ SparesOf(j, app)
    BY Elsewhere DEF Over, Copying, Complete, Unrendered, Earlier, Unread
<1>2. QED
    BY <1>1 DEF Over, JobOf, BuildOf, CleanOf

\* The commands that have ended without a build.
LEMMA QuietOver ==
    ASSUME NEW r \in {"ok", "error", "killed", "cancelled"}
    PROVE  LET j == [Quiet EXCEPT !.res = r] IN Over(j) /\ j.ran = <<>> /\ Over(Quiet) /\ Quiet.ran = <<>>
BY QuietType DEF Over, Quiet, JobRecord

\* A step that fails outside of a build.
LEMMA FailStep ==
    ASSUME AppInv, NEW p \in Procs, Fail(p), job[p].pc \notin {"pre-build", "make", "post-build"}
    PROVE  AppInv'
<1> DEFINE j == [Quiet EXCEPT !.res = "error", !.out = job[p].out, !.cwd = job[p].cwd]
<1>1. job[p].out = "tty" /\ job[p].cwd = "env"
    BY DEF AppInv, JobOf, BuildOf
<1>2. Over(j) /\ j.ran = <<>>
    BY <1>1, QuietType DEF Over, Quiet, JobRecord
<1> HIDE DEF j
<1>3. JobOf(j, None, alive) /\ SparesOf(j, app)
    BY <1>2, OverIsFine, SMT
<1>4. /\ UNCHANGED <<place, app, alive, ttyaml, data, hurts>> /\ job' = [job EXCEPT ![p] = j]
      /\ scratch' = [scratch EXCEPT ![p] = None]
    BY DEF Fail, Goto, World, j
<1>5. j \in JobRecord
    BY <1>2 DEF Over
<1>6. QED
    BY <1>3, <1>4, <1>5, Frame DEF AppInv, AppTypeOK

\* A failure from outside and a kill.
LEMMA HurtStep ==
    ASSUME AppInv, NEW p \in Procs, Hurt(p) \/ Kill(p)
    PROVE  AppInv'
<1>1. PICK r \in {"ok", "error", "killed", "cancelled"} : job' = [job EXCEPT ![p] = [Quiet EXCEPT !.res = r]]
    BY DEF Hurt, Kill, Goto
<1> DEFINE j == [Quiet EXCEPT !.res = r]
<1>2. Over(j) /\ j.ran = <<>>
    BY QuietOver
<1>3. job' = [job EXCEPT ![p] = j]
    BY <1>1
<1> HIDE DEF j
<1>4. JobOf(j, None, alive) /\ SparesOf(j, app) /\ j \in JobRecord
    BY <1>2, OverIsFine, SMT DEF Over
<1>5. /\ UNCHANGED <<place, app, alive, ttyaml, data>>
      /\ scratch' = [scratch EXCEPT ![p] = None]
    BY DEF Hurt, Kill, World
<1>6. hurts' \in Nat
    <2>1. hurts \in Nat
        BY DEF AppInv, AppTypeOK
    <2>2. hurts' = hurts + 1
        BY DEF Hurt, Kill
    <2>3. QED
        BY <2>1, <2>2, SMT
<1>7. QED
    BY <1>3, <1>4, <1>5, <1>6, Frame DEF AppInv, AppTypeOK

\* A command that ends without a temporary directory.
LEMMA EndStep ==
    ASSUME AppInv, NEW p \in Procs, NEW r \in {"ok", "error", "killed", "cancelled"},
           job[p].pc \notin Copying,
           Inner(p, [Quiet EXCEPT !.res = r]) \/ Inner(p, Quiet)
    PROVE  AppInv'
<1>1. scratch[p] = None
    BY DEF AppInv, JobOf, StageOf, StageAt
<1>2. CASE Inner(p, Quiet)
    <2>1. Over(Quiet) /\ Quiet.ran = <<>>
        BY QuietOver
    <2>2. JobOf(Quiet, None, alive) /\ SparesOf(Quiet, app) /\ Quiet \in JobRecord
        BY <2>1, OverIsFine, SMT DEF Over
    <2>3. QED
        BY <1>1, <1>2, <2>2, InnerStep
<1>3. CASE Inner(p, [Quiet EXCEPT !.res = r])
    <2> DEFINE j == [Quiet EXCEPT !.res = r]
    <2>1. Over(j) /\ j.ran = <<>>
        BY QuietOver
    <2>2. Inner(p, j)
        BY <1>3
    <2> HIDE DEF j
    <2>3. JobOf(j, None, alive) /\ SparesOf(j, app) /\ j \in JobRecord
        BY <2>1, OverIsFine, SMT DEF Over
    <2>4. QED
        BY <1>1, <2>2, <2>3, InnerStep
<1>4. QED
    BY <1>2, <1>3

BuildPoints == {"pre-build", "make", "post-build"}

\* What create, init and enable leave alone.
LEMMA Rest ==
    ASSUME AppInv, NEW p \in Procs, NEW j, job[p].pc \notin BuildPoints,
           j.pc \notin {"confirm", "remove"}, j.out = job[p].out, j.cwd = job[p].cwd,
           j.ran = job[p].ran, j.up = job[p].up
    PROVE  BuildOf(j) /\ CleanOf(j, alive)
BY DEF AppInv, JobOf, BuildOf, CleanOf, BuildPoints

\* A step of create, init or enable to the point c; s is the temporary directory after it.
LEMMA GoStep ==
    ASSUME AppInv, NEW p \in Procs, NEW j \in JobRecord, NEW s,
           job' = [job EXCEPT ![p] = j], scratch' = [scratch EXCEPT ![p] = s],
           job[p].pc \notin BuildPoints, j.pc \notin {"confirm", "remove", "copy"},
           j.out = job[p].out, j.cwd = job[p].cwd, j.ran = job[p].ran, j.up = job[p].up,
           StageOf(j, s), UNCHANGED <<place, app, alive, data, hurts>>, ttyaml' \in YamlFile
    PROVE  AppInv'
<1>1. JobOf(j, s, alive) /\ SparesOf(j, app)
    BY Rest DEF JobOf, SparesOf
<1>2. data' \in [Insts -> SUBSET Entries] /\ hurts' \in Nat
    BY DEF AppInv, AppTypeOK
<1>3. QED
    BY <1>1, <1>2, Frame

\* The same when the temporary directory stays as it is.
LEMMA GoInner ==
    ASSUME AppInv, NEW p \in Procs, NEW j \in JobRecord, Inner(p, j),
           job[p].pc \notin BuildPoints, j.pc \notin {"confirm", "remove", "copy"},
           j.out = job[p].out, j.cwd = job[p].cwd, j.ran = job[p].ran, j.up = job[p].up,
           StageOf(j, scratch[p])
    PROVE  AppInv'
<1>1. JobOf(j, scratch[p], alive) /\ SparesOf(j, app)
    BY Rest DEF JobOf, SparesOf
<1>2. QED
    BY <1>1, InnerStep

\* tt init.
LEMMA InitStep ==
    ASSUME AppInv, NEW p \in Procs, CheckExistingConfig(p) \/ GenerateTtEnv(p)
    PROVE  AppInv'
<1> DEFINE load == [job[p] EXCEPT !.pc = "load"]
<1>1. job[p].pc \in {"init", "load"} /\ job[p] \in JobRecord
    BY DEF CheckExistingConfig, GenerateTtEnv, At, AppInv, AppTypeOK
<1>2. job[p].pc \notin BuildPoints /\ job[p].pc \notin Copying
    BY <1>1 DEF BuildPoints, Copying, Complete, Unrendered
<1>3. scratch[p] = None /\ scratch = [scratch EXCEPT ![p] = None]
    <2>1. scratch[p] = None
        BY <1>2 DEF AppInv, JobOf, StageOf, StageAt
    <2>2. QED
        BY <2>1 DEF AppInv, AppTypeOK
<1>4. /\ load \in JobRecord /\ load.pc = "load" /\ load.out = job[p].out
      /\ load.cwd = job[p].cwd /\ load.ran = job[p].ran /\ load.up = job[p].up
    BY <1>1 DEF JobRecord, Points
<1>5. StageOf(load, None)
    BY <1>4, Elsewhere DEF Copying, Complete, Unrendered, Earlier, Unread
<1> HIDE DEF load
<1>6. CASE To(p, "load")
    BY <1>2, <1>3, <1>4, <1>5, <1>6, GoInner DEF To, load
<1>7. CASE /\ ttyaml' = NoFile /\ Goto(p, [job[p] EXCEPT !.pc = "load"])
           /\ UNCHANGED <<place, app, enabled, scratch, alive, data, jobs, hurts>>
    <2>1. job' = [job EXCEPT ![p] = load] /\ scratch' = [scratch EXCEPT ![p] = None]
        BY <1>3, <1>7 DEF Goto, load
    <2>2. QED
        BY <1>2, <1>4, <1>5, <1>7, <2>1, GoStep, QuietType
<1>8. CASE Inner(p, [Quiet EXCEPT !.res = "cancelled"])
    BY <1>2, <1>8, EndStep
<1>9. CASE Fail(p)
    BY <1>2, <1>9, FailStep DEF BuildPoints
<1>10. CASE /\ ttyaml' = [from |-> LoadedConfig(p).from, enabled |-> InstancesEnabled(LoadedConfig(p))]
            /\ \E res \in {"ok", "error"} : Goto(p, [Quiet EXCEPT !.res = res])
            /\ UNCHANGED <<place, app, enabled, scratch, alive, data, jobs, hurts>>
    <2>1. ttyaml' \in YamlFile
        BY <1>10 DEF YamlFile, LoadedConfig, InstancesEnabled
    <2>0. PICK res \in {"ok", "error"} : Goto(p, [Quiet EXCEPT !.res = res])
        BY <1>10
    <2> DEFINE finished == [Quiet EXCEPT !.res = res]
    <2>2. Over(finished) /\ finished.ran = <<>>
        BY QuietOver
    <2> HIDE DEF finished
    <2>3. JobOf(finished, None, alive) /\ SparesOf(finished, app) /\ finished \in JobRecord
        BY <2>2, OverIsFine, SMT DEF Over
    <2>4. job' = [job EXCEPT ![p] = finished] /\ scratch' = [scratch EXCEPT ![p] = None]
        BY <1>3, <1>10, <2>0 DEF Goto, finished
    <2>5. QED
        BY <1>10, <2>1, <2>3, <2>4, Frame DEF AppInv, AppTypeOK
<1>11. QED
    BY <1>6, <1>7, <1>8, <1>9, <1>10 DEF CheckExistingConfig, GenerateTtEnv

-----------------------------------------------------------------------------
(* tt create.                                                              *)

\* The next state of a create at the point c, but for the variable and the manifest.
Onto(p, j, c) ==
    /\ j \in JobRecord /\ j.pc = c /\ j.args = job[p].args /\ j.files = job[p].files
    /\ j.out = job[p].out /\ j.cwd = job[p].cwd /\ j.ran = job[p].ran /\ j.up = job[p].up

\* Where a command stands.
LEMMA Here ==
    ASSUME AppInv, NEW p \in Procs
    PROVE  job[p] \in JobRecord /\ StageOf(job[p], scratch[p])
BY DEF AppInv, AppTypeOK, JobOf

\* What is given for the variable.
LEMMA GivenValues ==
    ASSUME AppInv, NEW p \in Procs
    PROVE  /\ job[p].args.file # "malformed" => job[p].args.file \in Values
           /\ job[p].args.cli # "malformed" => job[p].args.cli \in Values
<1>1. job[p].args \in Jobs \cup {NoArgs}
    BY Here DEF JobRecord
<1>2. Jobs \subseteq [op : {"init", "create", "enable", "build", "clean"}, template : STRING,
                      force : BOOLEAN, silent : BOOLEAN, file : Given, cli : Given,
                      skip : BOOLEAN, path : STRING, verbose : BOOLEAN]
    BY AppAssumption
<1>3. NoArgs.file = "" /\ NoArgs.cli = ""
    BY DEF NoArgs
<1>4. job[p].args.file \in Given /\ job[p].args.cli \in Given
    <2>1. CASE job[p].args \in Jobs
        BY <1>2, <2>1
    <2>2. CASE job[p].args = NoArgs
        BY <1>3, <2>2 DEF Given, Values
    <2>3. QED
        BY <1>1, <2>1, <2>2
<1>5. QED
    BY <1>4 DEF Given

\* The variables of the command line, and the temporary directory.
LEMMA PrepareStep ==
    ASSUME AppInv, NEW p \in Procs,
           LoadVarsFile(p) \/ FillTemplateVarsFromCli(p) \/ CreateTemporaryAppDirectory(p)
    PROVE  AppInv'
<1> USE DEF Copying, Complete, Unrendered, Earlier, Unread, BuildPoints, At
<1>0. job[p] \in JobRecord /\ StageOf(job[p], scratch[p])
    BY Here
<1>1. CASE Fail(p)
    BY <1>1, FailStep DEF LoadVarsFile, FillTemplateVarsFromCli, CreateTemporaryAppDirectory
<1>2. CASE LoadVarsFile(p) /\ ~Fail(p)
    <2> DEFINE j == [job[p] EXCEPT !.pc = "cli", !.var = job[p].args.file]
    <2>1. job[p].pc = "create" /\ Inner(p, j) /\ job[p].args.file \in Values
        BY <1>2, GivenValues DEF LoadVarsFile
    <2>2. Onto(p, j, "cli") /\ j.manifest = job[p].manifest
        BY <2>1, <1>0 DEF JobRecord, Points, Onto
    <2> HIDE DEF j
    <2>3. StageOf(j, scratch[p])
        BY <1>0, <2>1, <2>2 DEF StageOf, StageAt, Onto
    <2>4. QED
        BY <2>1, <2>2, <2>3, GoInner DEF Onto
<1>3. CASE FillTemplateVarsFromCli(p) /\ ~Fail(p)
    <2> DEFINE j == [job[p] EXCEPT !.pc = "temp",
                           !.var = IF job[p].args.cli = "" THEN @ ELSE job[p].args.cli]
    <2>1. job[p].pc = "cli" /\ Inner(p, j) /\ job[p].args.cli \in Values
        BY <1>3, GivenValues DEF FillTemplateVarsFromCli
    <2>2. Onto(p, j, "temp") /\ j.manifest = job[p].manifest
        BY <2>1, <1>0 DEF JobRecord, Points, Onto
    <2> HIDE DEF j
    <2>3. StageOf(j, scratch[p])
        BY <1>0, <2>1, <2>2 DEF StageOf, StageAt, Onto
    <2>4. QED
        BY <2>1, <2>2, <2>3, GoInner DEF Onto
<1>4. CASE CreateTemporaryAppDirectory(p) /\ ~Fail(p)
    <2> DEFINE j == [job[p] EXCEPT !.pc = "copy template"]
    <2>1. /\ job[p].pc = "temp" /\ job' = [job EXCEPT ![p] = j]
          /\ scratch' = [scratch EXCEPT ![p] = {}]
          /\ UNCHANGED <<place, app, alive, data, hurts, ttyaml>>
        BY <1>4 DEF CreateTemporaryAppDirectory, Goto, World
    <2>2. Onto(p, j, "copy template") /\ j.manifest = job[p].manifest
        BY <1>0, ZenonT(60) DEF JobRecord, Points, Onto
    <2> HIDE DEF j
    <2>3. StageOf(j, {})
        BY <1>0, <2>1, <2>2 DEF StageOf, StageAt, Onto
    <2>4. QED
        BY <2>1, <2>2, <2>3, GoStep DEF AppInv, AppTypeOK, Onto
<1>5. QED
    BY <1>1, <1>2, <1>3, <1>4

\* The template, and its manifest.
LEMMA TemplateStep ==
    ASSUME AppInv, NEW p \in Procs, CopyAppTemplate(p) \/ LoadManifest(p)
    PROVE  AppInv'
<1> USE DEF Copying, Complete, Unrendered, Earlier, Unread, BuildPoints, At
<1>0. job[p] \in JobRecord /\ StageOf(job[p], scratch[p])
    BY Here
<1>1. CASE Fail(p)
    BY <1>1, FailStep DEF CopyAppTemplate, LoadManifest
<1>2. CASE CopyAppTemplate(p) /\ ~Fail(p)
    <2> DEFINE j == [job[p] EXCEPT !.pc = "manifest"]
    <2>1. /\ job[p].pc = "copy template" /\ job' = [job EXCEPT ![p] = j]
          /\ job[p].args.template \in DOMAIN Templates
          /\ scratch' = [scratch EXCEPT ![p] = Template(p).files]
          /\ UNCHANGED <<place, app, alive, data, hurts, ttyaml>>
        BY <1>2 DEF CopyAppTemplate, Goto, World
    <2>2. Onto(p, j, "manifest") /\ j.manifest = job[p].manifest
        BY <1>0, ZenonT(60) DEF JobRecord, Points, Onto
    <2> HIDE DEF j
    <2>3. StageOf(j, Template(p).files)
        BY <1>0, <2>1, <2>2 DEF StageOf, StageAt, Onto, Template
    <2>4. QED
        BY <2>1, <2>2, <2>3, GoStep DEF AppInv, AppTypeOK, Onto
<1>3. CASE At(p, "manifest") /\ Template(p).manifest = "none" /\ To(p, "render")
    <2> DEFINE j == [job[p] EXCEPT !.pc = "render"]
    <2>1. job[p].pc = "manifest" /\ Inner(p, j) /\ Template(p).manifest # "ok"
        BY <1>3 DEF To
    <2>2. Onto(p, j, "render") /\ j.manifest = job[p].manifest
        BY <1>0, ZenonT(60) DEF JobRecord, Points, Onto
    <2> HIDE DEF j
    <2>3. StageOf(j, scratch[p])
        BY <1>0, <2>1, <2>2 DEF StageOf, StageAt, Onto, Template
    <2>4. QED
        BY <2>1, <2>2, <2>3, GoInner DEF Onto
<1>4. CASE /\ At(p, "manifest") /\ Template(p).manifest = "ok"
           /\ scratch' = [scratch EXCEPT ![p] = {f \in @ : f.name # "MANIFEST.yaml"}]
           /\ Goto(p, [job[p] EXCEPT !.pc = "collect", !.manifest = TRUE])
           /\ UNCHANGED <<World, hurts>>
    <2> DEFINE j == [job[p] EXCEPT !.pc = "collect", !.manifest = TRUE]
               s == {f \in scratch[p] : f.name # "MANIFEST.yaml"}
    <2>1. /\ job[p].pc = "manifest" /\ job' = [job EXCEPT ![p] = j] /\ Template(p).manifest = "ok"
          /\ scratch' = [scratch EXCEPT ![p] = s]
          /\ UNCHANGED <<place, app, alive, data, hurts, ttyaml>>
        BY <1>4 DEF Goto, World, AppInv, AppTypeOK
    <2>2. Onto(p, j, "collect") /\ j.manifest = TRUE
        BY <1>0, ZenonT(60) DEF JobRecord, Points, Onto
    <2> HIDE DEF j
    <2>3. StageOf(j, s)
        BY <1>0, <2>1, <2>2 DEF StageOf, StageAt, Onto, Template
    <2> HIDE DEF s
    <2>4. QED
        BY <2>1, <2>2, <2>3, GoStep DEF AppInv, AppTypeOK, Onto
<1>5. QED
    BY <1>1, <1>2, <1>3, <1>4 DEF CopyAppTemplate, LoadManifest

\* What is known of a template by its manifest.
LEMMA TemplateFacts ==
    ASSUME NEW t \in DOMAIN Templates
    PROVE  /\ \A f \in Templates[t].files : f.name # "" /\ f.body \in {"raw", "plain"}
           /\ \A f, g \in Templates[t].files : f.name = g.name => f = g
           /\ \A f \in Templates[t].files : f = [name |-> f.name, body |-> f.body]
           /\ Templates[t].default \in Values
           /\ \A S \in SUBSET Contents(Templates[t].files) : S # None
<1>1. Templates[t].files \subseteq [name : STRING, body : {"raw", "plain"}]
    BY AppAssumption
<1>2. /\ \A f, g \in Templates[t].files : f.name = g.name => f = g
      /\ \A f \in Templates[t].files : f.name # ""
      /\ None \notin {S : S \in SUBSET Contents(Templates[t].files)}
      /\ Templates[t].default \in Values
    BY AppAssumption
<1>3. \A S \in SUBSET Contents(Templates[t].files) : S # None
    BY <1>2
<1>4. /\ \A f \in Templates[t].files : f.body \in {"raw", "plain"}
      /\ \A f \in Templates[t].files : f = [name |-> f.name, body |-> f.body]
    BY <1>1, SMT
<1>5. QED
    BY <1>2, <1>3, <1>4

\* The variable: whoever gives the value, it matches.
LEMMA CollectStep ==
    ASSUME AppInv, NEW p \in Procs, CollectTemplateVars(p)
    PROVE  AppInv'
<1> USE DEF Copying, Complete, Unrendered, Earlier, Unread, BuildPoints, At
<1>0. job[p] \in JobRecord /\ StageOf(job[p], scratch[p]) /\ job[p].pc = "collect"
    BY Here DEF CollectTemplateVars
<1>1. CASE Fail(p)
    BY <1>0, <1>1, FailStep
<1>2. ASSUME NEW value \in Values, Matches(p, value), Collected(p, value)
      PROVE  AppInv'
    <2> DEFINE j == [job[p] EXCEPT !.pc = "pre", !.var = value]
    <2>1. Inner(p, j)
        BY <1>2 DEF Collected
    <2>2. Onto(p, j, "pre") /\ j.manifest = job[p].manifest /\ j.var = value
        BY <1>0 DEF JobRecord, Points, Onto
    <2> HIDE DEF j
    <2>3. StageOf(j, scratch[p])
        BY <1>0, <1>2, <2>2 DEF StageOf, StageAt, Onto, Matches, Template
    <2>4. QED
        BY <1>0, <2>1, <2>2, <2>3, GoInner DEF Onto
<1>3. job[p].var \in Values /\ Template(p).default \in Values
    <2>1. job[p].args.template \in DOMAIN Templates
        BY <1>0 DEF StageOf, StageAt
    <2>2. QED
        BY <1>0, <2>1, TemplateFacts DEF JobRecord, Template
<1>4. {"", "a", "x"} = Values
    BY DEF Values
<1>5. CASE CollectSilently(p)
    BY <1>1, <1>2, <1>3, <1>5 DEF CollectSilently
<1>6. CASE CollectFromUser(p)
    BY <1>1, <1>2, <1>3, <1>4, <1>6 DEF CollectFromUser
<1>7. QED
    BY <1>5, <1>6 DEF CollectTemplateVars

\* What a hook and the include list leave: fewer files.
LEMMA FewerFiles ==
    ASSUME NEW template, NEW m, NEW files, NEW v, NEW s, NEW r, r \subseteq s
    PROVE  LET t == Templates[template]
           IN  /\ StageAt("pre", template, m, files, v, s) /\ (\A f \in r : f.name # t.pre)
                     => StageAt("render", template, m, files, v, r)
               /\ StageAt("post", template, m, files, v, s) /\ (\A f \in r : f.name # t.post)
                     => StageAt("cleanup", template, m, files, v, r)
               /\ StageAt("cleanup", template, m, files, v, s)
                  /\ (t.include # {} => \A f \in r : f.name \in t.include)
                     => StageAt("move", template, m, files, v, r)
<1> USE DEF Copying, Complete, Unrendered, Earlier, Unread
<1> DEFINE t == Templates[template]
<1>1. ASSUME StageAt("pre", template, m, files, v, s), \A f \in r : f.name # t.pre
      PROVE  StageAt("render", template, m, files, v, r)
    BY <1>1 DEF StageAt
<1>2. ASSUME StageAt("post", template, m, files, v, s), \A f \in r : f.name # t.post
      PROVE  StageAt("cleanup", template, m, files, v, r)
    BY <1>2 DEF StageAt
<1>3. ASSUME StageAt("cleanup", template, m, files, v, s),
             t.include # {} => \A f \in r : f.name \in t.include
      PROVE  StageAt("move", template, m, files, v, r)
    BY <1>3 DEF StageAt
<1>4. QED
    BY <1>1, <1>2, <1>3

\* The hooks: a hook has gone once it has run.
LEMMA HookStep ==
    ASSUME AppInv, NEW p \in Procs,
           \/ RunHook(p, "pre", Template(p).pre, "render")
           \/ RunHook(p, "post", Template(p).post, "cleanup")
    PROVE  AppInv'
<1> USE DEF Copying, Complete, Unrendered, Earlier, Unread, BuildPoints, At
<1>0. /\ job[p] \in JobRecord /\ StageOf(job[p], scratch[p]) /\ job[p].pc \in {"pre", "post"}
      /\ scratch = [q \in Procs |-> scratch[q]]
    BY Here DEF RunHook, AppInv, AppTypeOK
<1>1. CASE Fail(p)
    BY <1>0, <1>1, FailStep
<1>2. PICK next \in {"render", "cleanup"}, hook \in {Template(p).pre, Template(p).post} :
          /\ RunHook(p, job[p].pc, hook, next)
          /\ job[p].pc = "pre" => next = "render" /\ hook = Template(p).pre
          /\ job[p].pc = "post" => next = "cleanup" /\ hook = Template(p).post
    BY DEF RunHook
<1> DEFINE j == [job[p] EXCEPT !.pc = next]
           s == {f \in scratch[p] : f.name # hook}
<1>3. Onto(p, j, next) /\ j.manifest = job[p].manifest /\ j.var = job[p].var
    BY <1>0 DEF JobRecord, Points, Onto
<1>4. \A f \in scratch[p] : f.name # ""
    <2>1. job[p].args.template \in DOMAIN Templates
        BY <1>0 DEF StageOf, StageAt
    <2>2. \A f \in scratch[p] : \E g \in Template(p).files : f.name = g.name
        <3>1. CASE job[p].pc = "pre"
            BY <1>0, <3>1 DEF StageOf, StageAt, Template
        <3>2. CASE job[p].pc = "post"
            <4>1. scratch[p] \subseteq Contents(Template(p).files)
                BY <1>0, <3>2 DEF StageOf, StageAt, Template
            <4>2. QED
                BY <4>1 DEF Contents
        <3>3. QED
            BY <1>0, <3>1, <3>2
    <2>3. \A g \in Template(p).files : g.name # ""
        BY <2>1, TemplateFacts DEF Template
    <2>4. QED
        BY <2>2, <2>3
<1>5. hook = "" => s = scratch[p]
    BY <1>4
<1>6. CASE ~Fail(p)
    <2>1. /\ job' = [job EXCEPT ![p] = j] /\ scratch' = [scratch EXCEPT ![p] = s]
          /\ UNCHANGED <<place, app, alive, data, hurts, ttyaml>>
        <3>1. CASE hook = "" /\ To(p, next)
            BY <1>0, <1>5, <3>1 DEF To, Inner, Goto, World
        <3>2. CASE /\ scratch' = [scratch EXCEPT ![p] = {f \in @ : f.name # hook}]
                   /\ Goto(p, [job[p] EXCEPT !.pc = next])
                   /\ UNCHANGED <<World, hurts>>
            BY <1>0, <3>2 DEF Goto, World
        <3>3. QED
            BY <1>2, <1>6, <3>1, <3>2 DEF RunHook
    <2> HIDE DEF j
    <2>2. s \subseteq scratch[p] /\ \A f \in s : f.name # hook
        OBVIOUS
    <2> HIDE DEF s
    <2>3. StageAt(next, job[p].args.template, job[p].manifest, job[p].files, job[p].var, s)
        <3>1. CASE job[p].pc = "pre"
            <4>1. next = "render" /\ hook = Templates[job[p].args.template].pre
                BY <1>2, <3>1 DEF Template
            <4>2. QED
                BY <1>0, <2>2, <3>1, <4>1, FewerFiles DEF StageOf
        <3>2. CASE job[p].pc = "post"
            <4>1. next = "cleanup" /\ hook = Templates[job[p].args.template].post
                BY <1>2, <3>2 DEF Template
            <4>2. QED
                BY <1>0, <2>2, <3>2, <4>1, FewerFiles DEF StageOf
        <3>3. QED
            BY <1>0, <3>1, <3>2
    <2>4. StageOf(j, s)
        BY <1>3, <2>3 DEF StageOf, Onto
    <2>5. QED
        BY <1>0, <1>3, <2>1, <2>4, GoStep DEF AppInv, AppTypeOK, Onto
<1>7. QED
    BY <1>1, <1>6

\* One file, rendered.
OneRendered(f, v) == IF f.body = "raw" THEN File(f.name, v) ELSE f

\* Its name stays, and its body is a value or was no template.
LEMMA RenderedFile ==
    ASSUME NEW t \in DOMAIN Templates, NEW f \in Templates[t].files, NEW v \in Values,
           f.body = "raw" => v # ""
    PROVE  /\ OneRendered(f, v) \in Contents(Templates[t].files)
           /\ OneRendered(f, v).name = f.name
           /\ OneRendered(f, v).body = "x" => v = "x"
<1> DEFINE b == IF f.body = "raw" THEN v ELSE "plain"
<1>1. f.body \in {"raw", "plain"} /\ f = [name |-> f.name, body |-> f.body]
    BY TemplateFacts
<1>2. OneRendered(f, v) = [name |-> f.name, body |-> b]
    BY <1>1 DEF OneRendered, File
<1>3. b \in {"plain", "a", "x"} /\ (b = "x" => v = "x")
    BY DEF Values
<1> HIDE DEF b
<1>4. [name |-> f.name, body |-> b] \in Contents(Templates[t].files)
    BY <1>3 DEF Contents
<1>5. [name |-> f.name, body |-> b].name = f.name /\ [name |-> f.name, body |-> b].body = b
    OBVIOUS
<1>6. QED
    BY <1>2, <1>3, <1>4, <1>5

\* Rendering keeps the names, one file of a name, and leaves nothing unrendered.
LEMMA RenderedFiles ==
    ASSUME NEW t \in DOMAIN Templates, NEW s, s \subseteq Templates[t].files, NEW v \in Values,
           (\E f \in s : f.body = "raw") => v # ""
    PROVE  /\ Rendered(s, v) \subseteq Contents(Templates[t].files)
           /\ \A f \in Rendered(s, v) : \E g \in s : f.name = g.name
           /\ \A f, g \in Rendered(s, v) : f.name = g.name => f = g
           /\ \A f \in Rendered(s, v) : f.body = "x" => v = "x"
<1>1. \A f, g \in s : f.name = g.name => f = g
    BY TemplateFacts
<1>2. \A f \in s : /\ OneRendered(f, v) \in Contents(Templates[t].files)
                   /\ OneRendered(f, v).name = f.name
                   /\ OneRendered(f, v).body = "x" => v = "x"
    BY RenderedFile
<1>3. \A f : f \in Rendered(s, v) <=> \E g \in s : f = OneRendered(g, v)
    BY DEF Rendered, OneRendered
<1>4. Rendered(s, v) \subseteq Contents(Templates[t].files)
    BY <1>2, <1>3
<1>5. \A f \in Rendered(s, v) : /\ \E g \in s : f.name = g.name
                                /\ f.body = "x" => v = "x"
    BY <1>2, <1>3
<1>6. \A f, g \in Rendered(s, v) : f.name = g.name => f = g
    <2> SUFFICES ASSUME NEW f \in Rendered(s, v), NEW g \in Rendered(s, v), f.name = g.name
                 PROVE  f = g
        OBVIOUS
    <2>1. PICK e \in s, h \in s : f = OneRendered(e, v) /\ g = OneRendered(h, v)
        BY <1>3
    <2>2. e.name = h.name
        BY <1>2, <2>1
    <2>3. QED
        BY <1>1, <2>1, <2>2
<1>7. QED
    BY <1>4, <1>5, <1>6

\* What rendering leaves.
LEMMA RenderedStage ==
    ASSUME NEW template, NEW m \in BOOLEAN, NEW files, NEW v, NEW s, NEW r,
           StageAt("render", template, m, files, v, s),
           r \subseteq Contents(Templates[template].files),
           \A f \in r : \E g \in s : f.name = g.name,
           \A f, g \in r : f.name = g.name => f = g,
           \A f \in r : f.body = "x" => v = "x"
    PROVE  /\ m => StageAt("post", template, m, files, v, r)
           /\ ~m => StageAt("move", template, m, files, v, r)
<1> USE DEF Copying, Complete, Unrendered, Earlier, Unread
<1>1. ASSUME m
      PROVE  StageAt("post", template, m, files, v, r)
    BY <1>1 DEF StageAt
<1>2. ASSUME ~m
      PROVE  StageAt("move", template, m, files, v, r)
    BY <1>2 DEF StageAt
<1>3. QED
    BY <1>1, <1>2

\* The templates are rendered.
LEMMA RenderStep ==
    ASSUME AppInv, NEW p \in Procs, RenderTemplate(p)
    PROVE  AppInv'
<1> USE DEF Copying, Complete, Unrendered, Earlier, Unread, BuildPoints, At
<1>0. job[p] \in JobRecord /\ StageOf(job[p], scratch[p]) /\ job[p].pc = "render"
    BY Here DEF RenderTemplate
<1>1. CASE Fail(p)
    BY <1>0, <1>1, FailStep
<1>2. CASE ~Fail(p)
    <2> DEFINE c == IF job[p].manifest THEN "post" ELSE "move"
               j == [job[p] EXCEPT !.pc = c]
               s == Rendered(scratch[p], job[p].var)
               t == Templates[job[p].args.template]
    <2>1. /\ job' = [job EXCEPT ![p] = j] /\ scratch' = [scratch EXCEPT ![p] = s]
          /\ UNCHANGED <<place, app, alive, data, hurts, ttyaml>>
          /\ (\E f \in scratch[p] : f.body = "raw") => job[p].var # ""
        BY <1>2 DEF RenderTemplate, Goto, World, AppInv, AppTypeOK
    <2>2. /\ Onto(p, j, c) /\ j.manifest = job[p].manifest /\ j.var = job[p].var
          /\ c = IF job[p].manifest THEN "post" ELSE "move"
        BY <1>0 DEF JobRecord, Points, Onto
    <2>3. job[p].args.template \in DOMAIN Templates /\ scratch[p] \subseteq t.files /\ job[p].var \in Values
        BY <1>0 DEF StageOf, StageAt, JobRecord
    <2>4. /\ s \subseteq Contents(t.files)
          /\ \A f \in s : \E g \in scratch[p] : f.name = g.name
          /\ \A f, g \in s : f.name = g.name => f = g
          /\ \A f \in s : f.body = "x" => job[p].var = "x"
        BY <2>1, <2>3, RenderedFiles
    <2> HIDE DEF c, j, s
    <2>5. StageOf(j, s)
        <3>1. StageAt(c, job[p].args.template, job[p].manifest, job[p].files, job[p].var, s)
            <4>1. job[p].manifest \in BOOLEAN
                BY <1>0 DEF JobRecord
            <4>2. StageAt("render", job[p].args.template, job[p].manifest, job[p].files,
                          job[p].var, scratch[p])
                BY <1>0 DEF StageOf
            <4>3. CASE job[p].manifest
                <5>1. c = "post"
                    BY <2>2, <4>3
                <5>2. QED
                    BY <2>4, <4>1, <4>2, <4>3, <5>1, RenderedStage
            <4>4. CASE ~job[p].manifest
                <5>1. c = "move"
                    BY <2>2, <4>4
                <5>2. QED
                    BY <2>4, <4>1, <4>2, <4>4, <5>1, RenderedStage
            <4>5. QED
                BY <4>3, <4>4
        <3>2. QED
            BY <2>2, <3>1 DEF StageOf, Onto
    <2>6. QED
        BY <1>0, <2>1, <2>2, <2>5, GoStep DEF AppInv, AppTypeOK, Onto
<1>3. QED
    BY <1>1, <1>2

\* The include list.
LEMMA CleanupStep ==
    ASSUME AppInv, NEW p \in Procs, Cleanup(p)
    PROVE  AppInv'
<1> USE DEF Copying, Complete, Unrendered, Earlier, Unread, BuildPoints, At
<1> DEFINE j == [job[p] EXCEPT !.pc = "move"]
           keep == Template(p).include
           s == {f \in scratch[p] : keep = {} \/ f.name \in keep}
<1>0. job[p] \in JobRecord /\ StageOf(job[p], scratch[p]) /\ job[p].pc = "cleanup"
    BY Here DEF Cleanup
<1>1. /\ job' = [job EXCEPT ![p] = j] /\ scratch' = [scratch EXCEPT ![p] = s]
      /\ UNCHANGED <<place, app, alive, data, hurts, ttyaml>>
    BY DEF Cleanup, Goto, World, AppInv, AppTypeOK
<1>2. Onto(p, j, "move") /\ j.manifest = job[p].manifest /\ j.var = job[p].var
    BY <1>0, ZenonT(60) DEF JobRecord, Points, Onto
<1>3. /\ s \subseteq scratch[p] /\ (keep # {} => \A f \in s : f.name \in keep)
      /\ keep = Templates[job[p].args.template].include
    BY DEF Template
<1> HIDE DEF j, s, keep
<1>4. StageAt("move", job[p].args.template, job[p].manifest, job[p].files, job[p].var, s)
    <2>1. StageAt("cleanup", job[p].args.template, job[p].manifest, job[p].files, job[p].var, scratch[p])
        BY <1>0 DEF StageOf
    <2>2. Templates[job[p].args.template].include # {} =>
              \A f \in s : f.name \in Templates[job[p].args.template].include
        BY <1>3
    <2>3. QED
        BY <1>3, <2>1, <2>2, FewerFiles
<1>5. StageOf(j, s)
    BY <1>2, <1>4 DEF StageOf, Onto
<1>6. QED
    BY <1>0, <1>1, <1>2, <1>5, GoStep DEF AppInv, AppTypeOK, Onto

\* A step of p that changes the application or its links: the other commands only learn
\* of it.
LEMMA ChangedFrame ==
    ASSUME AppInv, NEW p \in Procs, NEW j \in JobRecord, Changed(p, j),
           UNCHANGED <<place, ttyaml, scratch, alive, data, hurts>>,
           JobOf(j, scratch[p], alive), SparesOf(j, app'),
           app' # None => \A f \in app' : GoodFile(f)
    PROVE  AppInv'
<1>1. \A q \in Procs : [job[q] EXCEPT !.fresh = FALSE] \in JobRecord
    BY ZenonT(60) DEF AppInv, AppTypeOK, JobRecord
<1>2. AppTypeOK'
    BY <1>1 DEF AppInv, AppTypeOK, Changed
<1>3. ASSUME NEW q \in Procs
      PROVE  JobOf(job'[q], scratch'[q], alive') /\ SparesOf(job'[q], app')
    <2>1. CASE q = p
        BY <2>1 DEF Changed
    <2>2. CASE q # p
        <3> DEFINE k == [job[q] EXCEPT !.fresh = FALSE]
        <3>1. /\ k.pc = job[q].pc /\ k.args = job[q].args /\ k.var = job[q].var
              /\ k.manifest = job[q].manifest /\ k.i = job[q].i /\ k.files = job[q].files
              /\ k.ran = job[q].ran /\ k.out = job[q].out /\ k.cwd = job[q].cwd
              /\ k.up = job[q].up /\ k.fresh = FALSE
            BY DEF AppInv, AppTypeOK, JobRecord
        <3>2. job'[q] = k
            BY <2>2 DEF Changed
        <3> HIDE DEF k
        <3>3. JobOf(job[q], scratch[q], alive)
            BY DEF AppInv
        <3>4. StageOf(k, scratch[q])
            BY <3>1, <3>3 DEF JobOf, StageOf
        <3>5. BuildOf(k) /\ CleanOf(k, alive) /\ SparesOf(k, app')
            BY <3>1, <3>3 DEF JobOf, BuildOf, CleanOf, SparesOf
        <3>6. QED
            BY <3>2, <3>4, <3>5 DEF JobOf
    <2>3. QED
        BY <2>1, <2>2
<1>4. QED
    BY <1>2, <1>3 DEF AppInv

\* The second look at the target.
LEMMA MoveStep ==
    ASSUME AppInv, NEW p \in Procs, MoveAppDirectory(p)
    PROVE  AppInv'
<1> USE DEF Copying, Complete, Unrendered, Earlier, Unread, BuildPoints, At
<1> DEFINE j == [job[p] EXCEPT !.pc = "copy", !.fresh = TRUE]
<1>0. job[p] \in JobRecord /\ StageOf(job[p], scratch[p]) /\ job[p].pc = "move"
    BY Here DEF MoveAppDirectory
<1>1. CASE Fail(p)
    BY <1>0, <1>1, FailStep
<1>2. Onto(p, j, "copy") /\ j.manifest = job[p].manifest /\ j.var = job[p].var
    BY <1>0 DEF JobRecord, Points, Onto
<1>3. /\ ~Fail(p) => \/ app = None /\ Inner(p, j)
                     \/ /\ app' = None /\ Changed(p, j)
                        /\ UNCHANGED <<place, ttyaml, enabled, scratch, alive, data, jobs, hurts>>
    BY DEF MoveAppDirectory
<1> HIDE DEF j
<1>4. StageOf(j, scratch[p]) /\ j.files = {}
    BY <1>0, <1>2, ZenonT(60) DEF StageOf, StageAt, Onto
<1>5. JobOf(j, scratch[p], alive) /\ SparesOf(j, None)
    BY <1>0, <1>2, <1>4, Rest DEF JobOf, SparesOf, Onto
<1>6. QED
    BY <1>1, <1>2, <1>3, <1>5, InnerStep, ChangedFrame DEF Onto

\* A file in the temporary directory of a create that copies may go to an application.
LEMMA CopiedIsGood ==
    ASSUME NEW j, NEW s, StageOf(j, s), j.pc = "copy", NEW f \in s
    PROVE  GoodFile(f) /\ f \in Entries
<1> USE DEF Copying, Complete, Unrendered, Earlier, Unread
<1> DEFINE t == Templates[j.args.template]
<1>1. j.args.template \in DOMAIN Templates /\ f \in Contents(t.files)
    BY DEF StageOf, StageAt
<1>2. PICK g \in t.files : g.name = f.name
    BY <1>1 DEF Contents
<1>3. f.body \in {"plain", "a", "x"} /\ f = [name |-> f.name, body |-> f.body]
    BY <1>1 DEF Contents
<1>4. g \in Finished(t)
    BY <1>2 DEF StageOf, StageAt, Finished
<1>5. f.name \in Names(Finished(t)) /\ f.name \in Names(t.files)
    BY <1>2, <1>4 DEF Names
<1>6. f.body = "x" => ~(t.re /\ t.manifest = "ok")
    BY DEF StageOf, StageAt
<1>7. f.name \in FileNames
    BY <1>1, <1>5 DEF FileNames
<1>8. f \in Entries
    BY <1>3, <1>7 DEF Entries
<1>9. QED
    BY <1>1, <1>3, <1>5, <1>6, <1>8 DEF GoodFile

\* One file is copied, or the copy is over.
LEMMA CopyStep ==
    ASSUME AppInv, NEW p \in Procs, CopyFile(p)
    PROVE  AppInv'
<1> USE DEF Copying, Complete, Unrendered, Earlier, Unread, BuildPoints, At
<1>0. job[p] \in JobRecord /\ StageOf(job[p], scratch[p]) /\ job[p].pc = "copy"
    BY Here DEF CopyFile
<1>1. CASE /\ scratch' = [scratch EXCEPT ![p] = None]
           /\ Goto(p, [job[p] EXCEPT !.pc = "link"])
           /\ UNCHANGED <<World, hurts>>
    <2> DEFINE j == [job[p] EXCEPT !.pc = "link"]
    <2>1. job' = [job EXCEPT ![p] = j] /\ UNCHANGED <<place, app, alive, data, hurts, ttyaml>>
        BY <1>1 DEF Goto, World
    <2>2. Onto(p, j, "link")
        BY <1>0 DEF JobRecord, Points, Onto
    <2> HIDE DEF j
    <2>3. StageOf(j, None)
        BY <2>2, Elsewhere DEF Onto
    <2>4. QED
        BY <1>0, <1>1, <2>1, <2>2, <2>3, GoStep DEF AppInv, AppTypeOK, Onto
<1>2. ASSUME NEW f \in scratch[p] \ job[p].files,
             app' = {g \in (IF app = None THEN {} ELSE app) : g.name # f.name} \cup {f},
             Changed(p, [job[p] EXCEPT !.files = job[p].files \cup {f}]),
             UNCHANGED <<place, ttyaml, enabled, scratch, alive, data, jobs, hurts>>
      PROVE  AppInv'
    <2> DEFINE j == [job[p] EXCEPT !.files = job[p].files \cup {f}]
    <2>1. GoodFile(f) /\ f \in Entries
        BY <1>0, CopiedIsGood
    <2>2. app' # None => \A g \in app' : GoodFile(g)
        BY <1>2, <2>1 DEF AppInv
    <2>3. /\ j \in JobRecord /\ j.pc = job[p].pc /\ j.args = job[p].args /\ j.var = job[p].var
          /\ j.manifest = job[p].manifest /\ j.out = job[p].out /\ j.cwd = job[p].cwd
          /\ j.ran = job[p].ran /\ j.up = job[p].up /\ j.fresh = job[p].fresh
          /\ j.files = job[p].files \cup {f}
        BY <1>0, <2>1 DEF JobRecord
    <2>4. Changed(p, j)
        BY <1>2
    <2> HIDE DEF j
    <2>5. StageOf(j, scratch[p])
        BY <1>0, <1>2, <2>3, ZenonT(60) DEF StageOf, StageAt
    <2>6. SparesOf(j, app')
        <3> SUFFICES ASSUME ~job[p].args.force, job[p].fresh
                     PROVE  app' = job[p].files \cup {f}
            BY <2>3 DEF SparesOf
        <3>1. /\ app = IF job[p].files = {} THEN None ELSE job[p].files
              /\ job[p].files \subseteq scratch[p]
              /\ \A g, h \in scratch[p] : g.name = h.name => g = h
              /\ job[p].args.template \in DOMAIN Templates
              /\ scratch[p] \subseteq Contents(Templates[job[p].args.template].files)
            BY <1>0 DEF AppInv, SparesOf, StageOf, StageAt
        <3>2. job[p].files # None
            BY <3>1, TemplateFacts
        <3>3. (IF app = None THEN {} ELSE app) = job[p].files
            BY <3>1, <3>2
        <3>4. \A g \in job[p].files : g.name # f.name
            BY <1>2, <3>1
        <3>5. QED
            BY <1>2, <3>3, <3>4
    <2>7. JobOf(j, scratch[p], alive)
        BY <1>0, <2>3, <2>5, Rest DEF JobOf
    <2>8. QED
        BY <1>2, <2>2, <2>3, <2>4, <2>6, <2>7, ChangedFrame
<1>3. QED
    BY <1>1, <1>2 DEF CopyFile

-----------------------------------------------------------------------------
(* The links.                                                              *)

\* A step of the second half of a command: the temporary directory is gone.
LEMMA LaterStep ==
    ASSUME AppInv, NEW p \in Procs, NEW c \in {"link", "unlink", "symlink", "message", "status"},
           job[p].pc \in {"enable", "link", "unlink", "symlink", "clean"},
           \/ To(p, c)
           \/ /\ Changed(p, [job[p] EXCEPT !.pc = c])
              /\ UNCHANGED <<place, ttyaml, app, scratch, alive, data, jobs, hurts>>
    PROVE  AppInv'
<1> USE DEF Copying, Complete, Unrendered, Earlier, Unread, BuildPoints
<1> DEFINE j == [job[p] EXCEPT !.pc = c]
<1>0. job[p] \in JobRecord /\ StageOf(job[p], scratch[p])
    BY Here
<1>1. scratch[p] = None
    BY <1>0 DEF StageOf, StageAt
<1>2. Onto(p, j, c)
    BY <1>0, ZenonT(60) DEF JobRecord, Points, Onto
<1>3. \/ Inner(p, j)
      \/ Changed(p, j) /\ UNCHANGED <<place, ttyaml, app, scratch, alive, data, jobs, hurts>>
    BY DEF To
<1> HIDE DEF j
<1>4. StageOf(j, None) /\ SparesOf(j, app)
    BY <1>2, Elsewhere DEF Onto
<1>5. JobOf(j, scratch[p], alive) /\ SparesOf(j, app)
    BY <1>0, <1>1, <1>2, <1>4, Rest DEF JobOf, Onto
<1>6. j \in JobRecord
    BY <1>2 DEF Onto
<1>7. CASE Inner(p, j)
    BY <1>5, <1>6, <1>7, InnerStep
<1>8. CASE Changed(p, j) /\ UNCHANGED <<place, ttyaml, app, scratch, alive, data, jobs, hurts>>
    BY <1>5, <1>6, <1>8, ChangedFrame DEF AppInv
<1>9. QED
    BY <1>3, <1>7, <1>8

\* enable, and the links of create and enable.
LEMMA LinkStep ==
    ASSUME AppInv, NEW p \in Procs,
           \/ Enable(p) \/ StatOldLink(p) \/ RemoveOldLink(p) \/ Symlink(p)
           \/ PrintFollowUpMessage(p) \/ Clean(p)
    PROVE  AppInv'
<1>1. job[p].pc \in {"enable", "link", "unlink", "symlink", "message", "clean"}
    BY DEF At, Enable, StatOldLink, RemoveOldLink, Symlink, PrintFollowUpMessage, Clean
<1>2. CASE Fail(p)
    BY <1>1, <1>2, FailStep
<1>3. CASE Succeed(p)
    <2>1. job[p].pc \notin Copying
        BY <1>1 DEF Copying, Complete, Unrendered
    <2>2. QED
        BY <1>3, <2>1, EndStep DEF Succeed
<1>4. CASE Enable(p)
    BY <1>2, <1>4, LaterStep DEF Enable, At
<1>5. CASE StatOldLink(p) \/ RemoveOldLink(p)
    BY <1>2, <1>5, LaterStep DEF StatOldLink, RemoveOldLink, LinkFailed, At
<1>6. CASE Symlink(p)
    BY <1>2, <1>6, LaterStep DEF Symlink, LinkFailed, At
<1>7. CASE PrintFollowUpMessage(p)
    BY <1>2, <1>3, <1>7 DEF PrintFollowUpMessage
<1>8. CASE Clean(p)
    BY <1>2, <1>8, LaterStep DEF Clean, At
<1>9. QED
    BY <1>4, <1>5, <1>6, <1>7, <1>8

-----------------------------------------------------------------------------
(* tt build and tt clean.                                                  *)

\* Of what has run, only luarocks had its output thrown away.
Shown(ran) == \A n \in 1..Len(ran) : ran[n][1] # "make" => ran[n][2] = "tty"

\* A command of the build that is run joins those that have run.
LEMMA ShownStep ==
    ASSUME NEW r \in Seq(Ran), Shown(r), NEW x \in Ran, x[1] # "make" => x[2] = "tty"
    PROVE  Append(r, x) \in Seq(Ran) /\ Shown(Append(r, x))
BY SMT DEF Shown

\* A step of a build or a clean.
LEMMA PlainStep ==
    ASSUME AppInv, NEW p \in Procs, NEW j \in JobRecord, Inner(p, j),
           job[p].pc \in {"build", "status", "confirm", "remove"} \cup BuildPoints,
           j.pc \in {"idle", "status", "confirm", "remove"} \cup BuildPoints,
           BuildOf(j), CleanOf(j, alive)
    PROVE  AppInv'
<1> USE DEF Copying, Complete, Unrendered, Earlier, Unread, BuildPoints
<1>1. scratch[p] = None
    BY Here DEF StageOf, StageAt
<1>2. StageOf(j, None) /\ SparesOf(j, app)
    BY Elsewhere
<1>3. QED
    BY <1>1, <1>2, InnerStep DEF JobOf

\* What is known in a build.
LEMMA InBuild ==
    ASSUME AppInv, NEW p \in Procs
    PROVE  /\ job[p] \in JobRecord /\ Shown(job[p].ran) /\ job[p].up \subseteq alive
           /\ job[p].ran \in Seq(Ran)
           /\ job[p].pc # "make" => job[p].out = "tty"
<1>1. job[p] \in JobRecord
    BY Here
<1>2. job[p].ran \in Seq(Ran)
    BY <1>1 DEF JobRecord
<1>3. QED
    BY <1>1, <1>2 DEF AppInv, JobOf, BuildOf, CleanOf, Shown

\* The end of a build, whatever its outcome.
LEMMA EndBuild ==
    ASSUME AppInv, NEW p \in Procs, job[p].pc \in BuildPoints,
           NEW j, Inner(p, j), Over(j), Shown(j.ran)
    PROVE  AppInv'
<1>1. BuildOf(j) /\ CleanOf(j, alive)
    BY DEF BuildOf, CleanOf, Shown, Over
<1>2. QED
    BY <1>1, PlainStep DEF Over

\* buildLocal returns an error: the deferred functions restore the directory and the output.
LEMMA BuildFailsStep ==
    ASSUME AppInv, NEW p \in Procs, job[p].pc \in BuildPoints, BuildFails(p)
    PROVE  AppInv'
<1>1. job[p] \in JobRecord /\ Shown(job[p].ran) /\ job[p].ran \in Seq(Ran)
    BY InBuild
<1> DEFINE j == [Quiet EXCEPT !.res = "error", !.out = "tty", !.cwd = "env", !.ran = job[p].ran]
<1>2. Inner(p, j)
    <2>1. Restored(p).out = "tty" /\ Restored(p).cwd = "env"
        BY <1>1 DEF Restored, JobRecord
    <2>2. QED
        BY <2>1 DEF BuildFails
<1>3. Over(j) /\ j.ran = job[p].ran
    BY <1>1, QuietType, ZenonT(60) DEF Over, Quiet, JobRecord
<1> HIDE DEF j
<1>4. QED
    BY <1>1, <1>2, <1>3, EndBuild

\* A build that goes on.
LEMMA GoBuild ==
    ASSUME AppInv, NEW p \in Procs, job[p].pc \in {"build", "pre-build", "make"},
           NEW j \in JobRecord, Inner(p, j), j.pc \in BuildPoints, j.up = job[p].up,
           j.pc # "make" => j.out = "tty", Shown(j.ran)
    PROVE  AppInv'
<1>1. BuildOf(j) /\ CleanOf(j, alive)
    BY InBuild DEF BuildOf, CleanOf, Shown, BuildPoints
<1>2. QED
    BY <1>1, PlainStep DEF BuildPoints

\* buildLocal enters the directory and runs luarocks.
LEMMA BuildStep ==
    ASSUME AppInv, NEW p \in Procs, EnterBuildDir(p) \/ Make(p)
    PROVE  AppInv'
<1>0. /\ job[p] \in JobRecord /\ Shown(job[p].ran) /\ job[p].ran \in Seq(Ran)
      /\ job[p].pc # "make" => job[p].out = "tty"
    BY InBuild
<1>1. CASE EnterBuildDir(p)
    <2>1. job[p].pc = "build"
        BY <1>1 DEF EnterBuildDir, At
    <2>2. CASE Fail(p)
        BY <2>1, <2>2, FailStep
    <2>3. ASSUME NEW dir \in BuildDirs(p),
                 Inner(p, [job[p] EXCEPT !.pc = "pre-build", !.dir = dir, !.cwd = dir])
          PROVE  AppInv'
        <3> DEFINE j == [job[p] EXCEPT !.pc = "pre-build", !.dir = dir, !.cwd = dir]
        <3>1. /\ dir \in {"env", "app", "other"} /\ dir \in {"", "env", "app", "other"}
              /\ "pre-build" \in Points
            BY DEF BuildDirs, Points
        <3>2. /\ j \in JobRecord /\ j.pc = "pre-build" /\ j.up = job[p].up /\ j.out = job[p].out
              /\ j.ran = job[p].ran
            BY <1>0, <3>1 DEF JobRecord
        <3>3. Inner(p, j)
            BY <2>3
        <3> HIDE DEF j
        <3>4. QED
            BY <1>0, <2>1, <3>2, <3>3, GoBuild DEF BuildPoints
    <2>4. QED
        BY <1>1, <2>2, <2>3 DEF EnterBuildDir
<1>2. CASE Make(p)
    <2>1. job[p].pc = "make"
        BY <1>2 DEF Make, At
    <2>2. CASE BuildFails(p)
        BY <2>1, <2>2, BuildFailsStep DEF BuildPoints
    <2>3. CASE ~BuildFails(p)
        <3> DEFINE ran == Append(job[p].ran, <<"make", job[p].out>>)
                   j == [job[p] EXCEPT !.pc = "post-build", !.out = "tty", !.ran = ran]
        <3>1. <<"make", job[p].out>> \in Ran
            BY <1>0 DEF Ran, JobRecord
        <3>2. ran \in Seq(Ran) /\ Shown(ran)
            BY <1>0, <3>1, ShownStep
        <3>3. Inner(p, j)
            BY <1>2, <2>3 DEF Make
        <3> HIDE DEF ran
        <3>4. /\ j \in JobRecord /\ j.pc = "post-build" /\ j.up = job[p].up /\ j.out = "tty"
              /\ j.ran = ran
            BY <1>0, <3>2, ZenonT(60) DEF JobRecord, Points
        <3> HIDE DEF j
        <3>5. QED
            BY <2>1, <3>2, <3>3, <3>4, GoBuild DEF BuildPoints
    <2>4. QED
        BY <2>2, <2>3
<1>3. QED
    BY <1>1, <1>2

\* The hooks of a build, which run while stdout is that of the caller.
LEMMA HooksOfBuild ==
    ASSUME AppInv, NEW p \in Procs, PreBuild(p) \/ PostBuild(p)
    PROVE  AppInv'
<1>0. /\ job[p] \in JobRecord /\ Shown(job[p].ran) /\ job[p].ran \in Seq(Ran)
      /\ job[p].pc \in {"pre-build", "post-build"} /\ job[p].out = "tty"
    BY InBuild DEF PreBuild, PostBuild, At
<1>1. \A hooks : hooks \in {PreBuildScripts, PostBuildScripts} =>
          \A n \in 1..Len(hooks) : /\ <<hooks[n], job[p].out>> \in Ran
                                   /\ <<hooks[n], job[p].out>>[1] # "make"
                                   /\ <<hooks[n], job[p].out>>[2] = "tty"
    BY <1>0, SMT DEF PreBuildScripts, PostBuildScripts, Ran
<1>2. CASE BuildFails(p)
    BY <1>0, <1>2, BuildFailsStep DEF BuildPoints
<1>3. CASE PreBuild(p)
    <2> DEFINE after == [job[p] EXCEPT !.pc = "make",
                             !.out = IF job[p].args.verbose THEN "tty" ELSE "null"]
    <2>1. /\ after \in JobRecord /\ after.pc = "make" /\ after.up = job[p].up
          /\ after.ran = job[p].ran
        BY <1>0, ZenonT(60) DEF JobRecord, Points
    <2>2. RunBuildHook(p, PreBuildScripts, after) /\ job[p].pc = "pre-build"
        BY <1>3 DEF PreBuild, At
    <2> HIDE DEF after
    <2>3. ASSUME NEW ran \in Seq(Ran), Shown(ran)
          PROVE  LET j == [after EXCEPT !.ran = ran]
                 IN  /\ j \in JobRecord /\ j.pc = "make" /\ j.up = job[p].up /\ j.ran = ran
        BY <2>1, <2>3 DEF JobRecord
    <2>4. CASE Inner(p, after)
        BY <1>0, <2>1, <2>2, <2>4, GoBuild DEF BuildPoints
    <2>5. ASSUME NEW n \in 1..Len(PreBuildScripts),
                 Inner(p, [after EXCEPT !.ran = Append(job[p].ran, <<PreBuildScripts[n], job[p].out>>)])
          PROVE  AppInv'
        <3> DEFINE x == <<PreBuildScripts[n], job[p].out>>
                   j == [after EXCEPT !.ran = Append(job[p].ran, x)]
        <3>1. x \in Ran /\ x[1] # "make" /\ x[2] = "tty" /\ Inner(p, j)
            BY <1>1, <2>5
        <3> HIDE DEF x
        <3>2. Append(job[p].ran, x) \in Seq(Ran) /\ Shown(Append(job[p].ran, x))
            BY <1>0, <3>1, ShownStep
        <3>3. j \in JobRecord /\ j.pc = "make" /\ j.up = job[p].up /\ Shown(j.ran)
            BY <2>3, <3>2
        <3> HIDE DEF j
        <3>4. QED
            BY <2>2, <3>1, <3>3, GoBuild DEF BuildPoints
    <2>6. QED
        BY <1>2, <2>2, <2>4, <2>5 DEF RunBuildHook
<1>4. CASE PostBuild(p)
    <2> DEFINE after == [Quiet EXCEPT !.out = "tty", !.cwd = "env", !.ran = job[p].ran]
    <2>1. Restored(p).out = "tty" /\ Restored(p).cwd = "env"
        BY <1>0 DEF Restored, JobRecord
    <2>2. RunBuildHook(p, PostBuildScripts, after) /\ job[p].pc \in BuildPoints
        BY <1>4, <2>1 DEF PostBuild, At, BuildPoints
    <2>3. Over(after) /\ after.ran = job[p].ran
        BY <1>0, QuietType, ZenonT(60) DEF Over, Quiet, JobRecord
    <2> HIDE DEF after
    <2>4. CASE Inner(p, after)
        BY <1>0, <2>2, <2>3, <2>4, EndBuild
    <2>5. ASSUME NEW n \in 1..Len(PostBuildScripts),
                 Inner(p, [after EXCEPT !.ran = Append(job[p].ran, <<PostBuildScripts[n], job[p].out>>)])
          PROVE  AppInv'
        <3> DEFINE x == <<PostBuildScripts[n], job[p].out>>
                   ran == Append(job[p].ran, x)
                   j == [after EXCEPT !.ran = ran]
        <3>1. x \in Ran /\ x[1] # "make" /\ x[2] = "tty" /\ Inner(p, j)
            BY <1>1, <2>5
        <3> HIDE DEF x
        <3>2. ran \in Seq(Ran) /\ Shown(ran)
            BY <1>0, <3>1, ShownStep
        <3> HIDE DEF ran
        <3>3. Over(j) /\ j.ran = ran
            BY <2>3, <3>2 DEF Over, JobRecord
        <3> HIDE DEF j
        <3>4. QED
            BY <2>2, <3>1, <3>2, <3>3, EndBuild
    <2>6. QED
        BY <1>2, <2>2, <2>4, <2>5 DEF RunBuildHook
<1>5. QED
    BY <1>3, <1>4

\* What is known in a clean.
LEMMA InClean ==
    ASSUME AppInv, NEW p \in Procs, job[p].pc \in {"status", "confirm", "remove"}
    PROVE  /\ job[p] \in JobRecord /\ BuildOf(job[p]) /\ CleanOf(job[p], alive)
           /\ Turn(p) \in Insts /\ job[p].i \in 1..Len(Instances)
           /\ data \in [Insts -> SUBSET Entries]
           /\ scratch[p] = None
<1> USE DEF Copying, Complete, Unrendered, Earlier, Unread
<1>1. job[p] \in JobRecord /\ StageOf(job[p], scratch[p])
    BY Here
<1>2. job[p].i \in 1..Len(Instances)
    BY <1>1 DEF JobRecord
<1>3. BuildOf(job[p]) /\ CleanOf(job[p], alive) /\ data \in [Insts -> SUBSET Entries]
    BY DEF AppInv, AppTypeOK, JobOf
<1>4. QED
    BY <1>1, <1>2, <1>3 DEF Turn, Insts, StageOf, StageAt

\* The next instance, or the end.
LEMMA FollowingStep ==
    ASSUME AppInv, NEW p \in Procs, job[p].pc \in {"status", "confirm", "remove"},
           Inner(p, Following(p))
    PROVE  AppInv'
<1>0. /\ job[p] \in JobRecord /\ BuildOf(job[p]) /\ CleanOf(job[p], alive)
      /\ job[p].i \in 1..Len(Instances)
    BY InClean
<1>1. CASE job[p].i = Len(Instances)
    <2>1. Inner(p, Quiet)
        BY <1>1 DEF Following
    <2>2. QED
        BY <2>1, EndStep DEF Copying, Complete, Unrendered
<1>2. CASE job[p].i # Len(Instances)
    <2> DEFINE j == [job[p] EXCEPT !.pc = "status", !.i = job[p].i + 1, !.files = {}]
    <2>1. Inner(p, j)
        BY <1>2 DEF Following
    <2>2. job[p].i + 1 \in 1..Len(Instances) /\ "status" \in Points /\ {} \in SUBSET Entries
        <3>1. Len(Instances) \in Nat
            <4>1. Instances \in Seq(STRING)
                BY AppAssumption
            <4>2. QED
                BY <4>1, SMT
        <3>2. QED
            BY <1>0, <1>2, <3>1, SMT DEF Points
    <2>3. /\ j \in JobRecord /\ j.pc = "status" /\ j.up = job[p].up /\ j.out = job[p].out
          /\ j.cwd = job[p].cwd /\ j.ran = job[p].ran
        BY <1>0, <2>2 DEF JobRecord
    <2> HIDE DEF j
    <2>4. BuildOf(j) /\ CleanOf(j, alive)
        BY <1>0, <2>3 DEF BuildOf, CleanOf
    <2>5. QED
        BY <2>1, <2>3, <2>4, PlainStep
<1>3. QED
    BY <1>1, <1>2

\* A clean of one instance.
LEMMA CleanStep ==
    ASSUME AppInv, NEW p \in Procs, CheckStatus(p) \/ Confirm(p) \/ RemoveFile(p)
    PROVE  AppInv'
<1>1. job[p].pc \in {"status", "confirm", "remove"}
    BY DEF CheckStatus, Confirm, RemoveFile, At
<1>2. /\ job[p] \in JobRecord /\ BuildOf(job[p]) /\ CleanOf(job[p], alive)
      /\ Turn(p) \in Insts /\ data \in [Insts -> SUBSET Entries] /\ scratch[p] = None
    BY <1>1, InClean
<1>3. CASE Inner(p, Following(p))
    BY <1>1, <1>3, FollowingStep
<1>4. CASE CheckStatus(p) /\ ~Inner(p, Following(p))
    <2> DEFINE j == [job[p] EXCEPT !.pc = "confirm", !.files = data[Turn(p)]]
    <2>1. Inner(p, j) /\ Turn(p) \notin alive
        BY <1>4 DEF CheckStatus
    <2>2. /\ j \in JobRecord /\ j.pc = "confirm" /\ j.up = job[p].up /\ j.out = job[p].out
          /\ j.cwd = job[p].cwd /\ j.ran = job[p].ran /\ j.i = job[p].i
        BY <1>2 DEF JobRecord, Points
    <2> HIDE DEF j
    <2>3. BuildOf(j) /\ CleanOf(j, alive)
        BY <1>1, <1>2, <2>1, <2>2 DEF BuildOf, CleanOf, Turn
    <2>4. QED
        BY <1>1, <2>1, <2>2, <2>3, PlainStep
<1>5. CASE Confirm(p) /\ ~Inner(p, Following(p))
    <2> DEFINE j == [job[p] EXCEPT !.pc = "remove"]
    <2>1. Inner(p, j) /\ job[p].pc = "confirm"
        BY <1>5 DEF Confirm, To, At
    <2>2. /\ j \in JobRecord /\ j.pc = "remove" /\ j.up = job[p].up /\ j.out = job[p].out
          /\ j.cwd = job[p].cwd /\ j.ran = job[p].ran /\ j.i = job[p].i
        BY <1>2, ZenonT(60) DEF JobRecord, Points
    <2> HIDE DEF j
    <2>3. BuildOf(j) /\ CleanOf(j, alive)
        BY <1>2, <2>1, <2>2 DEF BuildOf, CleanOf
    <2>4. QED
        BY <2>1, <2>2, <2>3, PlainStep
<1>6. CASE RemoveFile(p) /\ ~Inner(p, Following(p))
    <2>1. PICK f \in job[p].files :
              /\ data' = [data EXCEPT ![Turn(p)] = @ \ {f}]
              /\ Goto(p, [job[p] EXCEPT !.files = @ \ {f}])
              /\ UNCHANGED <<place, ttyaml, app, enabled, scratch, alive, jobs, hurts>>
        BY <1>6 DEF RemoveFile
    <2> DEFINE j == [job[p] EXCEPT !.files = job[p].files \ {f}]
    <2>2. /\ j \in JobRecord /\ j.pc = job[p].pc /\ j.up = job[p].up /\ j.out = job[p].out
          /\ j.cwd = job[p].cwd /\ j.ran = job[p].ran /\ j.i = job[p].i
        BY <1>2 DEF JobRecord
    <2>3. job' = [job EXCEPT ![p] = j] /\ scratch' = [scratch EXCEPT ![p] = None]
        BY <1>2, <2>1 DEF Goto, AppInv, AppTypeOK
    <2> HIDE DEF j
    <2>4. BuildOf(j) /\ CleanOf(j, alive)
        BY <1>2, <2>2 DEF BuildOf, CleanOf
    <2>5. StageOf(j, None) /\ SparesOf(j, app)
        BY <1>1, <2>2, Elsewhere DEF Copying, Complete, Unrendered, Earlier, Unread
    <2>6. data' \in [Insts -> SUBSET Entries]
        BY <1>2, <2>1
    <2>7. QED
        BY <2>1, <2>2, <2>3, <2>4, <2>5, <2>6, Frame DEF JobOf, AppInv, AppTypeOK
<1>7. QED
    BY <1>3, <1>4, <1>5, <1>6

-----------------------------------------------------------------------------
(* The instances, the start of a command, and the theorems.                *)

\* A command starts with what it finds.
LEMMA StartStep ==
    ASSUME AppInv, NEW p \in Procs, NEW args \in Jobs, Start(p, args)
    PROVE  AppInv'
<1> USE DEF Copying, Complete, Unrendered, Earlier, Unread
<1> DEFINE j == [Quiet EXCEPT !.pc = args.op, !.args = args, !.cfg = ttyaml, !.up = alive]
<1>1. args.op \in {"init", "create", "enable", "build", "clean"}
    BY AppAssumption
<1>2. args.op \in Points
    BY <1>1 DEF Points
<1>3. ttyaml \in YamlFile /\ alive \in SUBSET Insts
    BY DEF AppInv, AppTypeOK
<1>4. /\ j \in JobRecord /\ j.pc = args.op /\ j.out = "tty" /\ j.cwd = "env" /\ j.ran = <<>>
      /\ j.up = alive /\ j.files = {} /\ j.manifest = FALSE
    BY <1>2, <1>3, QuietType DEF JobRecord, Quiet
<1>5. /\ job' = [job EXCEPT ![p] = j]
      /\ UNCHANGED <<place, ttyaml, app, enabled, scratch, alive, data, hurts>>
    BY DEF Start, Goto
<1> HIDE DEF j
<1>6. scratch[p] = None
    BY Here DEF Start, At, StageOf, StageAt
<1>7. StageOf(j, None)
    BY <1>1, <1>4 DEF StageOf, StageAt
<1>8. BuildOf(j) /\ CleanOf(j, alive) /\ SparesOf(j, app)
    BY <1>1, <1>4, SMT DEF BuildOf, CleanOf, SparesOf
<1>9. scratch' = [scratch EXCEPT ![p] = None]
    BY <1>5, <1>6 DEF AppInv, AppTypeOK
<1>10. QED
    BY <1>4, <1>5, <1>7, <1>8, <1>9, Frame DEF JobOf, AppInv, AppTypeOK

\* Instances start and stop while commands run.
LEMMA InstanceStep ==
    ASSUME AppInv, NEW i \in Insts, InstanceStarts(i) \/ InstanceStops(i)
    PROVE  AppInv'
<1>1. CASE InstanceStarts(i)
    <2>1. DataFiles \in SUBSET Entries
        BY SMT DEF DataFiles, Entries, FileNames, File
    <2>2. AppTypeOK'
        BY <1>1, <2>1 DEF InstanceStarts, AppInv, AppTypeOK
    <2>3. ASSUME NEW q \in Procs
          PROVE  JobOf(job[q], scratch[q], alive') /\ SparesOf(job[q], app)
        <3>1. JobOf(job[q], scratch[q], alive) /\ SparesOf(job[q], app)
            BY DEF AppInv
        <3>2. QED
            BY <1>1, <3>1 DEF JobOf, CleanOf, InstanceStarts
    <2>4. QED
        BY <1>1, <2>2, <2>3 DEF AppInv, InstanceStarts
<1>2. CASE InstanceStops(i)
    <2>1. ASSUME NEW q \in Procs
          PROVE  LET k == [job[q] EXCEPT !.up = @ \ {i}]
                 IN  k \in JobRecord /\ JobOf(k, scratch[q], alive') /\ SparesOf(k, app)
        <3> DEFINE k == [job[q] EXCEPT !.up = @ \ {i}]
        <3>1. /\ k \in JobRecord /\ k.pc = job[q].pc /\ k.args = job[q].args /\ k.var = job[q].var
              /\ k.manifest = job[q].manifest /\ k.i = job[q].i /\ k.files = job[q].files
              /\ k.ran = job[q].ran /\ k.out = job[q].out /\ k.cwd = job[q].cwd
              /\ k.up = job[q].up \ {i} /\ k.fresh = job[q].fresh
            <4>1. job[q] \in JobRecord
                BY Here
            <4>2. QED
                BY <4>1 DEF JobRecord
        <3> HIDE DEF k
        <3>2. JobOf(job[q], scratch[q], alive) /\ SparesOf(job[q], app)
            BY DEF AppInv
        <3>3. StageOf(k, scratch[q])
            BY <3>1, <3>2 DEF JobOf, StageOf
        <3>4. BuildOf(k) /\ SparesOf(k, app)
            BY <3>1, <3>2 DEF JobOf, BuildOf, SparesOf
        <3>5. CleanOf(k, alive')
            BY <1>2, <3>1, <3>2 DEF JobOf, CleanOf, InstanceStops
        <3>6. QED
            BY <3>1, <3>3, <3>4, <3>5 DEF JobOf, k
    <2>2. AppTypeOK'
        BY <1>2, <2>1 DEF InstanceStops, AppInv, AppTypeOK
    <2>3. \A q \in Procs : job'[q] = [job[q] EXCEPT !.up = @ \ {i}]
        BY <1>2 DEF InstanceStops
    <2>4. QED
        BY <1>2, <2>1, <2>2, <2>3 DEF AppInv, InstanceStops
<1>3. QED
    BY <1>1, <1>2

\* The start.
LEMMA AppStart == AppInit => AppInv
<1> SUFFICES ASSUME AppInit
             PROVE  AppInv
    OBVIOUS
<1>1. 1 \in 1..Len(Instances) /\ Instances[1] \in Insts
    <2>1. Instances \in Seq(STRING) /\ Instances # <<>>
        BY AppAssumption
    <2>2. QED
        BY <2>1, SMT DEF Insts
<1>2. DataFiles \in SUBSET Entries
    BY SMT DEF DataFiles, Entries, FileNames, File
<1>3. Over(Quiet) /\ Quiet.ran = <<>> /\ Quiet \in JobRecord /\ NoFile \in YamlFile
    BY QuietOver, QuietType
<1>4. [from |-> "old", enabled |-> "instances.enabled"] \in YamlFile
    BY DEF YamlFile
<1>5. AppTypeOK
    BY <1>1, <1>2, <1>3, <1>4 DEF AppInit, AppTypeOK
<1>6. JobOf(Quiet, None, alive) /\ SparesOf(Quiet, app)
    BY <1>3, OverIsFine, SMT
<1>7. \A f \in UserApp : GoodFile(f)
    BY SMT DEF GoodFile, UserApp, File, Names
<1>8. QED
    BY <1>5, <1>6, <1>7 DEF AppInit, AppInv

\* Every step of a command keeps the invariant.
LEMMA DoStep ==
    ASSUME AppInv, NEW p \in Procs, Do(p)
    PROVE  AppInv'
BY InitStep, PrepareStep, TemplateStep, CollectStep, HookStep, RenderStep, CleanupStep,
   MoveStep, CopyStep, LinkStep, BuildStep, HooksOfBuild, CleanStep DEF Do

\* The invariant, for any templates, commands, failures and kills.
THEOREM AppInvariance == AppSpec => []AppInv
<1>1. ASSUME AppInv, [AppNext]_avars
      PROVE  AppInv'
    <2>1. CASE UNCHANGED avars
        <3>1. AppTypeOK' /\ (app # None => \A f \in app : GoodFile(f))'
            BY <1>1, <2>1 DEF avars, AppInv, AppTypeOK, GoodFile
        <3>2. (\A p \in Procs : JobOf(job[p], scratch[p], alive) /\ SparesOf(job[p], app))'
            BY <1>1, <2>1 DEF avars, AppInv
        <3>3. QED
            BY <3>1, <3>2 DEF AppInv
    <2>2. ASSUME NEW p \in Procs, (\E args \in Jobs : Start(p, args)) \/ Do(p) \/ Hurt(p) \/ Kill(p)
          PROVE  AppInv'
        BY <1>1, <2>2, StartStep, DoStep, HurtStep
    <2>3. ASSUME NEW i \in Insts, InstanceStarts(i) \/ InstanceStops(i)
          PROVE  AppInv'
        BY <1>1, <2>3, InstanceStep
    <2>4. QED
        BY <1>1, <2>1, <2>2, <2>3 DEF AppNext
<1>2. QED
    BY <1>1, AppStart, PTL DEF AppSpec

\* create never spoils an application: the files of an application are the user's or
\* finished files of a template, rendered with a value its manifest accepts, and a create
\* without force adds to nothing (create.Run and its chain of steps), whatever overlaps.
THEOREM CreateSafe == AppSpec => []CreateIsSafe
<1>1. ASSUME AppInv
      PROVE  CreateIsSafe
    <2>1. OnlyFinishedFiles
        <3>1. ASSUME app # None, NEW n \in Names(app)
              PROVE  n \in Names(UserApp) \cup UNION {Names(Finished(Templates[t])) :
                                                      t \in DOMAIN Templates}
            <4>1. PICK f \in app : n = f.name
                BY <3>1 DEF Names
            <4>2. GoodFile(f)
                BY <1>1, <3>1 DEF AppInv
            <4>3. QED
                BY <4>1, <4>2 DEF GoodFile
        <3>2. QED
            BY <3>1 DEF OnlyFinishedFiles
    <2>2. VariablesValidated
        BY <1>1 DEF VariablesValidated, AppInv, GoodFile
    <2>3. UnforcedSpares
        BY <1>1 DEF UnforcedSpares, AppInv, SparesOf, At
    <2>4. QED
        BY <2>1, <2>2, <2>3 DEF CreateIsSafe
<1>2. QED
    BY <1>1, AppInvariance, PTL

\* A command that has ended has no temporary directory (create.Run and rollbackOnErr).
THEOREM NoTemporaries == AppSpec => []TemporariesRemoved
<1>1. ASSUME AppInv
      PROVE  TemporariesRemoved
    BY <1>1 DEF TemporariesRemoved, AppInv, JobOf, StageOf, StageAt, At, Copying, Unrendered, Complete
<1>2. QED
    BY <1>1, AppInvariance, PTL

\* However a build ends, stdout and the working directory are the caller's again, and only
\* the output of luarocks was thrown away (buildLocal and its deferred calls).
THEOREM BuildRestores == AppSpec => []BuildGivesBack
<1>1. ASSUME AppInv
      PROVE  BuildGivesBack
    BY <1>1 DEF BuildGivesBack, AppInv, JobOf, BuildOf, At
<1>2. QED
    BY <1>1, AppInvariance, PTL

\* A create or a build that ends by itself gives back what it took: the deferred calls of
\* create.Run and of buildLocal together leave nothing behind.
THEOREM GivesBack == AppSpec => []NothingLeftBehind
<1>1. TemporariesRemoved /\ BuildGivesBack => NothingLeftBehind
    BY DEF NothingLeftBehind
<1>2. QED
    BY <1>1, NoTemporaries, BuildRestores, PTL

\* A step of p that neither writes tt.yaml nor removes files of instances.
Touches(p) == UNCHANGED <<place, ttyaml, data, hurts>> /\ \E j : Goto(p, j) \/ Changed(p, j)

\* Only init writes tt.yaml, and only clean removes files of instances.
LEMMA DoTouches ==
    ASSUME NEW p \in Procs, Do(p)
    PROVE  Touches(p) \/ CheckExistingConfig(p) \/ GenerateTtEnv(p) \/ RemoveFile(p)
<1>1. \A j : Inner(p, j) => Touches(p)
    BY DEF Inner, World, Touches
<1>2. Fail(p) => Touches(p)
    BY DEF Fail, World, Touches
<1>3. LoadVarsFile(p) \/ FillTemplateVarsFromCli(p) \/ CreateTemporaryAppDirectory(p)
      \/ CopyAppTemplate(p) \/ LoadManifest(p) => Touches(p)
    BY <1>1, <1>2 DEF LoadVarsFile, FillTemplateVarsFromCli, CreateTemporaryAppDirectory,
       CopyAppTemplate, LoadManifest, To, World, Touches
<1>4. CollectTemplateVars(p) => Touches(p)
    BY <1>1, <1>2 DEF CollectTemplateVars, CollectSilently, CollectFromUser, Collected
<1>5. \A kind, hook, next : RunHook(p, kind, hook, next) => Touches(p)
    BY <1>1, <1>2 DEF RunHook, To, World, Touches
<1>6. RenderTemplate(p) \/ Cleanup(p) \/ MoveAppDirectory(p) => Touches(p)
    BY <1>1, <1>2 DEF RenderTemplate, Cleanup, MoveAppDirectory, World, Touches
<1>7. CopyFile(p) => Touches(p)
    BY DEF CopyFile, World, Touches
<1>8. Enable(p) \/ StatOldLink(p) \/ RemoveOldLink(p) \/ Symlink(p) \/ PrintFollowUpMessage(p) \/ Clean(p)
          => Touches(p)
    BY <1>1, <1>2 DEF Enable, StatOldLink, RemoveOldLink, Symlink, LinkFailed, PrintFollowUpMessage, Clean,
       Succeed, To, Touches
<1>9. EnterBuildDir(p) \/ PreBuild(p) \/ Make(p) \/ PostBuild(p) => Touches(p)
    BY <1>1, <1>2 DEF EnterBuildDir, PreBuild, Make, PostBuild, RunBuildHook, BuildFails
<1>10. CheckStatus(p) \/ Confirm(p) => Touches(p)
    BY <1>1 DEF CheckStatus, Confirm, To
<1>11. QED
    BY <1>3, <1>4, <1>5, <1>6, <1>7, <1>8, <1>9, <1>10 DEF Do

\* A clean removes no file of an instance that has run since before it (internalCleanModule
\* asks for the state of the instance before it lists the files).
THEOREM CleanSpares == AppSpec => CleanKeepsFiles
<1> DEFINE Keeps == \A p \in Procs : At(p, "remove") /\ job'[p] # job[p] =>
                        \A i \in job[p].up : data'[i] = data[i]
<1>1. ASSUME AppInv, AppNext
      PROVE  Keeps
    <2> SUFFICES ASSUME NEW p \in Procs, At(p, "remove"), job'[p] # job[p], data' # data,
                        NEW i \in job[p].up
                 PROVE  data'[i] = data[i]
        OBVIOUS
    <2>1. ASSUME NEW q \in Procs, RemoveFile(q)
          PROVE  data'[i] = data[i]
        <3>1. CASE Inner(q, Following(q))
            BY <3>1 DEF Inner, World
        <3>2. CASE ~Inner(q, Following(q))
            <4>1. PICK f, j : /\ data' = [data EXCEPT ![Turn(q)] = @ \ {f}]
                              /\ Goto(q, j)
                BY <2>1, <3>2 DEF RemoveFile
            <4>2. q = p
                BY <4>1, SMT DEF Goto
            <4>3. Turn(p) # i
                BY <1>1 DEF AppInv, JobOf, CleanOf, Turn, At
            <4>4. QED
                BY <4>1, <4>2, <4>3, SMT
        <3>3. QED
            BY <3>1, <3>2
    <2>2. ASSUME NEW q \in Procs, NEW args, Start(q, args)
          PROVE  data' = data
        BY <2>2 DEF Start
    <2>3. ASSUME NEW q \in Procs, Hurt(q) \/ Kill(q)
          PROVE  data' = data
        BY <2>3 DEF Hurt, Kill, World
    <2>4. ASSUME NEW q \in Procs, CheckExistingConfig(q) \/ GenerateTtEnv(q)
          PROVE  data' = data
        BY <2>4 DEF CheckExistingConfig, GenerateTtEnv, To, Inner, Fail, World
    <2>5. ASSUME NEW k \in Insts, InstanceStarts(k) \/ InstanceStops(k)
          PROVE  job' = job \/ data' = data
        BY <2>5 DEF InstanceStarts, InstanceStops
    <2>6. ASSUME NEW q \in Procs, Do(q)
          PROVE  data'[i] = data[i]
        BY <2>1, <2>4, <2>6, DoTouches DEF Touches
    <2>7. QED
        BY <1>1, <2>2, <2>3, <2>5, <2>6 DEF AppNext
<1>2. QED
    BY <1>1, AppInvariance, PTL DEF AppSpec, CleanKeepsFiles

\* Steps that leave tt.yaml alone, and the commands that are between its removal and the
\* new one.
LEMMA YamlKept ==
    ASSUME InitReplacesFaithfully, UNCHANGED <<place, ttyaml>>, hurts \in Nat,
           \/ hurts' = hurts + 1
           \/ hurts' = hurts /\ \A p \in Procs : At(p, "load") => job'[p].pc = "load"
    PROVE  InitReplacesFaithfully'
BY SMT DEF InitReplacesFaithfully, At

\* What the others are doing.
LEMMA OthersStay ==
    ASSUME AppInv, NEW p \in Procs, NEW j, Goto(p, j) \/ Changed(p, j), NEW q \in Procs, q # p
    PROVE  job'[q].pc = job[q].pc
<1>1. job \in [Procs -> JobRecord] /\ job[q] \in JobRecord
    BY DEF AppInv, AppTypeOK
<1>2. [job[q] EXCEPT !.fresh = FALSE].pc = job[q].pc
    BY <1>1 DEF JobRecord
<1>3. job'[q] = job[q] \/ job'[q] = [job[q] EXCEPT !.fresh = FALSE]
    BY <1>1 DEF Goto, Changed
<1>4. QED
    BY <1>2, <1>3

\* The old tt.yaml is removed: the new one is to come.
LEMMA CheckYaml ==
    ASSUME AppInv, InitReplacesFaithfully, NEW p \in Procs, CheckExistingConfig(p)
    PROVE  InitReplacesFaithfully'
<1>1. /\ job \in [Procs -> JobRecord] /\ job[p] \in JobRecord /\ hurts \in Nat
      /\ job[p].pc = "init"
    BY DEF AppInv, AppTypeOK, CheckExistingConfig, At
<1>2. ASSUME NEW j, Goto(p, j), UNCHANGED <<place, ttyaml, hurts>>
      PROVE  InitReplacesFaithfully'
    <2>1. \A q \in Procs : At(q, "load") => job'[q].pc = "load"
        BY <1>1, <1>2, OthersStay DEF At
    <2>2. QED
        BY <1>1, <1>2, <2>1, YamlKept
<1>3. CASE ttyaml' = NoFile /\ Goto(p, [job[p] EXCEPT !.pc = "load"])
    <2>1. job'[p].pc = "load"
        BY <1>1, <1>3 DEF Goto, JobRecord
    <2>2. ttyaml'.from = "absent"
        BY <1>3 DEF NoFile
    <2>3. QED
        BY <2>1, <2>2 DEF InitReplacesFaithfully, At
<1>4. QED
    BY <1>2, <1>3 DEF CheckExistingConfig, To, Inner, Fail, World

\* The new one is written, unless the configuration that has precedence cannot be read.
LEMMA WriteYaml ==
    ASSUME AppInv, InitReplacesFaithfully, NEW p \in Procs, GenerateTtEnv(p)
    PROVE  InitReplacesFaithfully'
<1> DEFINE loaded == LoadedConfig(p)
<1>1. CASE loaded.status = "bad" /\ Fail(p)
    <2>1. "bad" \in {place.cartridge, place.ctl}
        BY <1>1 DEF LoadedConfig
    <2>2. UNCHANGED <<place, ttyaml>>
        BY <1>1 DEF Fail, World
    <2>3. QED
        BY <2>1, <2>2 DEF InitReplacesFaithfully
<1>2. CASE /\ loaded.status = "ok" /\ UNCHANGED place
           /\ ttyaml' = [from |-> loaded.from, enabled |-> InstancesEnabled(loaded)]
    <2>1. /\ loaded.from # "absent"
          /\ loaded.from = "ctl" => place.cartridge = "none" /\ place.ctl = "ok"
          /\ loaded.from = "default" => place.cartridge = "none" /\ place.ctl = "none"
        BY <1>2 DEF LoadedConfig
    <2> HIDE DEF loaded
    <2>2. ttyaml'.from = loaded.from
        BY <1>2
    <2>3. QED
        BY <1>2, <2>1, <2>2 DEF InitReplacesFaithfully, NoFile
<1>3. QED
    BY <1>1, <1>2 DEF GenerateTtEnv

\* tt.yaml is lost only to a configuration that cannot be read, to a new file that cannot be
\* written or to a kill, and what replaces it is the configuration that has precedence (init.Run, checkExistingConfig and
\* generateTtEnv).
THEOREM InitFaithful == AppSpec => []InitReplacesFaithfully
<1>1. AppInit => InitReplacesFaithfully
    BY SMT DEF AppInit, InitReplacesFaithfully, NoFile
<1>2. ASSUME AppInv, InitReplacesFaithfully, [AppNext]_avars
      PROVE  InitReplacesFaithfully'
    <2>0. job \in [Procs -> JobRecord] /\ hurts \in Nat
        BY <1>2 DEF AppInv, AppTypeOK
    <2>1. CASE UNCHANGED avars
        BY <1>2, <2>0, <2>1, YamlKept DEF avars, At
    <2>2. ASSUME NEW p \in Procs, Hurt(p) \/ Kill(p)
          PROVE  InitReplacesFaithfully'
        BY <1>2, <2>0, <2>2, YamlKept DEF Hurt, Kill, World
    <2>3. ASSUME NEW p \in Procs, ~At(p, "load"), Touches(p)
          PROVE  InitReplacesFaithfully'
        <3>1. \A q \in Procs : At(q, "load") => job'[q].pc = "load"
            BY <1>2, <2>3, OthersStay DEF Touches, At
        <3>2. QED
            BY <1>2, <2>0, <2>3, <3>1, YamlKept DEF Touches
    <2>4. ASSUME NEW p \in Procs, NEW args, Start(p, args)
          PROVE  InitReplacesFaithfully'
        BY <2>3, <2>4 DEF Start, Touches, At
    <2>5. ASSUME NEW p \in Procs, RemoveFile(p)
          PROVE  InitReplacesFaithfully'
        <3>1. PICK j : Goto(p, j)
            BY <2>5 DEF RemoveFile, Inner
        <3>2. UNCHANGED <<place, ttyaml, hurts>> /\ ~At(p, "load")
            BY <2>5 DEF RemoveFile, Inner, World, At
        <3>3. \A q \in Procs : At(q, "load") => job'[q].pc = "load"
            BY <1>2, <3>1, <3>2, OthersStay DEF At
        <3>4. QED
            BY <1>2, <2>0, <3>2, <3>3, YamlKept
    <2>6. ASSUME NEW p \in Procs, Do(p)
          PROVE  InitReplacesFaithfully'
        <3>1. At(p, "load") => GenerateTtEnv(p)
            BY <2>6 DEF Do, At, CheckExistingConfig, LoadVarsFile, FillTemplateVarsFromCli,
               CreateTemporaryAppDirectory, CopyAppTemplate, LoadManifest, CollectTemplateVars,
               RunHook, RenderTemplate, Cleanup, MoveAppDirectory, CopyFile, Enable,
               StatOldLink, RemoveOldLink, Symlink, PrintFollowUpMessage, EnterBuildDir, PreBuild, Make,
               PostBuild, Clean, CheckStatus, Confirm, RemoveFile
        <3>2. QED
            BY <1>2, <2>3, <2>5, <2>6, <3>1, DoTouches, CheckYaml, WriteYaml
    <2>7. ASSUME NEW i \in Insts, InstanceStarts(i) \/ InstanceStops(i)
          PROVE  InitReplacesFaithfully'
        <3>1. \A q \in Procs : job'[q].pc = job[q].pc
            <4>1. \A q \in Procs : [job[q] EXCEPT !.up = @ \ {i}].pc = job[q].pc
                BY <2>0, ZenonT(60) DEF JobRecord
            <4>2. \A q \in Procs : job'[q] = job[q] \/ job'[q] = [job[q] EXCEPT !.up = @ \ {i}]
                BY <2>7 DEF InstanceStarts, InstanceStops
            <4>3. QED
                BY <4>1, <4>2
        <3>2. QED
            BY <1>2, <2>0, <2>7, <3>1, YamlKept DEF InstanceStarts, InstanceStops, At
    <2>8. QED
        BY <1>2, <2>1, <2>2, <2>4, <2>6, <2>7 DEF AppNext
<1>3. QED
    BY <1>1, <1>2, AppInvariance, PTL DEF AppSpec

=============================================================================
