-------------------------- MODULE CConfigProofs --------------------------
(***************************************************************************)
(* For any set of instances, any number of concurrent commands and any     *)
(* number of outages: a replicaset command that reports success has had    *)
(* its config loaded.  An instance's version never goes back, because what *)
(* it may load is the file, whose version only grows; so it is enough to   *)
(* follow one command through its reload loop.                             *)
(*                                                                         *)
(* A command that nobody overlaps is alone with the file: what it has read *)
(* is what it changes, so its effect lasts until it ends.  Among such      *)
(* commands the voter mode is temporary, and expels that leave no instance *)
(* behind do not empty the replicaset.                                     *)
(*                                                                         *)
(* Under the Cartridge orchestrator, for any number of instances, commands *)
(* and stops: no replicaset's name is ever given to two.  A replicaset     *)
(* that has a name has a server, and Cartridge rejects an edit that would  *)
(* move a server, so an edit that names every instance also names every    *)
(* replicaset that it could double.  A command that meets no other and no  *)
(* stop has changed nothing when it reports an error: it sends one edit,   *)
(* and after that nothing can fail.                                        *)
(***************************************************************************)
EXTENDS CConfigApp, Cartridge, TLAPS

\* The steps are first-order unless they cite SMT.
USE Zenon

\* Steps before a command has published anything.
Early == {"idle", "discover", "config", "promote", "waitRW"}

\* The instances of D run with a config no older than the one c published.
Covered(c, D) == \A i \in D : loaded[i].version >= pub[c]

CommandInv(c) ==
  /\ pub[c] <= file.version
  /\ pc[c] \in Early => pub[c] = 0
  /\ result[c] # "none" => pc[c] = "done"
  /\ pc[c] = "reload" /\ c \notin failed => Covered(c, instances(c) \ todo[c])
  /\ result[c] = "ok" /\ pub[c] # 0 => Covered(c, instances(c))

NotAhead == \A i \in Instances : loaded[i].version <= file.version

IInv == TypeOK /\ NotAhead /\ \A c \in Commands : CommandInv(c)
---------------------------------------------------------------------------
(* Types. *)

\* A running command has a request, so its target is an instance.
LEMMA TargetType ==
  ASSUME TypeOK, NEW c \in Commands, pc[c] # "idle"
  PROVE  cmd[c] \in Request /\ target(c) \in Instances
<1>1. cmd[c] \in Request
  BY DEF TypeOK
<1> QED
  BY <1>1 DEF Request, target

\* Setting a path of a config yields a config (patchCConfigPromote,
\* patchCConfigDemote, patchCConfigExpel, patchCConfigElectionMode).
LEMMA PatchedType ==
  ASSUME TypeOK, NEW c \in Commands, pc[c] # "idle"
  PROVE  Patched(c, file) \in Config
<1>1. target(c) \in Instances
  BY TargetType
<1>2. file \in Config
  BY DEF TypeOK
<1> DEFINE i == target(c)
<1>3. /\ [file EXCEPT !.listen = @ \ {i}] \in Config
      /\ [file EXCEPT !.rw = @ \cup {i}] \in Config
      /\ [file EXCEPT !.leader = i] \in Config
      /\ [file EXCEPT !.rw = @ \ {i}] \in Config
      /\ [file EXCEPT !.candidate = @ \ {i}] \in Config
      /\ [file EXCEPT !.candidate = @ \cup {i}] \in Config
  BY <1>1, <1>2 DEF Config
<1> QED
  BY <1>2, <1>3 DEF Patched

\* Ending a command keeps the types of what it changes.
LEMMA EndType ==
  ASSUME TypeOK, NEW c \in Commands, NEW res \in {"ok", "error"}, End(c, res)
  PROVE  /\ pc' \in [Commands -> Steps]
         /\ result' \in [Commands -> {"none", "ok", "error"}]
BY DEF TypeOK, End, Goto, Steps

\* So does giving up, with or without the reload.
LEMMA AbortType ==
  ASSUME TypeOK, NEW c \in Commands, Abort(c)
  PROVE  /\ pc' \in [Commands -> Steps]
         /\ result' \in [Commands -> {"none", "ok", "error"}]
         /\ todo' \in [Commands -> SUBSET Instances]
         /\ failed' \subseteq Commands
<1>1. CASE pub[c] = 0
  BY <1>1, EndType DEF TypeOK, Abort
<1>2. CASE pub[c] # 0
  <2>1. instances(c) \in SUBSET Instances
    BY DEF TypeOK, instances
  <2> QED
    BY <1>2, <2>1, SMT DEF TypeOK, Abort, Goto, Steps
<1> QED
  BY <1>1, <1>2
\* The types are kept by every step of a command and of the instances.
LEMMA TypeStep == TypeOK /\ [Next]_vars => TypeOK'
<1> SUFFICES ASSUME TypeOK, [Next]_vars PROVE TypeOK'
  OBVIOUS
<1> USE AppAssumption DEF TypeOK, environment, discovered
<1>1. ASSUME NEW c \in Commands, Start(c) PROVE TypeOK'
  <2>1. PICK request \in Request : cmd' = [cmd EXCEPT ![c] = request]
    BY <1>1 DEF Start
  <2>2. pc' \in [Commands -> Steps] /\ pc' = [pc EXCEPT ![c] = "discover"]
    BY <1>1 DEF Start, Goto, Steps
  <2>3. request # None
    BY AppAssumption
  <2> QED
    BY <1>1, <2>1, <2>2, <2>3 DEF Start, Running
<1>2. ASSUME NEW c \in Commands, Discovered(c) PROVE TypeOK'
  BY <1>2, EndType, SMT DEF Discovered, Goto, Steps, End
<1>3. ASSUME NEW c \in Commands, ReadConfig(c) PROVE TypeOK'
  BY <1>3, EndType, SMT DEF ReadConfig, Goto, Steps, End
<1>4. ASSUME NEW c \in Commands, Collect(c) PROVE TypeOK'
  <2>1. pc[c] = "collect" /\ Patched(c, file) \in Config
    BY <1>4, PatchedType DEF Collect
  <2>2. CASE Abort(c) /\ UNCHANGED doc
    BY <1>4, <2>1, <2>2, AbortType, SMT DEF Collect, Goto, Abort, End
  <2>3. CASE /\ doc' = [doc EXCEPT ![c] = Patched(c, file)]
             /\ Goto(c, "truncate")
             /\ UNCHANGED <<todo, failed, result>>
    BY <1>4, <2>1, <2>3 DEF Collect, Goto, Steps
  <2> QED
    BY <1>4, <2>2, <2>3 DEF Collect
<1>5. ASSUME NEW c \in Commands, Truncate(c) PROVE TypeOK'
  <2>1. CASE Abort(c) /\ UNCHANGED file /\ doc' = [doc EXCEPT ![c] = None]
    BY <1>5, <2>1, AbortType, SMT DEF Truncate, Goto, Abort, End
  <2>2. CASE /\ file' = [file EXCEPT !.whole = FALSE]
             /\ Goto(c, "write")
             /\ UNCHANGED <<doc, todo, failed, result>>
    <3>1. file' \in Config
      BY <2>2 DEF Config
    <3> QED
      BY <1>5, <2>2, <3>1 DEF Truncate, Goto, Steps
  <2> QED
    BY <1>5, <2>1, <2>2 DEF Truncate
<1>6. ASSUME NEW c \in Commands, Write(c) PROVE TypeOK'
  <2>1. pc[c] = "write" /\ doc[c] \in Config /\ file.version \in Nat
    BY <1>6 DEF Write, Config
  <2>2. CASE Abort(c) /\ UNCHANGED <<file, pub>>
    BY <1>6, <2>1, <2>2, AbortType, SMT DEF Write, Goto, Abort, End
  <2>3. CASE file' = [doc[c] EXCEPT !.version = file.version + 1]
    <3>1. file' \in Config
      BY <2>1, <2>3, SMT DEF Config
    <3>2. instances(c) \subseteq Instances
      BY DEF instances
    <3>3. CASE UNCHANGED todo
      BY <1>6, <2>1, <2>3, <3>1, <3>3, AbortType, SMT
         DEF Write, Goto, Steps, Abort, End
    <3>4. CASE todo' = [todo EXCEPT ![c] = instances(c)]
      BY <1>6, <2>1, <2>3, <3>1, <3>2, <3>4, AbortType, SMT
         DEF Write, Goto, Steps, Abort, End
    <3> QED
      BY <1>6, <3>3, <3>4 DEF Write, Abort
  <2> QED
    BY <1>6, <2>2, <2>3 DEF Write
<1>7. ASSUME NEW c \in Commands, ReloadTarget(c) PROVE TypeOK'
  BY <1>7, AbortType, SMT DEF ReloadTarget, Load, Goto, Steps, Abort, End
<1>8. ASSUME NEW c \in Commands, WaitRO(c) PROVE TypeOK'
  BY <1>8, AbortType, SMT DEF WaitRO, Goto, Steps, Abort, End
<1>9. ASSUME NEW c \in Commands, PromoteElection(c) PROVE TypeOK'
  BY <1>9, TargetType, EndType, SMT DEF PromoteElection, Goto, Steps, End
<1>10. ASSUME NEW c \in Commands, WaitRW(c) PROVE TypeOK'
  BY <1>10, EndType, ZenonT(60) DEF WaitRW, Goto, Steps, End
<1>11. ASSUME NEW c \in Commands, Reloaded(c) PROVE TypeOK'
  BY <1>11, EndType DEF Reloaded, Goto, Steps, End
<1>12. ASSUME NEW c \in Commands, NEW i \in Instances, Visit(c, i)
       PROVE  TypeOK'
  <2>1. ViewOf(i) \subseteq Instances
    BY DEF ViewOf, Config
  <2> QED
    BY <1>12, <2>1, EndType, SMT DEF Visit, Goto, Steps, End
<1>13. ASSUME NEW c \in Commands, NEW i \in Instances, Reload(c, i)
       PROVE  TypeOK'
  BY <1>13, EndType, SMT DEF Reload, Load, Goto, Steps, End
<1>14. ASSUME NEW i \in Instances, Down(i) \/ Up(i) \/ Elect(i)
       PROVE  TypeOK'
  BY <1>14, SMT DEF Down, Up, Elect, Load
<1>15. ASSUME UNCHANGED vars PROVE TypeOK'
  BY <1>15 DEF vars
<1> QED
  BY <1>1, <1>2, <1>3, <1>4, <1>5, <1>6, <1>7, <1>8, <1>9, <1>10, <1>11,
     <1>12, <1>13, <1>14, <1>15 DEF Next, Step
---------------------------------------------------------------------------
(* Versions never go back. *)

Grows ==
  /\ file.version' >= file.version
  /\ \A i \in Instances : loaded[i].version' >= loaded[i].version

\* An instance that loads the file (reloadCConfig, or its start) does not
\* go back to an older version.
LEMMA LoadGrows ==
  ASSUME TypeOK, NotAhead, NEW i \in Instances, Load(i), file' = file
  PROVE  NotAhead' /\ Grows
<1>1. \A j \in Instances : loaded[j].version \in Nat
  BY DEF TypeOK, Config
<1>2. file.version \in Nat
  BY DEF TypeOK, Config
<1>3. \A j \in Instances : loaded'[j] = IF j = i THEN file ELSE loaded[j]
  BY DEF TypeOK, Load
<1> QED
  BY <1>1, <1>2, <1>3, SMT DEF NotAhead, Grows

\* Nothing goes back while neither the file nor a config in use changes.
LEMMA StillGrows ==
  ASSUME TypeOK, NotAhead, file.version' = file.version, loaded' = loaded
  PROVE  NotAhead' /\ Grows
BY SMT DEF TypeOK, Config, NotAhead, Grows

\* A publication (FileDataPublisher.Publish) makes the file newer.
LEMMA WriteGrows ==
  ASSUME TypeOK, NotAhead, loaded' = loaded,
         file.version' = file.version + 1
  PROVE  NotAhead' /\ Grows
BY SMT DEF TypeOK, Config, NotAhead, Grows

\* Every step of the commands and of the instances lets the versions grow.
LEMMA GrowsStep == TypeOK /\ NotAhead /\ [Next]_vars => NotAhead' /\ Grows
<1> SUFFICES ASSUME TypeOK, NotAhead, [Next]_vars PROVE NotAhead' /\ Grows
  OBVIOUS
<1> USE DEF environment, discovered
<1>1. ASSUME NEW c \in Commands,
             \/ Start(c) \/ Discovered(c) \/ ReadConfig(c) \/ Collect(c)
             \/ WaitRO(c) \/ PromoteElection(c) \/ WaitRW(c) \/ Reloaded(c)
             \/ \E i \in Instances : Visit(c, i)
      PROVE  NotAhead' /\ Grows
  <2>1. file' = file /\ loaded' = loaded
    BY <1>1 DEF Start, Discovered, ReadConfig, Collect, WaitRO,
                PromoteElection, WaitRW, Reloaded, Visit
  <2> QED
    BY <2>1, StillGrows
<1>2. ASSUME NEW c \in Commands, Truncate(c) PROVE NotAhead' /\ Grows
  <2>1. loaded' = loaded /\ file.version' = file.version
    BY <1>2 DEF Truncate, TypeOK, Config
  <2> QED
    BY <2>1, StillGrows
<1>3. ASSUME NEW c \in Commands, Write(c) PROVE NotAhead' /\ Grows
  <2>1. loaded' = loaded /\ doc[c] \in Config
    BY <1>3 DEF Write, TypeOK
  <2>2. CASE file' = file
    BY <2>1, <2>2, StillGrows
  <2>3. CASE file' = [doc[c] EXCEPT !.version = file.version + 1]
    <3>1. file.version' = file.version + 1
      BY <2>1, <2>3 DEF Config
    <3> QED
      BY <2>1, <3>1, WriteGrows
  <2> QED
    BY <1>3, <2>2, <2>3 DEF Write
<1>4. ASSUME NEW c \in Commands, ReloadTarget(c) PROVE NotAhead' /\ Grows
  <2>1. file' = file /\ target(c) \in Instances
    BY <1>4, TargetType DEF ReloadTarget
  <2>2. loaded' = loaded \/ Load(target(c))
    BY <1>4 DEF ReloadTarget
  <2> QED
    BY <2>1, <2>2, StillGrows, LoadGrows
<1>5. ASSUME NEW c \in Commands, NEW i \in Instances, Reload(c, i)
      PROVE  NotAhead' /\ Grows
  <2>1. file' = file /\ (loaded' = loaded \/ Load(i))
    BY <1>5 DEF Reload
  <2> QED
    BY <2>1, StillGrows, LoadGrows
<1>6. ASSUME NEW i \in Instances, Down(i) \/ Up(i) \/ Elect(i)
      PROVE  NotAhead' /\ Grows
  <2>1. file' = file /\ (loaded' = loaded \/ Load(i))
    BY <1>6 DEF Down, Up, Elect
  <2> QED
    BY <2>1, StillGrows, LoadGrows
<1>7. ASSUME UNCHANGED vars PROVE NotAhead' /\ Grows
  BY <1>7, StillGrows DEF vars
<1> QED
  BY <1>1, <1>2, <1>3, <1>4, <1>5, <1>6, <1>7 DEF Next, Step
---------------------------------------------------------------------------
(* One command. *)

\* What belongs to command d.
Idle(d) ==
  /\ pc'[d] = pc[d] /\ pub'[d] = pub[d] /\ result'[d] = result[d]
  /\ todo'[d] = todo[d] /\ (d \in failed' <=> d \in failed)
  /\ found'[d] = found[d] /\ members'[d] = members[d]

\* An instance that runs with a late enough config goes on doing so.
LEMMA CoveredGrows ==
  ASSUME TypeOK, TypeOK', Grows, NEW c \in Commands, pub'[c] = pub[c],
         NEW i \in Instances, loaded[i].version >= pub[c]
  PROVE  loaded'[i].version >= pub'[c]
<1>1. loaded[i].version \in Nat /\ loaded'[i].version \in Nat
  BY DEF TypeOK, Config
<1>2. pub[c] \in Nat
  BY DEF TypeOK
<1> QED
  BY <1>1, <1>2, SMT DEF Grows

\* A step of another command, or of an instance, keeps what holds of d.
LEMMA IdleKeeps ==
  ASSUME TypeOK, TypeOK', Grows, NEW d \in Commands, CommandInv(d), Idle(d)
  PROVE  CommandInv(d)'
<1>1. pub[d] \in Nat /\ file.version \in Nat /\ file.version' \in Nat
  BY DEF TypeOK, Config
<1>2. pub'[d] <= file'.version
  <2>1. pub[d] <= file.version /\ pub'[d] = pub[d]
    BY DEF CommandInv, Idle
  <2>2. file'.version >= file.version
    BY DEF Grows
  <2> QED
    BY <1>1, <2>1, <2>2, SMT
<1>3. instances(d) \subseteq Instances /\ instances(d)' = instances(d)
  BY DEF TypeOK, instances, Idle
<1>4. pub'[d] = pub[d] /\ todo'[d] = todo[d]
  BY DEF Idle
<1>5. \A i \in instances(d) :
        loaded[i].version >= pub[d] => loaded'[i].version >= pub'[d]
  BY <1>3, <1>4, CoveredGrows
<1> QED
  BY <1>2, <1>3, <1>4, <1>5 DEF CommandInv, Idle, Covered

\* A step of c leaves the other commands alone.
LEMMA OthersIdle ==
  ASSUME TypeOK, NEW c \in Commands, Step(c), NEW d \in Commands, d # c
  PROVE  Idle(d)
<1> USE DEF TypeOK, Idle, discovered, Goto, End
<1>1. CASE Start(c) \/ Discovered(c) \/ ReadConfig(c)
  BY <1>1 DEF Start, Discovered, ReadConfig
<1>2. CASE PromoteElection(c) \/ WaitRW(c) \/ Reloaded(c)
  BY <1>2 DEF PromoteElection, WaitRW, Reloaded
<1>3. ASSUME Abort(c)
      PROVE  /\ pc'[d] = pc[d] /\ result'[d] = result[d]
             /\ todo'[d] = todo[d] /\ (d \in failed' <=> d \in failed)
  BY <1>3 DEF Abort
<1>4. CASE Collect(c)
  BY <1>4, <1>3 DEF Collect
<1>5. CASE Truncate(c)
  BY <1>5, <1>3 DEF Truncate
<1>6. CASE Write(c)
  BY <1>6, <1>3 DEF Write
<1>7. CASE ReloadTarget(c)
  BY <1>7, <1>3 DEF ReloadTarget
<1>8. CASE WaitRO(c)
  BY <1>8, <1>3 DEF WaitRO
<1>9. ASSUME NEW i \in Instances, Visit(c, i) PROVE Idle(d)
  BY <1>9 DEF Visit
<1>10. ASSUME NEW i \in Instances, Reload(c, i) PROVE Idle(d)
  BY <1>10 DEF Reload
<1> QED
  BY <1>1, <1>2, <1>4, <1>5, <1>6, <1>7, <1>8, <1>9, <1>10 DEF Step
\* Steps of c before its reload loop, and giving up: nothing is claimed of
\* the instances yet.
LEMMA ClaimsNothing ==
  ASSUME TypeOK, TypeOK', Grows, NEW c \in Commands, CommandInv(c),
         result[c] = "none", pub'[c] = pub[c],
         \/ pc'[c] \notin Early /\ result'[c] = "none"
              /\ (pc'[c] = "reload" => c \in failed')
         \/ pub[c] = 0 /\ result'[c] = "none" /\ pc'[c] # "reload"
         \/ pc'[c] = "done" /\ result'[c] # "none"
              /\ (result'[c] = "ok" => pub[c] = 0)
  PROVE  CommandInv(c)'
<1>1. pub[c] \in Nat /\ file.version \in Nat /\ file.version' \in Nat
  BY DEF TypeOK, Config
<1>2. pub'[c] <= file'.version
  <2>1. pub[c] <= file.version
    BY DEF CommandInv
  <2>2. file'.version >= file.version
    BY DEF Grows
  <2> QED
    BY <1>1, <2>1, <2>2, SMT
<1> QED
  BY <1>2 DEF CommandInv, Early

\* Giving up keeps what holds of c.
LEMMA AbortKeeps ==
  ASSUME TypeOK, TypeOK', Grows, NEW c \in Commands, CommandInv(c),
         Abort(c), pc[c] \notin {"done"}, pub' = pub
  PROVE  CommandInv(c)'
<1>1. result[c] = "none"
  BY DEF CommandInv
<1>2. CASE pub[c] = 0
  <2>1. pc'[c] = "done" /\ result'[c] = "error"
    BY <1>2, SMT DEF Abort, End, Goto, TypeOK
  <2> QED
    BY <1>1, <2>1, ClaimsNothing
<1>3. CASE pub[c] # 0
  <2>1. pc'[c] = "reload" /\ result'[c] = "none" /\ c \in failed'
    BY <1>1, <1>3, SMT DEF Abort, Goto, TypeOK
  <2> QED
    BY <1>1, <2>1, ClaimsNothing DEF Early
<1> QED
  BY <1>2, <1>3

\* A step of c keeps what holds of c.
LEMMA OwnStep ==
  ASSUME TypeOK, TypeOK', Grows, NEW c \in Commands, CommandInv(c), Step(c)
  PROVE  CommandInv(c)'
<1>0. pc[c] # "done" => result[c] = "none"
  BY DEF CommandInv
<1>1. CASE Start(c)
  <2>1. /\ pub' = pub /\ pub[c] = 0 /\ result'[c] = result[c]
        /\ pc[c] = "idle" /\ pc'[c] = "discover"
    BY <1>1 DEF Start, Goto, TypeOK, CommandInv, Early
  <2> QED
    BY <1>0, <2>1, ClaimsNothing
<1>2. CASE Discovered(c)
  <2>1. pub' = pub /\ pub[c] = 0 /\ pc[c] = "discover"
    BY <1>2 DEF Discovered, CommandInv, Early
  <2>2. \/ pc'[c] = "config" /\ result' = result
        \/ pc'[c] = "done" /\ result'[c] = "error"
    BY <1>2, SMT DEF Discovered, Goto, End, TypeOK
  <2> QED
    BY <1>0, <2>1, <2>2, ClaimsNothing
<1>3. CASE ReadConfig(c)
  <2>1. pub' = pub /\ pub[c] = 0 /\ pc[c] = "config"
    BY <1>3 DEF ReadConfig, CommandInv, Early
  <2>2. \/ pc'[c] \in {"promote", "collect"} /\ result' = result
        \/ pc'[c] = "done" /\ result'[c] = "error"
    BY <1>3, ZenonT(60) DEF ReadConfig, Goto, End, TypeOK
  <2> QED
    BY <1>0, <2>1, <2>2, ClaimsNothing
<1>4. CASE Collect(c)
  <2>1. pub' = pub /\ pc[c] = "collect"
    BY <1>4 DEF Collect
  <2>2. CASE Abort(c)
    BY <2>1, <2>2, AbortKeeps
  <2>3. CASE pc'[c] = "truncate" /\ result' = result
    BY <1>0, <2>1, <2>3, ClaimsNothing DEF Early
  <2> QED
    BY <1>4, <2>2, <2>3 DEF Collect, Goto, TypeOK
<1>5. CASE Truncate(c)
  <2>1. pub' = pub /\ pc[c] = "truncate"
    BY <1>5 DEF Truncate
  <2>2. CASE Abort(c)
    BY <2>1, <2>2, AbortKeeps
  <2>3. CASE pc'[c] = "write" /\ result' = result
    BY <1>0, <2>1, <2>3, ClaimsNothing DEF Early
  <2> QED
    BY <1>5, <2>2, <2>3 DEF Truncate, Goto, TypeOK
<1>6. CASE Write(c)
  <2>1. pc[c] = "write" /\ doc[c] \in Config /\ file.version \in Nat
    BY <1>6, ZenonT(60) DEF Write, TypeOK, Config
  <2>2. CASE Abort(c) /\ UNCHANGED pub
    BY <2>1, <2>2, AbortKeeps
  <2>3. CASE /\ file' = [doc[c] EXCEPT !.version = file.version + 1]
             /\ pub' = [pub EXCEPT ![c] = file.version + 1]
             /\ UNCHANGED <<failed, result>>
             /\ \/ Goto(c, "reloadTarget")
                \/ /\ Goto(c, "reload")
                   /\ todo' = [todo EXCEPT ![c] = instances(c)]
    <3>1. pub'[c] = file'.version
      BY <2>1, <2>3 DEF TypeOK, Config
    <3>2. result'[c] = "none"
      BY <1>0, <2>1, <2>3
    <3>3. file'.version \in Nat
      BY DEF TypeOK, Config
    <3>4. instances(c)' = instances(c)
      BY <1>6 DEF Write, discovered, instances
    <3>5. \/ pc'[c] = "reloadTarget"
          \/ pc'[c] = "reload" /\ todo'[c] = instances(c)'
      BY <2>3, <3>4 DEF Goto, TypeOK
    <3> QED
      BY <3>1, <3>2, <3>3, <3>5, SMT DEF CommandInv, Covered, Early
  <2> QED
    BY <1>6, <2>2, <2>3 DEF Write
<1>7. CASE ReloadTarget(c)
  <2>1. pub' = pub /\ pc[c] = "reloadTarget"
    BY <1>7 DEF ReloadTarget
  <2>2. CASE Abort(c)
    BY <2>1, <2>2, AbortKeeps
  <2>3. CASE pc'[c] = "waitRO" /\ result' = result
    BY <1>0, <2>1, <2>3, ClaimsNothing DEF Early
  <2> QED
    BY <1>7, <2>2, <2>3 DEF ReloadTarget, Goto, TypeOK
<1>8. CASE WaitRO(c)
  <2>1. pub' = pub /\ pc[c] = "waitRO"
    BY <1>8 DEF WaitRO
  <2>2. CASE Abort(c)
    BY <2>1, <2>2, AbortKeeps
  <2>3. CASE pc'[c] = "collect" /\ result' = result
    BY <1>0, <2>1, <2>3, ClaimsNothing DEF Early
  <2> QED
    BY <1>8, <2>2, <2>3 DEF WaitRO, Goto, TypeOK
<1>9. CASE PromoteElection(c) \/ WaitRW(c)
  <2>1. pub' = pub /\ pub[c] = 0 /\ pc[c] # "done"
    BY <1>9 DEF PromoteElection, WaitRW, CommandInv, Early
  <2>2. \/ pc'[c] = "waitRW" /\ result' = result
        \/ pc'[c] = "done" /\ result'[c] \in {"ok", "error"}
    BY <1>9, SMT DEF PromoteElection, WaitRW, Goto, End, TypeOK
  <2> QED
    BY <1>0, <2>1, <2>2, ClaimsNothing
<1>10. ASSUME NEW i \in Instances, Visit(c, i) PROVE CommandInv(c)'
  <2>1. pub' = pub /\ pub[c] = 0 /\ pc[c] = "discover"
    BY <1>10 DEF Visit, CommandInv, Early
  <2>2. \/ pc'[c] = "discover" /\ result' = result
        \/ pc'[c] = "done" /\ result'[c] = "error"
    BY <1>10, <2>1 DEF Visit, Goto, End, TypeOK
  <2> QED
    BY <1>0, <2>1, <2>2, ClaimsNothing
<1>11. ASSUME NEW i \in Instances, Reload(c, i) PROVE CommandInv(c)'
  <2>1. /\ pub' = pub /\ file' = file /\ pc[c] = "reload"
        /\ instances(c)' = instances(c)
    BY <1>11 DEF Reload, discovered, instances
  <2>2. pub[c] <= file.version /\ result[c] = "none"
    BY <1>0, <2>1 DEF CommandInv
  <2>3. CASE i \notin up
    <3>1. pc'[c] = "done" /\ result'[c] = "error"
      BY <1>11, <2>3, ZenonT(60) DEF Reload, End, Goto, TypeOK
    <3> QED
      BY <2>1, <2>2, <3>1, ClaimsNothing
  <2>4. CASE i \in up /\ c \in failed'
    <3>1. pc'[c] = "reload" /\ result'[c] = "none"
      BY <1>11, <2>1, <2>2, <2>4 DEF Reload
    <3> QED
      BY <2>1, <2>2, <2>4, <3>1, ClaimsNothing DEF Early
  <2>5. CASE i \in up /\ c \notin failed'
    <3>1. /\ Load(i) /\ todo'[c] = todo[c] \ {i}
          /\ pc' = pc /\ result' = result /\ failed' = failed
      BY <1>11, <2>5 DEF Reload, TypeOK
    <3>2. loaded'[i].version >= pub'[c]
      <4>1. loaded'[i] = file
        BY <3>1 DEF Load, TypeOK
      <4>2. file.version \in Nat /\ pub[c] \in Nat
        BY DEF TypeOK, Config
      <4> QED
        BY <2>1, <2>2, <4>1, <4>2
    <3>3. instances(c) \subseteq Instances
      BY DEF TypeOK, instances
    <3>4. \A j \in instances(c) \ todo[c] : loaded'[j].version >= pub'[c]
      <4>1. \A j \in instances(c) \ todo[c] : loaded[j].version >= pub[c]
        BY <2>1, <2>5, <3>1 DEF CommandInv, Covered
      <4> QED
        BY <2>1, <3>3, <4>1, CoveredGrows
    <3>5. Covered(c, instances(c) \ todo[c])'
      BY <2>1, <3>1, <3>2, <3>4 DEF Covered
    <3> QED
      BY <2>1, <2>2, <3>1, <3>5 DEF CommandInv, Early
  <2> QED
    BY <2>3, <2>4, <2>5
<1>12. CASE Reloaded(c)
  <2>1. /\ pub' = pub /\ file' = file /\ loaded' = loaded
        /\ pc[c] = "reload" /\ todo[c] = {} /\ pc'[c] = "done"
        /\ instances(c)' = instances(c)
        /\ result'[c] = IF c \in failed THEN "error" ELSE "ok"
    BY <1>12 DEF Reloaded, End, Goto, discovered, instances, TypeOK
  <2>2. CASE c \in failed
    BY <1>0, <2>1, <2>2, ClaimsNothing
  <2>3. CASE c \notin failed
    <3>1. Covered(c, instances(c))
      BY <2>1, <2>3 DEF CommandInv, Covered
    <3> QED
      BY <2>1, <3>1 DEF CommandInv, Covered, Early
  <2> QED
    BY <2>2, <2>3
<1> QED
  BY <1>1, <1>2, <1>3, <1>4, <1>5, <1>6, <1>7, <1>8, <1>9, <1>10, <1>11,
     <1>12 DEF Step
---------------------------------------------------------------------------
(* The results. *)

\* The inductive invariant holds of every behaviour.
THEOREM Invariance == Spec => []IInv
<1>1. Init => IInv
  <2> SUFFICES ASSUME Init PROVE IInv
    OBVIOUS
  <2>1. file \in Config /\ file.version = 1
    BY DEF Init, Config
  <2>2. TypeOK
    <3>1. outages \in 0..MaxOutages /\ failover \in Failover /\ up = Instances
          /\ elected = None /\ failed = {} /\ overlapped = {}
      BY AppAssumption, SMT DEF Init
    <3>2. /\ loaded \in [Instances -> Config]
          /\ cmd \in [Commands -> Request \cup {None}]
          /\ leader \in [Commands -> Instances \cup {None}]
          /\ doc \in [Commands -> Config \cup {None}]
      BY <2>1 DEF Init
    <3>3. /\ todo \in [Commands -> SUBSET Instances]
          /\ found \in [Commands -> SUBSET Instances]
          /\ members \in [Commands -> SUBSET Instances]
      BY DEF Init
    <3>4. /\ pc \in [Commands -> Steps]
          /\ pub \in [Commands -> Nat]
          /\ result \in [Commands -> {"none", "ok", "error"}]
      BY DEF Init, Steps
    <3>5. \A c \in Commands : pc[c] = "idle"
      BY DEF Init
    <3> QED
      BY <2>1, <3>1, <3>2, <3>3, <3>4, <3>5 DEF TypeOK
  <2>3. NotAhead
    BY <2>1, SMT DEF Init, NotAhead
  <2>4. \A c \in Commands : CommandInv(c)
    <3> SUFFICES ASSUME NEW c \in Commands PROVE CommandInv(c)
      OBVIOUS
    <3>1. pub[c] = 0 /\ result[c] = "none"
      BY DEF Init
    <3>2. pc[c] = "idle"
      BY DEF Init
    <3>3. pub[c] <= file.version
      BY <2>1, <3>1, SMT
    <3> QED
      BY <3>1, <3>2, <3>3 DEF CommandInv
  <2> QED
    BY <2>2, <2>3, <2>4 DEF IInv
<1>2. IInv /\ [Next]_vars => IInv'
  <2> SUFFICES ASSUME IInv, [Next]_vars PROVE IInv'
    OBVIOUS
  <2>1. TypeOK /\ NotAhead /\ TypeOK' /\ NotAhead' /\ Grows
    BY TypeStep, GrowsStep DEF IInv
  <2>2. ASSUME NEW d \in Commands PROVE CommandInv(d)'
    <3>1. CommandInv(d)
      BY DEF IInv
    <3>2. ASSUME NEW c \in Commands, Step(c) PROVE CommandInv(d)'
      BY <2>1, <3>1, <3>2, OwnStep, OthersIdle, IdleKeeps
    <3>3. CASE \E i \in Instances : Down(i) \/ Up(i) \/ Elect(i)
      <4>1. Idle(d)
        BY <3>3 DEF Down, Up, Elect, Idle, discovered
      <4> QED
        BY <2>1, <3>1, <4>1, IdleKeeps
    <3>4. CASE UNCHANGED vars
      <4>1. Idle(d)
        BY <3>4 DEF vars, Idle
      <4> QED
        BY <2>1, <3>1, <4>1, IdleKeeps
    <3> QED
      BY <3>2, <3>3, <3>4 DEF Next
  <2> QED
    BY <2>1, <2>2 DEF IInv
<1> QED
  BY <1>1, <1>2, PTL DEF Spec

\* The variables keep their types.
THEOREM Types == Spec => []TypeOK
<1>1. IInv => TypeOK
  BY DEF IInv
<1> QED
  BY <1>1, Invariance, PTL

\* A replicaset command that has published a config and reports success has
\* left every member it had found with that config or a later one, for any
\* number of instances, overlapping commands and outages.
THEOREM SuccessIsLoaded == Spec => []OkMeansReloaded
<1>1. IInv => OkMeansReloaded
  BY DEF IInv, CommandInv, Covered, OkMeansReloaded
<1> QED
  BY <1>1, Invariance, PTL
---------------------------------------------------------------------------
(* Commands that nobody overlaps. *)

Alone(c) == c \notin overlapped /\ Running(c)

\* No other command runs next to one that nobody has overlapped.
Sole == \A c, d \in Commands : Alone(c) /\ Running(d) => d = c

\* What the checks of a command, once passed, mean for its later steps.
Checked(c) ==
  /\ pc[c] = "idle" => found[c] = {} /\ members[c] = {}
  /\ pc[c] \in {"promote", "waitRW"} => cmd[c].op = "promote"
  /\ pc[c] \notin {"idle", "discover", "done"} => MayChange(c)
  /\ pc[c] \in {"truncate", "write"} => ~PatchFails(c)

\* What a command that is alone knows of the file.
Tidy(c) ==
  Alone(c) =>
    /\ pc[c] \in {"collect", "truncate", "reloadTarget", "waitRO"} => file.whole
    /\ pc[c] \in {"truncate", "write"} =>
         doc[c] = [Patched(c, file) EXCEPT !.whole = TRUE]
    /\ pc[c] = "reload" /\ c \notin failed =>
         /\ file.whole /\ Effect(c)
         /\ \A i \in instances(c) \ todo[c] : loaded[i] = file

\* A step of a command is its first one, or one that changes neither the
\* request nor the overlap; it is never idle again.
LEMMA StepShape ==
  ASSUME TypeOK, NEW c \in Commands, Step(c)
  PROVE  /\ failover' = failover
         /\ pc[c] # "done" /\ pc'[c] # "idle"
         /\ \/ Start(c)
            \/ Running(c) /\ overlapped' = overlapped /\ cmd' = cmd
<1> USE DEF TypeOK, Running, environment, Goto, End
<1>1. CASE Start(c)
  BY <1>1 DEF Start
<1>2. CASE Discovered(c) \/ ReadConfig(c) \/ PromoteElection(c) \/ WaitRW(c)
           \/ Reloaded(c)
  BY <1>2 DEF Discovered, ReadConfig, PromoteElection, WaitRW, Reloaded
<1>3. ASSUME Abort(c) PROVE pc'[c] # "idle"
  BY <1>3 DEF Abort
<1>4. CASE Collect(c) \/ Truncate(c) \/ WaitRO(c)
  BY <1>3, <1>4 DEF Collect, Truncate, WaitRO
<1>5. CASE Write(c) \/ ReloadTarget(c)
  BY <1>3, <1>5, ZenonT(60) DEF Write, ReloadTarget
<1>6. CASE \E i \in Instances : Visit(c, i) \/ Reload(c, i)
  BY <1>6 DEF Visit, Reload
<1> QED
  BY <1>1, <1>2, <1>4, <1>5, <1>6 DEF Step

\* A command is overlapped as soon as two run at the same time (Start).
LEMMA SoleStep == TypeOK /\ Sole /\ [Next]_vars => Sole'
<1> SUFFICES ASSUME TypeOK, Sole, [Next]_vars,
                    NEW c \in Commands, NEW d \in Commands, Alone(c)', Running(d)'
             PROVE  d = c
  BY DEF Sole
<1>1. ASSUME NEW e \in Commands, Step(e) PROVE d = c
  <2>1. \A x \in Commands \ {e} : pc'[x] = pc[x]
    BY <1>1, OthersIdle DEF Idle
  <2>2. CASE Start(e)
    <3>1. /\ overlapped \subseteq overlapped'
          /\ \A x \in Commands : Running(x) => x \in overlapped' /\ e \in overlapped'
      BY <2>2 DEF Start
    <3>2. c \notin overlapped' /\ c \notin overlapped
      BY <3>1 DEF Alone
    <3>3. \A x \in Commands \ {e} : Running(x)' => Running(x)
      BY <2>1 DEF Running
    <3>4. CASE c # e
      BY <3>1, <3>2, <3>3, <3>4 DEF Alone
    <3>5. CASE c = e /\ d # e
      BY <3>1, <3>2, <3>3, <3>5
    <3> QED
      BY <3>4, <3>5
  <2>3. CASE Running(e) /\ overlapped' = overlapped
    <3>1. \A x \in Commands : Running(x)' => Running(x)
      BY <2>1, <2>3 DEF Running
    <3> QED
      BY <2>3, <3>1 DEF Sole, Alone
  <2> QED
    BY <1>1, <2>2, <2>3, StepShape
<1>2. CASE \E i \in Instances : Down(i) \/ Up(i) \/ Elect(i)
  BY <1>2 DEF Down, Up, Elect, Sole, Alone, Running
<1>3. CASE UNCHANGED vars
  BY <1>3 DEF vars, Sole, Alone, Running
<1> QED
  BY <1>1, <1>2, <1>3 DEF Next

\* What a step leaves of the others' requests.
LEMMA RequestKept ==
  ASSUME TypeOK, NEW c \in Commands, Step(c), NEW d \in Commands, d # c
  PROVE  cmd'[d] = cmd[d] /\ failover' = failover
<1>1. CASE Start(c)
  BY <1>1, StepShape DEF Start, TypeOK
<1> QED
  BY <1>1, StepShape

\* The checks a command has passed stay passed when others move.
LEMMA CheckedKept ==
  ASSUME NEW d \in Commands, Checked(d), Idle(d),
         cmd'[d] = cmd[d], failover' = failover
  PROVE  Checked(d)'
<1>1. MayChange(d)' = MayChange(d) /\ PatchFails(d)' = PatchFails(d)
  BY DEF MayChange, PatchFails, instances, target, Idle
<1> QED
  BY <1>1 DEF Checked, Idle

\* A command comes past a check only when it holds (Promote, Demote and Expel
\* of CConfigApplication, the patch functions).
LEMMA CheckedOwn ==
  ASSUME TypeOK, NEW c \in Commands, Checked(c), Step(c)
  PROVE  Checked(c)'
<1> USE DEF TypeOK, Goto, End
<1>1. CASE Start(c)
  <2>1. pc'[c] = "discover"
    BY <1>1 DEF Start
  <2> QED
    BY <2>1 DEF Checked
<1>2. ASSUME NEW i \in Instances, Visit(c, i) PROVE Checked(c)'
  <2>1. pc'[c] \in {"discover", "done"}
    BY <1>2 DEF Visit
  <2> QED
    BY <2>1 DEF Checked
<1>3. ASSUME cmd' = cmd, failover' = failover, UNCHANGED discovered
      PROVE  MayChange(c)' = MayChange(c) /\ PatchFails(c)' = PatchFails(c)
  BY <1>3 DEF MayChange, PatchFails, instances, target, discovered
<1>4. CASE Discovered(c)
  <2>1. \/ pc'[c] = "done"
        \/ pc'[c] = "config" /\ MayChange(c)
    BY <1>4 DEF Discovered
  <2>2. MayChange(c)' = MayChange(c)
    BY <1>3, <1>4 DEF Discovered, environment
  <2> QED
    BY <2>1, <2>2 DEF Checked
<1>5. CASE ReadConfig(c)
  <2>1. /\ cmd' = cmd /\ MayChange(c)
        /\ \/ pc'[c] \in {"done", "collect"}
           \/ pc'[c] = "promote" /\ cmd[c].op = "promote"
    BY <1>5 DEF ReadConfig, Checked
  <2>2. MayChange(c)' = MayChange(c)
    BY <1>3, <1>5 DEF ReadConfig, environment
  <2> QED
    BY <2>1, <2>2 DEF Checked
<1>6. ASSUME Abort(c) PROVE pc'[c] \in {"done", "reload"}
  BY <1>6 DEF Abort
<1>7. CASE Collect(c) \/ Truncate(c) \/ Write(c)
  <2>1. /\ pc'[c] \in {"done", "reload", "reloadTarget", "write", "truncate"}
        /\ pc'[c] = "truncate" => ~PatchFails(c)
        /\ pc'[c] = "write" => pc[c] = "truncate"
        /\ pc[c] \in {"collect", "truncate", "write"}
    BY <1>6, <1>7, SMT DEF Collect, Truncate, Write
  <2>2. MayChange(c)' = MayChange(c) /\ PatchFails(c)' = PatchFails(c)
    BY <1>3, <1>7 DEF Collect, Truncate, Write, environment
  <2> QED
    BY <2>1, <2>2 DEF Checked
<1>8. CASE PromoteElection(c) \/ WaitRW(c)
  <2>1. /\ pc[c] \in {"promote", "waitRW"} /\ cmd' = cmd
        /\ pc'[c] \in {"waitRW", "done"}
    BY <1>8 DEF PromoteElection, WaitRW
  <2>2. MayChange(c)' = MayChange(c)
    BY <1>3, <1>8 DEF PromoteElection, WaitRW, environment
  <2> QED
    BY <2>1, <2>2 DEF Checked
<1>9. CASE ReloadTarget(c) \/ WaitRO(c) \/ Reloaded(c)
           \/ \E i \in Instances : Reload(c, i)
  <2>1. /\ pc[c] \in {"reloadTarget", "waitRO", "reload"}
        /\ pc'[c] \in {"waitRO", "collect", "reload", "done"}
    BY <1>6, <1>9 DEF ReloadTarget, WaitRO, Reloaded, Reload
  <2>2. MayChange(c)' = MayChange(c)
    BY <1>3, <1>9 DEF ReloadTarget, WaitRO, Reloaded, Reload, environment
  <2> QED
    BY <2>1, <2>2 DEF Checked
<1> QED
  BY <1>1, <1>2, <1>4, <1>5, <1>7, <1>8, <1>9 DEF Step

\* Whether the file is cut short makes no difference to the other fields of
\* the config that is built from it.
LEMMA PatchedWhole ==
  ASSUME TypeOK, NEW c \in Commands, pc[c] # "idle", NEW b \in BOOLEAN
  PROVE  /\ Patched(c, file).whole = file.whole
         /\ [Patched(c, [file EXCEPT !.whole = b]) EXCEPT !.whole = TRUE]
              = [Patched(c, file) EXCEPT !.whole = TRUE]
<1>1. target(c) \in Instances /\ file \in Config
  BY TargetType DEF TypeOK
<1> DEFINE i == target(c)
           f == [file EXCEPT !.whole = b]
<1>2. /\ [file EXCEPT !.listen = @ \ {i}].whole = file.whole
      /\ [file EXCEPT !.rw = @ \cup {i}].whole = file.whole
      /\ [file EXCEPT !.leader = i].whole = file.whole
      /\ [file EXCEPT !.rw = @ \ {i}].whole = file.whole
      /\ [file EXCEPT !.candidate = @ \ {i}].whole = file.whole
      /\ [file EXCEPT !.candidate = @ \cup {i}].whole = file.whole
  BY <1>1 DEF Config
<1>3. /\ [[f EXCEPT !.listen = @ \ {i}] EXCEPT !.whole = TRUE]
           = [[file EXCEPT !.listen = @ \ {i}] EXCEPT !.whole = TRUE]
      /\ [[f EXCEPT !.rw = @ \cup {i}] EXCEPT !.whole = TRUE]
           = [[file EXCEPT !.rw = @ \cup {i}] EXCEPT !.whole = TRUE]
      /\ [[f EXCEPT !.leader = i] EXCEPT !.whole = TRUE]
           = [[file EXCEPT !.leader = i] EXCEPT !.whole = TRUE]
      /\ [[f EXCEPT !.rw = @ \ {i}] EXCEPT !.whole = TRUE]
           = [[file EXCEPT !.rw = @ \ {i}] EXCEPT !.whole = TRUE]
      /\ [[f EXCEPT !.candidate = @ \ {i}] EXCEPT !.whole = TRUE]
           = [[file EXCEPT !.candidate = @ \ {i}] EXCEPT !.whole = TRUE]
      /\ [[f EXCEPT !.candidate = @ \cup {i}] EXCEPT !.whole = TRUE]
           = [[file EXCEPT !.candidate = @ \cup {i}] EXCEPT !.whole = TRUE]
      /\ [f EXCEPT !.whole = TRUE] = [file EXCEPT !.whole = TRUE]
  BY <1>1 DEF Config
<1>4. Patched(c, file).whole = file.whole
  BY <1>2 DEF Patched
<1>5. [Patched(c, f) EXCEPT !.whole = TRUE] = [Patched(c, file) EXCEPT !.whole = TRUE]
  BY <1>3 DEF Patched
<1> QED
  BY <1>4, <1>5

\* When another command moves, a command is not alone any more.
LEMMA MovesAlone ==
  ASSUME TypeOK, Sole, NEW c \in Commands, Step(c), NEW d \in Commands, d # c
  PROVE  ~Alone(d)'
<1> SUFFICES ASSUME Alone(d)' PROVE FALSE
  OBVIOUS
<1>1. Running(d)
  BY OthersIdle DEF Alone, Running, Idle
<1>2. CASE Start(c)
  BY <1>1, <1>2 DEF Start, Alone
<1>3. CASE Running(c) /\ overlapped' = overlapped
  BY <1>1, <1>3 DEF Sole, Alone
<1> QED
  BY <1>2, <1>3, StepShape

\* What an instance does keeps what a command that is alone knows: an instance
\* loads nothing but the file.
LEMMA TidyKept ==
  ASSUME TypeOK, NEW d \in Commands, Tidy(d), Idle(d), file' = file,
         UNCHANGED <<doc, cmd, failover, overlapped>>,
         loaded' = loaded \/ \E i \in Instances : Load(i)
  PROVE  Tidy(d)'
<1>1. \A i \in Instances : loaded[i] = file => loaded'[i] = file
  BY DEF Load, TypeOK
<1>2. Effect(d)' = Effect(d) /\ Patched(d, file)' = Patched(d, file)
  BY DEF Effect, Patched, Demoting, target, Idle
<1>3. instances(d)' = instances(d) /\ instances(d) \subseteq Instances
  BY DEF instances, Idle, TypeOK
<1> QED
  BY <1>1, <1>2, <1>3 DEF Tidy, Alone, Running, Idle

\* The publication of what was patched (FileDataPublisher.Publish) has the
\* command's effect, unless it is the first one of a demotion.
LEMMA WriteHasEffect ==
  ASSUME TypeOK, NEW c \in Commands, pc[c] = "write", ~PatchFails(c),
         doc[c] = [Patched(c, file) EXCEPT !.whole = TRUE],
         file' = [doc[c] EXCEPT !.version = file.version + 1],
         UNCHANGED <<cmd, failover>>, ~(Demoting(c) /\ pub[c] = 0)
  PROVE  file'.whole /\ Effect(c)'
<1>1. cmd[c] \in Request /\ target(c) \in Instances
  BY TargetType
<1>2. file \in Config /\ Patched(c, file) \in Config
  BY PatchedType DEF TypeOK
<1>3. /\ file'.whole = TRUE
      /\ file'.rw = Patched(c, file).rw /\ file'.leader = Patched(c, file).leader
      /\ file'.listen = Patched(c, file).listen
      /\ file'.candidate = Patched(c, file).candidate
  BY <1>2 DEF Config
<1> DEFINE i == target(c)
<1>4. CASE cmd[c].op = "expel"
  <2>1. Patched(c, file).listen = file.listen \ {i}
    BY <1>2, <1>4 DEF Patched, Config
  <2> QED
    BY <1>3, <1>4, <2>1 DEF Effect, Demoting, target
<1>5. CASE cmd[c].op = "promote"
  <2>1. failover \in {"off", "manual"}
    BY <1>5 DEF PatchFails
  <2>2. failover = "off" => Patched(c, file).rw = file.rw \cup {i}
    BY <1>2, <1>5 DEF Patched, Config
  <2>3. failover = "manual" => Patched(c, file).leader = i
    BY <1>2, <1>5 DEF Patched, Config
  <2> QED
    BY <1>3, <1>5, <2>1, <2>2, <2>3 DEF Effect, Demoting, target
<1>6. CASE cmd[c].op = "demote"
  <2>1. failover \in {"off", "election"}
    BY <1>6 DEF PatchFails
  <2>2. failover = "off" => Patched(c, file).rw = file.rw \ {i}
    BY <1>2, <1>6 DEF Patched, Config
  <2>3. failover = "election" => Patched(c, file).candidate = file.candidate \cup {i}
    BY <1>2, <1>6 DEF Patched, Config, Demoting
  <2> QED
    BY <1>3, <1>6, <2>1, <2>2, <2>3 DEF Effect, Demoting, target
<1> QED
  BY <1>1, <1>4, <1>5, <1>6 DEF Request, Operations, Effect

\* A command that is alone goes on knowing the file through its own steps.
LEMMA TidyOwn ==
  ASSUME TypeOK, NEW c \in Commands, Checked(c), Tidy(c), Step(c)
  PROVE  Tidy(c)'
<1> SUFFICES ASSUME Alone(c)' PROVE Tidy(c)'
  BY DEF Tidy
<1>1. CASE Start(c) \/ Discovered(c) \/ PromoteElection(c) \/ WaitRW(c) \/ Reloaded(c)
           \/ \E i \in Instances : Visit(c, i)
  <2>1. pc'[c] \in {"discover", "config", "waitRW", "done"}
    BY <1>1 DEF Start, Discovered, PromoteElection, WaitRW, Reloaded, Visit,
                Goto, End, TypeOK
  <2> QED
    BY <2>1 DEF Tidy
<1>2. CASE ReadConfig(c)
  <2>1. \/ pc'[c] \in {"done", "promote"}
        \/ pc'[c] = "collect" /\ file.whole /\ file' = file
    BY <1>2 DEF ReadConfig, Goto, End, TypeOK
  <2> QED
    BY <2>1 DEF Tidy
<1> SUFFICES ASSUME ~Start(c) PROVE Tidy(c)'
  BY <1>1
<1>3. /\ Alone(c) /\ pc[c] # "idle"
      /\ cmd' = cmd /\ failover' = failover /\ overlapped' = overlapped
  BY StepShape DEF Alone, Running
<1>4. ASSUME Abort(c) PROVE Tidy(c)'
  <2>1. \/ pc'[c] = "done"
        \/ pc'[c] = "reload" /\ c \in failed'
    BY <1>4 DEF Abort, End, Goto, TypeOK
  <2> QED
    BY <2>1 DEF Tidy
<1>5. CASE Collect(c) /\ ~Abort(c)
  <2>1. /\ pc'[c] = "truncate" /\ doc'[c] = Patched(c, file) /\ file' = file
        /\ pub' = pub
    BY <1>5 DEF Collect, Goto, TypeOK
  <2>2. file.whole
    BY <1>3, <1>5 DEF Tidy, Collect
  <2>3. Patched(c, file) \in Config /\ Patched(c, file).whole = TRUE
    <3>1. file.whole = TRUE
      BY <2>2 DEF TypeOK, Config
    <3> QED
      BY <1>3, <3>1, PatchedType, PatchedWhole
  <2>4. [Patched(c, file) EXCEPT !.whole = TRUE] = Patched(c, file)
    BY <2>3 DEF Config
  <2>5. Patched(c, file)' = Patched(c, file)
    BY <1>3, <2>1 DEF Patched, target
  <2> QED
    BY <2>1, <2>2, <2>4, <2>5 DEF Tidy
<1>6. CASE Truncate(c) /\ ~Abort(c)
  <2>1. /\ pc[c] = "truncate" /\ pc'[c] = "write" /\ doc' = doc
        /\ pub' = pub /\ file' = [file EXCEPT !.whole = FALSE]
    BY <1>6 DEF Truncate, Goto, TypeOK
  <2>2. doc[c] = [Patched(c, file) EXCEPT !.whole = TRUE]
    BY <1>3, <2>1 DEF Tidy
  <2>3. Patched(c, file)' = Patched(c, [file EXCEPT !.whole = FALSE])
    BY <1>3, <2>1 DEF Patched, target
  <2>4. [Patched(c, file)' EXCEPT !.whole = TRUE]
          = [Patched(c, file) EXCEPT !.whole = TRUE]
    BY <1>3, <2>3, PatchedWhole
  <2> QED
    BY <2>1, <2>2, <2>4 DEF Tidy
<1>7. CASE Write(c) /\ ~Abort(c)
  <2>1. /\ pc[c] = "write" /\ file' = [doc[c] EXCEPT !.version = file.version + 1]
        /\ doc[c] = [Patched(c, file) EXCEPT !.whole = TRUE] /\ ~PatchFails(c)
        /\ instances(c)' = instances(c)
    BY <1>3, <1>7 DEF Write, Tidy, Checked, discovered, instances
  <2>2. CASE Demoting(c) /\ pub[c] = 0
    <3>1. pc'[c] = "reloadTarget"
      BY <1>7, <2>2 DEF Write, Goto, TypeOK
    <3>2. Patched(c, file) \in Config
      BY <1>3, PatchedType
    <3>3. file'.whole
      BY <2>1, <3>2 DEF Config
    <3> QED
      BY <3>1, <3>3 DEF Tidy
  <2>3. CASE ~(Demoting(c) /\ pub[c] = 0)
    <3>1. pc'[c] = "reload" /\ todo'[c] = instances(c)
      BY <1>7, <2>3 DEF Write, Goto, TypeOK
    <3>2. file'.whole /\ Effect(c)'
      BY <1>3, <2>1, <2>3, WriteHasEffect
    <3> QED
      BY <2>1, <3>1, <3>2 DEF Tidy
  <2> QED
    BY <2>2, <2>3
<1>8. CASE (ReloadTarget(c) \/ WaitRO(c)) /\ ~Abort(c)
  <2>1. /\ pc[c] \in {"reloadTarget", "waitRO"} /\ pc'[c] \in {"waitRO", "collect"}
        /\ file' = file
    BY <1>8 DEF ReloadTarget, WaitRO, Goto, TypeOK
  <2> QED
    BY <1>3, <2>1 DEF Tidy
<1>9. ASSUME NEW i \in Instances, Reload(c, i) PROVE Tidy(c)'
  <2>1. /\ pc[c] = "reload" /\ file' = file /\ UNCHANGED <<found, members>>
        /\ \/ pc'[c] = "done"
           \/ pc'[c] = "reload" /\ c \in failed'
           \/ /\ pc'[c] = "reload" /\ failed' = failed /\ Load(i)
              /\ todo'[c] = todo[c] \ {i}
    BY <1>9 DEF Reload, discovered, Goto, End, TypeOK
  <2>2. CASE pc'[c] = "reload" /\ failed' = failed /\ Load(i) /\ c \notin failed
             /\ todo'[c] = todo[c] \ {i}
    <3>1. /\ file.whole /\ Effect(c)
          /\ \A j \in instances(c) \ todo[c] : loaded[j] = file
      BY <1>3, <2>1, <2>2 DEF Tidy
    <3>2. Effect(c)' = Effect(c)
      BY <1>3, <2>1, <2>2 DEF Effect, Demoting, target
    <3>3. \A j \in Instances : loaded'[j] = IF j = i THEN file ELSE loaded[j]
      BY <2>2 DEF Load, TypeOK
    <3>4. instances(c)' = instances(c) /\ instances(c) \subseteq Instances
      BY <2>1 DEF instances, TypeOK
    <3> QED
      BY <2>1, <2>2, <3>1, <3>2, <3>3, <3>4 DEF Tidy
  <2> QED
    BY <2>1, <2>2 DEF Tidy
<1> QED
  BY <1>1, <1>2, <1>4, <1>5, <1>6, <1>7, <1>8, <1>9 DEF Step

AloneInv == Sole /\ \A c \in Commands : Checked(c) /\ Tidy(c)

\* The instances change nothing of a command, and load nothing but the file.
LEMMA InstanceStep ==
  ASSUME TypeOK, NEW i \in Instances, Down(i) \/ Up(i) \/ Elect(i)
  PROVE  /\ \A d \in Commands : Idle(d)
         /\ UNCHANGED <<file, doc, cmd, failover, overlapped>>
         /\ loaded' = loaded \/ Load(i)
BY DEF Down, Up, Elect, Idle, discovered

\* What is known of commands that are alone is kept by every step.
LEMMA AloneStep == TypeOK /\ AloneInv /\ [Next]_vars => AloneInv'
<1> SUFFICES ASSUME TypeOK, AloneInv, [Next]_vars PROVE AloneInv'
  OBVIOUS
<1>1. Sole'
  BY SoleStep DEF AloneInv
<1>2. ASSUME NEW d \in Commands PROVE Checked(d)' /\ Tidy(d)'
  <2>1. Checked(d) /\ Tidy(d) /\ Sole
    BY DEF AloneInv
  <2>2. ASSUME NEW c \in Commands, Step(c) PROVE Checked(d)' /\ Tidy(d)'
    <3>1. CASE c = d
      BY <2>1, <2>2, <3>1, CheckedOwn, TidyOwn
    <3>2. CASE c # d
      <4>1. Checked(d)'
        BY <2>1, <2>2, <3>2, OthersIdle, RequestKept, CheckedKept
      <4>2. ~Alone(d)'
        BY <2>1, <2>2, <3>2, MovesAlone
      <4> QED
        BY <4>1, <4>2 DEF Tidy
    <3> QED
      BY <3>1, <3>2
  <2>3. CASE \E i \in Instances : Down(i) \/ Up(i) \/ Elect(i)
    <3>1. /\ Idle(d) /\ UNCHANGED <<file, doc, cmd, failover, overlapped>>
          /\ loaded' = loaded \/ \E i \in Instances : Load(i)
      BY <2>3, InstanceStep
    <3> QED
      BY <2>1, <3>1, CheckedKept, TidyKept
  <2>4. CASE UNCHANGED vars
    <3>1. Idle(d) /\ UNCHANGED <<file, loaded, doc, cmd, failover, overlapped>>
      BY <2>4 DEF vars, Idle
    <3> QED
      BY <2>1, <3>1, CheckedKept, TidyKept
  <2> QED
    BY <2>2, <2>3, <2>4 DEF Next
<1> QED
  BY <1>1, <1>2 DEF AloneInv

\* No command runs at first.
LEMMA AloneInit == Init => AloneInv
<1> SUFFICES ASSUME Init PROVE AloneInv
  OBVIOUS
<1>1. \A c \in Commands : pc[c] = "idle" /\ found[c] = {} /\ members[c] = {}
  BY DEF Init
<1> QED
  BY <1>1 DEF AloneInv, Sole, Checked, Tidy, Alone, Running

\* The invariants of all commands and of those that are alone.
THEOREM AloneInvariance == Spec => [](IInv /\ AloneInv)
<1>1. IInv => TypeOK
  BY DEF IInv
<1>2. TypeOK /\ AloneInv /\ [Next]_vars => AloneInv'
  BY AloneStep
<1> QED
  BY <1>1, <1>2, AloneInit, Invariance, PTL DEF Spec

\* A command that nobody overlaps and that ends with success leaves its change
\* in the config file, and the members it had found run with exactly that
\* file: only the end of the reload loop (reloadCConfig) reports success after
\* a publication.
THEOREM SuccessTakesEffect == Spec => OkTakesEffect
<1> DEFINE EndsWell(c) ==
      Running(c) /\ result'[c] = "ok" /\ pub[c] # 0 =>
         /\ file.whole /\ Effect(c)
         /\ \A i \in instances(c) : loaded[i] = file
<1>1. IInv /\ AloneInv /\ [Next]_vars => \A c \in Commands \ overlapped : EndsWell(c)
  <2> SUFFICES ASSUME IInv, AloneInv, [Next]_vars, NEW c \in Commands \ overlapped,
                      Running(c), result'[c] = "ok", pub[c] # 0
               PROVE  /\ file.whole /\ Effect(c)
                      /\ \A i \in instances(c) : loaded[i] = file
    OBVIOUS
  <2>1. TypeOK /\ CommandInv(c) /\ Tidy(c) /\ Alone(c)
    BY DEF IInv, AloneInv, Alone
  <2>2. result[c] = "none" /\ pc[c] \notin Early
    BY <2>1 DEF CommandInv, Running
  <2>3. ~Idle(c)
    BY <2>2 DEF Idle
  <2>4. Step(c)
    <3>1. ~UNCHANGED vars
      BY <2>3 DEF vars, Idle
    <3>2. \A i \in Instances : ~(Down(i) \/ Up(i) \/ Elect(i))
      BY <2>1, <2>3, InstanceStep
    <3>3. \A d \in Commands : Step(d) => d = c
      BY <2>1, <2>3, OthersIdle
    <3> QED
      BY <3>1, <3>2, <3>3 DEF Next
  <2>5. ASSUME Abort(c) PROVE FALSE
    BY <2>1, <2>2, <2>5 DEF Abort, End, TypeOK
  <2>6. Reloaded(c)
    <3>1. ~(Start(c) \/ Discovered(c) \/ ReadConfig(c) \/ PromoteElection(c) \/ WaitRW(c))
      BY <2>2 DEF Start, Discovered, ReadConfig, PromoteElection, WaitRW, Early
    <3>2. ~(Collect(c) \/ Truncate(c) \/ Write(c) \/ ReloadTarget(c) \/ WaitRO(c))
      BY <2>2, <2>5 DEF Collect, Truncate, Write, ReloadTarget, WaitRO
    <3>3. \A i \in Instances : ~Visit(c, i)
      BY <2>2 DEF Visit, Early
    <3>4. \A i \in Instances : ~Reload(c, i)
      BY <2>1, <2>2 DEF Reload, End, TypeOK
    <3> QED
      BY <2>4, <3>1, <3>2, <3>3, <3>4 DEF Step
  <2>7. pc[c] = "reload" /\ todo[c] = {} /\ c \notin failed
    BY <2>1, <2>6 DEF Reloaded, End, TypeOK
  <2> QED
    BY <2>1, <2>7 DEF Tidy
<1> QED
  BY <1>1, AloneInvariance, PTL DEF Spec, OkTakesEffect
---------------------------------------------------------------------------
(* The voter mode. *)

\* How a command ends: with success only where WaitRW or the end of the
\* reload loop says so.
LEMMA HowItEnds ==
  ASSUME TypeOK, NEW c \in Commands, Step(c)
  PROVE  \/ Running(c)'
         \/ result'[c] = "error"
         \/ WaitRW(c)
         \/ Reloaded(c) /\ c \notin failed
<1> USE DEF TypeOK, Running, Goto, End
<1>1. ASSUME Abort(c) PROVE Running(c)' \/ result'[c] = "error"
  BY <1>1 DEF Abort
<1>2. CASE Start(c) \/ Discovered(c) \/ ReadConfig(c) \/ PromoteElection(c)
  BY <1>2 DEF Start, Discovered, ReadConfig, PromoteElection
<1>3. CASE Collect(c) \/ Truncate(c) \/ WaitRO(c)
  BY <1>1, <1>3 DEF Collect, Truncate, WaitRO
<1>4. CASE Write(c)
  BY <1>1, <1>4 DEF Write
<1>5. CASE ReloadTarget(c)
  BY <1>1, <1>5 DEF ReloadTarget
<1>6. CASE Reloaded(c)
  BY <1>6 DEF Reloaded
<1>7. CASE \E i \in Instances : Visit(c, i) \/ Reload(c, i)
  BY <1>7 DEF Visit, Reload
<1> QED
  BY <1>2, <1>3, <1>4, <1>5, <1>6, <1>7 DEF Step

\* Only a publication changes what the file says; Truncate cuts it short.
LEMMA FileChange ==
  ASSUME TypeOK, NEW c \in Commands, Step(c)
  PROVE  \/ file' = file
         \/ file' = [file EXCEPT !.whole = FALSE]
         \/ /\ Write(c) /\ pc[c] = "write" /\ Running(c)' /\ pub'[c] # 0
            /\ file' = [doc[c] EXCEPT !.version = file.version + 1]
<1>1. CASE Write(c)
  <2>1. file.version + 1 # 0
    BY SMT DEF TypeOK, Config
  <2> QED
    BY <1>1, <2>1 DEF Write, Running, Goto, TypeOK
<1>2. CASE ~Write(c)
  BY <1>2 DEF Step, Start, Discovered, ReadConfig, Collect, Truncate, ReloadTarget,
              WaitRO, PromoteElection, WaitRW, Reloaded, Visit, Reload
<1> QED
  BY <1>1, <1>2

\* A demotion of i that is under way or has failed.
Demotes(c, i) == Demoting(c) /\ target(c) = i /\ (Running(c) \/ result[c] = "error")

\* It stays so as long as i is a voter.
LEMMA DemotesKept ==
  ASSUME IInv, AloneInv, overlapped = {}, [Next]_vars, NEW d \in Commands,
         NEW i \in Instances \ file.candidate, Demotes(d, i)
  PROVE  Demotes(d, i)'
<1>1. TypeOK /\ CommandInv(d) /\ Tidy(d) /\ Checked(d)
  BY DEF IInv, AloneInv
<1>2. CASE Idle(d) /\ cmd'[d] = cmd[d] /\ failover' = failover
  BY <1>2 DEF Idle, Demotes, Demoting, Running, target
<1>3. CASE Step(d)
  <2>1. ~Start(d) /\ pc[d] # "done" /\ cmd' = cmd /\ failover' = failover
        /\ pc'[d] # "idle"
    BY <1>1, <1>3, StepShape DEF Demotes, Demoting, Start
  <2>2. ~WaitRW(d)
    BY <1>1 DEF WaitRW, Checked, Demotes, Demoting
  <2>3. ~(Reloaded(d) /\ d \notin failed)
    BY <1>1 DEF Reloaded, Tidy, Alone, Running, Effect, Demotes
  <2>4. Running(d)' \/ result'[d] = "error"
    BY <1>1, <1>3, <2>2, <2>3, HowItEnds
  <2> QED
    BY <2>1, <2>4 DEF Demotes, Demoting, target
<1>4. ASSUME NEW c \in Commands, Step(c), c # d
      PROVE  Idle(d) /\ cmd'[d] = cmd[d] /\ failover' = failover
  BY <1>1, <1>4, OthersIdle, RequestKept
<1>5. CASE UNCHANGED vars
  BY <1>2, <1>5 DEF vars, Idle
<1> QED
  BY <1>1, <1>2, <1>3, <1>4, <1>5, InstanceStep DEF Next

\* An instance becomes a voter only by a demotion (patchCConfigElectionMode).
LEMMA VoterStep ==
  IInv /\ AloneInv /\ VoterIsTemporary /\ [Next]_vars => VoterIsTemporary'
<1> SUFFICES ASSUME IInv, AloneInv, VoterIsTemporary, [Next]_vars, overlapped' = {},
                    NEW i \in Instances \ file'.candidate
             PROVE  \E c \in Commands : Demotes(c, i)'
  BY DEF VoterIsTemporary, Demotes
<1>1. TypeOK
  BY DEF IInv
<1>2. overlapped = {}
  <2>1. ASSUME NEW c \in Commands, Step(c) PROVE overlapped = {}
    <3>1. CASE Start(c)
      BY <3>1 DEF Start
    <3> QED
      BY <1>1, <2>1, <3>1, StepShape
  <2> QED
    BY <1>1, <2>1, InstanceStep DEF Next, vars
<1>3. CASE i \notin file.candidate
  <2>1. PICK d \in Commands : Demotes(d, i)
    BY <1>2, <1>3 DEF VoterIsTemporary, Demotes
  <2> QED
    BY <1>2, <1>3, <2>1, DemotesKept
<1>4. CASE i \in file.candidate
  <2>1. file'.candidate # file.candidate
    BY <1>4
  <2>2. PICK c \in Commands : Step(c)
    BY <1>1, <2>1, InstanceStep DEF Next, vars
  <2>3. /\ Write(c) /\ pc[c] = "write" /\ Running(c)'
        /\ file' = [doc[c] EXCEPT !.version = file.version + 1]
    BY <1>1, <2>1, <2>2, FileChange DEF TypeOK, Config
  <2>4. doc[c] = [Patched(c, file) EXCEPT !.whole = TRUE]
    BY <1>2, <2>3 DEF AloneInv, Tidy, Alone, Running
  <2>5. Patched(c, file) \in Config
    BY <1>1, <2>3, PatchedType
  <2>6. file'.candidate = Patched(c, file).candidate
    BY <2>3, <2>4, <2>5 DEF Config
  <2>7. file \in Config
    BY <1>1 DEF TypeOK
  <2>8. cmd[c].op = "demote" /\ failover = "election" /\ target(c) = i
    BY <1>4, <2>6, <2>7 DEF Patched, Config
  <2>9. pc'[c] # "idle" /\ cmd' = cmd /\ failover' = failover
    BY <2>3 DEF Running, Write, environment
  <2>10. Demotes(c, i)'
    BY <2>3, <2>8, <2>9 DEF Demotes, Demoting, target
  <2> QED
    BY <2>10
<1> QED
  BY <1>3, <1>4

\* The "voter" election mode which demoteElection writes is temporary, whatever
\* the number of instances, of commands that do not overlap and of outages: the
\* file holds it only during a demotion of the instance, or after one that has
\* failed.
THEOREM VoterModeEnds == Spec => []VoterIsTemporary
<1>1. Init => VoterIsTemporary
  BY SMT DEF Init, VoterIsTemporary
<1> QED
  BY <1>1, VoterStep, AloneInvariance, PTL DEF Spec
---------------------------------------------------------------------------
(* The last instance. *)

\* The expels so far have left no instance behind, and nothing has overlapped.
Thorough == overlapped = {} /\ \A c \in Commands : ~LeavesBehind(c)

\* Instance i is still to be reloaded by an expel, or that one will fail.
Awaits(i) ==
  \E c \in Commands : /\ Running(c) /\ pub[c] # 0 /\ cmd[c].op = "expel"
                      /\ c \in failed \/ (pc[c] = "reload" /\ i \in todo[c])

Nested(A, B) == A \subseteq B \/ B \subseteq A

\* What a command has found out about the members before it publishes: it has
\* counted nobody who was expelled, or it was answered by an instance that is
\* no member itself.
Survey(c) ==
  /\ found[c] = {} => members[c] = {}
  /\ found[c] # {} => file.listen \subseteq members[c]
  /\ \A j \in Instances : Nested(members[c], loaded[j].listen)
  /\ members[c] \subseteq file.listen \/ \E s \in found[c] : s \notin members[c]

\* Only a demotion goes on changing the file after a publication.
Late(c) == pub[c] # 0 /\ pc[c] \notin {"reload", "done"} => Demoting(c)

\* The views are nested, for the file only loses members; and an instance with an
\* older view is not in it, unless it will still be reloaded.
Counted ==
  Thorough =>
    /\ file.listen # {}
    /\ \A i \in Instances : file.listen \subseteq loaded[i].listen
    /\ \A i, j \in Instances : Nested(loaded[i].listen, loaded[j].listen)
    /\ \A i \in up : \/ loaded[i].listen = file.listen
                     \/ i \notin loaded[i].listen
                     \/ Awaits(i)
    /\ \A c \in Commands : Running(c) /\ pub[c] = 0 => Survey(c)

\* The election commands are the only ones with two publications (demoteElection).
LEMMA LateStep ==
  ASSUME IInv, [Next]_vars, NEW d \in Commands, Late(d)
  PROVE  Late(d)'
<1>1. TypeOK /\ CommandInv(d)
  BY DEF IInv
<1>2. ASSUME Idle(d), cmd'[d] = cmd[d], failover' = failover PROVE Late(d)'
  BY <1>2 DEF Idle, Late, Demoting
<1>3. CASE Step(d)
  <2>1. CASE pub'[d] = pub[d] /\ ~Start(d)
    <3>1. /\ cmd' = cmd /\ failover' = failover /\ pc'[d] # "idle"
      BY <1>1, <1>3, <2>1, StepShape
    <3>2. pc[d] = "reload" => pc'[d] \in {"reload", "done"}
      BY <1>1, <1>3 DEF Step, Start, Discovered, ReadConfig, Collect, Truncate, Write,
           ReloadTarget, WaitRO, PromoteElection, WaitRW, Reloaded, Visit, Reload,
           End, Goto, TypeOK
    <3>3. pc[d] # "done"
      BY <1>1, <1>3, StepShape
    <3> QED
      BY <2>1, <3>1, <3>2, <3>3 DEF Late, Demoting
  <2>2. CASE Start(d)
    BY <1>1, <2>2 DEF Start, CommandInv, Early, Late
  <2>3. CASE pub'[d] # pub[d]
    <3>1. Write(d)
      BY <1>3, <2>3 DEF Step, Start, Discovered, ReadConfig, Collect, Truncate,
           ReloadTarget, WaitRO, PromoteElection, WaitRW, Reloaded, Visit, Reload
    <3>2. cmd' = cmd /\ failover' = failover
      BY <3>1 DEF Write, environment
    <3>3. pc'[d] = "reload" \/ (pc'[d] = "reloadTarget" /\ Demoting(d))
      BY <1>1, <2>3, <3>1 DEF Write, Goto, TypeOK
    <3> QED
      BY <3>2, <3>3 DEF Late, Demoting
  <2> QED
    BY <2>1, <2>2, <2>3
<1>4. ASSUME NEW c \in Commands, Step(c), c # d PROVE Late(d)'
  BY <1>1, <1>2, <1>4, OthersIdle, RequestKept
<1>5. CASE UNCHANGED vars
  BY <1>2, <1>5 DEF vars, Idle
<1> QED
  BY <1>1, <1>2, <1>3, <1>4, <1>5, InstanceStep DEF Next

\* A command that has left an instance behind does not make up for it.
LEMMA ThoroughBefore ==
  ASSUME IInv, [Next]_vars, Thorough'
  PROVE  Thorough
<1>1. TypeOK
  BY DEF IInv
<1>2. overlapped = {}
  <2>1. ASSUME NEW c \in Commands, Step(c) PROVE overlapped = {}
    <3>1. CASE Start(c)
      BY <3>1 DEF Start, Thorough
    <3> QED
      BY <1>1, <2>1, <3>1, StepShape DEF Thorough
  <2> QED
    BY <1>1, <2>1, InstanceStep DEF Next, vars, Thorough
<1>3. ASSUME NEW d \in Commands, LeavesBehind(d) PROVE LeavesBehind(d)'
  <2>1. CommandInv(d)
    BY DEF IInv
  <2>2. ASSUME Idle(d), cmd'[d] = cmd[d] PROVE LeavesBehind(d)'
    BY <1>3, <2>2 DEF Idle, LeavesBehind
  <2>3. CASE Step(d)
    <3>1. pc[d] \notin Early /\ pc[d] # "done"
      BY <1>1, <1>3, <2>1, <2>3, StepShape DEF LeavesBehind, CommandInv
    <3>2. ~Start(d) /\ (\A i \in Instances : ~Visit(d, i)) /\ result[d] = "none"
      BY <2>1, <3>1 DEF Start, Visit, Early, CommandInv
    <3>3. cmd' = cmd /\ UNCHANGED <<members, found>>
      BY <2>3, <3>2 DEF Step, Discovered, ReadConfig, Collect, Truncate, Write,
           ReloadTarget, WaitRO, PromoteElection, WaitRW, Reloaded, Reload, discovered
    <3>4. pub'[d] = pub[d] \/ pub'[d] # 0
      <4>1. CASE Write(d)
        <5>1. file.version + 1 # 0
          BY <1>1, SMT DEF TypeOK, Config
        <5> QED
          BY <1>1, <4>1, <5>1 DEF Write, TypeOK
      <4>2. CASE ~Write(d)
        BY <2>3, <4>2 DEF Step, Start, Discovered, ReadConfig, Collect, Truncate,
             ReloadTarget, WaitRO, PromoteElection, WaitRW, Reloaded, Visit, Reload
      <4> QED
        BY <4>1, <4>2
    <3> QED
      BY <1>3, <3>2, <3>3, <3>4 DEF LeavesBehind
  <2>4. ASSUME NEW c \in Commands, Step(c), c # d PROVE LeavesBehind(d)'
    BY <1>1, <2>2, <2>4, OthersIdle, RequestKept
  <2>5. CASE UNCHANGED vars
    BY <2>2, <2>5 DEF vars, Idle
  <2> QED
    BY <1>1, <2>2, <2>3, <2>4, <2>5, InstanceStep DEF Next
<1> QED
  BY <1>2, <1>3 DEF Thorough

\* An instance that comes up, and one that is asked to reload, runs with the file.
LEMMA LoadedChange ==
  ASSUME TypeOK, [Next]_vars
  PROVE  /\ \A j \in Instances : \/ loaded'[j] = loaded[j]
                                 \/ loaded'[j] = file /\ file' = file
         /\ \A j \in up' : j \in up \/ (loaded'[j] = file /\ file' = file)
<1>1. ASSUME NEW i \in Instances, Load(i)
      PROVE  \A j \in Instances : loaded'[j] = IF j = i THEN file ELSE loaded[j]
  BY <1>1 DEF Load, TypeOK
<1>2. CASE \E i \in Instances : Down(i) \/ Up(i) \/ Elect(i)
  BY <1>1, <1>2 DEF Down, Up, Elect, TypeOK
<1>3. ASSUME NEW c \in Commands, Step(c)
      PROVE  up' = up /\ (loaded' = loaded \/ \E i \in Instances : Load(i) /\ file' = file)
  <2>1. CASE ReloadTarget(c)
    <3>1. target(c) \in Instances
      BY <2>1, TargetType DEF ReloadTarget
    <3> QED
      BY <2>1, <3>1 DEF ReloadTarget
  <2>2. CASE ~ReloadTarget(c)
    BY <1>3, <2>2 DEF Step, Start, Discovered, ReadConfig, Collect, Truncate, Write,
         WaitRO, PromoteElection, WaitRW, Reloaded, Visit, Reload, environment
  <2> QED
    BY <2>1, <2>2
<1>4. CASE UNCHANGED vars
  BY <1>4 DEF vars
<1> QED
  BY <1>1, <1>2, <1>3, <1>4 DEF Next

\* What an expel still has to reload, or will report, stays so until it is done.
LEMMA AwaitsKept ==
  ASSUME IInv, AloneInv, [Next]_vars, Thorough', NEW i \in Instances, Awaits(i)
  PROVE  Awaits(i)' \/ (loaded'[i] = file /\ file' = file)
<1> DEFINE Owes(d) == /\ Running(d) /\ pub[d] # 0 /\ cmd[d].op = "expel"
                      /\ d \in failed \/ (pc[d] = "reload" /\ i \in todo[d])
<1>1. PICK d \in Commands : Owes(d)
  BY DEF Awaits
<1>2. TypeOK /\ CommandInv(d)
  BY DEF IInv
<1>3. ASSUME Idle(d), cmd'[d] = cmd[d] PROVE Awaits(i)'
  BY <1>1, <1>3 DEF Idle, Awaits, Running
<1>4. CASE Step(d)
  <2>1. pc[d] \notin Early /\ pc[d] # "done"
    BY <1>1, <1>2 DEF CommandInv, Running
  <2>2. ~Start(d) /\ ~WaitRW(d)
    BY <2>1 DEF Start, WaitRW, Early
  <2>3. cmd' = cmd
    BY <1>2, <1>4, <2>2, StepShape
  <2>4. pub'[d] # 0
    <3>1. file.version + 1 # 0
      BY <1>2, SMT DEF TypeOK, Config
    <3>2. CASE Write(d)
      BY <1>1, <1>2, <3>1, <3>2 DEF Write, TypeOK
    <3>3. CASE ~Write(d)
      BY <1>1, <1>4, <3>3 DEF Step, Start, Discovered, ReadConfig, Collect, Truncate,
           ReloadTarget, WaitRO, PromoteElection, WaitRW, Reloaded, Visit, Reload
    <3> QED
      BY <3>2, <3>3
  <2>5. result'[d] # "error"
    BY <1>1, <2>3, <2>4 DEF Thorough, LeavesBehind
  <2>6. CASE d \in failed
    <3>1. d \in failed'
      BY <1>4, <2>6 DEF Step, Start, Discovered, ReadConfig, Collect, Truncate, Write,
           ReloadTarget, WaitRO, PromoteElection, WaitRW, Reloaded, Visit, Reload, Abort
    <3>2. Running(d)'
      BY <1>2, <1>4, <2>2, <2>5, <2>6, HowItEnds
    <3> QED
      BY <1>1, <2>3, <2>4, <3>1, <3>2 DEF Awaits
  <2>7. CASE d \notin failed
    <3>1. pc[d] = "reload" /\ i \in todo[d]
      BY <1>1, <2>7
    <3>2. PICK j \in Instances : Reload(d, j)
      BY <1>4, <3>1 DEF Step, Start, Discovered, ReadConfig, Collect, Truncate, Write,
           ReloadTarget, WaitRO, PromoteElection, WaitRW, Reloaded, Visit
    <3>3. pc'[d] = "reload" /\ file' = file
      BY <1>2, <2>5, <3>1, <3>2 DEF Reload, End, Goto, TypeOK
    <3>4. \/ d \in failed'
          \/ Load(j) /\ todo'[d] = todo[d] \ {j}
      BY <1>2, <2>5, <3>2 DEF Reload, End, Goto, TypeOK
    <3>5. CASE d \in failed' \/ j # i
      BY <1>1, <2>3, <2>4, <3>1, <3>3, <3>4, <3>5 DEF Awaits, Running
    <3>6. CASE d \notin failed' /\ j = i
      BY <1>2, <3>3, <3>4, <3>6, ZenonT(60) DEF Load, TypeOK
    <3> QED
      BY <3>5, <3>6
  <2> QED
    BY <2>6, <2>7
<1>5. ASSUME NEW c \in Commands, Step(c), c # d PROVE Awaits(i)'
  BY <1>2, <1>3, <1>5, OthersIdle, RequestKept
<1>6. CASE UNCHANGED vars
  BY <1>3, <1>6 DEF vars, Idle
<1> QED
  BY <1>2, <1>3, <1>4, <1>5, <1>6, InstanceStep DEF Next

\* Loading the file does not upset what a command has counted.
LEMMA SurveyKept ==
  ASSUME NEW c \in Commands, Survey(c),
         found'[c] = found[c], members'[c] = members[c], file'.listen = file.listen,
         \A j \in Instances : loaded'[j] = loaded[j] \/ loaded'[j] = file
  PROVE  Survey(c)'
<1>1. Nested(members[c], file.listen)
  BY DEF Survey, Nested
<1>2. \A j \in Instances : Nested(members[c], loaded'[j].listen)
  BY <1>1 DEF Survey
<1> QED
  BY <1>2 DEF Survey

\* One more answer of the discovery: a current view adds nothing, and an older
\* one comes from an instance that is not in it.
LEMMA SurveyVisit ==
  ASSUME TypeOK, NEW c \in Commands, NEW i \in Instances, Survey(c),
         found'[c] = found[c] \cup {i}, members'[c] = members[c] \cup loaded[i].listen,
         file' = file, loaded' = loaded,
         \A j \in Instances : file.listen \subseteq loaded[j].listen,
         \A j, k \in Instances : Nested(loaded[j].listen, loaded[k].listen),
         loaded[i].listen = file.listen \/ i \notin loaded[i].listen
  PROVE  Survey(c)'
<1> DEFINE view == loaded[i].listen
<1>1. members'[c] = members[c] \/ members'[c] = view
  BY ZenonT(60) DEF Survey, Nested
<1>2. \A j \in Instances : Nested(members'[c], loaded'[j].listen)
  BY <1>1 DEF Survey
<1>3. file.listen \subseteq members'[c]
  OBVIOUS
<1>4. members'[c] \subseteq file.listen \/ \E s \in found'[c] : s \notin members'[c]
  <2>1. CASE members'[c] = members[c]
    BY <2>1 DEF Survey
  <2>2. CASE members'[c] = view
    BY <2>2
  <2> QED
    BY <1>1, <2>1, <2>2
<1> QED
  BY <1>2, <1>3, <1>4 DEF Survey

\* An expel that leaves nobody behind has counted the members right, and there is
\* another one besides its target (Expel).
LEMMA Publication ==
  ASSUME IInv, AloneInv, Thorough', NEW c \in Commands, Late(c), Write(c), pub'[c] # 0,
         file' = [doc[c] EXCEPT !.version = file.version + 1],
         pub[c] = 0 => Survey(c), overlapped = {}
  PROVE  \/ file'.listen = file.listen
         \/ /\ file'.listen = file.listen \ {target(c)}
            /\ file'.listen # {}
            /\ \A i \in file.listen : Awaits(i)'
<1>1. TypeOK /\ Tidy(c) /\ Checked(c) /\ pc[c] = "write" /\ Alone(c)
  BY DEF IInv, AloneInv, Write, Alone, Running
<1>2. doc[c] = [Patched(c, file) EXCEPT !.whole = TRUE] /\ MayChange(c)
  BY <1>1 DEF Tidy, Checked
<1>3. Patched(c, file) \in Config /\ file \in Config
  BY <1>1, PatchedType DEF TypeOK
<1>4. file'.listen = Patched(c, file).listen
  BY <1>2, <1>3 DEF Config
<1>5. CASE cmd[c].op # "expel"
  BY <1>3, <1>4, <1>5 DEF Patched, Config
<1>6. CASE cmd[c].op = "expel"
  <2>1. file'.listen = file.listen \ {target(c)}
    BY <1>3, <1>4, <1>6 DEF Patched, Config
  <2>2. pub[c] = 0 /\ ~Demoting(c)
    BY <1>1, <1>6 DEF Late, Demoting
  <2>3. /\ cmd' = cmd /\ UNCHANGED <<members, found>>
    BY DEF Write, discovered
  <2>4. members[c] = found[c]
    BY <1>6, <2>3 DEF Thorough, LeavesBehind
  <2>5. target(c) \in members[c] /\ members[c] # {target(c)}
    BY <1>2, <1>6 DEF MayChange, instances
  <2>6. members[c] = file.listen
    BY <2>2, <2>4, <2>5 DEF Survey
  <2>7. file'.listen # {}
    BY <2>1, <2>5, <2>6
  <2>8. /\ pc'[c] = "reload" /\ todo'[c] = instances(c)
    <3>1. file' # file \/ pub'[c] # pub[c]
      BY <2>2
    <3> QED
      BY <1>1, <2>2, <3>1 DEF Write, Goto, TypeOK
  <2>9. \A i \in file.listen : Awaits(i)'
    BY <1>6, <2>3, <2>4, <2>6, <2>8 DEF Awaits, Running, instances
  <2> QED
    BY <2>1, <2>7, <2>9
<1> QED
  BY <1>5, <1>6

\* The whole of it is kept by every step.
LEMMA CountedStep ==
  ASSUME IInv, AloneInv, \A c \in Commands : Late(c), Counted, [Next]_vars
  PROVE  Counted'
<1> SUFFICES ASSUME Thorough'
             PROVE  /\ file'.listen # {}
                    /\ \A i \in Instances : file'.listen \subseteq loaded'[i].listen
                    /\ \A i, j \in Instances : Nested(loaded'[i].listen, loaded'[j].listen)
                    /\ \A i \in up' : \/ loaded'[i].listen = file'.listen
                                      \/ i \notin loaded'[i].listen
                                      \/ Awaits(i)'
                    /\ \A c \in Commands : Running(c)' /\ pub'[c] = 0 => Survey(c)'
  BY DEF Counted
<1>0. TypeOK /\ TypeOK' /\ Thorough /\ overlapped = {} /\ overlapped' = {}
  BY ThoroughBefore, TypeStep DEF IInv, Thorough
<1>1. /\ file.listen # {}
      /\ \A i \in Instances : file.listen \subseteq loaded[i].listen
      /\ \A i, j \in Instances : Nested(loaded[i].listen, loaded[j].listen)
      /\ \A i \in up : \/ loaded[i].listen = file.listen
                       \/ i \notin loaded[i].listen
                       \/ Awaits(i)
      /\ \A c \in Commands : Running(c) /\ pub[c] = 0 => Survey(c)
  BY <1>0 DEF Counted
<1>2. /\ \A j \in Instances : \/ loaded'[j] = loaded[j]
                              \/ loaded'[j] = file /\ file' = file
      /\ \A j \in up' : j \in up \/ (loaded'[j] = file /\ file' = file)
  BY <1>0, LoadedChange
<1>3. \/ file'.listen = file.listen
      \/ /\ file'.listen \subseteq file.listen /\ file'.listen # {}
         /\ \A i \in file.listen : Awaits(i)'
  <2>1. ASSUME NEW c \in Commands, Step(c)
        PROVE  \/ file'.listen = file.listen
               \/ /\ file'.listen \subseteq file.listen /\ file'.listen # {}
                  /\ \A i \in file.listen : Awaits(i)'
    <3>1. CASE Write(c) /\ file' = [doc[c] EXCEPT !.version = file.version + 1]
               /\ pc[c] = "write" /\ pub'[c] # 0
      <4>1. pub[c] = 0 => Survey(c)
        BY <1>1, <3>1 DEF Running
      <4> QED
        BY <1>0, <3>1, <4>1, Publication
    <3>2. CASE file' = file \/ file' = [file EXCEPT !.whole = FALSE]
      BY <1>0, <3>2, ZenonT(60) DEF TypeOK, Config
    <3> QED
      BY <1>0, <2>1, <3>1, <3>2, FileChange
  <2> QED
    BY <1>0, <2>1, InstanceStep DEF Next, vars
<1>4. file'.listen # {}
  BY <1>1, <1>3
<1>5. file'.listen \subseteq file.listen
  BY <1>3
<1>6. \A i \in Instances : file'.listen \subseteq loaded'[i].listen
  BY <1>1, <1>2, <1>5
<1>7. \A i, j \in Instances : Nested(loaded'[i].listen, loaded'[j].listen)
  BY <1>1, <1>2 DEF Nested
<1>8. ASSUME NEW i \in up'
      PROVE  \/ loaded'[i].listen = file'.listen
             \/ i \notin loaded'[i].listen
             \/ Awaits(i)'
  <2>1. i \in Instances
    BY <1>0 DEF TypeOK
  <2>2. CASE loaded'[i] = file /\ file' = file
    BY <2>2
  <2>3. CASE i \in up /\ loaded'[i] = loaded[i]
    <3>1. CASE Awaits(i)
      BY <1>0, <2>1, <2>2, <3>1, AwaitsKept
    <3>2. CASE loaded[i].listen = file.listen
      BY <1>3, <2>3, <3>2
    <3> QED
      BY <1>1, <2>3, <3>1, <3>2
  <2> QED
    BY <1>2, <2>1, <2>2, <2>3
<1>9. ASSUME NEW c \in Commands, Running(c)', pub'[c] = 0 PROVE Survey(c)'
  <2>1. ASSUME Running(c), pub[c] = 0, found'[c] = found[c], members'[c] = members[c],
               file'.listen = file.listen
        PROVE  Survey(c)'
    BY <1>1, <1>2, <2>1, SurveyKept
  <2>2. ASSUME Idle(c), file' = file PROVE Survey(c)'
    BY <1>9, <2>1, <2>2 DEF Idle, Running
  <2>3. ASSUME NEW d \in Commands, Step(d), d # c PROVE FALSE
    <3>1. Sole
      BY DEF AloneInv
    <3> QED
      BY <1>0, <1>9, <2>3, <3>1, MovesAlone DEF Alone
  <2>4. CASE Step(c)
    <3>1. CASE Start(c)
      <4>1. pc[c] = "idle" /\ UNCHANGED <<found, members>>
        BY <3>1 DEF Start, discovered
      <4>2. found'[c] = {} /\ members'[c] = {}
        BY <4>1 DEF AloneInv, Checked
      <4> QED
        BY <4>2 DEF Survey, Nested
    <3>2. CASE ~Start(c)
      <4>1. Running(c)
        BY <1>0, <2>4, <3>2, StepShape
      <4>2. CASE \E i \in Instances : Visit(c, i)
        <5>1. PICK i \in Instances : Visit(c, i)
          BY <4>2
        <5>2. pub[c] = 0 /\ file' = file /\ loaded' = loaded
          BY <1>9, <5>1 DEF Visit
        <5>3. \/ found'[c] = found[c] /\ members'[c] = members[c]
              \/ /\ i \in up /\ found'[c] = found[c] \cup {i}
                 /\ members'[c] = members[c] \cup loaded[i].listen
          BY <1>0, <5>1 DEF Visit, discovered, ViewOf, TypeOK
        <5>4. CASE found'[c] = found[c] /\ members'[c] = members[c]
          BY <2>1, <4>1, <5>2, <5>4
        <5>5. CASE i \in up /\ found'[c] = found[c] \cup {i}
                   /\ members'[c] = members[c] \cup loaded[i].listen
          <6>1. ~Awaits(i)
            BY <1>0, <4>1, <5>2 DEF Awaits, AloneInv, Sole, Alone
          <6>2. Survey(c)
            BY <1>1, <4>1, <5>2
          <6>3. loaded[i].listen = file.listen \/ i \notin loaded[i].listen
            BY <1>1, <5>5, <6>1
          <6> QED
            BY <1>0, <1>1, <5>2, <5>5, <6>2, <6>3, SurveyVisit
        <5> QED
          BY <5>3, <5>4, <5>5
      <4>3. CASE ~\E i \in Instances : Visit(c, i)
        <5>1. UNCHANGED <<found, members>>
          BY <2>4, <3>2, <4>3 DEF Step, Discovered, ReadConfig, Collect, Truncate, Write,
               ReloadTarget, WaitRO, PromoteElection, WaitRW, Reloaded, Reload, discovered
        <5>2. file' = file \/ file' = [file EXCEPT !.whole = FALSE]
          BY <1>0, <1>9, <2>4, FileChange
        <5>3. file'.listen = file.listen
          BY <1>0, <5>2, ZenonT(60) DEF TypeOK, Config
        <5>4. pub[c] = 0
          <6>1. CASE Write(c)
            <7>1. file.version + 1 # 0
              BY <1>0, SMT DEF TypeOK, Config
            <7> QED
              BY <1>0, <1>9, <6>1, <7>1, ZenonT(60) DEF Write, TypeOK
          <6>2. CASE ~Write(c)
            BY <1>9, <2>4, <6>2 DEF Step, Start, Discovered, ReadConfig, Collect,
                 Truncate, ReloadTarget, WaitRO, PromoteElection, WaitRW, Reloaded,
                 Visit, Reload
          <6> QED
            BY <6>1, <6>2
        <5> QED
          BY <2>1, <4>1, <5>1, <5>3, <5>4
      <4> QED
        BY <4>2, <4>3
    <3> QED
      BY <3>1, <3>2
  <2>5. CASE UNCHANGED vars
    BY <2>2, <2>5 DEF vars, Idle
  <2> QED
    BY <1>0, <2>2, <2>3, <2>4, <2>5, InstanceStep DEF Next
<1> QED
  BY <1>4, <1>6, <1>7, <1>8, <1>9

\* Expels that leave no instance behind, among commands that do not overlap, never
\* empty a replicaset of any size, although each counts the members from what the
\* instances run with (CConfigApplication.discovery, Expel).
THEOREM LastInstanceStays == Spec => []LastIsNotExpelled
<1> DEFINE Inv == Counted /\ \A c \in Commands : Late(c)
<1>1. Init => Inv
  <2> SUFFICES ASSUME Init PROVE Inv
    OBVIOUS
  <2>1. \A c \in Commands : pc[c] = "idle" /\ pub[c] = 0
    BY DEF Init
  <2>2. file.listen = Instances /\ \A i \in Instances : loaded[i].listen = Instances
    BY DEF Init
  <2>3. up = Instances
    BY DEF Init
  <2> QED
    BY <2>1, <2>2, <2>3, AppAssumption DEF Counted, Late, Nested, Running
<1>2. IInv /\ AloneInv /\ Inv /\ [Next]_vars => Inv'
  BY LateStep, CountedStep
<1>3. Inv => LastIsNotExpelled
  BY DEF Counted, Thorough, LastIsNotExpelled
<1> QED
  BY <1>1, <1>2, <1>3, AloneInvariance, PTL DEF Spec

---------------------------------------------------------------------------
(* The Cartridge orchestrator.                                             *)

TopologyFields == {"joined", "alias", "order", "wanted"}
CommandFields == {"op", "inst", "rs", "vshard", "pc", "seen", "found", "via", "taken", "queue",
                  "tried", "failed", "clean", "before", "res"}

\* A topology: a replicaset that has a name has a server.
Peopled(t, r) == \E i \in Members : t.joined[i] = r
TopologyOK(t) ==
    /\ DOMAIN t = TopologyFields
    /\ t.joined \in [Members -> {0} \cup Sets]
    /\ DOMAIN t.alias = Sets
    /\ \A r \in Sets : t.alias[r] # Nothing => Peopled(t, r)

\* What a command is about at its program point.
Points(c) ==
    /\ c.pc = "joinEdit" => c.op = "join"
    /\ c.pc = "promote" => c.op = "promote"
    /\ c.pc \in {"expel", "expel2"} => c.op = "expel"
    /\ c.pc \in {"firstEdit", "firstHealth"} => kind.major # 2
CommandOK(c) ==
    /\ DOMAIN c = CommandFields
    /\ Points(c)
    /\ c.op \in {"none", "bootstrap", "join", "expel", "promote", "vshard"}
    /\ c.op \in {"join", "expel", "promote"} => c.inst \in Members
    /\ kind.major = 2 => c.taken = Nothing

\* No two replicasets with the same name of replicasets.yml.
Whole == kind.major = 2 /\ Members \subseteq Configured
Unsplit(t) == \A r, s \in Sets : t.alias[r] = t.alias[s] /\ t.alias[r] \in Aliases => r = s

\* The inductive invariant.
CartInv ==
    /\ TopologyOK(topo)
    /\ DOMAIN command = Procs
    /\ \A p \in Procs : CommandOK(command[p])
    /\ Whole => Unsplit(topo)

\* What an edit makes of a topology t: e, the options being about the replicasets at.
EditedAs(t, e, opts, at) ==
    /\ DOMAIN e = TopologyFields /\ DOMAIN e.alias = Sets
    /\ e.joined = [i \in Members |-> e.joined[i]]
    /\ \A i \in Members : (\A o \in opts : i \notin o.join) => e.joined[i] = t.joined[i]
    /\ \A o \in opts : \A i \in Members : i \in o.join => e.joined[i] = at[o]
    /\ \A o \in opts : e.alias[at[o]] = IF o.alias # Nothing THEN o.alias
                                        ELSE IF t.alias[at[o]] = Nothing THEN "unnamed"
                                        ELSE t.alias[at[o]]
    /\ \A r \in Sets : (\A o \in opts : at[o] # r) => e.alias[r] = t.alias[r]

\* An edit of Cartridge changes the replicasets of its options and the servers it joins.
LEMMA EditedIs ==
    ASSUME NEW t, NEW opts, Acceptable(t, opts)
    PROVE  \E at \in Placements(t, opts) : EditedAs(t, Edited(t, opts), opts, at)
<1> DEFINE at == CHOOSE f \in Placements(t, opts) : TRUE
           touched == {at[o] : o \in opts}
           By(r) == CHOOSE o \in opts : at[o] = r
           Alias(r) == IF By(r).alias # Nothing THEN By(r).alias
                       ELSE IF t.alias[r] = Nothing THEN "unnamed" ELSE t.alias[r]
           e == Edited(t, opts)
<1>1. at \in Placements(t, opts)
  BY DEF Acceptable
<1>2. /\ DOMAIN e = TopologyFields
      /\ e.joined = [i \in Members |-> IF \E o \in opts : i \in o.join
                                       THEN at[CHOOSE o \in opts : i \in o.join] ELSE t.joined[i]]
      /\ e.alias = [r \in Sets |-> IF r \in touched THEN Alias(r) ELSE t.alias[r]]
  BY DEF Edited, TopologyFields
<1> HIDE DEF at, e
<1>3. at \in [opts -> Sets] /\ \A o, q \in opts : at[q] = at[o] => q = o
  BY <1>1 DEF Placements
<1>4. ASSUME NEW o \in opts PROVE By(at[o]) = o /\ at[o] \in Sets /\ at[o] \in touched
  BY <1>3
<1>5. ASSUME NEW o \in opts PROVE e.alias[at[o]] = Alias(at[o])
  BY <1>2, <1>4
<1>6. ASSUME NEW o \in opts
      PROVE  e.alias[at[o]] = IF o.alias # Nothing THEN o.alias
                              ELSE IF t.alias[at[o]] = Nothing THEN "unnamed" ELSE t.alias[at[o]]
  BY <1>4, <1>5
<1>7. ASSUME NEW o \in opts, NEW i \in Members, i \in o.join PROVE e.joined[i] = at[o]
  <2>1. (CHOOSE q \in opts : i \in q.join) = o
    BY <1>7 DEF Acceptable
  <2>2. QED
    BY <1>2, <1>7, <2>1
<1>8. \A i \in Members : (\A o \in opts : i \notin o.join) => e.joined[i] = t.joined[i]
  BY <1>2
<1>9. ASSUME NEW r \in Sets, \A o \in opts : at[o] # r PROVE e.alias[r] = t.alias[r]
  <2>1. r \notin touched
    BY <1>9
  <2> HIDE DEF touched, Alias
  <2>2. QED
    BY <1>2, <2>1
<1>10. /\ DOMAIN e = TopologyFields /\ DOMAIN e.alias = Sets
       /\ e.joined = [i \in Members |-> e.joined[i]]
  BY <1>2
<1>11. EditedAs(t, e, opts, at)
  BY <1>6, <1>7, <1>8, <1>9, <1>10 DEF EditedAs
<1>12. QED
  BY <1>1, <1>11 DEF e

\* An edit that Cartridge accepts leaves a server in every replicaset that has a name: a server is
\* joined only when it was in none, and a replicaset is created only with servers.
LEMMA EditedOK ==
    ASSUME NEW t, TopologyOK(t), NEW opts, Acceptable(t, opts), \A o \in opts : o.join \subseteq Members
    PROVE  TopologyOK(Edited(t, opts))
<1> DEFINE e == Edited(t, opts)
<1>1. PICK at \in Placements(t, opts) : EditedAs(t, e, opts, at)
  BY EditedIs
<1> HIDE DEF e
<1>2. /\ at \in [opts -> Sets]
      /\ \A o \in opts : IF o.id = 0 THEN t.alias[at[o]] = Nothing ELSE at[o] = o.id
  BY ZenonT(60) DEF Placements
<1>3. e.joined \in [Members -> {0} \cup Sets]
  <2>1. ASSUME NEW i \in Members PROVE e.joined[i] \in {0} \cup Sets
    BY <1>1, <1>2, SMT DEF EditedAs, TopologyOK
  <2>2. QED
    BY <1>1, <2>1, SMTT(30) DEF EditedAs
<1>4. ASSUME NEW r \in Sets, Peopled(t, r) PROVE Peopled(e, r)
  <2>1. PICK i \in Members : t.joined[i] = r
    BY <1>4 DEF Peopled
  <2>2. r # 0
    BY SMT DEF Sets
  <2>3. \A o \in opts : i \notin o.join
    BY <2>1, <2>2 DEF Acceptable
  <2>4. QED
    BY <1>1, <2>1, <2>3 DEF EditedAs, Peopled
<1>5. ASSUME NEW o \in opts PROVE Peopled(e, at[o])
  <2>1. CASE o.join # {}
    <3>1. PICK i \in Members : i \in o.join
      BY <2>1
    <3>2. QED
      BY <1>1, <3>1 DEF EditedAs, Peopled
  <2>2. CASE o.join = {}
    <3>1. o.id # 0 /\ t.alias[o.id] # Nothing
      BY <2>2 DEF Acceptable
    <3>2. at[o] = o.id /\ at[o] \in Sets
      BY <1>2, <3>1
    <3>3. QED
      BY <1>4, <3>1, <3>2 DEF TopologyOK
  <2>3. QED
    BY <2>1, <2>2
<1>6. ASSUME NEW r \in Sets, e.alias[r] # Nothing PROVE Peopled(e, r)
  <2>1. CASE \E o \in opts : at[o] = r
    BY <1>5, <2>1
  <2>2. CASE \A o \in opts : at[o] # r
    BY <1>1, <1>4, <1>6, <2>2 DEF EditedAs, TopologyOK
  <2>3. QED
    BY <2>1, <2>2
<1>7. QED
  BY <1>1, <1>3, <1>6 DEF EditedAs, TopologyOK, e

\* When every replicaset of an edit gets a name of its own and every named replicaset is one of them,
\* no name is given twice.
LEMMA NamedOnce ==
    ASSUME NEW t, NEW e, NEW opts, NEW at \in Placements(t, opts), EditedAs(t, e, opts, at),
           \A o \in opts : o.alias # Nothing, \A o, q \in opts : o.alias = q.alias => o = q,
           \A r \in Sets : e.alias[r] \in Aliases => \E o \in opts : at[o] = r
    PROVE  Unsplit(e)
<1> SUFFICES ASSUME NEW r \in Sets, NEW s \in Sets, e.alias[r] = e.alias[s], e.alias[r] \in Aliases
             PROVE  r = s
  BY DEF Unsplit
<1>1. PICK o \in opts : at[o] = r
  OBVIOUS
<1>2. PICK q \in opts : at[q] = s
  OBVIOUS
<1>3. e.alias[r] = o.alias /\ e.alias[s] = q.alias
  BY <1>1, <1>2 DEF EditedAs
<1>4. QED
  BY <1>1, <1>2, <1>3, ZenonT(60)

\* An edit that names every server of the application, as one to join or in a priority, is about
\* every replicaset there is: otherwise Cartridge refuses it.
LEMMA WholeEdit ==
    ASSUME NEW t, TopologyOK(t), NEW opts, Acceptable(t, opts),
           \A o \in opts : o.join \subseteq Members,
           \A o \in opts : o.alias # Nothing, \A o, q \in opts : o.alias = q.alias => o = q,
           \A i \in Members : \E o \in opts : i \in o.join \/ i \in Range(o.order)
    PROVE  Unsplit(Edited(t, opts))
<1> DEFINE e == Edited(t, opts)
<1>1. PICK at \in Placements(t, opts) : EditedAs(t, e, opts, at)
  BY EditedIs
<1>2. TopologyOK(e)
  BY EditedOK
<1> HIDE DEF e
<1>3. ASSUME NEW r \in Sets, e.alias[r] \in Aliases PROVE \E o \in opts : at[o] = r
  <2>1. PICK i \in Members : e.joined[i] = r
    BY <1>2, <1>3, CartridgeAssumption DEF TopologyOK, Peopled
  <2>2. CASE \E o \in opts : i \in o.join
    BY <1>1, <2>1, <2>2 DEF EditedAs
  <2>3. CASE \A o \in opts : i \notin o.join
    <3>1. PICK o \in opts : i \in Range(o.order)
      BY <2>3
    <3>2. o.id # 0 /\ t.joined[i] = o.id
      BY <2>3, <3>1 DEF Acceptable
    <3>3. at[o] = o.id
      BY <3>2 DEF Placements
    <3>4. e.joined[i] = t.joined[i]
      BY <1>1, <2>3, ZenonT(60) DEF EditedAs
    <3>5. QED
      BY <2>1, <3>2, <3>3, <3>4
  <2>4. QED
    BY <2>2, <2>3
<1>4. Unsplit(e)
  BY <1>1, <1>3, NamedOnce, SMT
<1>5. QED
  BY <1>4 DEF e

\* An edit without an alias (a join, a promotion) gives no name of replicasets.yml to a replicaset.
LEMMA PlainEdit ==
    ASSUME NEW t, Unsplit(t), NEW opts, Acceptable(t, opts), \A o \in opts : o.alias = Nothing
    PROVE  Unsplit(Edited(t, opts))
<1> DEFINE e == Edited(t, opts)
<1>1. PICK at \in Placements(t, opts) : EditedAs(t, e, opts, at)
  BY EditedIs
<1> HIDE DEF e
<1>2. ASSUME NEW r \in Sets, e.alias[r] \in Aliases PROVE e.alias[r] = t.alias[r]
  <2>1. ASSUME NEW o \in opts, at[o] = r PROVE e.alias[r] = t.alias[r]
    <3>1. e.alias[at[o]] = IF t.alias[at[o]] = Nothing THEN "unnamed" ELSE t.alias[at[o]]
      BY <1>1 DEF EditedAs
    <3>2. QED
      BY <1>2, <2>1, <3>1, CartridgeAssumption
  <2>2. CASE \A o \in opts : at[o] # r
    BY <1>1, <2>2 DEF EditedAs
  <2>3. QED
    BY <2>1, <2>2
<1>3. Unsplit(e)
  BY <1>2 DEF Unsplit
<1>4. QED
  BY <1>3 DEF e

\* Expelling a server takes the name from a replicaset that has no other.
LEMMA ExpelledOK ==
    ASSUME TopologyOK(topo), NEW i \in Members, topo.joined[i] # 0
    PROVE  /\ TopologyOK(EditInstances(i))
           /\ Unsplit(topo) => Unsplit(EditInstances(i))
<1> DEFINE e == EditInstances(i)
           r == topo.joined[i]
<1>1. /\ DOMAIN e = TopologyFields
      /\ e.joined = [topo.joined EXCEPT ![i] = 0]
      /\ e.alias = [topo.alias EXCEPT ![r] = IF MembersOf(topo, r) = {i} THEN Nothing ELSE @]
  BY DEF EditInstances, TopologyFields
<1> HIDE DEF e
<1>2. /\ topo.joined \in [Members -> {0} \cup Sets] /\ DOMAIN topo.alias = Sets
      /\ \A s \in Sets : topo.alias[s] # Nothing => Peopled(topo, s)
  BY DEF TopologyOK
<1>3. \A s \in Sets : e.alias[s] \in {Nothing, topo.alias[s]}
  BY <1>1, <1>2
<1>4. ASSUME NEW s \in Sets, e.alias[s] # Nothing PROVE Peopled(e, s)
  <2>1. topo.alias[s] # Nothing
    BY <1>3, <1>4
  <2>2. PICK j \in Members : topo.joined[j] = s /\ j # i
    <3>1. CASE s = r
      <4>1. MembersOf(topo, r) # {i}
        BY <1>1, <1>2, <1>4, <3>1
      <4>2. QED
        BY <3>1, <4>1 DEF MembersOf
    <3>2. CASE s # r
      BY <1>2, <2>1, <3>2 DEF Peopled
    <3>3. QED
      BY <3>1, <3>2
  <2>3. e.joined[j] = s
    BY <1>1, <1>2, <2>2
  <2>4. QED
    BY <2>3 DEF Peopled
<1>5. e.joined \in [Members -> {0} \cup Sets] /\ DOMAIN e.alias = Sets
  BY <1>1, <1>2
<1>6. Unsplit(topo) => Unsplit(e)
  BY <1>3, CartridgeAssumption DEF Unsplit
<1>7. QED
  BY <1>1, <1>4, <1>5, <1>6 DEF TopologyOK, e

\* A step of one command that leaves the topology as it should be.
LEMMA CommandKeeps ==
    ASSUME CartInv, NEW p \in Procs, NEW c, Becomes(p, c), CommandOK(c), kind' = kind,
           TopologyOK(topo'), Whole => Unsplit(topo')
    PROVE  CartInv'
<1>1. \A q \in Procs : command'[q] = IF q = p THEN c ELSE command[q]
  BY DEF Becomes, CartInv
<1>2. \A q \in Procs : CommandOK(command'[q])
  BY <1>1 DEF CartInv
<1>4. \A q \in Procs : CommandOK(command[q])'
  BY <1>2 DEF CommandOK, Points
<1>5. DOMAIN command' = Procs
  BY DEF Becomes, CartInv
<1>6. TopologyOK(topo)' /\ (Whole => Unsplit(topo))'
  BY DEF TopologyOK, Unsplit, Whole, Peopled
<1>7. QED
  BY <1>4, <1>5, <1>6 DEF CartInv

\* A step of one command that leaves the topology alone.
LEMMA AdvanceKeeps ==
    ASSUME CartInv, NEW p \in Procs, NEW c, Becomes(p, c), CommandOK(c), topo' = topo, kind' = kind
    PROVE  CartInv'
<1>1. TopologyOK(topo') /\ (Whole => Unsplit(topo'))
  BY DEF CartInv
<1>2. QED
  BY <1>1, CommandKeeps

\* A command that ends, well or in an error.
LEMMA FinishKeeps ==
    ASSUME CartInv, NEW p \in Procs, NEW res, Finish(p, res), topo' = topo, kind' = kind
    PROVE  CartInv'
<1> DEFINE c == [NoCommand EXCEPT !.res = res]
<1>1. DOMAIN c = CommandFields /\ c.op = "none" /\ c.pc = "idle" /\ c.taken = Nothing
  BY DEF NoCommand, CommandFields
<1>2. Becomes(p, c)
  BY DEF Finish, Becomes
<1> HIDE DEF c
<1>3. CommandOK(c)
  BY <1>1 DEF CommandOK, Points
<1>4. QED
  BY <1>2, <1>3, AdvanceKeeps

\* A command that goes on with what it was asked for.
LEMMA Onward ==
    ASSUME NEW b, CommandOK(b), NEW c, DOMAIN c = CommandFields, Points(c),
           c.op = b.op, c.inst = b.inst, c.taken = b.taken
    PROVE  CommandOK(c)
BY DEF CommandOK

\* The program points that any command may be at.
Plain == {"idle", "orchestrator", "discover", "choose", "edit", "health", "rediscover", "report",
          "vshard", "vshardTry", "end", "waitRW"}

\* A command that goes on to such a point, after an accepted edit or without one.
LEMMA PlainOnward ==
    ASSUME NEW b, CommandOK(b), NEW c, DOMAIN c = CommandFields, c.pc \in Plain,
           c.op = b.op, c.inst = b.inst, c.taken = b.taken
    PROVE  CommandOK(c)
<1>1. Points(c)
  BY DEF Plain, Points
<1>2. QED
  BY <1>1, Onward

\* A command that gives up.
LEMMA GiveUpKeeps ==
    ASSUME CartInv, NEW p \in Procs, GiveUp(p)
    PROVE  CartInv'
BY FinishKeeps DEF GiveUp, Same

\* A command that goes on and leaves the topology alone.
LEMMA GoesOn ==
    ASSUME CartInv, NEW p \in Procs, NEW c, Advance(p, c), DOMAIN c = CommandFields, Points(c),
           c.op = command[p].op, c.inst = command[p].inst, c.taken = command[p].taken
    PROVE  CartInv'
<1>1. CommandOK(c)
  BY Onward DEF CartInv
<1>2. QED
  BY <1>1, AdvanceKeeps DEF Advance, Same

\* An edit that Cartridge accepts.
LEMMA SendKeeps ==
    ASSUME CartInv, NEW p \in Procs, NEW b, NEW opts, CanSend(b, opts), topo' = EditReplicasets(opts),
           NEW c, Becomes(p, c), CommandOK(c), kind' = kind, Whole => Unsplit(Edited(topo, opts))
    PROVE  CartInv'
<1>1. Acceptable(topo, opts) /\ \A o \in opts : o.join \subseteq Members
  BY DEF CanSend, CanEdit, InstancesCfg
<1>2. TopologyOK(topo') /\ (Whole => Unsplit(topo'))
  BY <1>1, EditedOK DEF CartInv, EditReplicasets
<1>3. QED
  BY <1>2, CommandKeeps

\* Orchestrator, Discover, Choose, Rediscover and the steps of vshard bootstrap change no topology.
LEMMA QuietKeeps ==
    ASSUME CartInv, NEW p \in Procs,
           Orchestrator(p) \/ Discover(p) \/ Choose(p) \/ Rediscover(p) \/ VShard(p)
    PROVE  CartInv'
<1> DEFINE b == command[p]
<1>0. CommandOK(b) /\ DOMAIN b = CommandFields
  BY DEF CartInv, CommandOK
<1>1. CASE GiveUp(p)
  BY <1>1, GiveUpKeeps
<1>2. CASE Orchestrator(p) /\ ~GiveUp(p)
  <2> DEFINE c == [b EXCEPT !.pc = "discover"]
  <2>1. Advance(p, c)
    BY <1>2 DEF Orchestrator
  <2>2. /\ DOMAIN c = CommandFields /\ c.pc = "discover" /\ c.op = b.op /\ c.inst = b.inst
        /\ c.taken = b.taken
    BY <1>0 DEF CommandFields
  <2> HIDE DEF c
  <2>3. Points(c)
    BY <2>2 DEF Points
  <2>4. QED
    BY <2>1, <2>2, <2>3, GoesOn
<1>3. CASE Discover(p) /\ ~GiveUp(p)
  <2> DEFINE s == [b EXCEPT !.seen = View, !.found = Online(View)]
             point == CASE s.op \in {"bootstrap", "join"} -> "choose" [] OTHER -> s.op
             c == [s EXCEPT !.pc = point]
  <2>1. Advance(p, c)
    BY <1>3 DEF Discover
  <2>2. DOMAIN s = CommandFields /\ s.op = b.op /\ s.inst = b.inst /\ s.taken = b.taken
    BY <1>0 DEF CommandFields
  <2>3. point = IF b.op \in {"bootstrap", "join"} THEN "choose" ELSE b.op
    BY <2>2
  <2> HIDE DEF s, point
  <2>4. /\ DOMAIN c = CommandFields /\ c.pc = point /\ c.op = b.op /\ c.inst = b.inst
        /\ c.taken = b.taken
    BY <2>2 DEF CommandFields
  <2> HIDE DEF c
  <2>5. Points(c)
    BY <1>0, <2>3, <2>4 DEF Points, CommandOK
  <2>6. QED
    BY <2>1, <2>4, <2>5, GoesOn
<1>4. CASE Choose(p) /\ ~GiveUp(p)
  <2> DEFINE point == CASE b.op = "join" -> "joinEdit"
                     [] b.op = "bootstrap" /\ kind.major = 1 /\ ~Bootstrapped(b.seen) -> "firstEdit"
                     [] OTHER -> "edit"
             c == [b EXCEPT !.via = Candidates(b)[1], !.pc = point]
  <2>1. Advance(p, c)
    BY <1>4 DEF Choose
  <2>2. \/ point = "joinEdit" /\ b.op = "join"
        \/ point = "firstEdit" /\ kind.major = 1
        \/ point = "edit"
    <3>1. CASE b.op = "join"
      BY <3>1
    <3>2. CASE b.op # "join"
      <4>1. CASE b.op = "bootstrap" /\ kind.major = 1 /\ ~Bootstrapped(b.seen)
        BY <3>2, <4>1
      <4>2. CASE ~(b.op = "bootstrap" /\ kind.major = 1 /\ ~Bootstrapped(b.seen))
        BY <3>2, <4>2
      <4>3. QED
        BY <4>1, <4>2
    <3>3. QED
      BY <3>1, <3>2
  <2> HIDE DEF point
  <2>3. /\ DOMAIN c = CommandFields /\ c.pc = point /\ c.op = b.op /\ c.inst = b.inst
        /\ c.taken = b.taken
    BY <1>0 DEF CommandFields
  <2> HIDE DEF c
  <2>4. kind.major = 1 => kind.major # 2
    BY SMT
  <2>5. Points(c)
    BY <2>2, <2>3, <2>4 DEF Points
  <2>6. QED
    BY <2>1, <2>3, <2>5, GoesOn
<1>5. CASE Rediscover(p) /\ ~GiveUp(p)
  <2> DEFINE c == [b EXCEPT !.seen = View, !.pc = "vshard"]
  <2>1. Advance(p, c)
    BY <1>5 DEF Rediscover
  <2>2. /\ DOMAIN c = CommandFields /\ c.pc = "vshard" /\ c.op = b.op /\ c.inst = b.inst
        /\ c.taken = b.taken
    BY <1>0 DEF CommandFields
  <2> HIDE DEF c
  <2>3. Points(c)
    BY <2>2 DEF Points
  <2>4. QED
    BY <2>1, <2>2, <2>3, GoesOn
<1>6. CASE VShard(p)
  <2> DEFINE c == [Done(b) EXCEPT !.queue = FilterDiscovered(b), !.pc = "vshardTry", !.failed = FALSE]
  <2>1. Advance(p, c)
    BY <1>6 DEF VShard
  <2>2. /\ DOMAIN c = CommandFields /\ c.pc = "vshardTry" /\ c.op = b.op /\ c.inst = b.inst
        /\ c.taken = b.taken
    BY <1>0 DEF CommandFields, Done
  <2> HIDE DEF c
  <2>3. Points(c)
    BY <2>2 DEF Points
  <2>4. QED
    BY <2>1, <2>2, <2>3, GoesOn
<1>7. QED
  BY <1>1, <1>2, <1>3, <1>4, <1>5, <1>6

\* WaitHealthy goes on to the edit, to another instance or to the end.
LEMMA WaitHealthyKeeps ==
    ASSUME CartInv, NEW p \in Procs, WaitHealthy(p)
    PROVE  CartInv'
<1> DEFINE b == command[p]
<1>0. CommandOK(b) /\ DOMAIN b = CommandFields
  BY DEF CartInv, CommandOK
<1>1. CASE GiveUp(p)
  BY <1>1, GiveUpKeeps
<1>2. CASE Advance(p, [b EXCEPT !.pc = AfterHealth(b)])
  <2> DEFINE c == [b EXCEPT !.pc = AfterHealth(b)]
  <2>1. AfterHealth(b) \in {"edit", "end", "waitRW", "rediscover", "report"}
    <3>1. CASE b.pc = "firstHealth"
      BY <3>1 DEF AfterHealth
    <3>2. CASE b.pc # "firstHealth" /\ b.op = "expel"
      BY <3>2 DEF AfterHealth
    <3>3. CASE b.pc # "firstHealth" /\ b.op = "promote"
      BY <3>3 DEF AfterHealth
    <3>4. CASE b.pc # "firstHealth" /\ b.op \notin {"expel", "promote"} /\ b.vshard
      BY <3>4 DEF AfterHealth
    <3>5. CASE b.pc # "firstHealth" /\ b.op \notin {"expel", "promote"} /\ ~b.vshard
      BY <3>5 DEF AfterHealth
    <3>6. QED
      BY <3>1, <3>2, <3>3, <3>4, <3>5
  <2>2. /\ DOMAIN c = CommandFields /\ c.pc = AfterHealth(b) /\ c.op = b.op /\ c.inst = b.inst
        /\ c.taken = b.taken
    BY <1>0 DEF CommandFields
  <2> HIDE DEF c
  <2>3. Points(c)
    BY <2>1, <2>2 DEF Points
  <2>4. QED
    BY <1>2, <2>2, <2>3, GoesOn DEF c
<1>3. CASE b.op = "expel" /\ Advance(p, [b EXCEPT !.pc = "expel2", !.failed = TRUE])
  <2> DEFINE c == [b EXCEPT !.pc = "expel2", !.failed = TRUE]
  <2>1. /\ DOMAIN c = CommandFields /\ c.pc = "expel2" /\ c.op = b.op /\ c.inst = b.inst
        /\ c.taken = b.taken
    BY <1>0 DEF CommandFields
  <2> HIDE DEF c
  <2>2. Points(c)
    BY <1>3, <2>1 DEF Points
  <2>3. QED
    BY <1>3, <2>1, <2>2, GoesOn DEF c
<1>4. QED
  BY <1>1, <1>2, <1>3 DEF WaitHealthy

\* The ends of a command, and the wait of a promotion.
LEMMA EndsKeep ==
    ASSUME CartInv, NEW p \in Procs, Report(p) \/ Return(p) \/ WaitWritable(p)
    PROVE  CartInv'
<1> DEFINE b == command[p]
<1>0. CommandOK(b) /\ DOMAIN b = CommandFields
  BY DEF CartInv, CommandOK
<1>1. CASE GiveUp(p)
  BY <1>1, GiveUpKeeps
<1>2. CASE Finish(p, "ok") /\ UNCHANGED <<topo, vshard>> /\ Same
  <2>1. topo' = topo /\ kind' = kind
    BY <1>2 DEF Same
  <2>2. QED
    BY <1>2, <2>1, FinishKeeps
<1>3. CASE Advance(p, [b EXCEPT !.pc = "end"])
  <2> DEFINE c == [b EXCEPT !.pc = "end"]
  <2>1. /\ DOMAIN c = CommandFields /\ c.pc = "end" /\ c.op = b.op /\ c.inst = b.inst
        /\ c.taken = b.taken
    BY <1>0 DEF CommandFields
  <2> HIDE DEF c
  <2>2. Points(c)
    BY <2>1 DEF Points
  <2>3. QED
    BY <1>3, <2>1, <2>2, GoesOn DEF c
<1>4. QED
  BY <1>1, <1>2, <1>3 DEF Report, Return, WaitWritable

\* A command at VShardTry stays there or goes on to its end.
LEMMA VShardTryKeeps ==
    ASSUME CartInv, NEW p \in Procs, VShardTry(p)
    PROVE  CartInv'
<1> DEFINE b == command[p]
           next == [b EXCEPT !.queue = Tail(@), !.tried = TRUE, !.failed = TRUE]
           skip == [b EXCEPT !.queue = Tail(@)]
           good == [b EXCEPT !.queue = <<>>, !.tried = TRUE, !.failed = FALSE]
           over == [b EXCEPT !.pc = IF b.op = "bootstrap" THEN "report" ELSE "end"]
<1>0. CommandOK(b) /\ DOMAIN b = CommandFields /\ b.pc = "vshardTry"
  BY DEF CartInv, CommandOK, VShardTry, At
<1>1. ASSUME NEW c \in {next, skip, good, over} PROVE CommandOK(c)
  <2>1. /\ DOMAIN c = CommandFields /\ c.op = b.op /\ c.inst = b.inst /\ c.taken = b.taken
        /\ c.pc \in {b.pc, "report", "end"}
    BY <1>0, <1>1 DEF CommandFields
  <2>2. c.pc \in Plain
    BY <1>0, <2>1 DEF Plain
  <2>3. QED
    BY <1>0, <2>1, <2>2, PlainOnward
<1>2. CASE GiveUp(p)
  BY <1>2, GiveUpKeeps
<1>3. ASSUME NEW c \in {next, skip, good, over}, Becomes(p, c), topo' = topo, kind' = kind
      PROVE  CartInv'
  BY <1>1, <1>3, AdvanceKeeps
<1>4. CASE \E c \in {next, skip, good, over} : Becomes(p, c) /\ topo' = topo /\ kind' = kind
  BY <1>3, <1>4
<1>5. GiveUp(p) \/ \E c \in {next, skip, good, over} : Becomes(p, c) /\ topo' = topo /\ kind' = kind
  BY DEF VShardTry, Advance, Same
<1>6. QED
  BY <1>2, <1>4, <1>5

\* Expel and its tries: an accepted edit takes one server out.
LEMMA ExpelKeeps ==
    ASSUME CartInv, NEW p \in Procs, Expel(p) \/ ExpelTry(p)
    PROVE  CartInv'
<1> DEFINE b == command[p]
           next == [b EXCEPT !.queue = Tail(@)]
<1>0. /\ CommandOK(b) /\ DOMAIN b = CommandFields /\ b.op = "expel" /\ b.inst \in Members
      /\ TopologyOK(topo) /\ (Whole => Unsplit(topo))
  BY DEF CartInv, CommandOK, Points, Expel, ExpelTry, At
<1>1. CASE GiveUp(p)
  BY <1>1, GiveUpKeeps
<1>2. CASE Expel(p) /\ ~GiveUp(p)
  <2> DEFINE c == [Done(b) EXCEPT !.queue = FilterDiscovered(b), !.pc = "expel2"]
  <2>1. Advance(p, c)
    BY <1>2 DEF Expel
  <2>2. /\ DOMAIN c = CommandFields /\ c.pc = "expel2" /\ c.op = b.op /\ c.inst = b.inst
        /\ c.taken = b.taken
    BY <1>0 DEF CommandFields, Done
  <2> HIDE DEF c
  <2>3. Points(c)
    BY <1>0, <2>2 DEF Points
  <2>4. QED
    BY <2>1, <2>2, <2>3, GoesOn
<1>3. CASE Advance(p, next) /\ ExpelTry(p)
  <2>1. /\ DOMAIN next = CommandFields /\ next.pc = b.pc /\ next.op = b.op /\ next.inst = b.inst
        /\ next.taken = b.taken
    BY <1>0 DEF CommandFields
  <2> HIDE DEF next
  <2>2. Points(next)
    BY <1>0, <2>1 DEF Points, CommandOK
  <2>3. QED
    BY <1>3, <2>1, <2>2, GoesOn
<1>4. CASE ExpelTry(p) /\ Advance(p, [next EXCEPT !.tried = TRUE, !.failed = TRUE])
  <2> DEFINE c == [next EXCEPT !.tried = TRUE, !.failed = TRUE]
  <2>1. /\ DOMAIN c = CommandFields /\ c.pc = b.pc /\ c.op = b.op /\ c.inst = b.inst
        /\ c.taken = b.taken
    BY <1>0 DEF CommandFields
  <2> HIDE DEF c
  <2>2. Points(c)
    BY <1>0, <2>1 DEF Points, CommandOK
  <2>3. QED
    BY <1>4, <2>1, <2>2, GoesOn DEF c
<1>5. CASE /\ topo.joined[b.inst] # 0 /\ topo' = EditInstances(b.inst) /\ kind' = kind
           /\ Becomes(p, [next EXCEPT !.via = Head(b.queue), !.tried = TRUE, !.pc = "health"])
  <2> DEFINE c == [next EXCEPT !.via = Head(b.queue), !.tried = TRUE, !.pc = "health"]
  <2>1. /\ DOMAIN c = CommandFields /\ c.pc = "health" /\ c.op = b.op /\ c.inst = b.inst
        /\ c.taken = b.taken
    BY <1>0 DEF CommandFields
  <2> HIDE DEF c
  <2>2. CommandOK(c)
    BY <1>0, <2>1, PlainOnward DEF Plain
  <2>3. TopologyOK(topo') /\ (Whole => Unsplit(topo'))
    BY <1>0, <1>5, ExpelledOK
  <2>4. QED
    BY <1>5, <2>2, <2>3, CommandKeeps DEF c
<1>6. ASSUME ExpelTry(p)
      PROVE  \/ GiveUp(p) \/ Advance(p, next)
             \/ Advance(p, [next EXCEPT !.tried = TRUE, !.failed = TRUE])
             \/ /\ topo.joined[b.inst] # 0 /\ topo' = EditInstances(b.inst) /\ kind' = kind
                /\ Becomes(p, [next EXCEPT !.via = Head(b.queue), !.tried = TRUE, !.pc = "health"])
  <2> DEFINE skip == Head(b.queue) \notin running \/ Head(b.queue) = b.inst
  <2>1. CASE b.queue = <<>>
    BY <1>6, <2>1 DEF ExpelTry
  <2>2. CASE b.queue # <<>> /\ skip
    BY <1>6, <2>2 DEF ExpelTry
  <2>3. CASE b.queue # <<>> /\ ~skip
    BY <1>6, <2>3 DEF ExpelTry
  <2>4. QED
    BY <2>1, <2>2, <2>3
<1>7. QED
  BY <1>1, <1>2, <1>3, <1>4, <1>5, <1>6

\* The options that updateCartridgeReplicasets makes of a configuration: one for each replicaset,
\* and every instance of it is joined or in the priority.
LEMMA OptsOf ==
    ASSUME NEW seen, NEW cfg, DOMAIN cfg \subseteq Aliases
    PROVE  /\ \A o \in EditOpts(seen, cfg) : o.alias # Nothing
           /\ \A o, q \in EditOpts(seen, cfg) : o.alias = q.alias => o = q
           /\ \A a \in DOMAIN cfg : \E o \in EditOpts(seen, cfg) : Range(o.order) = Range(cfg[a])
<1> DEFINE opt(a) == [id |-> IF SetNamed(seen, a) = {} THEN 0
                             ELSE CHOOSE r \in SetNamed(seen, a) : TRUE,
                      alias |-> a, join |-> JoinServers(seen, cfg[a]), order |-> cfg[a]]
<1>1. \A a : opt(a).alias = a /\ opt(a).order = cfg[a]
  OBVIOUS
<1>2. EditOpts(seen, cfg) = {opt(a) : a \in DOMAIN cfg}
  BY DEF EditOpts
<1> HIDE DEF opt
<1>3. ASSUME NEW o \in EditOpts(seen, cfg) PROVE o.alias \in DOMAIN cfg /\ o = opt(o.alias)
  <2>1. PICK a \in DOMAIN cfg : o = opt(a)
    BY <1>2
  <2>2. o.alias = a
    BY <1>1, <2>1
  <2>3. QED
    BY <2>1, <2>2
<1>4. \A o \in EditOpts(seen, cfg) : o.alias # Nothing
  BY <1>3, CartridgeAssumption
<1>5. ASSUME NEW o \in EditOpts(seen, cfg), NEW q \in EditOpts(seen, cfg), o.alias = q.alias
      PROVE  o = q
  <2>1. o = opt(o.alias) /\ q = opt(q.alias)
    BY <1>3
  <2>2. QED
    BY <1>5, <2>1
<1>6. ASSUME NEW a \in DOMAIN cfg
      PROVE  \E o \in EditOpts(seen, cfg) : Range(o.order) = Range(cfg[a])
  <2>1. opt(a) \in EditOpts(seen, cfg) /\ opt(a).order = cfg[a]
    BY <1>1, <1>2
  <2>2. QED
    BY <2>1
<1>7. QED
  BY <1>4, <1>5, <1>6

\* The edit of a bootstrap under Cartridge 2 names every instance when replicasets.yml does.
LEMMA EditUnsplit ==
    ASSUME CartInv, NEW p \in Procs, Whole,
           NEW opts, opts = EditOpts(command[p].seen, Remaining(command[p])), CanSend(command[p], opts)
    PROVE  Unsplit(Edited(topo, opts))
<1> DEFINE cfg == Remaining(command[p])
<1>1. command[p].taken = Nothing /\ TopologyOK(topo)
  BY DEF CartInv, CommandOK, Whole
<1>2. DOMAIN cfg = Aliases /\ \A a \in Aliases : cfg[a] = ReplicasetsCfg[a]
  BY <1>1, CartridgeAssumption DEF Remaining
<1> HIDE DEF cfg
<1>3. /\ \A o \in opts : o.alias # Nothing
      /\ \A o, q \in opts : o.alias = q.alias => o = q
      /\ \A a \in Aliases : \E o \in opts : Range(o.order) = Range(ReplicasetsCfg[a])
  <2> DEFINE E == EditOpts(command[p].seen, cfg)
  <2>1. DOMAIN cfg \subseteq Aliases /\ opts = E
    BY <1>2 DEF cfg
  <2>2. /\ \A o \in E : o.alias # Nothing
        /\ \A o, q \in E : o.alias = q.alias => o = q
        /\ \A a \in DOMAIN cfg : \E o \in E : Range(o.order) = Range(cfg[a])
    BY <2>1, OptsOf
  <2> HIDE DEF E
  <2>3. QED
    BY <1>2, <2>1, <2>2
<1>4. ASSUME NEW i \in Members PROVE \E o \in opts : i \in o.join \/ i \in Range(o.order)
  <2>1. PICK a \in Aliases : i \in Range(ReplicasetsCfg[a])
    BY DEF Whole, Configured
  <2>2. QED
    BY <1>3, <2>1
<1>5. Acceptable(topo, opts) /\ \A o \in opts : o.join \subseteq Members
  BY DEF CanSend, CanEdit, InstancesCfg
<1>6. QED
  BY <1>1, <1>3, <1>4, <1>5, WholeEdit

\* The steps of a bootstrap that edit the topology.
LEMMA EditKeeps ==
    ASSUME CartInv, NEW p \in Procs, FirstEdit(p) \/ Edit(p)
    PROVE  CartInv'
<1> DEFINE b == command[p]
<1>0. CommandOK(b) /\ DOMAIN b = CommandFields
  BY DEF CartInv, CommandOK
<1>1. CASE GiveUp(p)
  BY <1>1, GiveUpKeeps
<1>2. CASE FirstEdit(p) /\ ~GiveUp(p)
  <2>1. kind.major # 2
    BY <1>0, <1>2 DEF FirstEdit, At, CommandOK, Points
  <2>2. PICK a \in Aliases :
            LET d == [b EXCEPT !.taken = a]
                opts == EditOpts(d.seen, [x \in {a} |-> SubSeq(ReplicasetsCfg[a], 1, 1)])
            IN /\ CanSend(d, opts) /\ topo' = EditReplicasets(opts)
               /\ Becomes(p, [d EXCEPT !.pc = "firstHealth"]) /\ kind' = kind
    BY <1>2 DEF FirstEdit, Same
  <2> DEFINE d == [b EXCEPT !.taken = a]
             c == [d EXCEPT !.pc = "firstHealth"]
  <2>3. DOMAIN c = CommandFields /\ c.pc = "firstHealth" /\ c.op = b.op /\ c.inst = b.inst
    BY <1>0 DEF CommandFields
  <2> HIDE DEF c
  <2>4. CommandOK(c)
    BY <1>0, <2>1, <2>3 DEF CommandOK, Points
  <2>5. Becomes(p, c) /\ ~Whole
    BY <2>1, <2>2 DEF c, Whole
  <2>6. QED
    BY <2>2, <2>4, <2>5, SendKeeps
<1>3. CASE Edit(p) /\ ~GiveUp(p)
  <2> DEFINE opts == EditOpts(b.seen, Remaining(b))
             c == [Done(b) EXCEPT !.pc = "health"]
  <2>1. CanSend(b, opts) /\ topo' = EditReplicasets(opts) /\ Becomes(p, c) /\ kind' = kind
    BY <1>3 DEF Edit, SendEdit, Same
  <2>2. /\ DOMAIN c = CommandFields /\ c.pc = "health" /\ c.op = b.op /\ c.inst = b.inst
        /\ c.taken = b.taken
    BY <1>0 DEF CommandFields, Done
  <2> HIDE DEF c
  <2>3. CommandOK(c)
    BY <1>0, <2>2, PlainOnward DEF Plain
  <2>4. Whole => Unsplit(Edited(topo, opts))
    BY <2>1, EditUnsplit
  <2> HIDE DEF opts
  <2>5. QED
    BY <2>1, <2>3, <2>4, SendKeeps
<1>4. QED
  BY <1>1, <1>2, <1>3

\* A join or a promotion: the edit has no alias.
LEMMA JoinKeeps ==
    ASSUME CartInv, NEW p \in Procs, JoinInstance(p)
    PROVE  CartInv'
<1> DEFINE b == command[p]
           c == [Done(b) EXCEPT !.pc = "health"]
<1>0. CommandOK(b) /\ DOMAIN b = CommandFields /\ (Whole => Unsplit(topo))
  BY DEF CartInv, CommandOK
<1>1. CASE GiveUp(p)
  BY <1>1, GiveUpKeeps
<1>2. ASSUME NEW r, LET opts == {[id |-> r, alias |-> Nothing, join |-> {b.inst}, order |-> <<>>]}
                    IN /\ CanSend(b, opts) /\ topo' = EditReplicasets(opts)
                       /\ Becomes(p, c) /\ kind' = kind
      PROVE  CartInv'
  <2> DEFINE opts == {[id |-> r, alias |-> Nothing, join |-> {b.inst}, order |-> <<>>]}
  <2>1. \A o \in opts : o.alias = Nothing
    BY SMT
  <2>2. CanSend(b, opts) /\ topo' = EditReplicasets(opts) /\ Becomes(p, c) /\ kind' = kind
    BY <1>2
  <2> HIDE DEF opts
  <2>3. /\ DOMAIN c = CommandFields /\ c.pc = "health" /\ c.op = b.op /\ c.inst = b.inst
        /\ c.taken = b.taken
    BY <1>0 DEF CommandFields, Done
  <2> HIDE DEF c
  <2>4. CommandOK(c)
    BY <1>0, <2>3, PlainOnward DEF Plain
  <2>5. Whole => Unsplit(Edited(topo, opts))
    BY <1>0, <2>1, <2>2, PlainEdit DEF CanSend, CanEdit
  <2>6. QED
    BY <2>2, <2>4, <2>5, SendKeeps, ZenonT(60)
<1>3. QED
  BY <1>1, <1>2 DEF JoinInstance, SendEdit, Same

\* A promotion edits the priority or appoints the leader.
LEMMA PromoteKeeps ==
    ASSUME CartInv, NEW p \in Procs, Promote(p)
    PROVE  CartInv'
<1> DEFINE b == command[p]
           v == [b EXCEPT !.via = b.inst]
           r == v.seen.joined[v.inst]
           opts == {[id |-> r, alias |-> Nothing, join |-> {}, order |-> <<v.inst>>]}
           waits == [Done(v) EXCEPT !.pc = "waitRW"]
           checks == [Done(v) EXCEPT !.pc = "health"]
           there == r # 0 /\ v.inst \in v.found
<1>0. CommandOK(b) /\ DOMAIN b = CommandFields /\ (Whole => Unsplit(topo)) /\ TopologyOK(topo)
  BY DEF CartInv, CommandOK
<1>1. ASSUME NEW c \in {waits, checks} PROVE CommandOK(c)
  <2>1. /\ DOMAIN c = CommandFields /\ c.pc \in {"waitRW", "health"} /\ c.op = b.op /\ c.inst = b.inst
        /\ c.taken = b.taken
    BY <1>0, <1>1 DEF CommandFields, Done
  <2>2. QED
    BY <1>0, <2>1, PlainOnward DEF Plain
<1>2. CASE GiveUp(p)
  BY <1>2, GiveUpKeeps
<1>3. CASE CanSend(v, opts) /\ topo' = EditReplicasets(opts) /\ Becomes(p, checks) /\ kind' = kind
  <2>1. \A o \in opts : o.alias = Nothing
    BY SMT
  <2> HIDE DEF opts
  <2>2. Whole => Unsplit(Edited(topo, opts))
    BY <1>0, <1>3, <2>1, PlainEdit DEF CanSend, CanEdit
  <2>3. CommandOK(checks)
    BY <1>1
  <2> HIDE DEF checks, v
  <2>4. QED
    BY <1>3, <2>2, <2>3, SendKeeps
<1>4. CASE topo' = [topo EXCEPT !.wanted[r] = v.inst] /\ Becomes(p, waits) /\ kind' = kind
  <2>1. DOMAIN topo' = DOMAIN topo /\ topo'.joined = topo.joined /\ topo'.alias = topo.alias
    BY <1>0, <1>4 DEF TopologyOK, TopologyFields
  <2>2. TopologyOK(topo') /\ (Whole => Unsplit(topo'))
    BY <1>0, <2>1 DEF TopologyOK, Unsplit, Peopled
  <2>3. CommandOK(waits)
    BY <1>1
  <2> HIDE DEF waits
  <2>4. QED
    BY <1>4, <2>2, <2>3, CommandKeeps
<1>5. \/ GiveUp(p)
      \/ CanSend(v, opts) /\ topo' = EditReplicasets(opts) /\ Becomes(p, checks) /\ kind' = kind
      \/ topo' = [topo EXCEPT !.wanted[r] = v.inst] /\ Becomes(p, waits) /\ kind' = kind
  <2>1. CASE ~there
    BY <2>1 DEF Promote
  <2>2. CASE there /\ kind.failover = "disabled"
    BY <2>2 DEF Promote, Same
  <2>3. CASE there /\ kind.failover = "stateful"
    BY <2>3 DEF Promote, Same
  <2>4. CASE there /\ kind.failover \notin {"disabled", "stateful"}
    BY <2>4 DEF Promote
  <2>5. QED
    BY <2>1, <2>2, <2>3, <2>4
<1>6. QED
  BY <1>2, <1>3, <1>4, <1>5

\* A step that changes no topology and only marks the other commands.
LEMMA Marked ==
    ASSUME CartInv, kind' = kind, topo' = topo, DOMAIN command' = Procs,
           \A q \in Procs : CommandOK(command'[q])
    PROVE  CartInv'
<1>1. \A q \in Procs : CommandOK(command[q])'
  BY DEF CommandOK, Points
<1>2. TopologyOK(topo)' /\ (Whole => Unsplit(topo))'
  BY DEF TopologyOK, Unsplit, Whole, Peopled, CartInv
<1>3. QED
  BY <1>1, <1>2 DEF CartInv

\* Marking a command changes nothing of what it is about.
LEMMA DisturbedOK ==
    ASSUME CartInv
    PROVE  DOMAIN Disturbed = Procs /\ \A q \in Procs : CommandOK(Disturbed[q])
<1>1. CommandOK(NoCommand)
  <2>1. /\ DOMAIN NoCommand = CommandFields /\ NoCommand.op = "none" /\ NoCommand.pc = "idle"
        /\ NoCommand.taken = Nothing
    BY DEF NoCommand, CommandFields
  <2>2. QED
    BY <2>1 DEF CommandOK, Points
<1>2. ASSUME NEW q \in Procs PROVE CommandOK([command[q] EXCEPT !.clean = FALSE, !.before = NoTopology])
  <2> DEFINE b == command[q]
             c == [b EXCEPT !.clean = FALSE, !.before = NoTopology]
  <2>1. CommandOK(b) /\ DOMAIN b = CommandFields
    BY DEF CartInv, CommandOK
  <2>2. /\ DOMAIN c = CommandFields /\ c.pc = b.pc /\ c.op = b.op /\ c.inst = b.inst
        /\ c.taken = b.taken
    BY <2>1 DEF CommandFields
  <2> HIDE DEF c
  <2>3. Points(c)
    BY <2>1, <2>2 DEF CommandOK, Points
  <2>4. CommandOK(c)
    BY <2>1, <2>2, <2>3, Onward
  <2>5. QED
    BY <2>4 DEF c
<1>3. QED
  BY <1>1, <1>2 DEF Disturbed

\* A command starts.
LEMMA StartKeepsTopology ==
    ASSUME CartInv, NEW p \in Procs, NEW r \in Requests, StartCommand(p, r)
    PROVE  CartInv'
<1> DEFINE busy == \E q \in Procs : ~At(q, "idle")
           c == [NoCommand EXCEPT !.op = r.op, !.inst = r.inst, !.rs = r.rs, !.vshard = r.vshard,
                             !.pc = "orchestrator", !.clean = ~busy,
                             !.before = IF busy THEN NoTopology ELSE topo]
<1>1. command' = [q \in Procs |-> IF q # p THEN Disturbed[q] ELSE c]
  BY DEF StartCommand
<1> HIDE DEF busy
<1>2. /\ DOMAIN c = CommandFields /\ c.op = r.op /\ c.inst = r.inst /\ c.pc = "orchestrator"
      /\ c.taken = Nothing
  BY DEF NoCommand, CommandFields
<1> HIDE DEF c
<1>3. CommandOK(c)
  BY <1>2, CartridgeAssumption DEF CommandOK, Points
<1>4. DOMAIN command' = Procs /\ \A q \in Procs : CommandOK(command'[q])
  BY <1>1, <1>3, DisturbedOK
<1>5. kind' = kind /\ topo' = topo
  BY DEF StartCommand
<1>6. QED
  BY <1>4, <1>5, Marked

\* The instances stop, start and elect leaders.
LEMMA InstancesKeep ==
    ASSUME CartInv, \/ \E i \in Members : Stop(i) \/ Restart(i)
                    \/ \E r \in Sets : Settle(r)
    PROVE  CartInv'
<1>1. kind' = kind /\ topo' = topo /\ command' \in {command, Disturbed}
  BY DEF Stop, Restart, Settle
<1>2. DOMAIN command' = Procs /\ \A q \in Procs : CommandOK(command'[q])
  BY <1>1, DisturbedOK DEF CartInv
<1>3. QED
  BY <1>1, <1>2, Marked

\* The cluster that an earlier bootstrap has built.
LEMMA CartInitOK == CartInit => CartInv
<1> SUFFICES ASSUME CartInit PROVE CartInv
  OBVIOUS
<1>1. PICK n \in [Aliases -> 0..Len(InstanceSeq)] :
          LET opts == {[id |-> 0, alias |-> a, join |-> Range(SubSeq(ReplicasetsCfg[a], 1, n[a])),
                        order |-> SubSeq(ReplicasetsCfg[a], 1, n[a])] : a \in {b \in Aliases : n[b] > 0}}
          IN /\ Acceptable(NoTopology, opts) /\ \A o \in opts : o.join \subseteq InstancesCfg
             /\ topo = Edited(NoTopology, opts)
  BY DEF CartInit
<1> DEFINE opt(a) == [id |-> 0, alias |-> a, join |-> Range(SubSeq(ReplicasetsCfg[a], 1, n[a])),
                      order |-> SubSeq(ReplicasetsCfg[a], 1, n[a])]
           opts == {opt(a) : a \in {b \in Aliases : n[b] > 0}}
<1>2. /\ Acceptable(NoTopology, opts) /\ \A o \in opts : o.join \subseteq InstancesCfg
      /\ topo = Edited(NoTopology, opts)
  BY <1>1
<1>3. \A a : opt(a).alias = a
  OBVIOUS
<1> HIDE DEF opt
<1>4. \A o \in opts : o.alias \in Aliases /\ o = opt(o.alias)
  BY <1>3
<1> HIDE DEF opts
<1>5. (\A o \in opts : o.alias # Nothing) /\ (\A o, q \in opts : o.alias = q.alias => o = q)
  <2>1. ASSUME NEW o \in opts, NEW q \in opts, o.alias = q.alias PROVE o = q
    <3>1. o = opt(o.alias) /\ q = opt(q.alias)
      BY <1>4
    <3>2. QED
      BY <2>1, <3>1
  <2>2. QED
    BY <1>4, <2>1, CartridgeAssumption
<1>6. TopologyOK(NoTopology) /\ \A r \in Sets : NoTopology.alias[r] = Nothing
  BY DEF TopologyOK, NoTopology, TopologyFields
<1>7. TopologyOK(topo)
  <2>1. \A o \in opts : o.join \subseteq Members
    BY <1>2 DEF InstancesCfg
  <2>2. QED
    BY <1>2, <1>6, <2>1, EditedOK
<1>8. Unsplit(topo)
  <2>1. PICK at \in Placements(NoTopology, opts) : EditedAs(NoTopology, topo, opts, at)
    BY <1>2, EditedIs
  <2>2. ASSUME NEW r \in Sets, topo.alias[r] \in Aliases PROVE \E o \in opts : at[o] = r
    <3>1. (\A o \in opts : at[o] # r) => topo.alias[r] = NoTopology.alias[r]
      BY <2>1 DEF EditedAs
    <3>2. QED
      BY <1>6, <2>2, <3>1, CartridgeAssumption
  <2>3. QED
    BY <1>5, <2>1, <2>2, NamedOnce, SMT
<1>9. DOMAIN command = Procs /\ \A p \in Procs : CommandOK(command[p])
  <2>1. /\ DOMAIN NoCommand = CommandFields /\ NoCommand.op = "none" /\ NoCommand.pc = "idle"
        /\ NoCommand.taken = Nothing
    BY DEF NoCommand, CommandFields
  <2>2. CommandOK(NoCommand)
    BY <2>1 DEF CommandOK, Points
  <2>3. command = [p \in Procs |-> NoCommand]
    BY DEF CartInit
  <2>4. QED
    BY <2>2, <2>3
<1>10. QED
  BY <1>7, <1>8, <1>9 DEF CartInv

\* The invariant of the Cartridge orchestrator always holds.
THEOREM CartInvariance == CartSpec => []CartInv
<1>1. CartInv /\ [CartNext]_cartVars => CartInv'
  <2> SUFFICES ASSUME CartInv, [CartNext]_cartVars PROVE CartInv'
    OBVIOUS
  <2>1. ASSUME NEW p \in Procs, Command(p) PROVE CartInv'
    BY <2>1, QuietKeeps, EditKeeps, JoinKeeps, WaitHealthyKeeps, EndsKeep, VShardTryKeeps, ExpelKeeps,
       PromoteKeeps DEF Command
  <2>2. ASSUME NEW p \in Procs, NEW r \in Requests, StartCommand(p, r) PROVE CartInv'
    BY <2>2, StartKeepsTopology
  <2>3. CASE (\E i \in Members : Stop(i) \/ Restart(i)) \/ \E r \in Sets : Settle(r)
    BY <2>3, InstancesKeep
  <2>4. CASE UNCHANGED cartVars
    BY <2>4, Marked DEF cartVars, CartInv
  <2>5. QED
    BY <2>1, <2>2, <2>3, <2>4 DEF CartNext
<1>2. QED
  BY <1>1, CartInitOK, PTL DEF CartSpec

\* With Cartridge 2, and every instance in replicasets.yml, no two replicasets get the same alias
\* however bootstraps, joins, expels and promotions overlap: updateCartridgeReplicasets decides from
\* an old discovery what to create, but an edit whose options no longer fit the topology is refused.
THEOREM NoSplit == CartSpec => []NoSplitReplicaset
<1>1. CartInv => NoSplitReplicaset
  BY DEF CartInv, Whole, Unsplit, SetNamed, NoSplitReplicaset
<1>2. QED
  BY <1>1, CartInvariance, PTL

---------------------------------------------------------------------------
(* What an undisturbed command of the Cartridge orchestrator reports.      *)

\* The program points before the edit of a bootstrap, a join or an expel, and after it.
BeforeEdit == {"orchestrator", "discover", "choose", "edit", "joinEdit", "expel", "expel2"}
AfterEdit == {"health", "report", "end"}

\* The commands that ErrorMeansUnchanged is about, while they run.
Tracked(c) == /\ kind.major = 2 /\ c.clean /\ c.pc # "idle"
              /\ c.op \in {"bootstrap", "join", "expel"} /\ ~c.vshard

\* The topology t is what a command that is about to succeed was asked for.
Reported(c, t) ==
    /\ c.op = "join" => t.alias[t.joined[c.inst]] = c.rs
    /\ c.op = "expel" => t.joined[c.inst] = 0

\* Such a command at its program point.
Follows(c, t) ==
    /\ c.pc \in BeforeEdit \cup AfterEdit
    /\ c.pc \in BeforeEdit => t = c.before
    /\ c.pc = "choose" => c.op \in {"bootstrap", "join"}
    /\ c.pc = "edit" => c.op = "bootstrap"
    /\ c.pc \in {"choose", "joinEdit"} => c.seen \in {t, NoTopology}
    /\ c.pc \in {"discover", "choose", "joinEdit"} /\ c.op = "join" => c.rs # Nothing
    /\ c.pc \in AfterEdit => running # {} /\ Reported(c, t)
    /\ c.pc = "health" => c.via \in running

\* An undisturbed command is the only one.
Solo(p) == command[p].clean /\ command[p].pc # "idle" => \A q \in Procs \ {p} : command[q].pc = "idle"

\* The inductive invariant, on top of CartInv.
CleanInv == \A p \in Procs : Solo(p) /\ (Tracked(command[p]) => Follows(command[p], topo))

\* What a step of a command leaves as the user gave it.
Kept(b, c) == /\ c.op = b.op /\ c.inst = b.inst /\ c.rs = b.rs /\ c.vshard = b.vshard
              /\ c.clean = b.clean /\ c.before = b.before

\* How command p ends, if the step ends it.
Honest(p) ==
    Tracked(command[p]) /\ command'[p].pc = "idle" =>
        /\ command'[p].res = "error" => topo = command[p].before
        /\ command'[p].res = "ok" => Reported(command[p], topo)

\* A step of one command, while the others are idle or disturbed.
LEMMA AloneKeeps ==
    ASSUME CartInv, CleanInv, NEW p \in Procs, ~At(p, "idle"), NEW c, Becomes(p, c),
           kind' = kind, running' = running,
           c.pc # "idle" /\ c.clean => command[p].clean,
           Tracked(c) => Follows(c, topo')
    PROVE  CleanInv'
<1>1. \A q \in Procs : command'[q] = IF q = p THEN c ELSE command[q]
  BY DEF Becomes, CartInv
<1>2. ASSUME NEW q \in Procs, q # p PROVE ~command[q].clean \/ command[q].pc = "idle"
  BY <1>2 DEF CleanInv, Solo, At
<1>3. ASSUME NEW q \in Procs PROVE Solo(q)'
  <2>1. CASE q = p
    <3>1. ASSUME c.clean, c.pc # "idle" PROVE \A s \in Procs \ {p} : command'[s].pc = "idle"
      BY <1>1, <3>1 DEF CleanInv, Solo, At
    <3>2. QED
      BY <1>1, <2>1, <3>1 DEF Solo
  <2>2. CASE q # p
    BY <1>1, <1>2, <2>2 DEF Solo
  <2>3. QED
    BY <2>1, <2>2
<1>4. ASSUME NEW q \in Procs, Tracked(command[q])' PROVE Follows(command[q], topo)'
  <2>1. q = p
    BY <1>1, <1>2, <1>4 DEF Tracked
  <2>2. Tracked(c) /\ command'[q] = c
    BY <1>1, <1>4, <2>1 DEF Tracked
  <2>3. QED
    BY <2>2 DEF Follows, Reported, NoTopology
<1>5. QED
  BY <1>3, <1>4 DEF CleanInv

\* A command that goes on.
LEMMA StaysHonest ==
    ASSUME CartInv, CleanInv, NEW p \in Procs, ~At(p, "idle"), NEW c, Becomes(p, c),
           kind' = kind, running' = running, c.pc # "idle", Kept(command[p], c),
           Tracked(command[p]) => Follows(c, topo')
    PROVE  CleanInv' /\ Honest(p)
<1>1. command'[p] = c
  BY DEF Becomes, CartInv
<1>2. Honest(p)
  BY <1>1 DEF Honest
<1>3. c.clean => command[p].clean
  BY DEF Kept
<1>4. Tracked(c) => Tracked(command[p])
  BY DEF Kept, Tracked, At
<1>5. QED
  BY <1>2, <1>3, <1>4, AloneKeeps

\* A command that ends.
LEMMA EndsHonest ==
    ASSUME CartInv, CleanInv, NEW p \in Procs, ~At(p, "idle"), NEW res \in {"ok", "error"},
           Finish(p, res), kind' = kind, running' = running,
           Tracked(command[p]) /\ res = "error" => topo = command[p].before,
           Tracked(command[p]) /\ res = "ok" => Reported(command[p], topo)
    PROVE  CleanInv' /\ Honest(p)
<1> DEFINE c == [NoCommand EXCEPT !.res = res]
<1>1. c.pc = "idle" /\ c.res = res
  BY DEF NoCommand
<1>2. Becomes(p, c)
  BY DEF Finish, Becomes
<1> HIDE DEF c
<1>3. command'[p] = c
  BY <1>2 DEF Becomes, CartInv
<1>4. Honest(p)
  BY <1>1, <1>3 DEF Honest
<1>5. ~Tracked(c)
  BY <1>1 DEF Tracked
<1>6. QED
  BY <1>1, <1>2, <1>4, <1>5, AloneKeeps

\* A command that gives up before its edit.
LEMMA GivesUpHonest ==
    ASSUME CartInv, CleanInv, NEW p \in Procs, ~At(p, "idle"), GiveUp(p),
           Tracked(command[p]) => command[p].pc \in BeforeEdit
    PROVE  CleanInv' /\ Honest(p)
<1>1. Finish(p, "error") /\ kind' = kind /\ running' = running
  BY DEF GiveUp, Same
<1>2. Tracked(command[p]) => topo = command[p].before
  BY DEF CleanInv, Follows
<1>3. QED
  BY <1>1, <1>2, EndsHonest

\* The steps that change no topology: Orchestrator asks for the replicaset of a join, Discover sees
\* the topology as it is.
LEMMA QuietHonest ==
    ASSUME CartInv, CleanInv, NEW p \in Procs,
           Orchestrator(p) \/ Discover(p) \/ Choose(p) \/ Rediscover(p) \/ VShard(p)
    PROVE  CleanInv' /\ Honest(p)
<1> DEFINE b == command[p]
<1>0. /\ DOMAIN b = CommandFields /\ ~At(p, "idle") /\ (Tracked(b) => Follows(b, topo))
      /\ b.pc \in {"orchestrator", "discover", "choose", "rediscover", "vshard"}
  BY DEF CartInv, CommandOK, CleanInv, Orchestrator, Discover, Choose, Rediscover, VShard, At
<1>1. CASE GiveUp(p)
  <2>1. Tracked(b) => b.pc \in BeforeEdit
    BY <1>0 DEF Follows, AfterEdit, BeforeEdit
  <2>2. QED
    BY <1>0, <1>1, <2>1, GivesUpHonest
<1>2. CASE Orchestrator(p) /\ ~GiveUp(p)
  <2> DEFINE c == [b EXCEPT !.pc = "discover"]
  <2>1. Advance(p, c) /\ (b.op = "join" => b.rs # Nothing) /\ b.pc = "orchestrator"
    BY <1>2 DEF Orchestrator, At
  <2>2. Kept(b, c) /\ c.pc = "discover"
    BY <1>0 DEF CommandFields, Kept
  <2> HIDE DEF c
  <2>3. Becomes(p, c) /\ topo' = topo /\ kind' = kind /\ running' = running
    BY <2>1 DEF Advance, Same
  <2>4. Tracked(b) => Follows(c, topo')
    BY <1>0, <2>1, <2>2, <2>3 DEF Follows, Kept, BeforeEdit, AfterEdit
  <2>5. QED
    BY <1>0, <2>2, <2>3, <2>4, StaysHonest
<1>3. CASE Discover(p) /\ ~GiveUp(p)
  <2> DEFINE s == [b EXCEPT !.seen = View, !.found = Online(View)]
             point == CASE s.op \in {"bootstrap", "join"} -> "choose" [] OTHER -> s.op
             c == [s EXCEPT !.pc = point]
  <2>1. Advance(p, c) /\ b.pc = "discover"
    BY <1>3 DEF Discover, At
  <2>2. DOMAIN s = CommandFields /\ Kept(b, s) /\ s.seen = View
    BY <1>0 DEF CommandFields, Kept
  <2>3. point = IF b.op \in {"bootstrap", "join"} THEN "choose" ELSE b.op
    BY <2>2 DEF Kept
  <2> HIDE DEF s, point
  <2>4. Kept(b, c) /\ c.pc = point /\ c.seen = View
    BY <2>2 DEF CommandFields, Kept
  <2> HIDE DEF c
  <2>5. Becomes(p, c) /\ topo' = topo /\ kind' = kind /\ running' = running
    BY <2>1 DEF Advance, Same
  <2>6. View \in {topo, NoTopology}
    BY DEF View
  <2>7. point # "idle"
    BY <2>3 DEF CartInv, CommandOK
  <2>8. ASSUME Tracked(b) PROVE Follows(c, topo')
    <3>1. \/ b.op \in {"bootstrap", "join"} /\ c.pc = "choose"
          \/ b.op = "expel" /\ c.pc = "expel"
      BY <2>3, <2>4, <2>8 DEF Tracked
    <3>2. topo = b.before /\ (b.op = "join" => b.rs # Nothing)
      BY <1>0, <2>1, <2>8 DEF Follows, BeforeEdit
    <3>3. QED
      BY <2>4, <2>5, <2>6, <3>1, <3>2 DEF Follows, Kept, BeforeEdit, AfterEdit
  <2>9. QED
    BY <1>0, <2>4, <2>5, <2>7, <2>8, StaysHonest
<1>4. CASE Choose(p) /\ ~GiveUp(p)
  <2> DEFINE point == CASE b.op = "join" -> "joinEdit"
                     [] b.op = "bootstrap" /\ kind.major = 1 /\ ~Bootstrapped(b.seen) -> "firstEdit"
                     [] OTHER -> "edit"
             c == [b EXCEPT !.via = Candidates(b)[1], !.pc = point]
  <2>1. Advance(p, c) /\ b.pc = "choose"
    BY <1>4 DEF Choose, At
  <2>2. \/ point = "joinEdit" /\ b.op = "join"
        \/ point = "firstEdit" /\ kind.major = 1
        \/ point = "edit" /\ b.op # "join"
    <3>1. CASE b.op = "join"
      BY <3>1
    <3>2. CASE b.op # "join"
      <4>1. CASE b.op = "bootstrap" /\ kind.major = 1 /\ ~Bootstrapped(b.seen)
        BY <3>2, <4>1
      <4>2. CASE ~(b.op = "bootstrap" /\ kind.major = 1 /\ ~Bootstrapped(b.seen))
        BY <3>2, <4>2
      <4>3. QED
        BY <4>1, <4>2
    <3>3. QED
      BY <3>1, <3>2
  <2> HIDE DEF point
  <2>3. Kept(b, c) /\ c.pc = point /\ c.seen = b.seen
    BY <1>0 DEF CommandFields, Kept
  <2> HIDE DEF c
  <2>4. kind.major = 1 => kind.major # 2
    BY SMT
  <2>5. Becomes(p, c) /\ topo' = topo /\ kind' = kind /\ running' = running
    BY <2>1 DEF Advance, Same
  <2>6. point # "idle"
    BY <2>2
  <2>7. ASSUME Tracked(b) PROVE Follows(c, topo')
    <3>1. /\ topo = b.before /\ b.op \in {"bootstrap", "join"} /\ b.seen \in {topo, NoTopology}
          /\ b.op = "join" => b.rs # Nothing
      BY <1>0, <2>1, <2>7 DEF Follows, BeforeEdit
    <3>2. \/ point = "joinEdit" /\ b.op = "join"
          \/ point = "edit" /\ b.op = "bootstrap"
      BY <2>2, <2>4, <2>7, <3>1 DEF Tracked
    <3>3. QED
      BY <2>3, <2>5, <3>1, <3>2 DEF Follows, Kept, BeforeEdit, AfterEdit
  <2>8. QED
    BY <1>0, <2>3, <2>5, <2>6, <2>7, StaysHonest
<1>5. CASE Rediscover(p) /\ ~GiveUp(p)
  <2> DEFINE c == [b EXCEPT !.seen = View, !.pc = "vshard"]
  <2>1. Advance(p, c) /\ b.pc = "rediscover"
    BY <1>5 DEF Rediscover, At
  <2>2. Kept(b, c) /\ c.pc = "vshard"
    BY <1>0 DEF CommandFields, Kept
  <2> HIDE DEF c
  <2>3. Becomes(p, c) /\ topo' = topo /\ kind' = kind /\ running' = running /\ ~Tracked(b)
    BY <1>0, <2>1 DEF Advance, Same, Follows, BeforeEdit, AfterEdit
  <2>4. QED
    BY <1>0, <2>2, <2>3, StaysHonest
<1>6. CASE VShard(p)
  <2> DEFINE c == [Done(b) EXCEPT !.queue = FilterDiscovered(b), !.pc = "vshardTry", !.failed = FALSE]
  <2>1. Advance(p, c) /\ b.pc = "vshard"
    BY <1>6 DEF VShard, At
  <2>2. Kept(b, c) /\ c.pc = "vshardTry"
    BY <1>0 DEF CommandFields, Kept, Done
  <2> HIDE DEF c
  <2>3. Becomes(p, c) /\ topo' = topo /\ kind' = kind /\ running' = running /\ ~Tracked(b)
    BY <1>0, <2>1 DEF Advance, Same, Follows, BeforeEdit, AfterEdit
  <2>4. QED
    BY <1>0, <2>2, <2>3, StaysHonest
<1>7. QED
  BY <1>1, <1>2, <1>3, <1>4, <1>5, <1>6

\* Where WaitHealthy leads a command.
LEMMA AfterHealthIs ==
    ASSUME NEW b
    PROVE  /\ AfterHealth(b) \in {"edit", "end", "waitRW", "rediscover", "report"}
           /\ b.pc # "firstHealth" /\ b.op # "promote" /\ ~b.vshard => AfterHealth(b) \in {"end", "report"}
<1>1. CASE b.pc = "firstHealth"
  BY <1>1 DEF AfterHealth
<1>2. CASE b.pc # "firstHealth" /\ b.op = "expel"
  BY <1>2 DEF AfterHealth
<1>3. CASE b.pc # "firstHealth" /\ b.op = "promote"
  BY <1>3 DEF AfterHealth
<1>4. CASE b.pc # "firstHealth" /\ b.op \notin {"expel", "promote"} /\ b.vshard
  BY <1>4 DEF AfterHealth
<1>5. CASE b.pc # "firstHealth" /\ b.op \notin {"expel", "promote"} /\ ~b.vshard
  BY <1>5 DEF AfterHealth
<1>6. QED
  BY <1>1, <1>2, <1>3, <1>4, <1>5

\* WaitHealthy: with Cartridge 2 it fails only when the instance that took the edit stops, which
\* disturbs the command.
LEMMA WaitHealthyHonest ==
    ASSUME CartInv, CleanInv, NEW p \in Procs, WaitHealthy(p)
    PROVE  CleanInv' /\ Honest(p)
<1> DEFINE b == command[p]
           c == [b EXCEPT !.pc = AfterHealth(b)]
           d == [b EXCEPT !.pc = "expel2", !.failed = TRUE]
<1>0. /\ DOMAIN b = CommandFields /\ ~At(p, "idle") /\ (Tracked(b) => Follows(b, topo))
      /\ b.pc \in {"firstHealth", "health"}
  BY DEF CartInv, CommandOK, CleanInv, WaitHealthy, At
<1>1. Tracked(b) => b.pc = "health" /\ running # {} /\ Reported(b, topo) /\ b.via \in running
  BY <1>0 DEF Follows, BeforeEdit, AfterEdit
<1>2. Tracked(b) => ~NeedsHealthCheck
  BY SMT DEF Tracked, NeedsHealthCheck
<1>3. CASE b.via \notin running \/ NeedsHealthCheck
  <2>1. ~Tracked(b)
    BY <1>1, <1>2, <1>3
  <2>2. CASE GiveUp(p)
    BY <1>0, <2>1, <2>2, GivesUpHonest
  <2>3. CASE Advance(p, d)
    <3>1. Kept(b, d) /\ d.pc = "expel2"
      BY <1>0 DEF CommandFields, Kept
    <3> HIDE DEF d
    <3>2. Becomes(p, d) /\ kind' = kind /\ running' = running
      BY <2>3 DEF Advance, Same
    <3>3. QED
      BY <1>0, <2>1, <3>1, <3>2, StaysHonest
  <2>4. CASE Advance(p, c)
    <3>1. Kept(b, c) /\ c.pc = AfterHealth(b)
      BY <1>0 DEF CommandFields, Kept
    <3>2. AfterHealth(b) # "idle"
      BY AfterHealthIs
    <3> HIDE DEF c
    <3>3. Becomes(p, c) /\ kind' = kind /\ running' = running
      BY <2>4 DEF Advance, Same
    <3>4. QED
      BY <1>0, <2>1, <3>1, <3>2, <3>3, StaysHonest
  <2>5. QED
    BY <2>2, <2>3, <2>4 DEF WaitHealthy
<1>4. CASE b.via \in running /\ ~NeedsHealthCheck
  <2>1. Advance(p, c)
    BY <1>4 DEF WaitHealthy
  <2>2. Kept(b, c) /\ c.pc = AfterHealth(b)
    BY <1>0 DEF CommandFields, Kept
  <2>3. AfterHealth(b) # "idle"
    BY AfterHealthIs
  <2> HIDE DEF c
  <2>4. Becomes(p, c) /\ kind' = kind /\ running' = running /\ topo' = topo
    BY <2>1 DEF Advance, Same
  <2>5. ASSUME Tracked(b) PROVE Follows(c, topo')
    <3>1. AfterHealth(b) \in {"end", "report"}
      BY <1>1, <2>5, AfterHealthIs DEF Tracked
    <3>2. QED
      BY <1>1, <2>2, <2>4, <2>5, <3>1 DEF Follows, Kept, BeforeEdit, AfterEdit, Reported
  <2>6. QED
    BY <1>0, <2>2, <2>3, <2>4, <2>5, StaysHonest
<1>5. QED
  BY <1>3, <1>4

\* The ends of a command, and the wait of a promotion.
LEMMA LastHonest ==
    ASSUME CartInv, CleanInv, NEW p \in Procs, Report(p) \/ Return(p) \/ WaitWritable(p)
    PROVE  CleanInv' /\ Honest(p)
<1> DEFINE b == command[p]
           c == [b EXCEPT !.pc = "end"]
<1>0. /\ DOMAIN b = CommandFields /\ ~At(p, "idle") /\ (Tracked(b) => Follows(b, topo))
      /\ b.pc \in {"report", "end", "waitRW"}
  BY DEF CartInv, CommandOK, CleanInv, Report, Return, WaitWritable, At
<1>1. Tracked(b) => b.pc \in AfterEdit /\ running # {} /\ Reported(b, topo) /\ b.pc # "waitRW"
  BY <1>0 DEF Follows, BeforeEdit, AfterEdit
<1>2. CASE Finish(p, "ok") /\ UNCHANGED <<topo, vshard>> /\ Same
  <2>1. Finish(p, "ok") /\ kind' = kind /\ running' = running
    BY <1>2 DEF Same
  <2>2. QED
    BY <1>0, <1>1, <2>1, EndsHonest
<1>3. CASE Report(p) /\ running = {}
  BY <1>0, <1>1, <1>3, GivesUpHonest DEF Report
<1>4. CASE WaitWritable(p)
  <2>1. ~Tracked(b)
    BY <1>1, <1>4 DEF WaitWritable, At
  <2>2. CASE GiveUp(p)
    BY <1>0, <2>1, <2>2, GivesUpHonest
  <2>3. CASE Advance(p, c)
    <3>1. Kept(b, c) /\ c.pc = "end"
      BY <1>0 DEF CommandFields, Kept
    <3> HIDE DEF c
    <3>2. Becomes(p, c) /\ kind' = kind /\ running' = running
      BY <2>3 DEF Advance, Same
    <3>3. QED
      BY <1>0, <2>1, <3>1, <3>2, StaysHonest
  <2>4. QED
    BY <1>4, <2>2, <2>3 DEF WaitWritable
<1>5. QED
  BY <1>2, <1>3, <1>4 DEF Report, Return

\* The steps of vshard bootstrap, of the first edit with an old Cartridge and of a promotion: no
\* tracked command is there.
LEMMA ElsewhereHonest ==
    ASSUME CartInv, CleanInv, NEW p \in Procs, VShardTry(p) \/ FirstEdit(p) \/ Promote(p)
    PROVE  CleanInv' /\ Honest(p)
<1> DEFINE b == command[p]
<1>0. /\ DOMAIN b = CommandFields /\ ~At(p, "idle") /\ (Tracked(b) => Follows(b, topo))
      /\ b.pc \in {"vshardTry", "firstEdit", "promote"}
  BY DEF CartInv, CommandOK, CleanInv, VShardTry, FirstEdit, Promote, At
<1>1. ~Tracked(b)
  BY <1>0 DEF Follows, BeforeEdit, AfterEdit
<1>2. CASE GiveUp(p)
  BY <1>0, <1>1, <1>2, GivesUpHonest
<1>3. ASSUME NEW c, Kept(b, c), c.pc # "idle", Becomes(p, c), kind' = kind, running' = running
      PROVE  CleanInv' /\ Honest(p)
  BY <1>0, <1>1, <1>3, StaysHonest
<1>4. CASE VShardTry(p) /\ ~GiveUp(p)
  <2> DEFINE next == [b EXCEPT !.queue = Tail(@), !.tried = TRUE, !.failed = TRUE]
             skip == [b EXCEPT !.queue = Tail(@)]
             good == [b EXCEPT !.queue = <<>>, !.tried = TRUE, !.failed = FALSE]
             over == [b EXCEPT !.pc = IF b.op = "bootstrap" THEN "report" ELSE "end"]
  <2>1. PICK c \in {next, skip, good, over} : Becomes(p, c) /\ kind' = kind /\ running' = running
    BY <1>4 DEF VShardTry, Advance, Same
  <2>2. ASSUME NEW x \in {next, skip, good, over} PROVE Kept(b, x) /\ x.pc \in {b.pc, "report", "end"}
    <3>1. CASE x \in {next, skip, good}
      <4>1. Kept(b, next) /\ next.pc = b.pc
        BY <1>0 DEF CommandFields, Kept
      <4>2. Kept(b, skip) /\ skip.pc = b.pc
        BY <1>0 DEF CommandFields, Kept
      <4>3. Kept(b, good) /\ good.pc = b.pc
        BY <1>0 DEF CommandFields, Kept
      <4> HIDE DEF next, skip, good
      <4>4. QED
        BY <3>1, <4>1, <4>2, <4>3
    <3>2. CASE x = over
      <4> DEFINE point == IF b.op = "bootstrap" THEN "report" ELSE "end"
      <4>1. point \in {"report", "end"}
        OBVIOUS
      <4>2. x = [b EXCEPT !.pc = point]
        BY <3>2
      <4> HIDE DEF point
      <4>3. Kept(b, x) /\ x.pc = point
        BY <1>0, <4>2 DEF CommandFields, Kept
      <4>4. QED
        BY <4>1, <4>3
    <3>3. QED
      BY <2>2, <3>1, <3>2
  <2> HIDE DEF next, skip, good, over
  <2>3. c.pc # "idle" /\ Kept(b, c)
    BY <1>0, <2>2
  <2>4. QED
    BY <1>3, <2>1, <2>3
<1>5. CASE FirstEdit(p) /\ ~GiveUp(p)
  <2>1. PICK a \in Aliases : /\ Becomes(p, [[b EXCEPT !.taken = a] EXCEPT !.pc = "firstHealth"])
                             /\ kind' = kind /\ running' = running
    BY <1>5 DEF FirstEdit, Same
  <2> DEFINE d == [b EXCEPT !.taken = a]
             c == [d EXCEPT !.pc = "firstHealth"]
  <2>2. Kept(b, c) /\ c.pc = "firstHealth"
    BY <1>0 DEF CommandFields, Kept
  <2>3. Becomes(p, c)
    BY <2>1
  <2> HIDE DEF c
  <2>4. QED
    BY <1>3, <2>1, <2>2, <2>3
<1>6. CASE Promote(p) /\ ~GiveUp(p)
  <2> DEFINE v == [b EXCEPT !.via = b.inst]
             r == v.seen.joined[v.inst]
             there == r # 0 /\ v.inst \in v.found
             waits == [Done(v) EXCEPT !.pc = "waitRW"]
             checks == [Done(v) EXCEPT !.pc = "health"]
  <2>1. \E c \in {waits, checks} : Becomes(p, c) /\ kind' = kind /\ running' = running
    <3>1. CASE ~there
      BY <1>6, <3>1 DEF Promote
    <3>2. CASE there /\ kind.failover = "disabled"
      BY <1>6, <3>2 DEF Promote, Same
    <3>3. CASE there /\ kind.failover = "stateful"
      BY <1>6, <3>3 DEF Promote, Same
    <3>4. CASE there /\ kind.failover \notin {"disabled", "stateful"}
      BY <1>6, <3>4 DEF Promote
    <3>5. QED
      BY <3>1, <3>2, <3>3, <3>4
  <2>2. ASSUME NEW x \in {waits, checks} PROVE Kept(b, x) /\ x.pc # "idle"
    BY <1>0, <2>2, ZenonT(60) DEF CommandFields, Kept, Done
  <2> HIDE DEF waits, checks
  <2>3. QED
    BY <1>3, <2>1, <2>2
<1>7. QED
  BY <1>2, <1>4, <1>5, <1>6

\* The edit of a bootstrap goes through an instance that runs.
LEMMA EditHonest ==
    ASSUME CartInv, CleanInv, NEW p \in Procs, Edit(p)
    PROVE  CleanInv' /\ Honest(p)
<1> DEFINE b == command[p]
           opts == EditOpts(b.seen, Remaining(b))
           c == [Done(b) EXCEPT !.pc = "health"]
<1>0. /\ DOMAIN b = CommandFields /\ ~At(p, "idle") /\ (Tracked(b) => Follows(b, topo))
      /\ b.pc = "edit"
  BY DEF CartInv, CommandOK, CleanInv, Edit, At
<1>1. CASE GiveUp(p)
  BY <1>0, <1>1, GivesUpHonest DEF BeforeEdit
<1>2. CASE ~GiveUp(p)
  <2>1. CanSend(b, opts) /\ Becomes(p, c) /\ kind' = kind /\ running' = running
    BY <1>2 DEF Edit, SendEdit, Same
  <2>2. Kept(b, c) /\ c.pc = "health" /\ c.via = b.via
    BY <1>0 DEF CommandFields, Kept, Done
  <2> HIDE DEF c, opts
  <2>3. c.via \in running
    BY <2>1, <2>2 DEF CanSend
  <2>4. ASSUME Tracked(b) PROVE Follows(c, topo')
    <3>1. c.op = "bootstrap"
      BY <1>0, <2>2, <2>4 DEF Follows, Kept
    <3>2. Reported(c, topo')
      BY <3>1 DEF Reported
    <3>3. QED
      BY <2>2, <2>3, <3>2 DEF Follows, BeforeEdit, AfterEdit
  <2>5. QED
    BY <1>0, <2>1, <2>2, <2>4, StaysHonest
<1>3. QED
  BY <1>1, <1>2

\* A join that Cartridge accepts puts the instance into the replicaset it has seen.
LEMMA JoinedThere ==
    ASSUME NEW i \in Members, NEW r \in Sets, topo.alias[r] # Nothing,
           NEW opts, opts = {[id |-> r, alias |-> Nothing, join |-> {i}, order |-> <<>>]},
           Acceptable(topo, opts)
    PROVE  LET e == Edited(topo, opts) IN e.joined[i] = r /\ e.alias[r] = topo.alias[r]
<1> DEFINE e == Edited(topo, opts)
           o == [id |-> r, alias |-> Nothing, join |-> {i}, order |-> <<>>]
<1>1. PICK at \in Placements(topo, opts) : EditedAs(topo, e, opts, at)
  BY EditedIs
<1>2. o \in opts /\ o.id = r /\ o.alias = Nothing /\ i \in o.join
  BY ZenonT(60)
<1>3. r # 0
  BY SMT DEF Sets
<1> HIDE DEF e, o
<1>4. at[o] = r
  BY <1>2, <1>3 DEF Placements
<1>5. e.joined[i] = r
  BY <1>1, <1>2, <1>4, ZenonT(60) DEF EditedAs
<1>6. e.alias[at[o]] = IF topo.alias[at[o]] = Nothing THEN "unnamed" ELSE topo.alias[at[o]]
  BY <1>1, <1>2 DEF EditedAs
<1>7. QED
  BY <1>4, <1>5, <1>6 DEF e

\* A join that is undisturbed has seen the topology that it edits.
LEMMA JoinHonest ==
    ASSUME CartInv, CleanInv, NEW p \in Procs, JoinInstance(p)
    PROVE  CleanInv' /\ Honest(p)
<1> DEFINE b == command[p]
           c == [Done(b) EXCEPT !.pc = "health"]
           edit(r) == {[id |-> r, alias |-> Nothing, join |-> {b.inst}, order |-> <<>>]}
<1>0. /\ DOMAIN b = CommandFields /\ ~At(p, "idle") /\ (Tracked(b) => Follows(b, topo))
      /\ b.pc = "joinEdit" /\ b.op = "join" /\ b.inst \in Members
  BY DEF CartInv, CommandOK, Points, CleanInv, JoinInstance, At
<1>1. CASE GiveUp(p)
  BY <1>0, <1>1, GivesUpHonest DEF BeforeEdit
<1>2. CASE ~GiveUp(p)
  <2>1. PICK r \in SetNamed(b.seen, b.rs) :
            /\ CanSend(b, edit(r)) /\ topo' = EditReplicasets(edit(r))
            /\ Becomes(p, c) /\ kind' = kind /\ running' = running
    BY <1>2 DEF JoinInstance, SendEdit, Same
  <2>2. Kept(b, c) /\ c.pc = "health" /\ c.via = b.via
    BY <1>0 DEF CommandFields, Kept, Done
  <2> HIDE DEF c
  <2>3. c.via \in running
    BY <2>1, <2>2 DEF CanSend
  <2>4. ASSUME Tracked(b) PROVE Follows(c, topo')
    <3>1. r \in Sets /\ b.seen.alias[r] = b.rs
      BY DEF SetNamed
    <3>2. b.rs # Nothing /\ b.seen \in {topo, NoTopology}
      BY <1>0, <2>4 DEF Follows
    <3>3. NoTopology.alias[r] = Nothing
      BY <3>1 DEF NoTopology
    <3>4. topo.alias[r] = b.rs
      BY <3>1, <3>2, <3>3
    <3> DEFINE opts == edit(r)
    <3>5. opts = {[id |-> r, alias |-> Nothing, join |-> {b.inst}, order |-> <<>>]}
      OBVIOUS
    <3>6. Acceptable(topo, opts) /\ topo' = Edited(topo, opts)
      BY <2>1 DEF CanSend, CanEdit, EditReplicasets
    <3> HIDE DEF opts
    <3>7. topo'.joined[b.inst] = r /\ topo'.alias[r] = topo.alias[r]
      BY <1>0, <3>1, <3>2, <3>4, <3>5, <3>6, JoinedThere, ZenonT(60)
    <3>8. Reported(c, topo')
      BY <1>0, <2>2, <3>4, <3>7 DEF Reported, Kept
    <3>9. QED
      BY <2>2, <2>3, <3>8 DEF Follows, BeforeEdit, AfterEdit
  <2>5. QED
    BY <1>0, <2>1, <2>2, <2>4, StaysHonest
<1>3. QED
  BY <1>1, <1>2

\* An expel ends its tries with the one that Cartridge accepts.
LEMMA ExpelHonest ==
    ASSUME CartInv, CleanInv, NEW p \in Procs, Expel(p) \/ ExpelTry(p)
    PROVE  CleanInv' /\ Honest(p)
<1> DEFINE b == command[p]
           next == [b EXCEPT !.queue = Tail(@)]
           again == [next EXCEPT !.tried = TRUE, !.failed = TRUE]
           sent == [next EXCEPT !.via = Head(b.queue), !.tried = TRUE, !.pc = "health"]
           begins == [Done(b) EXCEPT !.queue = FilterDiscovered(b), !.pc = "expel2"]
<1>0. /\ DOMAIN b = CommandFields /\ ~At(p, "idle") /\ (Tracked(b) => Follows(b, topo))
      /\ b.pc \in {"expel", "expel2"} /\ b.op = "expel" /\ b.inst \in Members /\ TopologyOK(topo)
  BY DEF CartInv, CommandOK, Points, CleanInv, Expel, ExpelTry, At
<1>1. Tracked(b) => topo = b.before
  BY <1>0 DEF Follows, BeforeEdit
<1>2. CASE GiveUp(p)
  BY <1>0, <1>2, GivesUpHonest DEF BeforeEdit
<1>3. ASSUME NEW c, Kept(b, c), c.pc = "expel2", Advance(p, c)
      PROVE  CleanInv' /\ Honest(p)
  <2>1. Becomes(p, c) /\ topo' = topo /\ kind' = kind /\ running' = running
    BY <1>3 DEF Advance, Same
  <2>2. Tracked(b) => Follows(c, topo')
    BY <1>0, <1>1, <1>3, <2>1 DEF Follows, Kept, BeforeEdit, AfterEdit
  <2>3. QED
    BY <1>0, <1>3, <2>1, <2>2, StaysHonest
<1>4. CASE Expel(p) /\ ~GiveUp(p)
  <2>1. Advance(p, begins)
    BY <1>4 DEF Expel
  <2>2. Kept(b, begins) /\ begins.pc = "expel2"
    BY <1>0 DEF CommandFields, Kept, Done
  <2> HIDE DEF begins
  <2>3. QED
    BY <1>3, <2>1, <2>2
<1>5. CASE ExpelTry(p) /\ ~GiveUp(p)
  <2>1. b.pc = "expel2"
    BY <1>5 DEF ExpelTry, At
  <2>2. Kept(b, next) /\ next.pc = "expel2"
    BY <1>0, <2>1 DEF CommandFields, Kept
  <2>3. Kept(b, again) /\ again.pc = "expel2"
    BY <1>0, <2>1 DEF CommandFields, Kept
  <2>4. Kept(b, sent) /\ sent.pc = "health" /\ sent.via = Head(b.queue)
    BY <1>0 DEF CommandFields, Kept
  <2>5. \/ Advance(p, next) \/ Advance(p, again)
        \/ /\ topo' = EditInstances(b.inst) /\ kind' = kind /\ running' = running
           /\ Becomes(p, sent) /\ Head(b.queue) \in running
    <3> DEFINE skip == Head(b.queue) \notin running \/ Head(b.queue) = b.inst
    <3>1. CASE b.queue = <<>>
      BY <1>5, <3>1 DEF ExpelTry
    <3>2. CASE b.queue # <<>> /\ skip
      BY <1>5, <3>2 DEF ExpelTry
    <3>3. CASE b.queue # <<>> /\ ~skip
      BY <1>5, <3>3 DEF ExpelTry
    <3>4. QED
      BY <3>1, <3>2, <3>3
  <2> HIDE DEF next, again, sent
  <2>6. CASE Advance(p, next) \/ Advance(p, again)
    BY <1>3, <2>2, <2>3, <2>6
  <2>7. CASE /\ topo' = EditInstances(b.inst) /\ kind' = kind /\ running' = running
             /\ Becomes(p, sent) /\ Head(b.queue) \in running
    <3>1. topo'.joined = [topo.joined EXCEPT ![b.inst] = 0]
      BY <2>7 DEF EditInstances
    <3>2. topo'.joined[b.inst] = 0
      BY <1>0, <3>1 DEF TopologyOK
    <3>3. Reported(sent, topo')
      BY <1>0, <2>4, <3>2 DEF Reported, Kept
    <3>4. Follows(sent, topo')
      BY <2>4, <2>7, <3>3 DEF Follows, BeforeEdit, AfterEdit
    <3>5. QED
      BY <1>0, <2>4, <2>7, <3>4, StaysHonest
  <2>8. QED
    BY <2>5, <2>6, <2>7
<1>6. QED
  BY <1>2, <1>4, <1>5

\* Marking disturbs every command and ends none.
LEMMA MarkedHonest ==
    ASSUME CartInv, NEW q \in Procs
    PROVE  /\ Disturbed[q].pc = command[q].pc
           /\ Disturbed[q].clean => command[q].pc = "idle"
<1> DEFINE b == command[q]
           c == [b EXCEPT !.clean = FALSE, !.before = NoTopology]
<1>1. DOMAIN b = CommandFields
  BY DEF CartInv, CommandOK
<1>2. c.pc = b.pc /\ c.clean = FALSE
  BY <1>1 DEF CommandFields
<1>3. NoCommand.pc = "idle"
  BY DEF NoCommand
<1>4. Disturbed[q] = IF b.pc = "idle" THEN NoCommand ELSE c
  BY DEF Disturbed, At
<1> HIDE DEF c
<1>5. QED
  BY <1>2, <1>3, <1>4

\* A command starts: it is undisturbed when it is the only one.
LEMMA StartHonest ==
    ASSUME CartInv, CleanInv, NEW p \in Procs, NEW r \in Requests, StartCommand(p, r)
    PROVE  CleanInv' /\ \A q \in Procs : Honest(q)
<1> DEFINE busy == \E q \in Procs : ~At(q, "idle")
           c == [NoCommand EXCEPT !.op = r.op, !.inst = r.inst, !.rs = r.rs, !.vshard = r.vshard,
                             !.pc = "orchestrator", !.clean = ~busy,
                             !.before = IF busy THEN NoTopology ELSE topo]
<1>1. command' = [q \in Procs |-> IF q # p THEN Disturbed[q] ELSE c]
  BY DEF StartCommand
<1>2. c.pc = "orchestrator" /\ c.clean = ~busy /\ c.before = IF busy THEN NoTopology ELSE topo
  BY DEF NoCommand
<1> HIDE DEF c
<1>3. \A q \in Procs : command'[q] = IF q = p THEN c ELSE Disturbed[q]
  BY <1>1
<1>4. \A q \in Procs : q # p => /\ command'[q].pc = command[q].pc
                                /\ command'[q].clean => command[q].pc = "idle"
  BY <1>3, MarkedHonest
<1>5. kind' = kind /\ topo' = topo /\ running' = running /\ At(p, "idle")
  BY DEF StartCommand
<1>6. ASSUME NEW q \in Procs PROVE Honest(q)
  BY <1>2, <1>3, <1>4, <1>5 DEF Honest, Tracked
<1>7. ASSUME NEW q \in Procs PROVE Solo(q)'
  <2>1. CASE q # p
    BY <1>4, <2>1 DEF Solo
  <2>2. CASE q = p
    BY <1>2, <1>3, <1>4, <2>2 DEF Solo, At
  <2>3. QED
    BY <2>1, <2>2
<1>8. ASSUME NEW q \in Procs, Tracked(command[q])' PROVE Follows(command[q], topo)'
  <2>1. q = p
    BY <1>4, <1>8 DEF Tracked
  <2>2. command'[q] = c /\ c.clean
    BY <1>3, <1>8, <2>1 DEF Tracked
  <2>3. c.before = topo'
    BY <1>2, <1>5, <2>2
  <2>4. QED
    BY <1>2, <2>2, <2>3 DEF Follows, BeforeEdit, AfterEdit
<1>9. QED
  BY <1>6, <1>7, <1>8 DEF CleanInv

\* The instances stop and start, which disturbs every command, and elect leaders.
LEMMA InstancesHonest ==
    ASSUME CartInv, CleanInv, \/ \E i \in Members : Stop(i) \/ Restart(i)
                              \/ \E r \in Sets : Settle(r)
    PROVE  CleanInv' /\ \A q \in Procs : Honest(q)
<1>1. CASE \E i \in Members : Stop(i) \/ Restart(i)
  <2>1. command' = Disturbed
    BY <1>1 DEF Stop, Restart
  <2>2. \A q \in Procs : /\ command'[q].pc = command[q].pc
                         /\ command'[q].clean => command[q].pc = "idle"
    BY <2>1, MarkedHonest
  <2>3. \A q \in Procs : Honest(q)
    BY <2>2 DEF Honest, Tracked
  <2>4. \A q \in Procs : Solo(q)' /\ ~Tracked(command[q])'
    BY <2>2 DEF Solo, Tracked
  <2>5. QED
    BY <2>3, <2>4 DEF CleanInv
<1>2. CASE \E r \in Sets : Settle(r)
  <2>1. UNCHANGED <<kind, running, topo, command>>
    BY <1>2 DEF Settle
  <2>2. \A q \in Procs : Honest(q)
    BY <2>1, ZenonT(60) DEF Honest, Tracked
  <2>3. CleanInv'
    BY <2>1, ZenonT(60) DEF CleanInv, Solo, Tracked, Follows, Reported, NoTopology
  <2>4. QED
    BY <2>2, <2>3
<1>3. QED
  BY <1>1, <1>2

\* A step of command p leaves the ones that run beside it where they are.
LEMMA OthersStay ==
    ASSUME CartInv, NEW p \in Procs, Command(p), NEW q \in Procs, q # p
    PROVE  command'[q] = command[q]
<1>1. \E c : command' = [command EXCEPT ![p] = c]
  <2>1. CASE Orchestrator(p) \/ Discover(p) \/ Choose(p) \/ FirstEdit(p) \/ Edit(p) \/ JoinInstance(p)
    BY <2>1 DEF Orchestrator, Discover, Choose, FirstEdit, Edit, JoinInstance, SendEdit, Advance,
                GiveUp, Finish, Becomes
  <2>2. CASE WaitHealthy(p) \/ Rediscover(p) \/ Report(p) \/ VShard(p)
    BY <2>2 DEF WaitHealthy, Rediscover, Report, VShard, Advance, GiveUp, Finish, Becomes
  <2>3. CASE VShardTry(p) \/ Expel(p) \/ Return(p) \/ WaitWritable(p)
    BY <2>3 DEF VShardTry, Expel, Return, WaitWritable, Advance, GiveUp, Finish, Becomes
  <2>4. CASE ExpelTry(p)
    <3> DEFINE b == command[p]
               skip == Head(b.queue) \notin running \/ Head(b.queue) = b.inst
    <3>1. CASE b.queue = <<>>
      BY <2>4, <3>1 DEF ExpelTry, GiveUp, Finish
    <3>2. CASE b.queue # <<>> /\ skip
      BY <2>4, <3>2 DEF ExpelTry, Advance, Becomes
    <3>3. CASE b.queue # <<>> /\ ~skip
      BY <2>4, <3>3 DEF ExpelTry, Advance, Becomes
    <3>4. QED
      BY <3>1, <3>2, <3>3
  <2>5. CASE Promote(p)
    <3> DEFINE v == [command[p] EXCEPT !.via = command[p].inst]
               there == v.seen.joined[v.inst] # 0 /\ v.inst \in v.found
    <3>1. CASE ~there
      BY <2>5, <3>1 DEF Promote, GiveUp, Finish
    <3>2. CASE there /\ kind.failover = "disabled"
      BY <2>5, <3>2 DEF Promote, Becomes, GiveUp, Finish
    <3>3. CASE there /\ kind.failover = "stateful"
      BY <2>5, <3>3 DEF Promote, Becomes, GiveUp, Finish
    <3>4. CASE there /\ kind.failover \notin {"disabled", "stateful"}
      BY <2>5, <3>4 DEF Promote, GiveUp, Finish
    <3>5. QED
      BY <3>1, <3>2, <3>3, <3>4
  <2>6. QED
    BY <2>1, <2>2, <2>3, <2>4, <2>5 DEF Command
<1>2. QED
  BY <1>1 DEF CartInv

\* Every step leaves the undisturbed commands on their course, and the one that ends reports what
\* has become of the topology.
LEMMA EveryStepHonest ==
    ASSUME CartInv, CleanInv, CartNext
    PROVE  CleanInv' /\ \A q \in Procs : Honest(q)
<1>1. ASSUME NEW p \in Procs, Command(p) PROVE CleanInv' /\ \A q \in Procs : Honest(q)
  <2>1. CleanInv' /\ Honest(p)
    BY <1>1, QuietHonest, EditHonest, JoinHonest, WaitHealthyHonest, LastHonest, ElsewhereHonest,
       ExpelHonest, ZenonT(60) DEF Command
  <2>2. ASSUME NEW q \in Procs, q # p PROVE Honest(q)
    <3>1. command'[q] = command[q]
      BY <1>1, <2>2, OthersStay
    <3>2. QED
      BY <3>1 DEF Honest, Tracked
  <2>3. QED
    BY <2>1, <2>2
<1>2. ASSUME NEW p \in Procs, NEW r \in Requests, StartCommand(p, r)
      PROVE  CleanInv' /\ \A q \in Procs : Honest(q)
  BY <1>2, StartHonest
<1>3. CASE (\E i \in Members : Stop(i) \/ Restart(i)) \/ \E r \in Sets : Settle(r)
  BY <1>3, InstancesHonest
<1>4. QED
  BY <1>1, <1>2, <1>3 DEF CartNext

\* The invariant of the undisturbed commands: an undisturbed command is alone, it has changed
\* nothing before its edit, and once the edit is accepted the instances that could refuse it the
\* end (cartridgeWaitHealthy, the discovery before the topology is printed) are running.
THEOREM CleanInvariance == CartSpec => []CleanInv
<1>1. CartInit => CleanInv
  <2> SUFFICES ASSUME CartInit PROVE CleanInv
    OBVIOUS
  <2>1. \A p \in Procs : command[p].pc = "idle"
    BY DEF CartInit, NoCommand
  <2>2. QED
    BY <2>1 DEF CleanInv, Solo, Tracked
<1>2. CartInv /\ CleanInv /\ [CartNext]_cartVars => CleanInv'
  <2>1. CASE UNCHANGED cartVars
    BY <2>1, ZenonT(60) DEF cartVars, CleanInv, Solo, Tracked, Follows, Reported, NoTopology
  <2>2. QED
    BY <2>1, EveryStepHonest, ZenonT(60)
<1>3. QED
  BY <1>1, <1>2, CartInvariance, PTL DEF CartSpec

\* Under Cartridge 2 a bootstrap, a join or an expel that meets no other command and no stop tells
\* the truth: after an error the topology is the one it began with, and after a success the
\* instance is in the replicaset that was named, or out of the cluster.
THEOREM ErrorsChangeNothing == CartSpec => ErrorMeansUnchanged
<1> DEFINE Truth(p) ==
        (Ends(p, {"bootstrap", "join", "expel"}) /\ kind.major = 2 /\ ~command[p].vshard) =>
             /\ command'[p].res = "error" => topo = command[p].before
             /\ (command'[p].res = "ok" /\ command[p].op = "join") =>
                    topo.alias[topo.joined[command[p].inst]] = command[p].rs
             /\ (command'[p].res = "ok" /\ command[p].op = "expel") => topo.joined[command[p].inst] = 0
<1>1. CartInv /\ CleanInv /\ [CartNext]_cartVars => [\A p \in Procs : Truth(p)]_cartVars
  <2> SUFFICES ASSUME CartInv, CleanInv, CartNext, NEW p \in Procs PROVE Truth(p)
    OBVIOUS
  <2>1. Honest(p)
    BY EveryStepHonest
  <2>2. Ends(p, {"bootstrap", "join", "expel"}) /\ kind.major = 2 /\ ~command[p].vshard =>
            Tracked(command[p]) /\ command'[p].pc = "idle"
    BY DEF Ends, At, Tracked
  <2>3. QED
    BY <2>1, <2>2 DEF Honest, Reported
<1>2. QED
  BY <1>1, CartInvariance, CleanInvariance, PTL DEF CartSpec, ErrorMeansUnchanged
===========================================================================
