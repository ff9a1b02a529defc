---------------------------- MODULE CConfigApp ----------------------------
(***************************************************************************)
(* The replicaset commands of an application with a centralized config     *)
(* (cli/replicaset/cconfig.go, eval.go): promote, demote and expel.  Each  *)
(* command asks every reachable instance for its view of the replicaset,   *)
(* decides from the merged views, rewrites the local cluster config and    *)
(* asks the instances it has found to reload it.                           *)
(*                                                                         *)
(* The instances form one replicaset of one application: the commands look *)
(* at no other.  Commands run as independent processes; nothing locks the  *)
(* config file.                                                            *)
(***************************************************************************)
EXTENDS Naturals, FiniteSets

CONSTANTS Instances,    \* the instances of the replicaset
          Commands,     \* command processes, each run once
          None,         \* no instance
          MaxOutages    \* bound: how many times an instance goes down

VARIABLES
  failover,   \* replication.failover of the replicaset
  file,       \* the local cluster config
  loaded,     \* loaded[i]: the config instance i runs with
  up,         \* instances that accept connections
  elected,    \* the RAFT leader
  outages,    \* how many times an instance went down
  cmd,        \* cmd[c]: what c was asked to do, None before it starts
  pc,         \* pc[c]: where c is
  todo,       \* todo[c]: instances c's current loop has not visited
  found,      \* found[c]: instances that answered the discovery
  members,    \* members[c]: instances with a URI in some view
  leader,     \* leader[c]: the leader in the first view
  doc,        \* doc[c]: the patched config c is about to write, or None
  pub,        \* pub[c]: version of c's last publication, 0 for none
  failed,     \* commands that have met an error they will report
  result,     \* result[c]
  overlapped  \* commands that ran at the same time as another (history)

environment == <<failover, up, elected, outages>>
discovered == <<found, members, leader>>
vars == <<failover, file, loaded, up, elected, outages, cmd, pc, todo, found,
          members, leader, doc, pub, failed, result, overlapped>>

Failover == {"off", "manual", "election", "supervised"}
Operations == {"promote", "demote", "expel"}
Steps == {"idle", "discover", "config", "promote", "waitRW", "collect",
          "truncate", "write", "reloadTarget", "waitRO", "reload", "done"}

\* A cluster config, as far as the commands read or set it.  whole is FALSE
\* for a file cut short while it is rewritten, and for what is built from it.
Config == [whole : BOOLEAN, version : Nat, rw : SUBSET Instances,
           leader : Instances \cup {None}, listen : SUBSET Instances,
           candidate : SUBSET Instances]

Request == [op : Operations, target : Instances, force : BOOLEAN]

ASSUME AppAssumption ==
  /\ None \notin Instances /\ None \notin Config /\ None \notin Request
  /\ Instances # {} /\ MaxOutages \in Nat

target(c) == cmd[c].target

Init ==
  /\ failover \in Failover
  /\ file = [whole |-> TRUE, version |-> 1, rw |-> {}, leader |-> None,
             listen |-> Instances, candidate |-> Instances]
  /\ loaded = [i \in Instances |-> file]
  /\ up = Instances
  /\ elected = None
  /\ outages = 0
  /\ cmd = [c \in Commands |-> None]
  /\ pc = [c \in Commands |-> "idle"]
  /\ todo = [c \in Commands |-> {}]
  /\ found = [c \in Commands |-> {}]
  /\ members = [c \in Commands |-> {}]
  /\ leader = [c \in Commands |-> None]
  /\ doc = [c \in Commands |-> None]
  /\ pub = [c \in Commands |-> 0]
  /\ failed = {}
  /\ result = [c \in Commands |-> "none"]
  /\ overlapped = {}

---------------------------------------------------------------------------
(* The end of a command. *)

Running(c) == pc[c] \notin {"idle", "done"}

Goto(c, step) == pc' = [pc EXCEPT ![c] = step]

End(c, res) ==
  /\ Goto(c, "done")
  /\ result' = [result EXCEPT ![c] = res]

\* The instances whose config is reloaded once it was published: the
\* unexpelled members that answered the discovery.
instances(c) == members[c] \cap found[c]

\* Faulty variant: the reload's outcome replaces the error.
AbortUnreported(c) ==
  IF pub[c] = 0
  THEN /\ End(c, "error")
       /\ UNCHANGED <<todo, failed>>
  ELSE /\ Goto(c, "reload")
       /\ todo' = [todo EXCEPT ![c] = instances(c)]
       /\ UNCHANGED <<failed, result>>

\* An error before anything was published ends the command; a later one is
\* joined with the errors of the reload, which takes place all the same.
Abort(c) ==
  IF pub[c] = 0
  THEN /\ End(c, "error")
       /\ UNCHANGED <<todo, failed>>
  ELSE /\ Goto(c, "reload")
       /\ todo' = [todo EXCEPT ![c] = instances(c)]
       /\ failed' = failed \cup {c}
       /\ UNCHANGED result

---------------------------------------------------------------------------
(* Discovery. *)

Start(c) ==
  LET others == {d \in Commands : Running(d)} IN
  /\ pc[c] = "idle"
  /\ \E request \in Request : cmd' = [cmd EXCEPT ![c] = request]
  /\ Goto(c, "discover")
  /\ todo' = [todo EXCEPT ![c] = Instances]
  /\ overlapped' = IF others = {} THEN overlapped
                                  ELSE overlapped \cup others \cup {c}
  /\ UNCHANGED <<environment, discovered, file, loaded, doc, pub, failed,
                 result>>

\* The instances with a URI in the view of i: peers it replicates from and,
\* while it listens, itself.
ViewOf(i) == loaded[i].listen

\* The order in which the instances answer is arbitrary; the leader is taken
\* from the first view and later views only fill in what is unknown.
Visit(c, i) ==
  /\ pc[c] = "discover" /\ i \in todo[c]
  /\ \/ /\ i \notin up
        /\ todo' = [todo EXCEPT ![c] = @ \ {i}]
        /\ UNCHANGED <<discovered, pc, result>>
     \/ /\ i \in up
        /\ todo' = [todo EXCEPT ![c] = @ \ {i}]
        /\ found' = [found EXCEPT ![c] = @ \cup {i}]
        /\ members' = [members EXCEPT ![c] = @ \cup ViewOf(i)]
        /\ leader' = IF found[c] = {} THEN [leader EXCEPT ![c] = elected]
                                      ELSE leader
        /\ UNCHANGED <<pc, result>>
     \/ /\ i \in up
        /\ End(c, "error")
        /\ UNCHANGED <<discovered, todo>>
  /\ UNCHANGED <<environment, file, loaded, cmd, doc, pub, failed, overlapped>>

\* Faulty variant: no check for other members.
MayChangeLast(c) ==
  /\ target(c) \in instances(c)
  /\ members[c] \subseteq found[c] \/ cmd[c].force

\* What has to hold of the merged views for the command to go on.
MayChange(c) ==
  /\ target(c) \in instances(c)
  /\ cmd[c].op = "expel" => members[c] # {target(c)}
  /\ members[c] \subseteq found[c] \/ cmd[c].force

Discovered(c) ==
  /\ pc[c] = "discover" /\ todo[c] = {}
  /\ IF MayChange(c) THEN Goto(c, "config") /\ UNCHANGED result
                     ELSE End(c, "error")
  /\ UNCHANGED <<environment, discovered, file, loaded, cmd, todo, doc, pub,
                 failed, overlapped>>

---------------------------------------------------------------------------
(* Reading and rewriting the cluster config. *)

\* The instance's failover is taken from a config read of its own, before
\* the one that is patched.
ReadConfig(c) ==
  /\ pc[c] = "config"
  /\ \/ /\ file.whole
        /\ failover = "election"
        /\ cmd[c].op = "promote"
        /\ Goto(c, "promote")
        /\ UNCHANGED result
     \/ /\ file.whole
        /\ failover = "election" => cmd[c].op # "promote"
        /\ failover = "election" /\ cmd[c].op = "demote" =>
             target(c) \in file.candidate /\ leader[c] = target(c)
        /\ Goto(c, "collect")
        /\ UNCHANGED result
     \/ /\ failover = "election" /\ cmd[c].op = "demote"
        /\ target(c) \notin file.candidate \/ leader[c] # target(c)
        /\ End(c, "error")
     \/ /\ ~file.whole
        /\ End(c, "error")
  /\ UNCHANGED <<environment, discovered, file, loaded, cmd, todo, doc, pub,
                 failed, overlapped>>

\* The patch function of the command refuses the failover.
PatchFails(c) ==
  \/ cmd[c].op = "promote" /\ failover \notin {"off", "manual"}
  \/ cmd[c].op = "demote" /\ failover \notin {"off", "election"}

\* The config with the command's path set; demoting under the "election"
\* failover first makes the target a voter and then a candidate again.
Patched(c, config) ==
  LET i == target(c) IN
  CASE cmd[c].op = "expel" -> [config EXCEPT !.listen = @ \ {i}]
    [] cmd[c].op = "promote" /\ failover = "off" ->
         [config EXCEPT !.rw = @ \cup {i}]
    [] cmd[c].op = "promote" /\ failover = "manual" ->
         [config EXCEPT !.leader = i]
    [] cmd[c].op = "demote" /\ failover = "off" ->
         [config EXCEPT !.rw = @ \ {i}]
    [] cmd[c].op = "demote" /\ failover = "election" /\ pub[c] = 0 ->
         [config EXCEPT !.candidate = @ \ {i}]
    [] cmd[c].op = "demote" /\ failover = "election" /\ pub[c] # 0 ->
         [config EXCEPT !.candidate = @ \cup {i}]
    [] OTHER -> config

\* A file cut short is an empty config to the collector, not an error.
Collect(c) ==
  /\ pc[c] = "collect"
  /\ \/ /\ ~PatchFails(c)
        /\ doc' = [doc EXCEPT ![c] = Patched(c, file)]
        /\ Goto(c, "truncate")
        /\ UNCHANGED <<todo, failed, result>>
     \/ /\ Abort(c)
        /\ UNCHANGED doc
  /\ UNCHANGED <<environment, discovered, file, loaded, cmd, pub, overlapped>>

\* os.WriteFile opens the file with O_TRUNC and then writes it.
Truncate(c) ==
  /\ pc[c] = "truncate"
  /\ \/ /\ file' = [file EXCEPT !.whole = FALSE]
        /\ Goto(c, "write")
        /\ UNCHANGED <<doc, todo, failed, result>>
     \/ /\ Abort(c)
        /\ doc' = [doc EXCEPT ![c] = None]
        /\ UNCHANGED file
  /\ UNCHANGED <<environment, discovered, loaded, cmd, pub, overlapped>>

Demoting(c) == pc[c] # "idle" /\ cmd[c].op = "demote" /\ failover = "election"

Write(c) ==
  /\ pc[c] = "write"
  /\ \/ /\ file' = [doc[c] EXCEPT !.version = file.version + 1]
        /\ pub' = [pub EXCEPT ![c] = file.version + 1]
        /\ IF Demoting(c) /\ pub[c] = 0
           THEN Goto(c, "reloadTarget") /\ UNCHANGED todo
           ELSE /\ Goto(c, "reload")
                /\ todo' = [todo EXCEPT ![c] = instances(c)]
        /\ UNCHANGED <<failed, result>>
     \/ /\ Abort(c)
        /\ UNCHANGED <<file, pub>>
  /\ doc' = [doc EXCEPT ![c] = None]
  /\ UNCHANGED <<environment, discovered, loaded, cmd, overlapped>>

---------------------------------------------------------------------------
(* Reloading, and waiting for the instance's role to change. *)

\* Instance i takes over the file; a leader that is no candidate any more
\* steps down.
Load(i) ==
  /\ file.whole
  /\ loaded' = [loaded EXCEPT ![i] = file]
  /\ elected' = IF elected = i /\ i \notin file.candidate THEN None
                                                         ELSE elected

ReloadTarget(c) ==
  /\ pc[c] = "reloadTarget"
  /\ \/ /\ target(c) \in up
        /\ Load(target(c))
        /\ Goto(c, "waitRO")
        /\ UNCHANGED <<todo, failed, result>>
     \/ /\ Abort(c)
        /\ UNCHANGED <<loaded, elected>>
  /\ UNCHANGED <<discovered, failover, up, outages, file, cmd, doc, pub,
                 overlapped>>

\* Faulty variant: the election mode is not restored.
WaitROOnly(c) ==
  /\ pc[c] = "waitRO"
  /\ \/ /\ target(c) \in up /\ elected # target(c)
        /\ Goto(c, "reload")
        /\ todo' = [todo EXCEPT ![c] = instances(c)]
        /\ UNCHANGED <<failed, result>>
     \/ Abort(c)
  /\ UNCHANGED <<environment, discovered, file, loaded, cmd, doc, pub,
                 overlapped>>

\* box.ctl.wait_ro on the target, or its timeout.
WaitRO(c) ==
  /\ pc[c] = "waitRO"
  /\ \/ /\ target(c) \in up /\ elected # target(c)
        /\ Goto(c, "collect")
        /\ UNCHANGED <<todo, failed, result>>
     \/ Abort(c)
  /\ UNCHANGED <<environment, discovered, file, loaded, cmd, doc, pub,
                 overlapped>>

\* box.ctl.promote on a target that runs as a candidate.
PromoteElection(c) ==
  /\ pc[c] = "promote"
  /\ \/ /\ target(c) \in up
        /\ target(c) \in loaded[target(c)].candidate
        /\ elected' = target(c)
        /\ Goto(c, "waitRW")
        /\ UNCHANGED result
     \/ /\ End(c, "error")
        /\ UNCHANGED elected
  /\ UNCHANGED <<discovered, failover, up, outages, file, loaded, cmd, todo,
                 doc, pub, failed, overlapped>>

\* box.ctl.wait_rw on the target, or its timeout.
WaitRW(c) ==
  /\ pc[c] = "waitRW"
  /\ \/ /\ target(c) \in up /\ elected = target(c)
        /\ End(c, "ok")
     \/ End(c, "error")
  /\ UNCHANGED <<environment, discovered, file, loaded, cmd, todo, doc, pub,
                 failed, overlapped>>

\* Faulty variant: instances that cannot be reached are skipped, as in the
\* discovery.
ReloadAlive(c, i) ==
  /\ pc[c] = "reload" /\ i \in todo[c]
  /\ todo' = [todo EXCEPT ![c] = @ \ {i}]
  /\ \/ /\ i \in up
        /\ Load(i)
        /\ UNCHANGED failed
     \/ /\ i \in up
        /\ failed' = failed \cup {c}
        /\ UNCHANGED <<loaded, elected>>
     \/ /\ i \notin up
        /\ UNCHANGED <<loaded, elected, failed>>
  /\ UNCHANGED <<discovered, failover, up, outages, file, cmd, pc, doc, pub,
                 result, overlapped>>

\* An instance that cannot be reached ends the loop, the remaining instances
\* are not asked; one that fails to reload is reported when the loop is over.
Reload(c, i) ==
  /\ pc[c] = "reload" /\ i \in todo[c]
  /\ \/ /\ i \in up
        /\ Load(i)
        /\ todo' = [todo EXCEPT ![c] = @ \ {i}]
        /\ UNCHANGED <<failed, pc, result>>
     \/ /\ i \in up
        /\ todo' = [todo EXCEPT ![c] = @ \ {i}]
        /\ failed' = failed \cup {c}
        /\ UNCHANGED <<loaded, elected, pc, result>>
     \/ /\ i \notin up
        /\ End(c, "error")
        /\ UNCHANGED <<loaded, elected, todo, failed>>
  /\ UNCHANGED <<discovered, failover, up, outages, file, cmd, doc, pub,
                 overlapped>>

Reloaded(c) ==
  /\ pc[c] = "reload" /\ todo[c] = {}
  /\ End(c, IF c \in failed THEN "error" ELSE "ok")
  /\ UNCHANGED <<environment, discovered, file, loaded, cmd, todo, doc, pub,
                 failed, overlapped>>

---------------------------------------------------------------------------
(* The instances, as the commands meet them. *)

Down(i) ==
  /\ i \in up /\ outages < MaxOutages
  /\ up' = up \ {i}
  /\ outages' = outages + 1
  /\ elected' = IF elected = i THEN None ELSE elected
  /\ UNCHANGED <<failover, file, loaded, cmd, pc, todo, discovered, doc, pub,
                 failed, result, overlapped>>

\* A starting instance reads the config file.
Up(i) ==
  /\ i \notin up
  /\ up' = up \cup {i}
  /\ Load(i)
  /\ UNCHANGED <<failover, outages, file, cmd, pc, todo, discovered, doc,
                 pub, failed, result, overlapped>>

Elect(i) ==
  /\ failover = "election" /\ elected = None
  /\ i \in up /\ i \in loaded[i].candidate
  /\ elected' = i
  /\ UNCHANGED <<failover, up, outages, file, loaded, cmd, pc, todo,
                 discovered, doc, pub, failed, result, overlapped>>

Step(c) ==
  \/ Start(c) \/ Discovered(c) \/ ReadConfig(c) \/ Collect(c)
  \/ Truncate(c) \/ Write(c) \/ ReloadTarget(c) \/ WaitRO(c)
  \/ PromoteElection(c) \/ WaitRW(c) \/ Reloaded(c)
  \/ \E i \in Instances : Visit(c, i) \/ Reload(c, i)

Next ==
  \/ \E c \in Commands : Step(c)
  \/ \E i \in Instances : Down(i) \/ Up(i) \/ Elect(i)

Spec == Init /\ [][Next]_vars

---------------------------------------------------------------------------
(* Properties. *)

\* Every variable has its type, and a command has a request once it runs and
\* a config at hand while it writes one.
TypeOK ==
  /\ failover \in Failover
  /\ file \in Config
  /\ loaded \in [Instances -> Config]
  /\ up \subseteq Instances
  /\ elected \in Instances \cup {None}
  /\ outages \in 0..MaxOutages
  /\ cmd \in [Commands -> Request \cup {None}]
  /\ pc \in [Commands -> Steps]
  /\ todo \in [Commands -> SUBSET Instances]
  /\ found \in [Commands -> SUBSET Instances]
  /\ members \in [Commands -> SUBSET Instances]
  /\ leader \in [Commands -> Instances \cup {None}]
  /\ doc \in [Commands -> Config \cup {None}]
  /\ pub \in [Commands -> Nat]
  /\ failed \subseteq Commands
  /\ result \in [Commands -> {"none", "ok", "error"}]
  /\ overlapped \subseteq Commands
  /\ \A c \in Commands :
       /\ cmd[c] = None => pc[c] = "idle"
       /\ doc[c] = None => pc[c] \notin {"truncate", "write"}

\* A command that has published a config and reports success (the end of
\* CConfigApplication.Promote, Demote and Expel) leaves every member it had
\* found with that config or a later one, whatever other commands and
\* outages came between.
OkMeansReloaded ==
  \A c \in Commands :
    result[c] = "ok" /\ pub[c] # 0 =>
      \A i \in instances(c) : loaded[i].version >= pub[c]

\* What the config says once the command has succeeded.
Effect(c) ==
  LET i == target(c) IN
  /\ cmd[c].op = "expel" => i \notin file.listen
  /\ cmd[c].op = "promote" /\ failover = "off" => i \in file.rw
  /\ cmd[c].op = "promote" /\ failover = "manual" => file.leader = i
  /\ cmd[c].op = "demote" /\ failover = "off" => i \notin file.rw
  /\ Demoting(c) => i \in file.candidate

\* A command that nobody overlaps and that ends with success leaves its
\* change in the config file, and the members it had found run with exactly
\* that file, although each of them read it at a moment of its own.
OkTakesEffect ==
  [][\A c \in Commands \ overlapped :
       Running(c) /\ result'[c] = "ok" /\ pub[c] # 0 =>
         /\ file.whole /\ Effect(c)
         /\ \A i \in instances(c) : loaded[i] = file]_vars

\* The "voter" election mode which demoteElection writes is temporary: the
\* file holds it only while such a demotion of the instance is under way, or
\* after one that has failed, as long as no commands overlap.
VoterIsTemporary ==
  overlapped = {} =>
    \A i \in Instances \ file.candidate :
      \E c \in Commands : /\ Demoting(c) /\ target(c) = i
                          /\ Running(c) \/ result[c] = "error"

\* An expel that has changed the file and may have left an instance with an
\* older config: it met an error, was forced past a member that did not
\* answer, or was answered by an instance that is no member any more (an
\* expelled one), which reloadCConfig does not reach.
LeavesBehind(c) ==
  /\ pub[c] # 0 /\ cmd[c].op = "expel"
  /\ result[c] = "error" \/ members[c] # found[c]

\* Expels that leave no instance behind, among commands that do not overlap,
\* never expel the last instance of the replicaset, although each one counts
\* the members from what the instances run with, not from the file it
\* changes.  (An expelled instance that goes on running keeps the view it had:
\* after the expel of a third and then of a second instance, the third still
\* counts the second, and the first is expelled too.)
LastIsNotExpelled ==
  overlapped = {} /\ (\A c \in Commands : ~LeavesBehind(c)) =>
    file.listen # {}
===========================================================================
