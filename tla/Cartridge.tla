----------------------------- MODULE Cartridge -----------------------------
(***************************************************************************)
(* The Cartridge orchestrator of tt replicaset: bootstrap, expel, promote  *)
(* and vshard bootstrap of a Cartridge application.                        *)
(*                                                                         *)
(* The topology belongs to Cartridge, an external system: an edit is       *)
(* validated and applied as a whole or refused.  tt discovers the topology *)
(* first, decides on what it saw, and then sends edits through one of the  *)
(* instances; commands may overlap, instances may stop and start, and a    *)
(* wait may time out between any two steps.  An application with a custom  *)
(* orchestrator is discovered the same way and supports no change.         *)
(***************************************************************************)
EXTENDS Integers, Sequences, FiniteSets, Functions

CONSTANTS
    Procs,           \* commands that may run at the same time
    InstanceSeq,     \* instances of the application, in the order of runningCtx
    ReplicasetsCfg,  \* replicasets.yml: alias -> sequence of instances
    AppName,
    InstancesYml,    \* instances.yml: the <<application, instance>> that have a URI
    Requests,        \* commands users give: [op, inst, rs, vshard]
    MaxSets,         \* bound: replicasets ever created
    MaxCommands,     \* bound: commands ever started
    MaxStops,        \* bound: instances that stop
    Nothing

Members == Range(InstanceSeq)
Sets == 1..MaxSets
Aliases == DOMAIN ReplicasetsCfg

\* "unnamed" is the alias Cartridge gives; replicasets.yml has names of its own.
ASSUME CartridgeAssumption ==
    /\ Nothing \notin Aliases /\ "unnamed" \notin Aliases
    /\ \A r \in Requests :
          /\ r.op \in {"bootstrap", "join", "expel", "promote", "vshard"}
          /\ r.op \in {"join", "expel", "promote"} => r.inst \in Members

VARIABLES
    kind,     \* [orchestrator, major, failover] of the application, never changes
    running,  \* running instances
    topo,     \* Cartridge's topology: [joined, alias, order, wanted]
    leading,  \* replicaset -> the instance that is writable, or Nothing
    vshard,   \* buckets were distributed
    command,      \* command[p] : the command process p runs
    started,  \* commands started so far
    stops     \* instances stopped so far

cartVars == <<kind, running, topo, leading, vshard, command, started, stops>>

\* No replicaset: what an instance outside a cluster tells.
NoTopology == [joined |-> [i \in Members |-> 0], alias |-> [r \in Sets |-> Nothing],
               order |-> [r \in Sets |-> <<>>], wanted |-> [r \in Sets |-> Nothing]]

NoCommand == [op |-> "none", inst |-> Nothing, rs |-> Nothing, vshard |-> FALSE, pc |-> "idle",
              seen |-> NoTopology, found |-> {}, via |-> Nothing, taken |-> Nothing, queue |-> <<>>,
              tried |-> FALSE, failed |-> FALSE, clean |-> TRUE, before |-> NoTopology, res |-> "ok"]

At(p, pc) == command[p].pc = pc

-----------------------------------------------------------------------------
(* Cartridge.                                                              *)

MembersOf(t, r) == {i \in Members : t.joined[i] = r}
SetNamed(t, a) == {r \in Sets : t.alias[r] = a}
Bootstrapped(t) == \E i \in Members : t.joined[i] # 0

\* admin_edit_topology on replicasets: each option names a replicaset by its
\* UUID or creates one, joins servers and sets the failover priority.  A server
\* that is already joined, joined twice, or is not running, or a priority for a
\* server of another replicaset makes it refuse the whole edit.
Placements(t, opts) ==
    {at \in [opts -> Sets] :
        \A o \in opts : /\ IF o.id = 0 THEN t.alias[at[o]] = Nothing ELSE at[o] = o.id
                       /\ \A q \in opts : at[q] = at[o] => q = o}
Acceptable(t, opts) ==
    /\ \A o \in opts : \A i \in o.join : t.joined[i] = 0
    /\ \A o, q \in opts : o.join \cap q.join # {} => o = q
    /\ \A o \in opts : (IF o.id = 0 THEN Nothing ELSE t.alias[o.id]) = Nothing => o.join # {}
    /\ \A o \in opts : \A i \in Range(o.order) :
          i \in o.join \/ (o.id # 0 /\ t.joined[i] = o.id)
    /\ Placements(t, opts) # {}
CanEdit(opts) == Acceptable(topo, opts) /\ \A o \in opts : o.join \subseteq running

\* The topology t after the edit; servers without a priority come last, in any order.
Listed(S) == CHOOSE s \in Injection(1..Cardinality(S), S) : TRUE
Edited(t, opts) ==
    LET at == CHOOSE f \in Placements(t, opts) : TRUE
        touched == {at[o] : o \in opts}
        By(r) == CHOOSE o \in opts : at[o] = r
        Rest(r) == SelectSeq(t.order[r] \o Listed(By(r).join), LAMBDA i : i \notin Range(By(r).order))
        Order(r) == By(r).order \o Rest(r)
        Alias(r) == IF By(r).alias # Nothing THEN By(r).alias
                    ELSE IF t.alias[r] = Nothing THEN "unnamed" ELSE t.alias[r]
        Keeps(r) == r \notin touched \/ (kind.failover = "stateful" /\ t.wanted[r] # Nothing)
    IN [joined |-> [i \in Members |-> IF \E o \in opts : i \in o.join
                                     THEN at[CHOOSE o \in opts : i \in o.join] ELSE t.joined[i]],
        alias |-> [r \in Sets |-> IF r \in touched THEN Alias(r) ELSE t.alias[r]],
        order |-> [r \in Sets |-> IF r \in touched THEN Order(r) ELSE t.order[r]],
        wanted |-> [r \in Sets |-> IF Keeps(r) THEN t.wanted[r] ELSE Head(Order(r))]]
EditReplicasets(opts) == Edited(topo, opts)

\* admin_edit_topology on servers: a server is expelled once; a replicaset
\* without servers is gone.
EditInstances(i) ==
    LET r == topo.joined[i]
        order == SelectSeq(topo.order[r], LAMBDA j : j # i)
        gone == MembersOf(topo, r) = {i}
    IN [joined |-> [topo.joined EXCEPT ![i] = 0],
        alias |-> [topo.alias EXCEPT ![r] = IF gone THEN Nothing ELSE @],
        order |-> [topo.order EXCEPT ![r] = order],
        wanted |-> [topo.wanted EXCEPT ![r] = IF @ # i THEN @ ELSE IF gone THEN Nothing ELSE Head(order)]]

\* An instance that stops, or is expelled, leads no longer.
LedWithout(i) == [r \in Sets |-> IF leading[r] = i THEN Nothing ELSE leading[r]]

\* The instance Cartridge wants to lead becomes writable.
Settle(r) ==
    /\ topo.wanted[r] \in running
    /\ leading[r] # topo.wanted[r]
    /\ leading' = [leading EXCEPT ![r] = topo.wanted[r]]
    /\ UNCHANGED <<kind, running, topo, vshard, command, started, stops>>

\* The commands that run have met something else (clean); their before says nothing any more.
Disturbed == [p \in Procs |-> IF At(p, "idle") THEN NoCommand
                              ELSE [command[p] EXCEPT !.clean = FALSE, !.before = NoTopology]]

Stop(i) ==
    /\ i \in running
    /\ stops < MaxStops
    /\ stops' = stops + 1
    /\ running' = running \ {i}
    /\ leading' = LedWithout(i)
    /\ command' = Disturbed
    /\ UNCHANGED <<kind, topo, vshard, started>>

Restart(i) ==
    /\ i \notin running
    /\ running' = running \cup {i}
    /\ command' = Disturbed
    /\ UNCHANGED <<kind, topo, leading, vshard, started, stops>>

-----------------------------------------------------------------------------
(* Steps of a command.                                                     *)

Becomes(p, c) == command' = [command EXCEPT ![p] = c]
Finish(p, res) == command' = [command EXCEPT ![p] = [NoCommand EXCEPT !.res = res]]
Same == UNCHANGED <<kind, running, leading, started, stops>>
GiveUp(p) == Finish(p, "error") /\ UNCHANGED <<topo, vshard>> /\ Same
Advance(p, c) == Becomes(p, c) /\ UNCHANGED <<topo, vshard>> /\ Same

StartCommand(p, r) ==
    /\ At(p, "idle")
    /\ started < MaxCommands
    /\ started' = started + 1
    /\ LET busy == \E q \in Procs : ~At(q, "idle")
       IN command' = [q \in Procs |->
              IF q # p THEN Disturbed[q]
              ELSE [NoCommand EXCEPT !.op = r.op, !.inst = r.inst, !.rs = r.rs, !.vshard = r.vshard,
                                !.pc = "orchestrator", !.clean = ~busy,
                                !.before = IF busy THEN NoTopology ELSE topo]]
    /\ UNCHANGED <<kind, running, topo, leading, vshard, stops>>

\* The commands of replicaset/cmd: the arguments are checked and some instance
\* is asked which orchestrator it has.
Orchestrator(p) ==
    /\ At(p, "orchestrator")
    /\ LET c == command[p]
       IN IF running = {} \/ (c.op = "join" /\ c.rs = Nothing) THEN GiveUp(p)
          ELSE Advance(p, [c EXCEPT !.pc = "discover"])

\* What one instance tells of the topology; before it joins, nothing.
Tells(i) == IF topo.joined[i] # 0 THEN topo ELSE NoTopology

\* CartridgeApplication.discovery: the first running instance that belongs to
\* the cluster tells its topology, and those that run are marked.
View == IF \E i \in running : Bootstrapped(Tells(i)) THEN topo ELSE NoTopology
Online(t) == {i \in running : t.joined[i] # 0}
Discover(p) ==
    /\ At(p, "discover")
    /\ LET c == [command[p] EXCEPT !.seen = View, !.found = Online(View)]
       IN IF running = {} \/ kind.orchestrator = "custom" THEN GiveUp(p)
          ELSE Advance(p, [c EXCEPT !.pc = CASE c.op \in {"bootstrap", "join"} -> "choose"
                                          [] OTHER -> c.op])

-----------------------------------------------------------------------------
(* tt replicaset bootstrap.                                                *)

\* CartridgeApplication.Bootstrap: the edit goes through the first instance
\* that is in the cluster or, when there is none, in replicasets.yml.  It must
\* be running.
Configured == UNION {Range(ReplicasetsCfg[a]) : a \in Aliases}
Candidates(c) ==
    SelectSeq(InstanceSeq, LAMBDA i : IF c.op = "bootstrap" /\ ~Bootstrapped(c.seen)
                                    THEN i \in Configured ELSE c.seen.joined[i] # 0)
Choose(p) ==
    /\ At(p, "choose")
    /\ LET c == command[p] q == Candidates(c)
       IN IF q = <<>> \/ (q # <<>> /\ q[1] \notin running) THEN GiveUp(p)
          ELSE Advance(p, [c EXCEPT !.via = q[1],
                         !.pc = CASE c.op = "join" -> "joinEdit"
                                  [] c.op = "bootstrap" /\ kind.major = 1 /\ ~Bootstrapped(c.seen) -> "firstEdit"
                                  [] OTHER -> "edit"])

\* getCartridgeInstancesConfig: the instances of this application.
InstancesCfg == {i \in Members : <<AppName, i>> \in InstancesYml}

\* getCartridgeJoinServersOpts: the instances tt has not seen in the cluster.
JoinServers(seen, is) == {i \in Range(is) : seen.joined[i] = 0}

\* Faulty variant: the missing instances get a replicaset of their own.
EditOptsNew(seen, cfg) ==
    {[id |-> 0, alias |-> a, join |-> JoinServers(seen, cfg[a]),
      order |-> SelectSeq(cfg[a], LAMBDA i : seen.joined[i] = 0)] : a \in DOMAIN cfg}

\* Faulty variant: the failover priority of the config is not sent.
EditOptsUnordered(seen, cfg) ==
    {[id |-> IF SetNamed(seen, a) = {} THEN 0 ELSE CHOOSE r \in SetNamed(seen, a) : TRUE,
      alias |-> a, join |-> JoinServers(seen, cfg[a]), order |-> <<>>] : a \in DOMAIN cfg}

\* updateCartridgeReplicasets: what was seen decides whether a replicaset is
\* linked by its UUID or created.
EditOpts(seen, cfg) ==
    {[id |-> IF SetNamed(seen, a) = {} THEN 0 ELSE CHOOSE r \in SetNamed(seen, a) : TRUE,
      alias |-> a, join |-> JoinServers(seen, cfg[a]), order |-> cfg[a]] : a \in DOMAIN cfg}

\* What a command saw is dropped where nothing reads it any more.
Done(c) == [c EXCEPT !.seen = NoTopology, !.found = {}]

\* cartridgeEditReplicasets through c.via, then to pc.
CanSend(c, opts) ==
    c.via \in running /\ CanEdit(opts) /\ \A o \in opts : o.join \subseteq InstancesCfg
SendEdit(p, opts, pc) ==
    IF CanSend(command[p], opts)
    THEN /\ topo' = EditReplicasets(opts)
         /\ Becomes(p, [Done(command[p]) EXCEPT !.pc = pc])
         /\ UNCHANGED vshard /\ Same
    ELSE GiveUp(p)

\* bootstrapReplicasets for an old Cartridge: the cluster begins with the
\* first instance of some replicaset, which is then taken out of the config; an
\* empty replicaset is an error.
FirstEdit(p) ==
    /\ At(p, "firstEdit")
    /\ \E a \in Aliases :
          LET first == [b \in {a} |-> SubSeq(ReplicasetsCfg[a], 1, 1)]
              c == [command[p] EXCEPT !.taken = a]
              opts == EditOpts(c.seen, first)
          IN IF ReplicasetsCfg[a] # <<>> /\ CanSend(c, opts)
             THEN /\ topo' = EditReplicasets(opts)
                  /\ Becomes(p, [c EXCEPT !.pc = "firstHealth"])
                  /\ UNCHANGED vshard /\ Same
             ELSE GiveUp(p)

\* The rest is edited with what was seen at first.
Remaining(c) ==
    [a \in {b \in Aliases : b = c.taken => Len(ReplicasetsCfg[b]) > 1} |->
        IF a = c.taken THEN Tail(ReplicasetsCfg[a]) ELSE ReplicasetsCfg[a]]
Edit(p) ==
    /\ At(p, "edit")
    /\ SendEdit(p, EditOpts(command[p].seen, Remaining(command[p])), "health")

\* bootstrapInstance: one instance joins a replicaset that was seen.  The loop
\* ends at that replicaset: an instance of one that comes later in what was
\* seen is not noticed.
JoinInstance(p) ==
    /\ At(p, "joinEdit")
    /\ LET c == command[p]
           named == SetNamed(c.seen, c.rs)
           edit(r) == {[id |-> r, alias |-> Nothing, join |-> {c.inst}, order |-> <<>>]}
       IN \/ /\ named = {} \/ c.seen.joined[c.inst] \notin {0} \cup named
             /\ GiveUp(p)
          \/ \E r \in named : SendEdit(p, edit(r), "health")

\* Faulty variant: the wait for the promoted instance is skipped.
AfterHealthAtOnce(c) ==
    CASE c.pc = "firstHealth" -> "edit"
      [] c.op \in {"expel", "promote"} -> "end"
      [] c.vshard -> "rediscover"
      [] OTHER -> "report"

\* cartridgeWaitHealthy, for an old Cartridge only; it may time out.
AfterHealth(c) ==
    CASE c.pc = "firstHealth" -> "edit"
      [] c.op = "expel" -> "end"
      [] c.op = "promote" -> "waitRW"
      [] c.vshard -> "rediscover"
      [] OTHER -> "report"
NeedsHealthCheck == kind.major < 2
WaitHealthy(p) ==
    /\ At(p, "firstHealth") \/ At(p, "health")
    /\ LET c == command[p]
           broken == c.via \notin running
       IN \/ /\ ~broken
             /\ Advance(p, [c EXCEPT !.pc = AfterHealth(c)])
          \/ /\ broken \/ NeedsHealthCheck
             /\ IF c.op = "expel"
                THEN Advance(p, [c EXCEPT !.pc = "expel2", !.failed = TRUE])
                ELSE GiveUp(p)

\* --bootstrap-vshard discovers again, since the cache is from before.
Rediscover(p) ==
    /\ At(p, "rediscover")
    /\ IF running = {} THEN GiveUp(p)
       ELSE Advance(p, [command[p] EXCEPT !.seen = View, !.pc = "vshard"])

\* The command ends with a discovery of its own to print the topology.
Report(p) ==
    /\ At(p, "report")
    /\ IF running = {} THEN GiveUp(p) ELSE Finish(p, "ok") /\ UNCHANGED <<topo, vshard>> /\ Same

-----------------------------------------------------------------------------
(* tt replicaset vshard bootstrap.                                         *)

\* CartridgeApplication.BootstrapVShard tries one running instance of the
\* cluster after the other until one succeeds.
FilterDiscovered(c) == SelectSeq(InstanceSeq, LAMBDA i : c.seen.joined[i] # 0)
VShard(p) ==
    /\ At(p, "vshard")
    /\ Advance(p, [Done(command[p]) EXCEPT !.queue = FilterDiscovered(command[p]), !.pc = "vshardTry",
                                     !.failed = FALSE])

\* Cartridge distributes the buckets once.  It may refuse, or report an error
\* although it has done so.
VShardTry(p) ==
    /\ At(p, "vshardTry")
    /\ LET c == command[p]
           next == [c EXCEPT !.queue = Tail(@), !.tried = TRUE, !.failed = TRUE]
       IN IF c.queue = <<>>
          THEN IF c.tried /\ ~c.failed
               THEN Advance(p, [c EXCEPT !.pc = IF c.op = "bootstrap" THEN "report" ELSE "end"])
               ELSE GiveUp(p)
          ELSE IF Head(c.queue) \notin running
          THEN Advance(p, [c EXCEPT !.queue = Tail(@)])
          ELSE \/ /\ ~vshard /\ vshard' = TRUE
                  /\ \/ Becomes(p, [c EXCEPT !.queue = <<>>, !.tried = TRUE, !.failed = FALSE])
                     \/ Becomes(p, next)
                  /\ UNCHANGED topo /\ Same
               \/ Advance(p, next)

-----------------------------------------------------------------------------
(* tt replicaset expel and tt replicaset promote.                          *)

\* CartridgeApplication.Expel: the instance must be in what was seen.
Expel(p) ==
    /\ At(p, "expel")
    /\ LET c == command[p]
       IN IF c.seen.joined[c.inst] = 0 THEN GiveUp(p)
          ELSE Advance(p, [Done(c) EXCEPT !.queue = FilterDiscovered(c), !.pc = "expel2"])

\* Faulty variant: after an edit was accepted the loop goes on.
ExpelTryAll(p) ==
    /\ At(p, "expel2")
    /\ LET c == command[p] next == [c EXCEPT !.queue = Tail(@)]
       IN CASE c.queue = <<>> -> GiveUp(p)
            [] c.queue # <<>> /\ (Head(c.queue) \notin running \/ Head(c.queue) = c.inst) -> Advance(p, next)
            [] OTHER ->
                 \/ /\ topo.joined[c.inst] # 0
                    /\ topo' = EditInstances(c.inst)
                    /\ leading' = LedWithout(c.inst)
                    /\ Becomes(p, [next EXCEPT !.via = Head(c.queue), !.tried = TRUE])
                    /\ UNCHANGED <<kind, running, vshard, started, stops>>
                 \/ Advance(p, [next EXCEPT !.tried = TRUE, !.failed = TRUE])

\* cartridgeExpel: every other running instance of the cluster is tried until
\* one accepts the edit.
ExpelTry(p) ==
    /\ At(p, "expel2")
    /\ LET c == command[p] next == [c EXCEPT !.queue = Tail(@)]
       IN CASE c.queue = <<>> -> GiveUp(p)
            [] c.queue # <<>> /\ (Head(c.queue) \notin running \/ Head(c.queue) = c.inst) -> Advance(p, next)
            [] OTHER ->
                 \/ /\ topo.joined[c.inst] # 0
                    /\ topo' = EditInstances(c.inst)
                    /\ leading' = LedWithout(c.inst)
                    /\ Becomes(p, [next EXCEPT !.via = Head(c.queue), !.tried = TRUE, !.pc = "health"])
                    /\ UNCHANGED <<kind, running, vshard, started, stops>>
                 \/ Advance(p, [next EXCEPT !.tried = TRUE, !.failed = TRUE])

Return(p) ==
    /\ At(p, "end")
    /\ Finish(p, "ok")
    /\ UNCHANGED <<topo, vshard>> /\ Same

\* CartridgeApplication.Promote and cartridgePromote: through the instance
\* itself, by its place in the failover priority or by appointing it.
Promote(p) ==
    /\ At(p, "promote")
    /\ LET c == [command[p] EXCEPT !.via = command[p].inst]
           r == c.seen.joined[c.inst]
           opts == {[id |-> r, alias |-> Nothing, join |-> {}, order |-> <<c.inst>>]}
       IN CASE r = 0 \/ c.inst \notin c.found -> GiveUp(p)
            [] r # 0 /\ c.inst \in c.found /\ kind.failover = "disabled" ->
                 IF CanSend(c, opts)
                 THEN /\ topo' = EditReplicasets(opts)
                      /\ Becomes(p, [Done(c) EXCEPT !.pc = "health"])
                      /\ UNCHANGED vshard /\ Same
                 ELSE GiveUp(p)
            [] r # 0 /\ c.inst \in c.found /\ kind.failover = "stateful" ->
                 IF c.inst \in running /\ topo.joined[c.inst] = r
                 THEN /\ topo' = [topo EXCEPT !.wanted[r] = c.inst]
                      /\ Becomes(p, [Done(c) EXCEPT !.pc = "waitRW"])
                      /\ UNCHANGED vshard /\ Same
                 ELSE GiveUp(p)
            [] OTHER -> GiveUp(p)

\* waitRW: until the instance is writable, or the timeout.
WaitWritable(p) ==
    /\ At(p, "waitRW")
    /\ LET c == command[p]
           writable == \E r \in Sets : leading[r] = c.inst
       IN \/ /\ writable
             /\ Advance(p, [c EXCEPT !.pc = "end"])
          \/ /\ ~writable
             /\ GiveUp(p)

-----------------------------------------------------------------------------
(* The specification.                                                      *)

\* A cluster that an earlier bootstrap built from the beginnings of some of
\* the configured replicasets, or none.
CartInit ==
    /\ kind \in [orchestrator : {"cartridge"}, major : {2}, failover : {"disabled", "stateful", "unknown"}]
         \cup [orchestrator : {"cartridge"}, major : {1}, failover : {"disabled"}]
         \cup [orchestrator : {"custom"}, major : {2}, failover : {"disabled"}]
    /\ running = Members
    /\ \E n \in [Aliases -> 0..Len(InstanceSeq)] :
          /\ \A a \in Aliases : n[a] <= Len(ReplicasetsCfg[a])
          /\ kind.orchestrator = "custom" => \A a \in Aliases : n[a] = Len(ReplicasetsCfg[a])
          /\ LET opts == {[id |-> 0, alias |-> a, join |-> Range(SubSeq(ReplicasetsCfg[a], 1, n[a])),
                           order |-> SubSeq(ReplicasetsCfg[a], 1, n[a])]
                             : a \in {b \in Aliases : n[b] > 0}}
             IN /\ Acceptable(NoTopology, opts) /\ \A o \in opts : o.join \subseteq InstancesCfg
                /\ topo = Edited(NoTopology, opts)
    /\ leading = topo.wanted
    /\ vshard = FALSE
    /\ command = [p \in Procs |-> NoCommand]
    /\ started = 0
    /\ stops = 0

Command(p) ==
    \/ Orchestrator(p) \/ Discover(p) \/ Choose(p) \/ FirstEdit(p) \/ Edit(p) \/ JoinInstance(p)
    \/ WaitHealthy(p) \/ Rediscover(p) \/ Report(p) \/ VShard(p) \/ VShardTry(p)
    \/ Expel(p) \/ ExpelTry(p) \/ Return(p) \/ Promote(p) \/ WaitWritable(p)

CartNext ==
    \/ \E p \in Procs : Command(p) \/ \E r \in Requests : StartCommand(p, r)
    \/ \E i \in Members : Stop(i) \/ Restart(i)
    \/ \E r \in Sets : Settle(r)

CartSpec == CartInit /\ [][CartNext]_cartVars

-----------------------------------------------------------------------------
(* Properties.                                                             *)

\* Command p, which did op and met no other command and no stop, ends.
Ends(p, ops) == /\ ~At(p, "idle") /\ At(p, "idle")'
                /\ command[p].op \in ops /\ command[p].clean

\* With Cartridge 2, however commands overlap, no two replicasets get the same
\* alias: tt decides from an old discovery whether updateCartridgeReplicasets
\* creates a replicaset or links an existing one.  Every instance must be in
\* replicasets.yml: one that is not may join a replicaset and keep it alive while
\* those that are configured are expelled, and a bootstrap that discovered
\* before all that then creates the replicaset a second time.
NoSplitReplicaset ==
    (kind.major = 2 /\ Members \subseteq Configured) =>
        \A a \in Aliases : \A r, s \in SetNamed(topo, a) : r = s

\* A bootstrap that succeeds undisturbed leaves the replicasets of
\* replicasets.yml: each configured replicaset once, with exactly its
\* instances in the configured priority.  A cluster that Cartridge 1 starts
\* from nothing is left out: there the second edit of bootstrapReplicasets
\* uses the discovery made before the first.
BootstrapMatchesConfig ==
    [][\A p \in Procs :
          (Ends(p, {"bootstrap"}) /\ command'[p].res = "ok"
             /\ (kind.major = 2 \/ Bootstrapped(command[p].before))) =>
             \A a \in Aliases : \E r \in Sets :
                /\ SetNamed(topo', a) = {r}
                /\ MembersOf(topo', r) = Range(ReplicasetsCfg[a])
                /\ topo'.order[r] = ReplicasetsCfg[a]]_cartVars

\* A bootstrap, a join or an expel that fails undisturbed under Cartridge 2 has
\* changed nothing, and one that succeeds has done what was asked: the
\* instance is in its replicaset, or out of the cluster.  tt retries an expel
\* through other instances and ends every bootstrap with another discovery.
ErrorMeansUnchanged ==
    [][\A p \in Procs :
          (Ends(p, {"bootstrap", "join", "expel"}) /\ kind.major = 2 /\ ~command[p].vshard) =>
             /\ command'[p].res = "error" => topo = command[p].before
             /\ (command'[p].res = "ok" /\ command[p].op = "join") =>
                    topo.alias[topo.joined[command[p].inst]] = command[p].rs
             /\ (command'[p].res = "ok" /\ command[p].op = "expel") => topo.joined[command[p].inst] = 0]_cartVars

\* What bootstrap, join and expel report is what has happened.
ReportsAreTrue == BootstrapMatchesConfig /\ ErrorMeansUnchanged

\* A promote that succeeds undisturbed has made the instance the writable one
\* of its replicaset and of no other: a change of the priority takes effect
\* later, which cartridgePromote waits for.
PromoteLeads ==
    [][\A p \in Procs :
          (Ends(p, {"promote"}) /\ command'[p].res = "ok") =>
             {r \in Sets : leading[r] = command[p].inst} = {topo.joined[command[p].inst]}]_cartVars
=============================================================================
