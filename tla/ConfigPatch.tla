----------------------------- MODULE ConfigPatch ----------------------------
(***************************************************************************)
(* The commands that patch a cluster configuration kept in a storage under *)
(* several keys: `tt cluster replicaset promote | demote | expel' and      *)
(* `roles add' (cli/replicaset/configsource.go), and `tt cluster publish'   *)
(* of the configuration of one instance (cli/cluster/cmd/publish.go).       *)
(*                                                                         *)
(* A command collects all the keys, merges them to find out what to change, *)
(* and publishes one key (publish without a key replaces all of them).      *)
(* Commands run one after the other here; ConfigStorage has them race.      *)
(* A scalar is modelled by the set that holds it, a list of roles by a set. *)
(***************************************************************************)
EXTENDS ClusterConfig, FiniteSets

CONSTANTS
    Instances,      \* the instances the commands are given
    Scopes,         \* the scopes a role is added to
    MaxScopes,      \* the most scopes one `roles add' names
    Role,           \* the role that is added
    IConfigs,       \* the instance configurations that are published
    MaxCommands,    \* the number of commands that are run
    InitialData     \* the sequences of configurations, in the order of the keys

ASSUME PatchAssumption ==
    /\ MaxScopes \in Nat \ {0}
    /\ MaxCommands \in Nat
    /\ \A docs \in InitialData : \A n \in DOMAIN docs : IsConfig(docs[n])

VARIABLES
    docs,   \* the configuration under each key, in the order of the keys
    last,   \* the last command: [op, inst, paths, value, first, result]
    count   \* the number of commands so far

patchVars == <<docs, last, count>>

Items(d) == [n \in DOMAIN d |-> [config |-> d[n]]]
Merged(d) == CollectCConfig(Items(d))

NoCommand == [op |-> "none", inst |-> "", paths |-> {}, value |-> {}, first |-> FALSE,
              result |-> "ok"]

PatchInit ==
    /\ docs \in InitialData
    /\ last = NoCommand
    /\ count = 0

Refuse(op, i) ==
    /\ last' = [NoCommand EXCEPT !.op = op, !.inst = i, !.result = "error"]
    /\ UNCHANGED docs

-----------------------------------------------------------------------------
PatchOf(op, c, i) ==
    CASE op = "promote" -> PromotePatch(c, i)
      [] op = "demote" -> DemotePatch(c, i)
      [] op = "expel" -> ExpelPatch(c, i)

\* The keys a patch of the path may go to; none when the command fails.
Candidates(path, depth) ==
    IF TargetsFail(Items(docs), path, depth) THEN << >>
    ELSE PatchTargets(Items(docs), path, depth)

\* patchInstanceConfig.  keyPicker takes the first candidate when it is forced or alone,
\* otherwise the user chooses.
PatchInstanceConfig(op, i) ==
    LET c == Merged(docs)
    IN  IF ~HasInstance(c, i) \/ PatchOf(op, c, i) = {} THEN Refuse(op, i)
        ELSE \E p \in PatchOf(op, c, i) :
                LET targets == Candidates(p.path, p.depth)
                IN  IF targets = << >> THEN Refuse(op, i)
                    ELSE \E pick \in DOMAIN targets :
                            LET n == targets[pick].pos
                            IN  IF ~Settable(docs[n], p.path) THEN Refuse(op, i)
                                ELSE /\ docs' = [docs EXCEPT ![n] = Set(@, p.path, p.value)]
                                     /\ last' = [op |-> op, inst |-> i, paths |-> {p.path},
                                                 value |-> p.value, first |-> pick = 1,
                                                 result |-> "ok"]

Promote(i) == PatchInstanceConfig("promote", i)
Demote(i) == PatchInstanceConfig("demote", i)
Expel(i) == PatchInstanceConfig("expel", i)

-----------------------------------------------------------------------------
\* Faulty variant: the roles of the scope are replaced.
AddRoleStepReplace(c, acc, path, n) ==
    LET cur == Set(docs[n], path, {Role})
    IN  [n |-> n, config |-> IF acc.n = 0 THEN cur ELSE Merge(acc.config, cur)]

\* patchConfigWithRoles: one step of its loop, on the key n.  acc is [n, config]: the key
\* of the last path, and what is to be published (nothing before the first path).
AddRoleStep(c, acc, path, n) ==
    LET cur == Set(docs[n], path, RolesAt(c, path) \cup {Role})
    IN  [n |-> n, config |-> IF acc.n = 0 THEN cur ELSE Merge(acc.config, cur)]

AddRoleFails(c, path) ==
    LET targets == Candidates(path, Len(path) - 1)
    IN  \/ GetStatus(c, path) = "NotMap" \/ IsMap(c, path)
        \/ Role \in RolesAt(c, path)
        \/ targets = << >>
        \/ \E t \in Range(targets) : ~Settable(docs[t.pos], path)

\* AddRole; pick is the candidate chosen for each scope.  The paths are in the order
\* global, group, replicaset, instance.
AddRole(scopes) ==
    LET c == Merged(docs)
        order == SortSeq(SetToSeq(scopes),
                         LAMBDA s, t : Len(ScopePath(c, s)) < Len(ScopePath(c, t)))
        targets(s) == Candidates(RolesPath(c, s), Len(ScopePath(c, s)))
        start == [n |-> 0, config |-> NewConfig]
    IN  IF \/ \E s \in scopes : ~ScopeExists(c, s)
           \/ \E s \in scopes : AddRoleFails(c, RolesPath(c, s))
        THEN Refuse("addrole", "")
        ELSE \E pick \in [scopes -> DOMAIN docs] :
                /\ \A s \in scopes : pick[s] \in DOMAIN targets(s)
                /\ LET step(acc, s) == AddRoleStep(c, acc, RolesPath(c, s),
                                                  targets(s)[pick[s]].pos)
                       end == FoldLeft(step, start, order)
                   IN  docs' = [docs EXCEPT ![end.n] = end.config]
                /\ last' = [op |-> "addrole", inst |-> "",
                            paths |-> {RolesPath(c, s) : s \in scopes}, value |-> {Role},
                            first |-> \A s \in scopes : pick[s] = 1, result |-> "ok"]

\* The scopes of a command: at most one of a kind.
ScopeSets ==
    {S \in SUBSET Scopes : /\ S # {} /\ Cardinality(S) <= MaxScopes
                           /\ \A s, t \in S : s.kind = t.kind => s = t}

-----------------------------------------------------------------------------
\* setInstanceConfig on a configuration: what is published, or nothing.  Without a
\* replicaset name only an instance that is there can be replaced.
WithInstance(c, i, g, r, iconfig) ==
    IF HasInstance(c, i)
    THEN LET place == FindInstance(c, i)
         IN  IF r \notin {"", place[2]} \/ g \notin {"", place[1]} THEN {}
             ELSE {SetInstanceConfig(c, place[1], place[2], i, iconfig)}
    ELSE LET groups == IF g # "" THEN {g} ELSE FindGroupByReplicaset(c, r)
         IN  {SetInstanceConfig(c, h, r, i, iconfig) :
                 h \in {h \in groups : r # "" /\ Settable(c, InstancePath(h, r, i))}}

\* tt cluster publish URI?name=i: all the keys become one.
PublishInstance(i, r, iconfig) ==
    LET new == WithInstance(Merged(docs), i, "", r, iconfig)
    IN  IF new = {} THEN Refuse("publish", i)
        ELSE /\ docs' \in {<<c>> : c \in new}
             /\ last' = [NoCommand EXCEPT !.op = "publish", !.inst = i]

\* tt cluster publish URI?key=k&name=i: the key alone.
PublishInstanceKey(n, i, r, iconfig) ==
    LET new == WithInstance(Merge(NewConfig, docs[n]), i, "", r, iconfig)
    IN  IF new = {} THEN Refuse("publish", i)
        ELSE /\ \E c \in new : docs' = [docs EXCEPT ![n] = c]
             /\ last' = [NoCommand EXCEPT !.op = "publish", !.inst = i]

Command ==
    \/ \E i \in Instances : Promote(i) \/ Demote(i) \/ Expel(i)
    \/ \E S \in ScopeSets : AddRole(S)
    \/ \E i \in Instances, r \in {"", "r"}, iconfig \in IConfigs :
          \/ PublishInstance(i, r, iconfig)
          \/ \E n \in DOMAIN docs : PublishInstanceKey(n, i, r, iconfig)

PatchNext ==
    /\ count < MaxCommands
    /\ count' = count + 1
    /\ Command

PatchSpec == PatchInit /\ [][PatchNext]_patchVars
-----------------------------------------------------------------------------
Patched(ops) == last'.op \in ops /\ last'.result = "ok" /\ last'.first

Gives(iconfig, option, v) == GetConfig(iconfig, option) = Leaf(v)

\* The option that a command is to change has changed in what the instance is given: its mode,
\* its listen, or the leader of its replicaset.
InstanceGiven(iconfig, failover) ==
    CASE last'.op = "expel" -> Gives(iconfig, <<"iproto", "listen">>, EmptyMap)
      [] last'.op = "demote" -> Gives(iconfig, <<"database", "mode">>, {"ro"})
      [] OTHER -> IF failover = {"off"} THEN Gives(iconfig, <<"database", "mode">>, {"rw"})
                  ELSE Gives(iconfig, <<"leader">>, {last'.inst})

\* roles add: a role that is not in a requested scope is there afterwards, next to the
\* roles the scope had (configsource.go:156).
RoleIsAdded ==
    [][Patched({"addrole"}) =>
          \A p \in last'.paths :
             RolesAt(Merged(docs'), p) = RolesAt(Merged(docs), p) \cup {Role}]_patchVars

\* A patch that goes to the key that promises most of the path is what the cluster sees
\* afterwards and what the instance is given, although the other keys are merged over and
\* under it (configsource.go, getCConfigPatchTargets); an added role is there too; and
\* whatever key was picked, the command changes nothing in the merged configuration but what
\* lies at, above or below the patched paths.
PatchTakesEffect ==
    /\ RoleIsAdded
    /\ [][LET old == Merged(docs)
              new == Merged(docs')
          IN  /\ Patched({"promote", "demote", "expel"}) =>
                    /\ \A p \in last'.paths : GetConfig(new, p) = Leaf(last'.value)
                    /\ InstanceGiven(Instantiate(new, last'.inst), GetFailover(old, last'.inst))
              /\ last'.op \in {"promote", "demote", "expel", "addrole"} =>
                    \A q \in DOMAIN old \cup DOMAIN new :
                       (\A p \in last'.paths : ~IsPrefix(p, q) /\ ~IsPrefix(q, p)) =>
                          q \in DOMAIN old \cap DOMAIN new /\ old[q] = new[q]]_patchVars

\* Publishing the configuration of one instance changes nothing for another one.
PublishSparesOthers ==
    [][last'.op = "publish" =>
          \A i \in Instances \ {last'.inst} :
             Instantiate(Merged(docs'), i) = Instantiate(Merged(docs), i)]_patchVars
=============================================================================
