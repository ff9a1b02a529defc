---------------------------- MODULE ClusterConfig ---------------------------
(***************************************************************************)
(* A cluster configuration (lib/cluster/cluster.go) and the patches that   *)
(* `tt cluster replicaset' makes to it (cli/replicaset/configsource.go and  *)
(* the patch functions of cli/replicaset/cconfig.go).  Everything here is a *)
(* function of the configurations; ConfigPatch drives it.                  *)
(***************************************************************************)
EXTENDS Config, Integers

-----------------------------------------------------------------------------
\* cluster.go: instances by group and replicaset.

GroupPath(g) == <<"groups", g>>
ReplicasetPath(g, r) == GroupPath(g) \o <<"replicasets", r>>
InstancePath(g, r, i) == ReplicasetPath(g, r) \o <<"instances", i>>

\* The groups and replicasets that list the instance.
PlacesOf(c, i) ==
    {<<g, r>> \in UNION {{g} \X Elems(c, GroupPath(g) \o <<"replicasets">>) :
                            g \in Elems(c, <<"groups">>)} :
        i \in Elems(c, ReplicasetPath(g, r) \o <<"instances">>)}

HasInstance(c, i) == PlacesOf(c, i) # {}

FindInstance(c, i) == CHOOSE place \in PlacesOf(c, i) : TRUE

FindGroupByReplicaset(c, r) ==
    {g \in Elems(c, <<"groups">>) : r \in Elems(c, GroupPath(g) \o <<"replicasets">>)}

\* Instantiate: the scopes merged from the instance outwards.
Instantiate(c, i) ==
    IF ~HasInstance(c, i) THEN MergeExclude(NewConfig, c, <<"groups">>)
    ELSE LET place == FindInstance(c, i)
             g == place[1]
             r == place[2]
             instance == Merge(NewConfig, GetConfig(c, InstancePath(g, r, i)))
             replicaset == MergeExclude(instance, GetConfig(c, ReplicasetPath(g, r)),
                                        <<"instances">>)
             group == MergeExclude(replicaset, GetConfig(c, GroupPath(g)), <<"replicasets">>)
         IN  MergeExclude(group, c, <<"groups">>)

\* Faulty variant: the instance becomes the only one of its replicaset.
SetInstanceConfigAlone(c, g, r, i, iconfig) ==
    SetConfig(Merge(NewConfig, c), ReplicasetPath(g, r) \o <<"instances">>,
              SetConfig(NewConfig, <<i>>, iconfig))

\* ReplaceInstanceConfig and SetInstanceConfig: the copy drops nulls, then the
\* configuration of the instance is replaced as a whole.
SetInstanceConfig(c, g, r, i, iconfig) ==
    SetConfig(Merge(NewConfig, c), InstancePath(g, r, i), iconfig)

-----------------------------------------------------------------------------
\* configsource.go: data is a sequence of [key, config], in the order of the keys.

\* collectCConfig: the keys merged, the first one with the highest priority.
CollectCConfig(data) == FoldLeft(LAMBDA c, d : Merge(c, d.config), NewConfig, data)

\* cconfigGetFailover: off when it is not set, an error when it is a map.
FailoverPath == <<"replication", "failover">>
GetFailover(c, i) ==
    LET iconfig == Instantiate(c, i)
    IN  IF GetStatus(iconfig, FailoverPath) = "NotExist" THEN {"off"}
        ELSE IF FailoverPath \in ForEach(iconfig) THEN iconfig[FailoverPath]
        ELSE {"error"}

ModePath(place, i) == InstancePath(place[1], place[2], i) \o <<"database", "mode">>
ListenPath(place, i) == InstancePath(place[1], place[2], i) \o <<"iproto", "listen">>
LeaderPath(place) == ReplicasetPath(place[1], place[2]) \o <<"leader">>

\* A patch: the path, the least depth of the path a key must have to be a candidate,
\* and the value; or nothing when the failover does not allow the operation.
Patch(path, missing, value) ==
    {[path |-> path, depth |-> Len(path) - missing, value |-> value]}

PromotePatch(c, i) ==
    CASE GetFailover(c, i) = {"off"} -> Patch(ModePath(FindInstance(c, i), i), 2, {"rw"})
      [] GetFailover(c, i) = {"manual"} -> Patch(LeaderPath(FindInstance(c, i)), 1, {i})
      [] OTHER -> {}

DemotePatch(c, i) ==
    IF GetFailover(c, i) = {"off"} THEN Patch(ModePath(FindInstance(c, i), i), 2, {"ro"})
    ELSE {}

ExpelPatch(c, i) ==
    IF GetFailover(c, i) = {"error"} THEN {}
    ELSE Patch(ListenPath(FindInstance(c, i), i), 2, EmptyMap)

-----------------------------------------------------------------------------
NoDepth == -1

\* getCConfigPathDepth: how much of the path the configuration has.  The second value
\* says that a Get on the way failed with something else than NotExist.
PathDepth(c, path, lower) ==
    LET depths == {n \in lower .. Len(path) : GetStatus(c, SubSeq(path, 1, n)) # "NotExist"}
    IN  IF depths = {} THEN NoDepth ELSE Max(depths)

DepthFails(c, path, lower) ==
    LET n == PathDepth(c, path, lower)
    IN  n # NoDepth /\ GetStatus(c, SubSeq(path, 1, n)) = "NotMap"

\* Faulty variant: the key that has least of the path comes first.
GreaterInverted(s, t) ==
    IF s.priority # t.priority THEN s.priority < t.priority ELSE s.pos < t.pos

\* patchTarget.greater; pos is the place of the key in the order of the keys.
Greater(s, t) == IF s.priority # t.priority THEN s.priority > t.priority ELSE s.pos < t.pos

\* getCConfigPatchTargets: the keys that may be patched, the best first.
PatchTargets(data, path, lower) ==
    LET found == {n \in DOMAIN data : PathDepth(data[n].config, path, lower) # NoDepth}
        targets == {[pos |-> n, priority |-> PathDepth(data[n].config, path, lower)] :
                       n \in found}
    IN  SetToSortSeq(targets, Greater)

TargetsFail(data, path, lower) ==
    \E n \in DOMAIN data : DepthFails(data[n].config, path, lower)

-----------------------------------------------------------------------------
\* A scope to add a role to: [kind, name], with kind global, group, replicaset or
\* instance.
ScopeExists(c, scope) ==
    CASE scope.kind = "global" -> TRUE
      [] scope.kind = "group" -> GetStatus(c, GroupPath(scope.name)) = "ok"
      [] scope.kind = "replicaset" -> FindGroupByReplicaset(c, scope.name) # {}
      [] scope.kind = "instance" -> HasInstance(c, scope.name)

ScopePath(c, scope) ==
    CASE scope.kind = "global" -> << >>
      [] scope.kind = "group" -> GroupPath(scope.name)
      [] scope.kind = "replicaset" ->
           ReplicasetPath(CHOOSE g \in FindGroupByReplicaset(c, scope.name) : TRUE, scope.name)
      [] scope.kind = "instance" ->
           InstancePath(FindInstance(c, scope.name)[1], FindInstance(c, scope.name)[2],
                        scope.name)

\* getCConfigRolesPath, for scopes that exist.
RolesPath(c, scope) == ScopePath(c, scope) \o <<"roles">>

\* The roles at a path; none when there is nothing.
RolesAt(c, path) == IF GetStatus(c, path) = "ok" THEN c[path] ELSE {}
=============================================================================
