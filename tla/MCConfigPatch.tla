---------------------------- MODULE MCConfigPatch ---------------------------
(***************************************************************************)
(* The configuration commands in four machines that share no state: the    *)
(* patches (ConfigPatch), on one replicaset with two instances, described  *)
(* under two keys; the merge all of them begin with (ConfigMerge), on      *)
(* small configurations of any shape; the publishing to a storage          *)
(* (ConfigStorage), by two commands at once; and a switch of the master    *)
(* through the failover coordinator (FailoverSwitch).                      *)
(***************************************************************************)
EXTENDS ConfigPatch, ConfigMerge, ConfigStorage, FailoverSwitch

CONSTANTS a, b                  \* two names of keys

VARIABLE machine               \* "patch", "merge", "storage" or "switch"

MCInstances == {"i1", "i2"}

MCScopes == {[kind |-> "global", name |-> ""], [kind |-> "group", name |-> "g"],
             [kind |-> "instance", name |-> "i1"], [kind |-> "replicaset", name |-> "s"]}

MCIConfigs == {[p \in {<<"database", "mode">>} |-> {"rw"}]}

At(path, v) == [p \in {path} |-> v]

\* The choices for one part of a configuration, each a configuration of its own.
Failovers(vs) == {NewConfig} \cup {At(FailoverPath, v) : v \in vs}
Roles(path) == {NewConfig, At(path \o <<"roles">>, {"r1"})}
Instance1 == InstancePath("g", "r", "i1")
I1(options) == {NewConfig} \cup {At(Instance1 \o o[1], o[2]) : o \in options}
I2 == At(InstancePath("g", "r", "i2"), EmptyMap)

Join(Cs, Ds) == {Merge(c, d) : c \in Cs, d \in Ds}

FirstKey ==
    Join(Join(Failovers({{"manual"}}), {I2}),
         I1({<< << >>, EmptyMap>>, << <<"database", "mode">>, {"ro"}>>}))

SecondKey ==
    Join(Join(Failovers({{"election"}}),
              {NewConfig, At(ReplicasetPath("g", "r") \o <<"database", "mode">>, {"ro"})}),
         Join({At(GroupPath("g") \o <<"roles">>, {"r1"})},
              I1({<< <<"database">>, EmptyMap>>, << <<"database", "mode">>, {"rw"}>>})))

MCInitialData == {<<c, d>> : c \in FirstKey, d \in SecondKey}

\* For the roles: both keys may have roles in two scopes.
RoleKeys == Join(Join({I2}, Roles(<< >>)), Roles(GroupPath("g")))
RoleData == {<<c, d>> : c \in RoleKeys, d \in RoleKeys}

\* For the merge.
MergePaths == {<< >>, <<"a">>, <<"b">>, <<"a", "a">>, <<"a", "b">>}
-----------------------------------------------------------------------------
(* The machines together: those that a behaviour does not follow rest.     *)

\* All commands on the storage have ended and nothing is stored.
StorageRests ==
    LET none == [k \in Keys |-> Absent]
    IN  /\ backend = "etcd" /\ integrity = "off" /\ revision = 1 /\ published = {}
        /\ config = none /\ hashes = none /\ sigs = none
        /\ cmd = [c \in Clients |-> [kind |-> "all", key |-> All]]
        /\ pc = [c \in Clients |-> "done"] /\ result = [c \in Clients |-> "error"]
        /\ data = [c \in Clients |-> none]
        /\ looked = [c \in Clients |-> [config |-> none, hashes |-> none, sigs |-> none]]

MergeRests == high = NewConfig /\ low = NewConfig /\ merging = NewConfig /\ todo = {}
PatchRests == docs = <<NewConfig>> /\ last = NoCommand /\ count = 0

SwitchRests ==
    /\ wait = FALSE /\ task = << >> /\ shown = << >> /\ from = 0
    /\ command = "ended" /\ watcher = "none" /\ watch = "open" /\ outcome = "none"

SumInit ==
    \/ machine = "patch" /\ PatchInit /\ MergeRests /\ StorageRests /\ SwitchRests
    \/ machine = "merge" /\ MergeInit /\ PatchRests /\ StorageRests /\ SwitchRests
    \/ machine = "storage" /\ Init /\ PatchRests /\ MergeRests /\ SwitchRests
    \/ machine = "switch" /\ SwitchInit /\ PatchRests /\ MergeRests /\ StorageRests

SumNext ==
    \/ machine = "patch" /\ PatchNext /\ UNCHANGED <<machine, mergeVars, vars, switchVars>>
    \/ machine = "merge" /\ MergeNext /\ UNCHANGED <<machine, patchVars, vars, switchVars>>
    \/ machine = "storage" /\ Next /\ UNCHANGED <<machine, patchVars, mergeVars, switchVars>>
    \/ machine = "switch" /\ SwitchNext /\ UNCHANGED <<machine, patchVars, mergeVars, vars>>

SumSpec == SumInit /\ [][SumNext]_<<machine, patchVars, mergeVars, vars, switchVars>>

\* A client that is waiting for the storage goes on, and so does the switch.
SumFairSpec == SumSpec /\ (\A c \in Clients : WF_vars(Step(c))) /\ SwitchFairness
=============================================================================
