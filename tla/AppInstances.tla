---------------------------- MODULE AppInstances ----------------------------
(***************************************************************************)
(* How tt finds the instances of the applications of an environment and    *)
(* the files each of them uses (cli/running/running.go and its layout      *)
(* package).  These are operators only: module Launch calls them at the    *)
(* steps where a process of tt does.                                       *)
(*                                                                         *)
(* A path is the sequence of its names; a path as it is written in a       *)
(* configuration, [abs, names], may be relative.  A tree maps the paths of *)
(* the directories to what is in them: the scripts (names without the      *)
(* .lua), the own scripts (<instance>.init.lua), how many of               *)
(* instances.yml/.yaml and of config.yml/.yaml there are, the keys of the  *)
(* first and the instances of the second.  A key [full, after, board] is   *)
(* the text of an instance's name, the text after its first dot ("" if it  *)
(* has none), and whether it ends in -stateboard.                          *)
(***************************************************************************)
EXTENDS Naturals, Sequences, FiniteSets

Rel(names) == [abs |-> FALSE, names |-> names]
Abs(names) == [abs |-> TRUE, names |-> names]
Unset == Rel(<<>>)

\* The last absolute part of the path wins.
JoinPaths(base, path) == IF path.abs THEN path.names ELSE base \o path.names
Base(path) == IF path = <<>> THEN "/" ELSE path[Len(path)]
Dir(path) == IF path = <<>> THEN path ELSE SubSeq(path, 1, Len(path) - 1)

\* Both extensions are looked for, whatever the given one is.
GetYamlFileName(count, mustExist) ==
    IF count > 1 THEN "ambiguous" ELSE IF count = 1 THEN "found"
    ELSE IF mustExist THEN "missing" ELSE "none"

IsApp(tree, path) == path \in DOMAIN tree /\ ("init" \in tree[path].scripts \/ tree[path].instYamls > 0)

Failed == [ok |-> FALSE, found |-> {}]
Found(things) == [ok |-> TRUE, found |-> things]

\* where.dot: instances_enabled is "." and its directory is an application.
CollectAppList(tree, baseDir, where) ==
    LET at == IF where.dot THEN baseDir ELSE where.path
    IN  IF where.dot /\ IsApp(tree, baseDir) THEN Found({Base(baseDir)})
        ELSE IF at \notin DOMAIN tree THEN Failed
        ELSE Found(tree[at].scripts \cup {Base(d) : d \in {e \in DOMAIN tree : e # at /\ Dir(e) = at /\ IsApp(tree, e)}})

-----------------------------------------------------------------------------
(* What is collected about an instance before its files are known. *)

InstanceCtx(app, inst, dir, key, script, cluster, raw, single, file) ==
    [app |-> app, inst |-> inst, dir |-> dir, key |-> key, script |-> script, cluster |-> cluster,
     raw |-> raw, single |-> single, file |-> file]

SearchApplicationScript(tree, dir, app) ==
    IF dir \in DOMAIN tree /\ app \in tree[dir].scripts
    THEN {InstanceCtx(app, app, Append(dir, app), app, "file", FALSE, <<>>, TRUE, TRUE)} ELSE {}

\* A cluster configuration needs an instances file next to it, and an
\* application without either needs init.lua.
CollectAppDirFiles(d) ==
    LET inst == GetYamlFileName(d.instYamls, FALSE)
        cluster == GetYamlFileName(d.clusterYamls, FALSE)
        init == "init" \in d.scripts
    IN  [init |-> init, inst |-> inst = "found", cluster |-> cluster = "found",
         ok |-> /\ "ambiguous" \notin {inst, cluster}
                /\ inst = "none" => cluster = "none" /\ init]

\* The names of a cluster's instances are taken as they are.
GetInstanceName(key, cluster) ==
    IF cluster THEN key.full ELSE IF key.board THEN "stateboard"
    ELSE IF key.after = "" THEN key.full ELSE key.after

FindInstanceScriptInAppDir(d, inst, files) ==
    IF files.cluster THEN "cluster" ELSE IF inst \in d.own THEN "own"
    ELSE IF files.init THEN "init" ELSE "missing"

\* The instance must be one of the cluster configuration.
LoadInstanceConfig(d, inst, files) ==
    IF ~files.cluster THEN Found({<<>>}) ELSE IF inst \in DOMAIN d.cluster THEN Found({d.cluster[inst]}) ELSE Failed

CollectInstancesFromAppDir(tree, appDir, selected) ==
    IF appDir \notin DOMAIN tree THEN Failed
    ELSE LET d == tree[appDir]
             files == CollectAppDirFiles(d)
             app == Base(appDir)
             name(k) == GetInstanceName(k, files.cluster)
             chosen == {k \in d.keys : selected \in {"", name(k)} /\ name(k) # app}
         IN  IF ~files.ok THEN Failed
             ELSE IF ~files.inst THEN Found({InstanceCtx(app, app, appDir, app, "init", FALSE, <<>>, TRUE, FALSE)})
             ELSE IF \/ chosen = {}
                     \/ \E k \in chosen : \/ ~LoadInstanceConfig(d, name(k), files).ok
                                          \/ FindInstanceScriptInAppDir(d, name(k), files) = "missing"
                  THEN Failed
             ELSE Found({InstanceCtx(app, name(k), appDir, k.full, FindInstanceScriptInAppDir(d, name(k), files),
                             files.cluster, CHOOSE raw \in LoadInstanceConfig(d, name(k), files).found : TRUE,
                             FALSE, FALSE) : k \in chosen})

\* A target is [app, inst]: "app" or "app:inst" on the command line.
CollectInstances(tree, target, appsDir) ==
    LET script == SearchApplicationScript(tree, appsDir, target.app)
    IN  IF script # {} THEN Found(script)
        ELSE CollectInstancesFromAppDir(tree,
                 IF Base(appsDir) = target.app THEN appsDir ELSE Append(appsDir, target.app), target.inst)

-----------------------------------------------------------------------------
(* The files of an instance. *)

\* Faulty variant: the name of the application is left out.
GenFilePathByName(i, sub) ==
    IF sub.abs THEN Append(sub.names, i.inst) ELSE JoinPaths(i.dir, sub) \o <<i.inst>>

\* An absolute directory is shared by the applications, so it gets the
\* application's name; a relative one is inside the application.
GenFilePath(i, sub) ==
    IF sub.abs THEN sub.names \o <<i.app, i.inst>> ELSE JoinPaths(i.dir, sub) \o <<i.inst>>

MultiInstLayout(i, opts) ==
    [pid     |-> Append(GenFilePath(i, opts.run), "tt.pid"),
     console |-> Append(GenFilePath(i, opts.run), "tarantool.control"),
     log     |-> Append(GenFilePath(i, opts.log), "tt.log"),
     wal     |-> GenFilePath(i, opts.data)]

TntCtlLayout(i, opts, configDir) ==
    [pid     |-> JoinPaths(configDir, opts.run) \o <<i.app, "pid">>,
     console |-> JoinPaths(configDir, opts.run) \o <<i.app, "control">>,
     log     |-> JoinPaths(configDir, opts.log) \o <<i.app, "log">>,
     wal     |-> JoinPaths(configDir, opts.data) \o <<i.app>>]

SetInstCtxFromTtConfig(i, opts, configDir) ==
    IF opts.tarantoolctl /\ i.single THEN TntCtlLayout(i, opts, configDir) ELSE MultiInstLayout(i, opts)

\* A value of the cluster configuration that is not a text cannot be used.
MapValuesFromConfig(raw) == IF \A f \in DOMAIN raw : raw[f].text THEN Found({raw}) ELSE Failed

SetInstCtxFromClusterConfig(i, files) ==
    [f \in DOMAIN files |-> IF f \in DOMAIN i.raw THEN JoinPaths(i.dir, i.raw[f]) ELSE files[f]]

RenderInstCtxMembers(i, files) ==
    [f \in DOMAIN files |-> [n \in DOMAIN files[f] |-> IF files[f][n] = "{{ instance_name }}" THEN i.inst ELSE files[f][n]]]

CollectInstancesForApps(tree, targets, opts, configDir) ==
    LET appsDir == IF opts.where.dot THEN configDir ELSE opts.where.path
        collected(t) == CollectInstances(tree, t, appsDir)
        all == UNION {collected(t).found : t \in targets}
    IN  IF \E t \in targets : ~collected(t).ok THEN Failed
        ELSE IF \E i \in all : ~MapValuesFromConfig(i.raw).ok THEN Failed
        ELSE Found({[ctx |-> i, files |-> RenderInstCtxMembers(i,
                        SetInstCtxFromClusterConfig(i, SetInstCtxFromTtConfig(i, opts, configDir)))] : i \in all})

\* No target means every application of the environment.
FillCtx(tree, targets, opts, configDir) ==
    LET listed == CollectAppList(tree, configDir, opts.where)
        apps == IF targets = <<>> THEN {[app |-> a, inst |-> ""] : a \in listed.found} ELSE {targets[1]}
    IN  IF Len(targets) > 1 \/ (targets = <<>> /\ ~listed.ok) THEN Failed
        ELSE CollectInstancesForApps(tree, apps, opts, configDir)

\* The name an instance is asked for by.
GetAppInstanceName(i) == [app |-> i.app, inst |-> IF i.single THEN "" ELSE i.inst]
=============================================================================
