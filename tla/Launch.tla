------------------------------- MODULE Launch -------------------------------
(***************************************************************************)
(* How a command line of tt becomes a running command: the flags and the   *)
(* environment choose a tt.yaml (cli/cmd/root.go, cli/configure), the      *)
(* bin_dir of that file may hold another tt, to which the process switches *)
(* by exec, and the tt that is left looks up the modules and runs the      *)
(* command.  "tt start" then spawns one tt per instance with a command     *)
(* line of its own; that tt configures itself again from the beginning,    *)
(* and finds again the instance it was spawned for when it restarts it.    *)
(*                                                                         *)
(* A host is a file system: host.tree (module AppInstances), host.later    *)
(* (the tree after the user has edited it), host.yamls (the tt.yaml/.yml   *)
(* files of a directory: each is a function from the fields it sets to     *)
(* their values), host.broken (directories whose tt.yaml cannot be parsed),*)
(* host.bins (the tt and the tarantool of a bin_dir), host.modules (the    *)
(* external modules of a directory), host.etc (the system's directory),    *)
(* host.tarantool (the one in PATH: its major version, 0 if there is none).*)
(* A command line is [flags, cmd, targets, watchdog]; a flag is            *)
(* [flag, joined, value], joined when it is written as --flag=value.       *)
(***************************************************************************)
EXTENDS AppInstances, Functions

CONSTANTS Hosts,         \* the file systems
          Invocations    \* the command lines of the user with their directory: [tt, cwd, env, line]

VARIABLES host,          \* the file system
          edited,        \* the user has edited the applications
          procs          \* the processes: the user's tt, then the ones it spawns

lvars == <<host, edited, procs>>

Tree == IF edited THEN host.later ELSE host.tree

Nothing == [major |-> 0, local |-> FALSE]

\* A process begins with nothing but its binary, directory, environment and
\* command line.  ran: the tt binaries executed in it, line0: the command line
\* it was started with, from: the configuration that made it switch.
Begin(tt, cwd, env, line) ==
    [ran |-> <<tt>>, cwd |-> cwd, env |-> env, line |-> line, pc |-> "parse", cfg |-> {},
     opts |-> <<>>, tarantool |-> Nothing, localTt |-> "", external |-> {}, instances |-> {},
     line0 |-> line, cwd0 |-> cwd, from |-> {}, parent |-> 0, logFile |-> <<>>, restarts |-> 0]

Image(p) == procs[p].ran[Len(procs[p].ran)]
Flags(line, name) == {line.flags[n] : n \in {m \in DOMAIN line.flags : line.flags[m].flag = name}}
Has(p, name) == Flags(procs[p].line, name) # {}
Value(line, name) == (CHOOSE f \in Flags(line, name) : TRUE).value
At(p, label) == p \in DOMAIN procs /\ procs[p].pc = label
Goes(p, label) == procs' = [procs EXCEPT ![p].pc = label] /\ UNCHANGED <<host, edited>>
Becomes(p, record) == procs' = [procs EXCEPT ![p] = record] /\ UNCHANGED <<host, edited>>
Fatal(p) == Goes(p, "failed")

Count(dir) == IF dir \in DOMAIN host.yamls THEN Len(host.yamls[dir]) ELSE 0

-----------------------------------------------------------------------------
(* cli/cmd/root.go: InitRoot, and cli/configure *)

LaunchInit ==
    /\ host \in Hosts /\ edited = FALSE
    /\ \E i \in Invocations : procs = <<Begin(i.tt, i.cwd, i.env, i.line)>>

\* -c wins over the environment variable TT_CLI_CFG.
ParseFlags(p) ==
    /\ At(p, "parse")
    /\ LET r == procs[p]
       IN  Becomes(p, [r EXCEPT !.pc = "validate",
               !.cfg = IF Has(p, "cfg") THEN {JoinPaths(r.cwd, Value(r.line, "cfg"))}
                       ELSE {JoinPaths(r.cwd, v) : v \in r.env}])

ValidateCliOpts(p) ==
    /\ At(p, "validate")
    /\ IF Cardinality({f \in {"local", "system"} : Has(p, f)} \cup {"cfg" : c \in procs[p].cfg}) > 1
       THEN Fatal(p) ELSE Goes(p, "configure")

\* The tarantool in PATH is the default one.
Cli(p) ==
    /\ At(p, "configure")
    /\ IF \E dir \in procs[p].cfg : Count(dir) = 0 THEN Fatal(p)
       ELSE Becomes(p, [procs[p] EXCEPT
                !.tarantool = [major |-> host.tarantool, local |-> FALSE],
                !.pc = IF Has(p, "system") THEN "system" ELSE IF Has(p, "local") THEN "locally" ELSE "default"])

ConfigureSystemCli(p) ==
    /\ At(p, "system")
    /\ Becomes(p, [procs[p] EXCEPT !.pc = "find", !.cfg = IF @ = {} THEN {host.etc} ELSE @])

\* The process moves to the directory, the flag keeps its text.
ConfigureLocalLaunch(p) ==
    /\ At(p, "locally")
    /\ LET launchDir == JoinPaths(procs[p].cwd, Value(procs[p].line, "local"))
       IN  IF launchDir \notin DOMAIN Tree THEN Fatal(p)
           ELSE Becomes(p, [procs[p] EXCEPT !.pc = "find", !.cwd = launchDir])

\* The directories from the current one up; the root itself is not looked at.
GetConfigPath(cwd) ==
    LET with == {n \in 1..Len(cwd) : Count(SubSeq(cwd, 1, n)) > 0}
        nearest == SubSeq(cwd, 1, CHOOSE n \in with : \A m \in with : m <= n)
    IN  IF with = {} THEN Found({})
        ELSE IF GetYamlFileName(Count(nearest), TRUE) = "found" THEN Found({nearest}) ELSE Failed

ConfigureDefaultCli(p) ==
    /\ At(p, "default")
    /\ LET found == GetConfigPath(procs[p].cwd)
       IN  IF procs[p].cfg # {} THEN Goes(p, "find")
           ELSE IF ~found.ok THEN Fatal(p)
           ELSE Becomes(p, [procs[p] EXCEPT !.cfg = found.found,
                                            !.pc = IF found.found = {} THEN "system" ELSE "find"])

GetSystemConfigPath == {host.etc}

\* configureLocalCli: the launch directory itself first, then the ones above.
FindConfig(p) ==
    /\ At(p, "find")
    /\ LET r == procs[p]
           here == GetYamlFileName(Count(r.cwd), TRUE)
           above == GetConfigPath(r.cwd)
       IN  IF r.cfg # {} THEN Goes(p, "load")
           ELSE IF here = "found" THEN Becomes(p, [r EXCEPT !.cfg = {r.cwd}, !.pc = "load"])
           ELSE IF here = "ambiguous" \/ ~above.ok \/ (above.found = {} /\ Has(p, "local")) THEN Fatal(p)
           ELSE Becomes(p, [r EXCEPT !.pc = "load",
                    !.cfg = IF above.found = {} THEN GetSystemConfigPath ELSE above.found])

AdjustPathWithConfigLocation(path, configDir, default) ==
    JoinPaths(configDir, IF path = Unset THEN default ELSE path)

GetDefaultCliOpts ==
    [enabled |-> Unset, bin |-> Rel(<<"bin">>), modules |-> Rel(<<"modules">>), restartable |-> FALSE,
     tarantoolctl |-> FALSE, run |-> Rel(<<"var", "run">>), log |-> Rel(<<"var", "log">>),
     data |-> Rel(<<"var", "lib">>)]

\* The directories of an application stay as they are written.
UpdateCliOpts(tree, opts, configDir) ==
    [where |-> [dot |-> opts.enabled = Unset /\ IsApp(tree, configDir), path |-> JoinPaths(configDir, opts.enabled)],
     bin |-> AdjustPathWithConfigLocation(opts.bin, configDir, Rel(<<"bin">>)),
     modules |-> AdjustPathWithConfigLocation(opts.modules, configDir, Rel(<<"modules">>)),
     restartable |-> opts.restartable, tarantoolctl |-> opts.tarantoolctl,
     run |-> opts.run, log |-> opts.log, data |-> opts.data]

\* What the file does not set keeps its default.  A file that does not exist
\* is not an error: the defaults hold, relative to the current directory.
GetCliOpts(tree, cfg, cwd) ==
    LET dir == CHOOSE d \in cfg : TRUE
        file == GetYamlFileName(IF cfg = {} THEN 0 ELSE Count(dir), TRUE)
        set == host.yamls[dir][1]
        opts == [f \in DOMAIN GetDefaultCliOpts |-> IF f \in DOMAIN set THEN set[f] ELSE GetDefaultCliOpts[f]]
    IN  IF file = "missing" THEN [ok |-> TRUE, cfg |-> {}, opts |-> UpdateCliOpts(tree, GetDefaultCliOpts, cwd)]
        ELSE IF file = "ambiguous" \/ dir \in host.broken THEN [ok |-> FALSE, cfg |-> {}, opts |-> <<>>]
        ELSE [ok |-> TRUE, cfg |-> {dir}, opts |-> UpdateCliOpts(tree, opts, dir)]

LoadCliOpts(p) ==
    /\ At(p, "load")
    /\ LET got == GetCliOpts(Tree, procs[p].cfg, procs[p].cwd)
       IN  IF ~got.ok THEN Fatal(p) ELSE Becomes(p, [procs[p] EXCEPT !.opts = got.opts, !.pc = "tarantool"])

InBin(p, program) ==
    LET bin == procs[p].opts.bin
    IN  IF bin \in DOMAIN host.bins THEN host.bins[bin][program] ELSE [name |-> "", exec |-> FALSE, major |-> 0]

\* Faulty variant: the tarantool in PATH goes first.
PreferSystemTarantool(p) ==
    /\ At(p, "tarantool")
    /\ LET found == InBin(p, "tarantool")
       IN  IF found.name = "" \/ procs[p].tarantool.major > 0 THEN Goes(p, "tt")
           ELSE IF ~found.exec THEN Fatal(p)
           ELSE Becomes(p, [procs[p] EXCEPT !.tarantool = [major |-> found.major, local |-> TRUE], !.pc = "tt"])

DetectLocalTarantool(p) ==
    /\ At(p, "tarantool")
    /\ LET found == InBin(p, "tarantool")
       IN  IF found.name = "" THEN Goes(p, "tt")
           ELSE IF ~found.exec THEN Fatal(p)
           ELSE Becomes(p, [procs[p] EXCEPT !.tarantool = [major |-> found.major, local |-> TRUE], !.pc = "tt"])

\* With --self no other tt is looked for.
DetectLocalTt(p) ==
    /\ At(p, "tt")
    /\ Becomes(p, [procs[p] EXCEPT !.localTt = IF Has(p, "self") THEN "" ELSE InBin(p, "tt").name, !.pc = "switch"])

\* Faulty variant: the arguments are passed on as they are.
KeepAllArguments(flags) == flags

\* The flag and its value are two arguments; the joined form is not recognised.
ExcludeArgumentsForChildTt(flags) == SelectSeq(flags, LAMBDA f : f.flag # "local" \/ f.joined)

\* Faulty variant: any tt of bin_dir is switched to, the running one too.
SwitchAlways(p) ==
    /\ At(p, "switch")
    /\ LET r == procs[p]
       IN  IF r.localTt = "" THEN Goes(p, "modules")
           ELSE IF ~InBin(p, "tt").exec THEN Fatal(p)
           ELSE Becomes(p, [Begin(r.localTt, r.cwd, r.env, [r.line EXCEPT !.flags = ExcludeArgumentsForChildTt(@)])
                            EXCEPT !.ran = Append(r.ran, r.localTt), !.line0 = r.line0, !.cwd0 = r.cwd0,
                                   !.from = r.cfg, !.parent = r.parent])

\* exec replaces the program, the process stays.
SwitchToLocalTt(p) ==
    /\ At(p, "switch")
    /\ LET r == procs[p]
       IN  IF r.localTt \in {"", Image(p)} THEN Goes(p, "modules")
           ELSE IF ~InBin(p, "tt").exec THEN Fatal(p)
           ELSE Becomes(p, [Begin(r.localTt, r.cwd, r.env, [r.line EXCEPT !.flags = ExcludeArgumentsForChildTt(@)])
                            EXCEPT !.ran = Append(r.ran, r.localTt), !.line0 = r.line0, !.cwd0 = r.cwd0,
                                   !.from = r.cfg, !.parent = r.parent])

\* The configuration is loaded again for the command; without a file there are
\* no external modules.
GetExternalModules(cfg, opts) ==
    IF cfg = {} \/ opts.modules \notin DOMAIN host.modules THEN Found({}) ELSE
    IF ~host.modules[opts.modules].isDir THEN Failed ELSE Found(host.modules[opts.modules].names)

GetModulesInfo(p) ==
    /\ At(p, "modules")
    /\ LET got == GetCliOpts(Tree, procs[p].cfg, procs[p].cwd)
           external == GetExternalModules(got.cfg, got.opts)
       IN  IF ~got.ok \/ ~external.ok THEN Fatal(p)
           ELSE Becomes(p, [procs[p] EXCEPT !.cfg = got.cfg, !.opts = got.opts, !.external = external.found,
                                            !.pc = "command"])

ConfigDir(r) == IF r.cfg = {} THEN r.cwd ELSE CHOOSE d \in r.cfg : TRUE

-----------------------------------------------------------------------------
(* The command *)

Commands == {"start"}

\* A command that only exists as a module is added under the first argument that
\* does not begin with a dash, which may be the value of a flag before it.
ExternalCmd(p) ==
    LET r == procs[p]
    IN  /\ r.line.cmd \in r.external \ Commands
        /\ \A n \in DOMAIN r.line.flags : r.line.flags[n].flag \notin {"local", "cfg"} \/ r.line.flags[n].joined

\* A module hides the command of the same name unless -I is given, which has no
\* effect on a command that only exists as a module.
RunCmd(p) ==
    /\ At(p, "command")
    /\ LET cmd == procs[p].line.cmd
       IN  IF ExternalCmd(p) \/ (cmd \in Commands \cap procs[p].external /\ ~Has(p, "internal")) THEN Goes(p, "external")
           ELSE IF cmd \notin Commands THEN Fatal(p) ELSE Goes(p, "start")

IsAbleToStartInstances(p, instances) ==
    \A i \in instances : i.ctx.cluster => procs[p].tarantool.major >= 3

\* internalStartModule up to the list of the instances.
InternalStartModule(p) ==
    /\ At(p, "start")
    /\ LET r == procs[p]
           filled == FillCtx(Tree, r.line.targets, r.opts, ConfigDir(r))
       IN  IF \/ r.cfg = {} \/ r.tarantool.major = 0
              \/ ~filled.ok \/ ~IsAbleToStartInstances(p, filled.found)
           THEN Fatal(p)
           ELSE Becomes(p, [r EXCEPT !.instances = filled.found, !.pc = IF r.line.watchdog THEN "watch" ELSE "spawn"])

\* Faulty variant: the launch flags are not handed over.
PlainWatchdogLine(p, i) ==
    [flags |-> <<>>, cmd |-> "start", targets |-> <<GetAppInstanceName(i.ctx)>>, watchdog |-> TRUE]

\* The command line of an instance's watchdog.
WatchdogLine(p, i) ==
    LET line == procs[p].line
    IN  [flags |-> IF Has(p, "system") THEN <<[flag |-> "system", joined |-> FALSE, value |-> Unset]>>
                   ELSE IF Has(p, "local") THEN <<[flag |-> "local", joined |-> FALSE, value |-> Value(line, "local")]>>
                   ELSE <<[flag |-> "cfg", joined |-> FALSE, value |-> Abs(CHOOSE d \in procs[p].cfg : TRUE)]>>,
         cmd |-> "start", targets |-> <<GetAppInstanceName(i.ctx)>>, watchdog |-> TRUE]

\* The running tt is started once for every instance and not waited for.
\* The instances are in no particular order.
StartInstancesUnderWatchdog(p) ==
    /\ At(p, "spawn")
    /\ \E order \in {o \in [1..Cardinality(procs[p].instances) -> procs[p].instances] : IsInjective(o)} :
         procs' = [procs EXCEPT ![p].pc = "done"]
                  \o [n \in DOMAIN order |-> [Begin(Image(p), procs[p].cwd, procs[p].env, WatchdogLine(p, order[n]))
                                              EXCEPT !.parent = p]]
    /\ UNCHANGED <<host, edited>>

\* The watchdog takes the first instance that was found.
StartWatchdog(p) ==
    /\ At(p, "watch")
    /\ \E i \in procs[p].instances :
         Becomes(p, [procs[p] EXCEPT !.instances = {i}, !.logFile = i.files.log, !.pc = "watching"])

-----------------------------------------------------------------------------
(* The provider of the watchdog: every restart reads the files again. *)

\* Faulty variant: the application is looked up, not its instance.
UpdateCtxOfApp(r) ==
    LET got == GetCliOpts(Tree, r.cfg, r.cwd)
        i == CHOOSE j \in r.instances : TRUE
        filled == FillCtx(Tree, <<[app |-> i.ctx.app, inst |-> ""]>>, got.opts, ConfigDir(r))
    IN  IF ~got.ok \/ ~filled.ok THEN Failed ELSE filled

UpdateCtx(r) ==
    LET got == GetCliOpts(Tree, r.cfg, r.cwd)
        i == CHOOSE j \in r.instances : TRUE
        filled == FillCtx(Tree, <<GetAppInstanceName(i.ctx)>>, got.opts, ConfigDir(r))
    IN  IF ~got.ok \/ ~filled.ok THEN Failed ELSE filled

\* The instance has ended: IsRestartable, then UpdateLogger.
IsRestartable(p) ==
    /\ At(p, "watching") /\ procs[p].restarts = 0
    /\ LET r == procs[p]
           updated == UpdateCtx(r)
       IN  IF ~updated.ok \/ ~r.opts.restartable THEN Goes(p, "ended")
           ELSE \E i \in updated.found :
                  Becomes(p, [r EXCEPT !.instances = {i}, !.logFile = i.files.log, !.pc = "waiting"])

\* After the restart timeout: the instance is looked up once more.
CreateInstance(p) ==
    /\ At(p, "waiting")
    /\ LET updated == UpdateCtx(procs[p])
       IN  IF ~updated.ok THEN Goes(p, "ended")
           ELSE \E i \in updated.found :
                  Becomes(p, [procs[p] EXCEPT !.instances = {i}, !.restarts = 1, !.pc = "watching"])

\* The user edits the applications, once, while watchdogs are running.
Edit ==
    /\ ~edited /\ edited' = TRUE
    /\ \E p \in DOMAIN procs : procs[p].pc = "watching"
    /\ UNCHANGED <<host, procs>>

Step(p) ==
    \/ ParseFlags(p) \/ ValidateCliOpts(p) \/ Cli(p) \/ ConfigureSystemCli(p) \/ ConfigureLocalLaunch(p)
    \/ ConfigureDefaultCli(p) \/ FindConfig(p) \/ LoadCliOpts(p) \/ DetectLocalTarantool(p) \/ DetectLocalTt(p)
    \/ SwitchToLocalTt(p) \/ GetModulesInfo(p) \/ RunCmd(p) \/ InternalStartModule(p)
    \/ StartInstancesUnderWatchdog(p) \/ StartWatchdog(p) \/ IsRestartable(p) \/ CreateInstance(p)

LaunchNext == Edit \/ \E p \in DOMAIN procs : Step(p)

LaunchSpec == LaunchInit /\ [][LaunchNext]_lvars

-----------------------------------------------------------------------------
(* Properties *)

\* "This should save us from exec looping" (configureLocalCli): a process never executes
\* a tt it has already been.
NoExecLoop == \A p \in DOMAIN procs : IsInjective(procs[p].ran)

\* Where a launch directory is not found again after the switch: the root, which the
\* search of getConfigPath leaves out, and a relative --local=dir, which stays on the
\* command line and is applied a second time.
LaunchedAstray(r) ==
    \E f \in Flags(r.line0, "local") :
        (f.joined /\ ~f.value.abs) \/ JoinPaths(r.cwd0, f.value) = << >>

\* configureLocalCli: the tt that takes over finds the configuration in whose bin_dir it
\* was found, though its command line and directory are not those of the user.
SwitchKeepsConfig ==
    \A p \in DOMAIN procs : LET r == procs[p] IN
        r.from # {} /\ r.pc \in {"load", "tarantool", "tt", "switch"} /\ ~LaunchedAstray(r) => r.cfg = r.from

\* detectLocalTt, detectLocalTarantool: a command runs with the tt and the tarantool of
\* the bin_dir of its configuration where there are any (the tt unless --self is given).
RunsOwnBinaries ==
    \A p \in DOMAIN procs : procs[p].pc \in {"command", "start", "spawn", "watch", "watching"} =>
        /\ Has(p, "self") \/ InBin(p, "tt").name \in {"", Image(p)}
        /\ InBin(p, "tarantool").name # "" => procs[p].tarantool.local

\* Through the switch from one tt to another and the search for the binaries, a command stays
\* in the environment it was given for, and no tt of it executes another in a circle.
LaunchKeepsEnvironment == NoExecLoop /\ SwitchKeepsConfig /\ RunsOwnBinaries

\* The flags StartWatchdog does not hand over: --self, --internal, and a relative -L,
\* which is applied in the directory it already led to.
FlagsLost(p) ==
    \/ Has(p, "self") \/ Has(p, "internal")
    \/ \E f \in Flags(procs[p].line, "local") : ~f.value.abs

\* StartWatchdog: every watchdog that "tt start" spawns gets as far as watching, with the
\* configuration, the tt and the tarantool of the command, unless flags got lost or the
\* user has changed the applications meanwhile.
WatchdogFollowsCommand ==
    \A p \in DOMAIN procs : LET r == procs[p] IN
        r.parent # 0 /\ ~FlagsLost(r.parent) =>
            /\ r.pc # "external" /\ (r.pc = "failed" => edited)
            /\ r.pc \in {"watch", "watching", "waiting"} =>
                 r.cfg = procs[1].cfg /\ Image(p) = Image(1) /\ r.tarantool = procs[1].tarantool

\* updateCtx: through the restarts a watchdog of one instance of an application keeps
\* that instance, whatever else becomes of the application (unless it turns into one without
\* instances: a script with its name appears, or instances.yml goes).
WatchdogKeepsInstance ==
    \A p \in DOMAIN procs : procs[p].pc \in {"watching", "waiting"} =>
        LET target == procs[p].line.targets[1] IN
        \A i \in procs[p].instances :
            target.inst # "" /\ ~i.ctx.single => GetAppInstanceName(i.ctx) = target

\* A watchdog works in the environment of the command that spawned it, and on one instance all
\* its life.
WatchdogKeepsCourse == WatchdogFollowsCommand /\ WatchdogKeepsInstance

\* genFilePath: the instances of an environment have PID files, consoles and data of their
\* own, except those whose keys give the same name, and what the cluster configuration
\* sets itself.
InstancesOwnFiles ==
    \A p \in DOMAIN procs : \A i, j \in procs[p].instances :
        GetAppInstanceName(i.ctx) # GetAppInstanceName(j.ctx) =>
            \A f \in {"pid", "console", "log", "wal"} \ (DOMAIN i.ctx.raw \cup DOMAIN j.ctx.raw) :
                i.files[f] # j.files[f]
=============================================================================
