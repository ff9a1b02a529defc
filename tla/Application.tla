---------------------------- MODULE Application ----------------------------
(***************************************************************************)
(* The commands that make and keep an application of a tt environment:     *)
(* tt init, create, enable, build and clean, for one application name.     *)
(*                                                                         *)
(* The files of the environment are shared.  Every command is a sequence   *)
(* of steps; commands of two users may overlap, a command may be killed    *)
(* between two steps, and a copy, a hook or a build may fail.  Texts are   *)
(* abstract: a template has one variable, whose value "a" matches the      *)
(* regular expression of the manifest and whose value "x" does not; ""     *)
(* is the empty text, an option that is not given.                         *)
(***************************************************************************)
EXTENDS Integers, Sequences, FiniteSets

CONSTANTS
    Procs,        \* commands that may run at the same time
    Templates,    \* template name -> what the template holds
    Foreign,      \* the files of the working directory and of other directories
    Instances,    \* the instances of the application, a sequence
    Jobs,         \* the commands users give
    MaxJobs,      \* bound: commands ever started
    MaxHurts,     \* bound: failures of a step and kills
    None

\* Texts: values of the variable, and what is given for it.
Values == {"", "a", "x"}
Given == Values \cup {"malformed"}

\* What files may be once they are rendered.
Contents(files) == [name : {f.name : f \in files}, body : {"plain", "a", "x"}]

\* A template is a directory with at most one file of a name, and None is no directory.
ASSUME AppAssumption ==
    /\ Instances \in Seq(STRING) /\ Instances # <<>>
    /\ Jobs \subseteq [op : {"init", "create", "enable", "build", "clean"}, template : STRING,
                      force : BOOLEAN, silent : BOOLEAN, file : Given, cli : Given,
                      skip : BOOLEAN, path : STRING, verbose : BOOLEAN]
    /\ \A t \in DOMAIN Templates :
          LET files == Templates[t].files
          IN  /\ files \subseteq [name : STRING, body : {"raw", "plain"}]
              /\ \A f, g \in files : f.name = g.name => f = g
              /\ \A f \in files : f.name # ""
              /\ None \notin {S : S \in SUBSET Contents(files)}
              /\ Templates[t].default \in Values /\ Templates[t].re \in BOOLEAN

VARIABLES
    place,    \* the working directory: [isApp, cartridge, ctl, config], never changes
    ttyaml,   \* tt.yaml: [from, enabled], from = "absent" without the file
    app,      \* the application directory: None or a set of files
    enabled,  \* directory of instances -> what its link for the application names
    scratch,  \* scratch[p] : the temporary directory of a command, or None
    alive,    \* instances that run
    data,     \* instance -> its log, snapshot and wal files
    job,      \* job[p] : the command process p runs
    jobs,     \* commands started so far
    hurts     \* failures and kills so far

avars == <<place, ttyaml, app, enabled, scratch, alive, data, job, jobs, hurts>>
World == <<place, ttyaml, app, enabled, alive, data, jobs>>

File(n, b) == [name |-> n, body |-> b]
Names(files) == {f.name : f \in files}
NoFile == [from |-> "absent", enabled |-> "."]
EnabledDirs == {"instances.enabled", "ctl.enabled"}
DataFiles == {File("log", "data"), File("snap", "data")}
Insts == {Instances[i] : i \in 1..Len(Instances)}

NoArgs == [op |-> "none", template |-> "", force |-> FALSE, silent |-> FALSE, file |-> "",
           cli |-> "", skip |-> FALSE, path |-> "", verbose |-> FALSE]
Quiet == [pc |-> "idle", args |-> NoArgs, cfg |-> NoFile, var |-> "", manifest |-> FALSE,
          dir |-> "", i |-> 1, files |-> {}, ran |-> <<>>, out |-> "tty", cwd |-> "env",
          up |-> {}, fresh |-> TRUE, res |-> "ok"]
At(p, pc) == job[p].pc = pc
Template(p) == Templates[job[p].args.template]

-----------------------------------------------------------------------------
(* How a command goes on, and how it ends.                                 *)

Goto(p, j) == job' = [job EXCEPT ![p] = j]
\* A step that changes only what the command itself knows.
Inner(p, j) == Goto(p, j) /\ UNCHANGED <<World, scratch, hurts>>
To(p, pc) == Inner(p, [job[p] EXCEPT !.pc = pc])

\* Others learn, for the properties only, that the application changed.
Changed(p, j) == job' = [q \in Procs |-> IF q = p THEN j ELSE [job[q] EXCEPT !.fresh = FALSE]]

\* Faulty variant: the temporary directory stays.
FailKeeping(p) ==
    /\ Goto(p, [Quiet EXCEPT !.res = "error", !.out = job[p].out, !.cwd = job[p].cwd])
    /\ UNCHANGED <<World, scratch, hurts>>

\* rollbackOnErr: the first step that fails ends the command, and the temporary
\* directory goes.  The stdout and the directory of the process are those of
\* the command's caller again only if a deferred call saw to it.
Fail(p) ==
    /\ Goto(p, [Quiet EXCEPT !.res = "error", !.out = job[p].out, !.cwd = job[p].cwd])
    /\ scratch' = [scratch EXCEPT ![p] = None]
    /\ UNCHANGED <<World, hurts>>

Succeed(p) == Inner(p, Quiet)

\* A step fails for a reason outside the program, before it has changed anything.
Hurt(p) ==
    /\ job[p].pc \in {"load", "copy template", "pre", "post", "move", "copy"}
    /\ hurts < MaxHurts
    /\ hurts' = hurts + 1
    /\ Goto(p, [Quiet EXCEPT !.res = "error"])
    /\ scratch' = [scratch EXCEPT ![p] = None]
    /\ UNCHANGED World

\* A killed command leaves its temporary directory behind under a name nobody
\* uses again: the model forgets it.
Kill(p) ==
    /\ ~At(p, "idle")
    /\ hurts < MaxHurts
    /\ hurts' = hurts + 1
    /\ Goto(p, [Quiet EXCEPT !.res = "killed"])
    /\ scratch' = [scratch EXCEPT ![p] = None]
    /\ UNCHANGED World

\* InitRoot: every command reads tt.yaml as it starts, and uses what it read.
\* All but init and enable want the file.
Start(p, args) ==
    /\ At(p, "idle")
    /\ jobs < MaxJobs
    /\ jobs' = jobs + 1
    /\ args.op \in {"create", "build", "clean"} => ttyaml # NoFile
    /\ Goto(p, [Quiet EXCEPT !.pc = args.op, !.args = args, !.cfg = ttyaml, !.up = alive])
    /\ UNCHANGED <<place, ttyaml, app, enabled, scratch, alive, data, hurts>>

-----------------------------------------------------------------------------
(* tt init.                                                                *)

\* checkExistingConfig: an existing tt.yaml is removed, by force or after the
\* user's consent, before the new one is known.
CheckExistingConfig(p) ==
    /\ At(p, "init")
    /\ \/ ttyaml = NoFile /\ To(p, "load")
       \/ /\ ttyaml # NoFile
          /\ \E answer \in {"yes", "no", "eof"} :
                \/ /\ job[p].args.force \/ answer = "yes"
                   /\ ttyaml' = NoFile
                   /\ Goto(p, [job[p] EXCEPT !.pc = "load"])
                   /\ UNCHANGED <<place, app, enabled, scratch, alive, data, jobs, hurts>>
                \/ ~job[p].args.force /\ answer = "no" /\ Inner(p, [Quiet EXCEPT !.res = "cancelled"])
                \/ ~job[p].args.force /\ answer = "eof" /\ Fail(p)

\* The first configuration that is found, of Cartridge, then of tarantoolctl.
LoadedConfig(p) ==
    IF job[p].args.skip THEN [from |-> "skipped", enabled |-> "", status |-> "ok"]
    ELSE IF place.cartridge # "none"
         THEN [from |-> "cartridge", enabled |-> "", status |-> place.cartridge]
    ELSE IF place.ctl # "none"
         THEN [from |-> "ctl", enabled |-> "ctl.enabled", status |-> place.ctl]
    ELSE [from |-> "default", enabled |-> "", status |-> "ok"]

\* GetDefaultCliOpts and the directory of instances of Run: "." in the
\* directory of an application unless the loaded configuration names another.
InstancesEnabled(loaded) ==
    IF loaded.enabled # "" THEN loaded.enabled
    ELSE IF place.isApp THEN "." ELSE "instances.enabled"

\* Faulty variant: a configuration that cannot be read counts as no
\* configuration.
GenerateTtEnvAnyway(p) ==
    /\ At(p, "load")
    /\ LET loaded == LoadedConfig(p)
       IN ttyaml' = [from |-> IF loaded.status = "bad" THEN "default" ELSE loaded.from,
                     enabled |-> InstancesEnabled(loaded)]
    /\ Goto(p, Quiet)
    /\ UNCHANGED <<place, app, enabled, scratch, alive, data, jobs, hurts>>

\* Run after checkExistingConfig: load, then generateTtEnv writes the file and
\* makes the directories.  A configuration that cannot be read is an error; so
\* is a directory that cannot be made, after the file is written.
GenerateTtEnv(p) ==
    /\ At(p, "load")
    /\ LET loaded == LoadedConfig(p)
       IN \/ loaded.status = "bad" /\ Fail(p)
          \/ /\ loaded.status = "ok"
             /\ ttyaml' = [from |-> loaded.from, enabled |-> InstancesEnabled(loaded)]
             /\ \E res \in {"ok", "error"} : Goto(p, [Quiet EXCEPT !.res = res])
             /\ UNCHANGED <<place, app, enabled, scratch, alive, data, jobs, hurts>>

-----------------------------------------------------------------------------
(* tt create: the chain of steps of create.Run.                            *)

\* LoadVarsFile; a vars file that is missing or malformed is an error.
LoadVarsFile(p) ==
    /\ At(p, "create")
    /\ \/ job[p].args.file = "malformed" /\ Fail(p)
       \/ /\ job[p].args.file # "malformed"
          /\ Inner(p, [job[p] EXCEPT !.pc = "cli", !.var = job[p].args.file])

\* FillTemplateVarsFromCli: an option wins over the file.
FillTemplateVarsFromCli(p) ==
    /\ At(p, "cli")
    /\ \/ job[p].args.cli = "malformed" /\ Fail(p)
       \/ /\ job[p].args.cli # "malformed"
          /\ Inner(p, [job[p] EXCEPT !.pc = "temp",
                           !.var = IF job[p].args.cli = "" THEN @ ELSE job[p].args.cli])

CreateTemporaryAppDirectory(p) ==
    /\ At(p, "temp")
    /\ \/ app # None /\ ~job[p].args.force /\ Fail(p)
       \/ /\ app = None \/ job[p].args.force
          /\ scratch' = [scratch EXCEPT ![p] = {}]
          /\ Goto(p, [job[p] EXCEPT !.pc = "copy template"])
          /\ UNCHANGED <<World, hurts>>

\* A template is a directory or an archive of the search paths, or a built-in
\* one.
CopyAppTemplate(p) ==
    /\ At(p, "copy template")
    /\ \/ job[p].args.template \notin DOMAIN Templates /\ Fail(p)
       \/ /\ job[p].args.template \in DOMAIN Templates
          /\ scratch' = [scratch EXCEPT ![p] = Template(p).files]
          /\ Goto(p, [job[p] EXCEPT !.pc = "manifest"])
          /\ UNCHANGED <<World, hurts>>

\* LoadManifest: without a manifest the steps that need one do nothing.
LoadManifest(p) ==
    /\ At(p, "manifest")
    /\ \/ Template(p).manifest = "none" /\ To(p, "render")
       \/ Template(p).manifest = "bad" /\ Fail(p)
       \/ /\ Template(p).manifest = "ok"
          /\ scratch' = [scratch EXCEPT ![p] = {f \in @ : f.name # "MANIFEST.yaml"}]
          /\ Goto(p, [job[p] EXCEPT !.pc = "collect", !.manifest = TRUE])
          /\ UNCHANGED <<World, hurts>>

Matches(p, value) == Template(p).re => value = "a"
Collected(p, value) == Inner(p, [job[p] EXCEPT !.pc = "pre", !.var = value])
\* Silent mode takes the value that is given, or the default, and validates it.
CollectSilently(p) ==
    LET value == IF job[p].var # "" THEN job[p].var ELSE Template(p).default
    IN \/ (value = "" \/ ~Matches(p, value)) /\ Fail(p)
       \/ value # "" /\ Matches(p, value) /\ Collected(p, value)
\* Otherwise the user is asked until a value matches; an empty answer stands
\* for the default.
CollectFromUser(p) ==
    \/ job[p].var # "" /\ Matches(p, job[p].var) /\ Collected(p, job[p].var)
    \/ /\ job[p].var = "" \/ ~Matches(p, job[p].var)
       /\ \/ Fail(p)
          \/ \E answer \in {"", "a", "x"} :
                LET value == IF answer = "" THEN Template(p).default ELSE answer
                IN value # "" /\ Matches(p, value) /\ Collected(p, value)

\* Faulty variant: values of the file and of the options are not validated.
CollectTemplateVarsTrusting(p) ==
    /\ At(p, "collect")
    /\ \/ job[p].var # "" /\ Collected(p, job[p].var)
       \/ job[p].var = "" /\ job[p].args.silent /\ CollectSilently(p)
       \/ job[p].var = "" /\ ~job[p].args.silent /\ CollectFromUser(p)

\* CollectTemplateVarsFromUser, of the one variable of the manifest.
CollectTemplateVars(p) ==
    /\ At(p, "collect")
    /\ \/ job[p].args.silent /\ CollectSilently(p)
       \/ ~job[p].args.silent /\ CollectFromUser(p)

\* RunHook: the hook runs in the temporary directory, and is removed.  (It may
\* also fail, as in Hurt.)
RunHook(p, kind, hook, next) ==
    /\ At(p, kind)
    /\ \/ hook = "" /\ To(p, next)
       \/ hook # "" /\ hook \notin Names(scratch[p]) /\ Fail(p)
       \/ /\ hook \in Names(scratch[p])
          /\ scratch' = [scratch EXCEPT ![p] = {f \in @ : f.name # hook}]
          /\ Goto(p, [job[p] EXCEPT !.pc = next])
          /\ UNCHANGED <<World, hurts>>

\* RenderFile: a text that uses a variable without a value is an error.
Rendered(files, value) ==
    {IF f.body = "raw" THEN File(f.name, value) ELSE f : f \in files}

RenderTemplate(p) ==
    /\ At(p, "render")
    /\ LET raw == \E f \in scratch[p] : f.body = "raw"
       IN \/ raw /\ job[p].var = "" /\ Fail(p)
          \/ /\ raw => job[p].var # ""
             /\ scratch' = [scratch EXCEPT ![p] = Rendered(@, job[p].var)]
             /\ Goto(p, [job[p] EXCEPT !.pc = IF job[p].manifest THEN "post" ELSE "move"])
             /\ UNCHANGED <<World, hurts>>

\* Faulty variant: the include list is not looked at.
CleanupNothing(p) == At(p, "cleanup") /\ To(p, "move")

\* Cleanup: only the files of the include list stay, if there is one.
Cleanup(p) ==
    /\ At(p, "cleanup")
    /\ LET keep == Template(p).include
       IN scratch' = [scratch EXCEPT ![p] = {f \in @ : keep = {} \/ f.name \in keep}]
    /\ Goto(p, [job[p] EXCEPT !.pc = "move"])
    /\ UNCHANGED <<World, hurts>>

\* Faulty variant: the target is not looked at again before the copy.
MoveAppDirectoryAtOnce(p) ==
    /\ At(p, "move")
    /\ Inner(p, [job[p] EXCEPT !.pc = "copy", !.fresh = TRUE])

\* MoveAppDirectory looks at the target again, for it may be there by now; with
\* force the old one goes.
MoveAppDirectory(p) ==
    /\ At(p, "move")
    /\ \/ app # None /\ ~job[p].args.force /\ Fail(p)
       \/ app = None /\ Inner(p, [job[p] EXCEPT !.pc = "copy", !.fresh = TRUE])
       \/ /\ app # None /\ job[p].args.force
          /\ app' = None
          /\ Changed(p, [job[p] EXCEPT !.pc = "copy", !.fresh = TRUE])
          /\ UNCHANGED <<place, ttyaml, enabled, scratch, alive, data, jobs, hurts>>

\* ... and copies the files one by one; after the last the temporary directory
\* is removed.
CopyFile(p) ==
    /\ At(p, "copy")
    /\ LET left == scratch[p] \ job[p].files
           there == IF app = None THEN {} ELSE app
       IN \/ /\ left = {}
             /\ scratch' = [scratch EXCEPT ![p] = None]
             /\ Goto(p, [job[p] EXCEPT !.pc = "link"])
             /\ UNCHANGED <<World, hurts>>
          \/ \E f \in left :
                /\ app' = {g \in there : g.name # f.name} \cup {f}
                /\ Changed(p, [job[p] EXCEPT !.files = @ \cup {f}])
                /\ UNCHANGED <<place, ttyaml, enabled, scratch, alive, data, jobs, hurts>>

-----------------------------------------------------------------------------
(* Links to the application; tt enable.                                    *)

IsApp(files) == Names(files) \cap {"init.lua", "instances.yml"} # {}
\* What os.Stat finds behind a link: a link to a directory that is gone is
\* there, and is not found.
Resolves(target) == target = "other" \/ (target = "app" /\ app # None)

\* Enable: the target must be an application or a script.
Enable(p) ==
    /\ At(p, "enable")
    /\ \/ (job[p].cfg.enabled = "." \/ app = None) /\ Fail(p)
       \/ job[p].cfg.enabled # "." /\ app # None /\ ~IsApp(app) /\ Fail(p)
       \/ job[p].cfg.enabled # "." /\ app # None /\ IsApp(app) /\ To(p, "link")

\* CreateAppSymlink only warns when the link cannot be made; Enable fails.
LinkFailed(p) == IF job[p].args.op = "create" THEN To(p, "message") ELSE Fail(p)
Overwrites(p) == job[p].args.op = "enable" \/ job[p].args.force

\* CreateSymlink looks for an old link, which goes if it may.  Before that the
\* directory of the link is made; create ignores it in silence when it cannot.
StatOldLink(p) ==
    /\ At(p, "link")
    /\ LET dir == job[p].cfg.enabled
       IN \/ dir = "." /\ To(p, "message")
          \/ dir # "." /\ LinkFailed(p)
          \/ dir # "." /\ ~Resolves(enabled[dir]) /\ To(p, "symlink")
          \/ dir # "." /\ Resolves(enabled[dir]) /\ Overwrites(p) /\ To(p, "unlink")

RemoveOldLink(p) ==
    /\ At(p, "unlink")
    /\ LET dir == job[p].cfg.enabled
       IN \/ LinkFailed(p)
          \/ /\ enabled[dir] # None
             /\ enabled' = [enabled EXCEPT ![dir] = None]
             /\ Changed(p, [job[p] EXCEPT !.pc = "symlink"])
             /\ UNCHANGED <<place, ttyaml, app, scratch, alive, data, jobs, hurts>>

\* os.Symlink fails where a link is.
Symlink(p) ==
    /\ At(p, "symlink")
    /\ LET dir == job[p].cfg.enabled
       IN \/ LinkFailed(p)
          \/ /\ enabled[dir] = None
             /\ enabled' = [enabled EXCEPT ![dir] = "app"]
             /\ Changed(p, [job[p] EXCEPT !.pc = "message"])
             /\ UNCHANGED <<place, ttyaml, app, scratch, alive, data, jobs, hurts>>

\* PrintFollowUpMessage, the last step of create: a text that cannot be rendered
\* fails the command after everything is done.
PrintFollowUpMessage(p) ==
    /\ At(p, "message")
    /\ LET shown == job[p].manifest /\ ~job[p].args.silent /\ Template(p).message # ""
       IN \/ shown /\ Template(p).message = "bad" /\ Fail(p)
          \/ ~(shown /\ Template(p).message = "bad") /\ Succeed(p)

-----------------------------------------------------------------------------
(* tt build.                                                               *)

\* FillCtx: the directory that is named, else what the link of that name in the
\* directory of instances leads to, else the working directory.
BuildDirs(p) ==
    IF job[p].args.path = "" THEN {"env"}
    ELSE IF app # None THEN {"app"}
    ELSE {t \in {"other"} : job[p].cfg.enabled # "." /\ enabled[job[p].cfg.enabled] = t}
FilesOf(dir) == IF dir = "app" THEN IF app = None THEN {} ELSE app ELSE Foreign[dir]

\* buildLocal changes the directory of the process.
EnterBuildDir(p) ==
    /\ At(p, "build")
    /\ \/ BuildDirs(p) = {} /\ Fail(p)
       \/ \E dir \in BuildDirs(p) :
             Inner(p, [job[p] EXCEPT !.pc = "pre-build", !.dir = dir, !.cwd = dir])

\* The deferred calls of buildLocal: stdout and directory are given back.
Restored(p) == [job[p] EXCEPT !.out = "tty", !.cwd = "env"]

\* Faulty variant: only the successful end gives stdout back.
BuildFailsRedirected(p) ==
    Inner(p, [Quiet EXCEPT !.res = "error", !.out = job[p].out, !.ran = job[p].ran])

BuildFails(p) ==
    Inner(p, [Quiet EXCEPT !.res = "error", !.out = Restored(p).out, !.cwd = Restored(p).cwd,
                           !.ran = job[p].ran])

PreBuildScripts == <<"tt.pre-build", "cartridge.pre-build">>
PostBuildScripts == <<"tt.post-build", "cartridge.post-build">>

\* runBuildHook runs the first hook of the list that is there.
RunBuildHook(p, hooks, after) ==
    LET there == {n \in 1..Len(hooks) : hooks[n] \in Names(FilesOf(job[p].dir))}
    IN  \/ there = {} /\ Inner(p, after)
        \/ \E n \in there :
              /\ \A m \in there : n <= m
              /\ \/ BuildFails(p)
                 \/ Inner(p, [after EXCEPT !.ran = Append(job[p].ran, <<hooks[n], job[p].out>>)])

PreBuild(p) ==
    At(p, "pre-build") /\ RunBuildHook(p, PreBuildScripts,
        [job[p] EXCEPT !.pc = "make", !.out = IF job[p].args.verbose THEN "tty" ELSE "null"])

\* Faulty variant: the post-build hook runs before stdout is given back.
MakeKeepsRedirect(p) ==
    /\ At(p, "make")
    /\ \/ BuildFails(p)
       \/ Inner(p, [job[p] EXCEPT !.pc = "post-build", !.ran = Append(@, <<"make", job[p].out>>)])

\* luarocks make, without its output unless tt is verbose.
Make(p) ==
    /\ At(p, "make")
    /\ \/ BuildFails(p)
       \/ Inner(p, [job[p] EXCEPT !.pc = "post-build", !.out = "tty",
                                  !.ran = Append(@, <<"make", job[p].out>>)])

PostBuild(p) ==
    At(p, "post-build") /\ RunBuildHook(p, PostBuildScripts,
        [Quiet EXCEPT !.out = Restored(p).out, !.cwd = Restored(p).cwd, !.ran = job[p].ran])

-----------------------------------------------------------------------------
(* tt clean, and the instances it looks at.                                *)

\* running.FillCtx finds the instances through the directory of instances.
Clean(p) ==
    /\ At(p, "clean")
    /\ LET dir == job[p].cfg.enabled
           found == IF dir = "." THEN place.isApp ELSE Resolves(enabled[dir])
       IN \/ ~found /\ Fail(p)
          \/ found /\ To(p, "status")

Turn(p) == Instances[job[p].i]
Following(p) ==
    IF job[p].i = Len(Instances) THEN Quiet
    ELSE [job[p] EXCEPT !.pc = "status", !.i = @ + 1, !.files = {}]

\* Faulty variant: the state of the instance is not asked for.
CheckStatusNever(p) ==
    /\ At(p, "status")
    /\ \/ data[Turn(p)] = {} /\ Inner(p, Following(p))
       \/ /\ data[Turn(p)] # {}
          /\ Inner(p, [job[p] EXCEPT !.pc = "confirm", !.files = data[Turn(p)]])

\* internalCleanModule, of one instance: only a stopped one is cleaned, and its
\* files are listed.
CheckStatus(p) ==
    /\ At(p, "status")
    /\ LET i == Turn(p)
       IN \/ (i \in alive \/ data[i] = {}) /\ Inner(p, Following(p))
          \/ /\ i \notin alive /\ data[i] # {}
             /\ Inner(p, [job[p] EXCEPT !.pc = "confirm", !.files = data[i]])

\* clean asks; whatever the answer is, the next instance follows.
Confirm(p) ==
    /\ At(p, "confirm")
    /\ \/ To(p, "remove")
       \/ ~job[p].args.force /\ Inner(p, Following(p))

\* The listed files are removed one by one, in any order; one that is gone ends
\* the cleaning of this instance.
RemoveFile(p) ==
    /\ At(p, "remove")
    /\ \/ job[p].files = {} /\ Inner(p, Following(p))
       \/ \E f \in job[p].files :
             \/ f \notin data[Turn(p)] /\ Inner(p, Following(p))
             \/ /\ f \in data[Turn(p)]
                /\ data' = [data EXCEPT ![Turn(p)] = @ \ {f}]
                /\ Goto(p, [job[p] EXCEPT !.files = @ \ {f}])
                /\ UNCHANGED <<place, ttyaml, app, enabled, scratch, alive, jobs, hurts>>

\* tt start and tt stop of an instance, meanwhile.
InstanceStarts(i) ==
    /\ i \notin alive /\ jobs < MaxJobs
    /\ jobs' = jobs + 1
    /\ alive' = alive \cup {i}
    /\ data' = [data EXCEPT ![i] = DataFiles]
    /\ UNCHANGED <<place, ttyaml, app, enabled, scratch, job, hurts>>
InstanceStops(i) ==
    /\ i \in alive /\ jobs < MaxJobs
    /\ jobs' = jobs + 1
    /\ alive' = alive \ {i}
    /\ job' = [p \in Procs |-> [job[p] EXCEPT !.up = @ \ {i}]]
    /\ UNCHANGED <<place, ttyaml, app, enabled, scratch, data, hurts>>

-----------------------------------------------------------------------------
UserApp == {File("init.lua", "user"), File("tt.pre-build", "user")}
Place(isApp, cartridge, ctl, config) ==
    [isApp |-> isApp, cartridge |-> cartridge, ctl |-> ctl, config |-> config]
Places == {Place(FALSE, "none", "none", TRUE), Place(FALSE, "ok", "ok", TRUE),
           Place(FALSE, "bad", "ok", TRUE), Place(FALSE, "none", "ok", FALSE),
           Place(TRUE, "none", "none", FALSE), Place(TRUE, "none", "bad", FALSE)}

\* An environment someone has worked in: links may lead elsewhere or to a
\* directory that is gone, instances may run.
AppInit ==
    /\ place \in Places
    /\ app \in {None, UserApp}
    /\ ttyaml = IF place.config THEN [from |-> "old", enabled |-> "instances.enabled"] ELSE NoFile
    /\ \E target \in {None, "app", "other", "gone"} :
          /\ place # Place(FALSE, "none", "none", TRUE) => target = None
          /\ enabled = [d \in EnabledDirs |-> IF d = "instances.enabled" THEN target ELSE None]
    /\ scratch = [p \in Procs |-> None]
    /\ alive = IF place.config THEN {Instances[1]} ELSE {}
    /\ data = [i \in Insts |-> DataFiles]
    /\ job = [p \in Procs |-> Quiet]
    /\ jobs = 0
    /\ hurts = 0

Do(p) ==
    \/ CheckExistingConfig(p) \/ GenerateTtEnv(p)
    \/ LoadVarsFile(p) \/ FillTemplateVarsFromCli(p) \/ CreateTemporaryAppDirectory(p)
    \/ CopyAppTemplate(p) \/ LoadManifest(p) \/ CollectTemplateVars(p)
    \/ At(p, "pre") /\ RunHook(p, "pre", Template(p).pre, "render")
    \/ RenderTemplate(p)
    \/ At(p, "post") /\ RunHook(p, "post", Template(p).post, "cleanup")
    \/ Cleanup(p) \/ MoveAppDirectory(p) \/ CopyFile(p)
    \/ Enable(p) \/ StatOldLink(p) \/ RemoveOldLink(p) \/ Symlink(p) \/ PrintFollowUpMessage(p)
    \/ EnterBuildDir(p) \/ PreBuild(p) \/ Make(p) \/ PostBuild(p)
    \/ Clean(p) \/ CheckStatus(p) \/ Confirm(p) \/ RemoveFile(p)

AppNext ==
    \/ \E p \in Procs : (\E args \in Jobs : Start(p, args)) \/ Do(p) \/ Hurt(p) \/ Kill(p)
    \/ \E i \in Insts : InstanceStarts(i) \/ InstanceStops(i)

AppSpec == AppInit /\ [][AppNext]_avars

-----------------------------------------------------------------------------
(* Properties.                                                             *)

\* The files of an application that create makes of a template: no manifest, no
\* hooks, and only those of the include list.
Finished(t) ==
    {f \in t.files : /\ f.name # "MANIFEST.yaml" \/ t.manifest # "ok"
                     /\ t.manifest = "ok" => f.name \notin {t.pre, t.post}
                     /\ t.manifest = "ok" /\ t.include # {} => f.name \in t.include}

\* Whatever commands overlap or die, an application holds the user's files and
\* finished files of templates: the clean-up of create (manifest, hooks, files
\* that are not in the include list) is over before the first file is copied.
OnlyFinishedFiles ==
    app # None =>
        Names(app) \subseteq Names(UserApp) \cup UNION {Names(Finished(Templates[t])) :
                                                        t \in DOMAIN Templates}

\* No file of an application was rendered with a value the manifest's regular
\* expression refuses, wherever the value came from (vars file, option, user or
\* default), and no template is left unrendered.
VariablesValidated ==
    app # None =>
        \A f \in app : /\ f.body # "raw"
                       /\ f.body = "x" => \E t \in DOMAIN Templates :
                              /\ f.name \in Names(Templates[t].files)
                              /\ ~(Templates[t].re /\ Templates[t].manifest = "ok")

\* A create without force, once it copies, adds to nothing: if no other command
\* has touched the application since its last look, it holds exactly the files
\* this create has copied (MoveAppDirectory looks at the target again).
UnforcedSpares ==
    \A p \in Procs : At(p, "copy") /\ ~job[p].args.force /\ job[p].fresh =>
        app = IF job[p].files = {} THEN None ELSE job[p].files

\* create never spoils an application: its files are finished and validated, and without
\* force it adds to nothing.
CreateIsSafe == OnlyFinishedFiles /\ VariablesValidated /\ UnforcedSpares

\* A command that has ended by itself has removed its temporary directory.
TemporariesRemoved == \A p \in Procs : At(p, "idle") => scratch[p] = None

\* However a build ends, stdout and the working directory are those of the
\* caller again, and the hooks' output was never thrown away with that of
\* luarocks.
BuildGivesBack ==
    \A p \in Procs :
        /\ At(p, "idle") => job[p].out = "tty" /\ job[p].cwd = "env"
        /\ \A n \in 1..Len(job[p].ran) : job[p].ran[n][1] # "make" => job[p].ran[n][2] = "tty"

\* However a create or a build ends by itself, it gives back what it took: no temporary
\* directory is left, and stdout and the working directory are those of the caller.
NothingLeftBehind == TemporariesRemoved /\ BuildGivesBack

\* An instance that runs from before a clean until after it loses no file to
\* it, whatever else is cleaned and whoever answers what.
CleanKeepsFiles ==
    [][\A p \in Procs : At(p, "remove") /\ job'[p] # job[p] =>
          \A i \in job[p].up : data'[i] = data[i]]_avars

\* tt.yaml is lost only to a configuration that cannot be read, to a new file that
\* cannot be written or to a command that was killed, and what replaces it is the configuration that has
\* precedence.
InitReplacesFaithfully ==
    /\ ttyaml = NoFile /\ place.config /\ hurts = 0 /\ (\A p \in Procs : ~At(p, "load")) =>
          "bad" \in {place.cartridge, place.ctl}
    /\ ttyaml.from = "ctl" => place.cartridge = "none" /\ place.ctl = "ok"
    /\ ttyaml.from = "default" => place.cartridge = "none" /\ place.ctl = "none"
=============================================================================
