# TLA+ models of tt

`tt` manages Tarantool applications from the command line. It starts instances under a
watchdog process and finds them again through PID files, keeps cluster configurations in
etcd, in a Tarantool config storage or in a local file, changes the topology of
replicasets, installs binaries, creates and packs applications and serves a small HTTP
daemon. This directory models the parts of it in which several processes, goroutines,
commands or files meet, checks them with TLC on small instances and proves the most
important results with TLAPS for all instances.

## The system and what is modelled

| Part | Source | State it shares | Here |
| --- | --- | --- | --- |
| Watchdog of an instance | `cli/running/watchdog.go`, `process_controller.go` | signals, the instance process, `shouldStop` | `Watchdog`, `Supervisor` |
| start, stop, restart, kill, clean, rebootstrap | `cli/running/running.go`, `cli/process_utils`, `cli/replicaset/rebootstrap.go` | PID file, console socket, data | `Lifecycle` |
| Daemon | `cli/daemon`, `cli/cmd/daemon.go` | PID file, port | `Daemon` |
| Configuration container | `lib/cluster/config.go`, `yaml.go` | - | `Config`, `ConfigMerge` |
| Scopes and patches of a configuration | `lib/cluster/cluster.go`, `cli/replicaset/configsource.go` | the keys of a configuration | `ClusterConfig`, `ConfigPatch` |
| Collectors and publishers | `lib/cluster/etcd.go`, `tarantool.go`, `cli/cluster/cmd` | the storage | `ConfigStorage` |
| Failover switch | `cli/cluster/cmd/failover.go` | a key in etcd | `FailoverSwitch` |
| Replicaset commands of a centralized config | `cli/replicaset/cconfig.go`, `eval.go` | the local config file, the instances | `CConfigApp` |
| Cartridge orchestrator, vshard bootstrap | `cli/replicaset/cartridge.go` | Cartridge's topology | `Cartridge` |
| install, uninstall, binaries switch | `cli/install`, `cli/uninstall`, `cli/binary` | `bin_dir`, `include_dir`, links | `Binaries` |
| Order of versions | `cli/version`, `cli/uninstall` | - | `VersionOrder` |
| create, init, enable, build, clean | `cli/create`, `cli/init`, `cli/enable`, `cli/build`, `cli/cmd/clean.go` | the files of an application | `Application` |
| pack | `cli/pack`, `cli/cmd/pack.go` | the current directory, temporary directories | `Packaging`, `RpmFormat`, `TagSet` |
| Configuration of tt, modules, switch to a local tt | `cli/configure`, `cli/cmd/root.go`, `cli/modules` | `tt.yaml`, `bin_dir` | `Launch` |
| Applications, instances and their files | `cli/running/running.go`, `layout` | the directories of an environment | `AppInstances` |

The parts meet in few places. A command line is turned into a command by `Launch`, which
also spawns a watchdog for each instance that `AppInstances` finds; `Lifecycle` takes up
there, with the PID file the two agree on, and what a watchdog is inside is `Watchdog`.
The models agree on what the outside sees: the watchdog creates the PID file before its
instance runs, never ends before it, and a stop signal ends it. The replicaset commands
change a configuration either in a storage (`ConfigPatch` for what is written where,
`ConfigStorage` for how commands interleave) or in the local file of an application
(`CConfigApp`). `Packaging` makes the bundle that `RpmFormat` puts into a file whose
header `TagSet` lays out.

## Modules

**`Watchdog`.** One watchdog process: the main goroutine of `Watchdog.Start` (`main`), the
signal handling goroutine (`handler`) with `StopWithSignal` and the goroutine that it
spawns, the integrity goroutine (`integ`), and the two callers of
`processController.Wait` (`wait`). `stopMutex` and the wait mutex are derived from program
points. `sigChan` holds one signal; a signal sent to a full channel is lost, and one that
finds nothing notified takes its default effect. The instance may end at any moment and
need not obey a stop signal; SIGKILL works.

**`Supervisor`.** What a watchdog promises, without goroutines: no launch after an
accepted stop, no end before the instance has ended, an accepted stop is carried out.
`Watchdog` implements it through the mapping at its end.

**`Lifecycle`.** One instance, any number of keepers (processes that run it: watchdogs and
interactive starts) and of commands. The steps are single file system operations: `stat`,
`read`, `remove`, `open`, `write` of `CheckPIDFile` and `CreatePIDFile`, `stat` and
`remove` of `cleanup`. Each operation on the PID file may fail, which ends the command or
the keeper as the code's early return does. `Crash` kills a keeper, and its instance with
it, between any two steps. `restart` and
`rebootstrap` are a stop, (for the second) the removal of the data, and a start.

**`Daemon`.** The processes of `tt daemon`, each with its main goroutine, its worker and
the goroutine that `Stop` starts, and the commands that start, stop and restart them. They
meet in a PID file and in the port; a process may be killed and a call may fail.

**`Config`**, **`ConfigMerge`.** A configuration is a function from the paths of its
leaves to values; `Set`, `Get`, `Merge`, `ForEach` are operators on it. `ConfigMerge`
takes `Merge` apart into the visits of `ForEach`, whose order is the order of a Go map.

**`ClusterConfig`**, **`ConfigPatch`.** `Instantiate`, failover and the choice of the key
to patch (`getCConfigPatchTargets`), and the commands that patch: promote, demote, expel,
roles add, and the publication of one instance's configuration.

**`ConfigStorage`.** Several commands on the same keys. Each storage operation is atomic;
a command collects, looks and writes in separate steps. A document is the set of edits
it contains. The backend (etcd or Tarantool) and integrity checks (on or off) are chosen
in the initial state.

**`FailoverSwitch`.** One `tt cluster failover switch`: the put of the task, the goroutine
that opens the watch, the answers of the coordinator (external) and the deadline, in any
order.

**`CConfigApp`.** promote, demote and expel of an application with a centralized config,
each in its steps: the discovery asks one instance after the other, the config is read
twice (once for the failover, once to be patched), `os.WriteFile` truncates and then
writes, the reload visits one instance after the other. Demotion under the `election`
failover patches the file twice with a reload and a wait in between. Instances go down
and come back, and elect leaders.

**`Cartridge`.** bootstrap, join, expel, promote and vshard bootstrap: a command discovers
the topology, decides on what it saw and sends edits through one instance after the other.
Cartridge itself is external: it validates an edit and applies it as a whole, and it
elects leaders. An application with a custom orchestrator is discovered the same way and
refuses every change.

**`Binaries`.** The commands on `bin_dir` and `include_dir` as sequences of file system
calls: copies that may be torn, the stat, remove and symlink of `CreateSymlink`, the scan
of the directory after an uninstall. Where sources come from and how they are built may
fail but is otherwise abstract.

**`VersionOrder`.** Parsed versions, `IsLess`, and the loop of `searchLatestVersion` over
any listing of `bin_dir`.

**`Application`.** create with every step of its chain and its roll back, init, enable,
build with its hooks and its redirected output, clean: two commands on one application.
The stat, the remove and the symlink of `CreateSymlink` are steps of their own, each of
which may fail. A template has one variable.

**`Packaging`.** One pack command after the other in the same directory: filters, the
bundle with its `tt.yaml`, links, units, control files, signature, archive, and the
variant that runs in a container. A file is its kind; every step that touches the disk may
fail, the removal of a failed tarball included. `LongerNames` says which names begin with
which others, since a previous package is recognised by the beginning of its name.

**`RpmFormat`**, **`TagSet`.** `packRpm` from the sorted paths to the merged file, with
header, signature, lead and payload; paths are ordered as whole strings (`at`), so that a
directory need not be followed by its files; a digest is the content it is a digest of. `TagSet`
is `packTagSet`, one tag per step, with real sizes, offsets and alignment.

**`Launch`**, **`AppInstances`.** From a command line and a file system to the process that
runs: flags, environment variable, the search for `tt.yaml`, defaults and paths, the local
`tt` and `tarantool`, `exec`, modules, the choice of a command, the watchdogs that `start`
spawns, and what each of them finds when it configures itself again and restarts its
instance after the user has edited the application. `AppInstances` holds the operators
that collect instances and derive the paths of their files.

`MC*.tla` and `*.cfg` instantiate the modules for TLC; `*Proofs.tla` hold the theorems.
Some MC modules run several machines that share no state as one specification: the
variable `machine` says which one a behaviour is of, and the others stay at rest.
Definitions marked "Faulty variant" are what a plausible mistake in the code would look
like; each shows that some property notices it.

## Runs

| Run | What it checks |
| --- | --- |
| `watchdog` | the watchdog with 3 signals and 2 restarts: no instance is abandoned, no launch after a stop, no deadlock of the barrier, an accepted stop ends the process, and the refinement of `Supervisor` |
| `watchdog_lost_stop` | violation: a stop signal between two rounds is lost |
| `lifecycle` | `Lifecycle`: one instance at a time, the PID file leads to it and no instance runs where start, clean and rebootstrap take it for granted, a stale PID file heals. `Daemon`: a daemon that serves can be found, a signalled one ends |
| `lifecycle_double_start` | violation: two starts at the same time end in two instances |
| `configuration` | `ConfigMerge`: the result is the overlay in any order of visits. `ConfigPatch`: patches take effect for the instance and publishing spares others. `ConfigStorage`: signatures fit, patches keep concurrent edits, publishing everything deletes only what was seen, every command ends. `FailoverSwitch`: the command ends with a true report |
| `config_roles` | violation: a role added to two scopes at once |
| `storage_silent` | violation: a Tarantool config storage drops a publication silently |
| `cconfig_app` | two replicaset commands that may overlap, under every failover: success means loaded, a change that nobody overlaps is in effect, "voter" is temporary, the last instance is not expelled |
| `environment` | `Binaries`: the active version is there and whole, a successful command has done all it was asked for, a torn copy is not taken for a version. `VersionOrder`: the newest version is found |
| `cartridge` | two overlapping commands: no replicaset is created twice, reports are true, a promoted instance leads |
| `application` | `Application`: create spoils nothing, temporary directories go, `tt.yaml` is replaced faithfully, clean keeps what runs. `Packaging`: packages hold what they should, are signed, leave nothing behind and work. `TagSet`, `RpmFormat`: tags can be read back, an RPM agrees with itself. `Launch`: a command stays in its environment, a watchdog in that of its command and on its instance, instances own their files |
| `pack_all_flag` | violation: `--all` is not ignored for a deb or rpm |

**Bounds.**

* `watchdog`: three signals fill the channel, lose one and stop; two restarts let a round
  meet what the previous one left.
* `lifecycle`: two keepers, two commands and one crash are enough for a command to meet a
  process that another one started, and for a cleanup to remove a file that is not its
  own; a third keeper is needed only for the violation, where the second start has failed.
  Two daemons, two users, three commands and one fault let a start meet a daemon that is
  coming up, stopping or dead.
* `configuration`: two clients give every overlap of two read-modify-write cycles; three
  keys tell the patched, the whole-configuration and an unrelated key apart; a coordinator
  that answers twice before its final answer is passed over, read and waited for.
* `cconfig_app`: two instances are a replicaset with a last member, two commands overlap,
  one outage falls between any two steps. The theorems about it have no bound, and
  `LastIsNotExpelled` needs them: only with three instances can an expelled one that goes on
  running mislead a later expel.
* `environment`: three commands after at most one installed version reach an uninstall
  of the active one with another left; either two commands overlap or one fails or is
  killed (both at once leave nothing to promise). Listings have up to three of eleven
  entries, one for each kind and field that `IsLess` compares; the theorems have no bound.
* `cartridge`: three instances in two replicasets, so that one replicaset has a spare
  member, room for a third replicaset that should not come to be, one stop.
* `application`: two commands or two packings, one failure or kill; sets of up to three
  tags out of nine, which put every alignment after every length (the theorem has no
  bound); 66 bytes of name in the lead, as in the format. Hosts and invocations of
  `Launch` are listed in `MCApplication`: nested environments, local and system `tt`,
  flags before and after the command, ambiguous and broken files, and a chain of
  environments in which one process switches to another `tt` twice.

**Discipline of users.** Without locks, `Lifecycle` is not safe for arbitrary concurrent
commands, as `lifecycle_double_start` shows. The passing run lets users run start,
restart, rebootstrap, kill, clean and interactive starts one at a time (`MayBegin`), while
stop runs at any moment. In `Daemon`, `CConfigApp`, `Binaries` and `Cartridge` commands
overlap freely; the properties that need one command at a time say so with a history
variable (`overlapped`, `left`, `hurt`, `clean`).

**Fairness.** Weak fairness of a process's or goroutine's own steps: the scheduler runs
it, timers expire, SIGKILL ends a process, a storage answers or the request fails, the
deadline of a watch comes. No fairness for users, crashes, signals, the coordinator, or an
instance ending or obeying a signal. A storage command needs no fairness against others: a
publication is retried only when another command has written, and each writes once.

**Deadlock** is checked in `watchdog`, `lifecycle`, `lifecycle_double_start` and
`storage_silent`. In the other runs a behaviour really ends: the bounded number of
commands has run, or the loop is over.

## Proofs

All theorems hold for any values of the constants. Each rests on an inductive invariant
that TLC checked first.

* `ApplicationProofs`, the watchdog: type correctness, `NeverAbandonsInstance`, `QuietRestart`,
  `NoLaunchAfterStop`, `StopIsSticky`, and that every step of `Watchdog` is a step of
  `Supervisor` or a stutter (`RefinesSupervisor`, the safety part). The invariant ties
  the existence of each goroutine, of a process and of a notified channel to the program
  point of the main goroutine: it is why data touched without a lock between rounds is
  touched by nobody else.
* `LifecycleProofs`: `AtMostOneInstance`, `RunningIsRecorded`, `NoSecondStart`,
  `CleanSparesRunning`, for any number of keepers, commands and crashes, for disciplined
  users without interactive starts (`Disciplined`), rebootstrap included. The invariant:
  at most one keeper holds or may touch the PID file, it owns the file from the write on,
  and a command that acts on the belief that nobody does is right.
  `DaemonIsFound`, for any number of daemons, users, commands and faults. The invariant has
  two halves, one for each condition of the property: as long as every daemon ends by
  `Stop`, a PID file has a holder and nobody is about to remove it (`Orderly`); as long as
  no start overlaps what it depends on, one command runs at a time and at most one daemon is
  alive (`Sequential`).
* `ConfigurationProofs`, the storage: `SignedStoreVerifies`, `EtcdOkMeansPublished`, `PatchKeepsEdits`,
  `AllSparesUnseen`, `AllIsAlone`, for any clients and keys. The invariant: what a client
  has read under a revision is still the document as long as the revision is the same.
* `CConfigProofs`, for any number of instances, commands and outages, under every failover:
  * `OkMeansReloaded`, however commands overlap. No instance is ahead of the file, the
    file's version grows, hence no instance goes back; the part of a reload loop that is
    done stays done.
  * `OkTakesEffect`, for a command that nobody overlaps. `Sole`: no other command runs next
    to it; `Checked`: what its checks have established still holds; `Tidy`: what it is about
    to write is its patch of the file as it is now, and in the reload loop the instances
    already visited run with the file.
  * `VoterIsTemporary`, with the same invariant.
  * `LastIsNotExpelled`. The views the instances run with are nested, because the file only
    loses members; an instance with an older view is itself not in it, or will still be
    reloaded (`Counted`); what a command has found out about the members so far is between
    the file and the oldest view (`Survey`).
* `CConfigProofs`, the Cartridge orchestrator, for any instances, replicasets, requests and
  commands at a time:
  * `NoSplitReplicaset`. `CartInv`: the topology is well formed, every command is in a state
    its program point allows, and, with Cartridge 2 and every instance in `replicasets.yml`
    (`Whole`), no alias is given twice. A command edits with what it discovered before, which
    may be old by then. But the edit of a bootstrap names every instance of the file, as one to
    join or in a priority, and Cartridge refuses it unless each is free or in the replicaset
    the edit means. A replicaset with a name has an instance, so when every instance is in
    the file an accepted edit is about every replicaset there is, and gives each one name.
  * `ErrorMeansUnchanged`, one half of `ReportsAreTrue`. `CleanInv`: an undisturbed command is
    the only one, the topology is the one it began with until its edit (`BeforeEdit`) and the
    requested one after it (`AfterEdit`), and from there on nothing is left that can make it
    fail.
* `PackagingProofs`, `tt pack`, for any environments, requests, versions and failures:
  `PackageIsComplete`, and `PackageFits` and `DockerBundleIsBare`, which are parts of
  `PackageWorks`. `PackInv` says for every program point what the bundle holds, what has been
  signed, which packer is running, which versions are stated, and that the temporary
  directories are those the deferred calls will remove; and of every package file that it is
  good, whichever command wrote it.
* `ConfigurationProofs`, `Config.Merge`: `MergeIsOverlay` for any two configurations and any order of visits. After
  every visit the configuration is the receiver overlaid on the leaves visited so far
  (`Partial`), whatever they are; the lemmas are about the prefix order of paths and about
  what one visit does to an overlay.
* `ApplicationProofs`, the tags of a package: `TagsReadBack` for every sequence of tags. The invariant: every entry of
  the index lies aligned inside the data packed so far, in order; arithmetic lemmas give
  the padding.
* `EnvironmentProofs`, the order of versions: `IsLess` is a strict weak order on all
  versions (`OrderIsWeak`), and with it `LatestIsNewest` for every listing of `bin_dir`: the
  version held by the loop is one of the entries seen and is not older than any of them.
* `EnvironmentProofs`, `AgreementProofs` and `OverlapProofs`, the commands on `bin_dir` and
  `include_dir`, for any programs, versions, requests, listings and faults and any number of commands at a time. Each action
  is first turned into what it does to one command, one file and one link (the `*Step`
  lemmas); five invariants then build on one another:
  * `BinInv`: the types; what a command is about at its program point (`ShapeOf`); links have
    the name of their program (`Placed`); a command marked alone is the only one (`Solo`).
  * `DoneInv`: what a command that is alone is past, it has done. It holds however earlier
    commands left the directories, and gives `SuccessIsComplete`.
  * `HealInv` (`OverlapProofs`): until two commands stop half-way or overlap, a torn binary of a release has no
    headers unless it is being filled, and before the first of them binary and headers come
    and go together. It gives `HealsAfterOneFault`.
  * `AgreeInv` (`AgreementProofs`): until a command stops half-way or overlaps with another, everything is
    sound but the version that is being copied and the links that are being set
    (`SoundBut`), which each program point names. It gives `LinksAgree`.
  * `RaceInv` (`OverlapProofs`): as long as nothing is interrupted or uninstalled, every defect has somebody
    who is about to mend it: a torn binary is being filled, a missing binary that a link or
    a command counts on is being copied again, a missing link is about to be set. It gives
    `RacesKeepAVersion`, and with `LinksAgree` the property `ActiveIsSound`.
* `ApplicationProofs`, the commands on an application: `CreateIsSafe`, `CleanKeepsFiles`, `InitReplacesFaithfully` and
  `NothingLeftBehind` (its halves are `TemporariesRemoved` and `BuildGivesBack`); for any templates, jobs, instances, failures and kills and any
  number of commands at a time. The invariant says for every program point what the
  temporary directory of a create holds (`StageAt`: which files are gone, which are
  rendered, what is known of the variable), what stdout and the directory of a build are
  (`BuildOf`), which instances a clean may touch (`CleanOf`), that an unforced create knows
  the application it copies to (`SparesOf`), and that every file of an application comes
  from its user or, finished, from a template (`GoodFile`).

The assumptions are `ASSUME`s of the modules: the model values that stand for "nothing" are
none of the things they are told apart from (`DaemonAssumption`, the `AppAssumption` of
`CConfigApp`), paths are sequences (`MergeAssumption`), a template has no two files of the
same name and the jobs are well formed (the `AppAssumption` of `Application`), requests are
well formed, a set of released versions has a newest one, every version has a place in the
listing of `bin_dir` and a file name contains itself (`BinariesAssumption`), no application
has a file with the name of one that packing adds, and one with instances and no script has
code (`PackagingAssumption`), the absent alias and Cartridge's default one are not in
`replicasets.yml` and requests name instances of the application (`CartridgeAssumption`). TLC evaluates
them in the runs.

`QuietRestart`, `StopIsSticky`, `NoSecondStart`, `CleanSparesRunning`,
`EtcdOkMeansPublished`, `AllIsAlone` and `OrderIsWeak` are proved and have no run of their
own.

Only model-checked:

* all liveness (`AcceptedStopEnds`, `BarrierPasses`, `StaleFileHeals`, `SignalEndsDaemon`,
  `EveryCommandEnds`, `SwitchCompletes`, the liveness of `Supervisor`), which the prover does
  not handle;
* what a fold, a sort or a filter of a sequence computes for every input, which needs
  induction over data: `ConfigPatch`, whose collection of the keys folds over the documents;
  `RpmFormat`, which folds over and flattens sequences; the arguments of the command in the
  container, a part of `PackageWorks`; `BootstrapMatchesConfig`, the other half of
  `ReportsAreTrue`, and `PromoteLeads`, which are about the order of a filtered sequence of
  instances;
* `Launch` and `AppInstances`: their properties are about the hosts and the names of the run
  (a host where every `tt` hands over to the next one would refute `NoExecLoop`), or depend on
  the bound of one edit of the configuration (`WatchdogKeepsInstance`);
* interactive starts.

## Disagreements with the code's own words

Five runs end in a violation; each is described with its quotation in `PROJECT.json`.

1. `watchdog.go:150`: between two rounds nobody reads the signal channel, which is then
   replaced, so `tt stop` during the restart timeout is lost.
2. `running.go:777`: a watchdog that loses the race for the PID file cleans up the files
   of the one that won; a later start then runs a second instance.
3. `configsource.go:174`: `roles add` with several scopes joins the patched copies so that
   a later scope keeps its old roles.
4. `tarantool.go:446`: the answer of the storage's transaction is dropped, so a stale
   revision is reported as success.
5. `pack/common.go:380`: with a deb or rpm, `--all` copies run-time data, into directories
   of the host that packs, where the warning says that the flag is ignored.

## Observations

Met while modelling, without a run of their own. The properties are stated so that they
leave these cases out, and say so.

Instances and daemon:

* an interactive start next to a running watchdog cleans that watchdog's PID file
  (`running.go:743`, 777), and `Stop` may remove the socket of a newer instance
  (`running.go:802`); a kill cleans up by name after the group is dead, so that a start in
  between loses its PID file (`running.go:818`): the properties of `Lifecycle` hold for users
  who do not overlap the two;
* the daemon removes its PID file while its server still listens (`process.go:136`), so
  that an overlapping start may find the port taken and end with a stale file; a failed
  write of the PID leaves an empty file that blocks later starts; two starts on a stale
  file can leave the serving daemon unrecorded.

Configuration and replicasets:

* publishing everything to etcd leaves a key that appears between the get and the
  transaction (`etcd.go:488`);
* collectors with integrity checks leave the revision at 0, so patches made with them
  overwrite concurrent edits (`etcd.go:255`), as does publishing one instance's
  configuration (`publish.go:104`);
* the watch of a failover switch is opened without a revision: an answer written before it
  is missed, and the command waits until its timeout; a watch that breaks ends it without
  an error (`failover.go:118`);
* `demoteElection` waits for the target to be read-only, not for another leader
  (`cconfig.go:665`), and a demotion that fails half way leaves the target a voter;
* the local config file is read and written without a lock or a revision: of two
  overlapping commands the later write drops the edit of the earlier (`cconfig.go:699`).
  `OkMeansReloaded` counts a later config as reloaded, and `OkTakesEffect` is about commands
  that nobody overlaps;
* an instance that missed a reload (an error, or `--force` past an instance that comes
  back before the file is written) makes a later expel count an expelled member as alive,
  so that the last one may be expelled (`cconfig.go:199`); so does an expelled instance that
  goes on running, which no later reload reaches: after the successful expel of a third and
  then of a second instance, the third still counts the second, and the first is expelled
  too;
* for Cartridge 1, the second topology update of a bootstrap does not know the replicaset
  that the first one created (`cartridge.go:532`);
* a Cartridge bootstrap decides from its discovery which replicasets to create: when an
  instance that is not in `replicasets.yml` joined one in the meantime and the configured
  members were expelled, it creates a second one of the same name (`cartridge.go:566`), which
  is why `NoSplitReplicaset` is about applications whose instances are all configured.

Launch and instances:

* a watchdog does not get `--self`, nor `-I`, and gets a relative `-L dir` as written although
  the process has changed its directory (`running.go:937`, `configure.go:621`); the joined
  form `--local=dir` is not taken out of the arguments (`configure.go:639`);
* two keys of `instances.yml` with the same text after the dot share their files; a script
  `app.lua` hides a directory `app`; an application that gains or loses its
  `instances.yml` changes what its watchdog restarts.

Packing:

* the link to an application that is enabled under another name dangles
  (`common.go:481`), and the error of `writeEnv` is ignored (`common.go:393`);
* two scripts whose links lead to files of the same name overwrite one another in the
  bundle (`common.go:294`): `PackedAppsAreFound` is about applications copied to places of
  their own;
* errors of the deferred `Close` and `Flush` of archives are not seen (`tgz.go:23`,
  `cpio.go:21`), and a failing merge may leave part of an RPM (`util.go:785`), so no property
  says that a package file is whole; a failed tarball stays when its removal fails as well;
* a container that cannot be created is reported as success (`docker.go:152`);
* a package is recognised as a previous one by the beginning and the suffix of its name:
  the files of an application with a longer name are left out too, and a package given a
  name without the suffix of its type is packed again;
* with both `--with-binaries` and `--without-binaries` the unit names a `tt` that is not
  packed (`systemd_dir.go:150`); flags written `--flag=value` are passed on to the
  container (`docker.go:85`); names longer than the lead's field do not fit
  (`rpm_lead.go:24`); without a version the package says 0.1.0 and its file name 0.1.0.0.

Applications: a create looks for the application for the last time before it copies; what
another create adds after that, and what a kill during the copy leaves, stays
(`move_app_dir.go:24`). `CreateIsSafe` and `NothingLeftBehind` leave both out.

Binaries: a failure between the remove and the symlink of `CreateSymlink` leaves no active
version, and two switches that race may leave a binary and headers of two versions
(`util.go:665`); `ActiveIsSound` leaves both out. `ParseTt` gives its versions another release type than `Parse`
(`version_tools.go`), which no comparison mixes today.

## Abstractions

PIDs are never reused and a watchdog is not killed alone (its instance dies with it);
SIGTERM is SIGINT; `quit` takes the steps of `stop`. The binary port's socket, which the
cleanup removes like the console's, is not a file of its own. Values of options are small sets of
names. Aliasing of Go maps is not modelled. Two writers that have both truncated the
config file are taken to write one after the other. In `CConfigApp` the application has
one replicaset, since a command never looks at another, and which peers an instance lists
follows from the config it runs with. A file of `Binaries` is absent, torn or whole; one of
`Packaging` is its kind; the directory of an application is flat, so that no subdirectory
has the name of the application, and a name given with `--filename` ends in the suffix of
its type; paths of `Launch` are sequences of names. A version is its
numbers, without the regular expression that finds them. Logging, printed status and the
wording of errors are left out everywhere.

## Not modelled

* Search and download of packages, credentials, the build of Tarantool from sources,
  luarocks and docker: calls of external services and tools. `Binaries`, `Application` and
  `Packaging` let them succeed or fail.
* Console, `connect`, formatter, log following and rotation, core dumps, checkpoints: they
  encode, print or hand over to other programs and change no state that another command
  relies on; the following of logs is done by a library.
* The validators of configuration schemas and the parsing of URIs and YAML: functions of
  one text. The models start from what has been parsed.
* The single-instance form of the centralized config orchestrator, which refuses or
  forwards one call, and the merge of the topologies that several instances report, from
  which nothing is decided.
* The integrity repository: the open-source build has stubs. Signing and checking are
  modelled where they are called.
* The parsing of flags of single commands, help and completion, and generated code.
