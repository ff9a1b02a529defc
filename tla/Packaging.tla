----------------------------- MODULE Packaging -----------------------------
(***************************************************************************)
(* tt pack: cli/cmd/pack.go and cli/pack (opts, common, archive, deb, rpm, *)
(* docker, systemd_dir, deb_control_dir).  One pack command runs at a      *)
(* time; several follow one another in the same directory, so a package    *)
(* built earlier may lie among the sources of the next one.                *)
(*                                                                         *)
(* A file is abstracted to its kind, a directory of the bundle to its      *)
(* name.  Every step that touches the disk may fail.                       *)
(***************************************************************************)
EXTENDS Naturals, Sequences, SequencesExt, FiniteSets

CONSTANTS Worlds,     \* the tt environments, by name: see Environment below
          Requests,   \* the pack command lines
          LongerNames, \* the pairs <<x, y>> of names where y is longer than x and begins with it
          MaxPacks    \* bound on the number of pack commands

VARIABLES packWorld,  \* the name of the environment the commands run in
          pack,       \* the running command: its context and the bundle it prepares
          tmpdirs,    \* the temporary directories that exist
          packages,   \* the package files in the current directory
          hostVar,    \* what was copied to absolute /var paths of this host
          packCount

pvars == <<packWorld, pack, tmpdirs, packages, hostVar, packCount>>

ArtifactKinds == {"log", "run", "wal", "memtx", "vinyl"}
EnvKinds == {"include", "instances_enabled", "bin", "modules", "distfiles", "templates", "tt.yaml"}
DefaultKinds == {"socket", "git"}
BuildKinds == {"rockspec", "hook"}

\* A file of the bundle: the directory it is in ("" is the environment's own), its kind and the
\* application it comes from; base and ext name a package file.
Entry(at, kind, of) == [at |-> at, kind |-> kind, of |-> of, base |-> "", ext |-> ""]
PackageEntry(p) == [Entry("", "package", "") EXCEPT !.base = p.base, !.ext = p.ext]

\* Copying files over those that are there already.
CopyOver(env, files) ==
    {e \in env : \A f \in files : <<e.at, e.kind, e.base, e.ext>> # <<f.at, f.kind, f.base, f.ext>>}
    \cup files

Extension == [tgz |-> ".gz", deb |-> ".deb", rpm |-> ".rpm"]

NoOpts == [enabled |-> "", bin |-> "", vars |-> "", split |-> FALSE]
NoPack == [pc |-> "idle", req |-> <<>>, apps |-> {}, name |-> "", deferred |-> {}, todo |-> {},
           opts |-> NoOpts, envAt |-> <<>>, env |-> {}, links |-> {}, signed |-> {}, root |-> <<>>,
           units |-> {}, owned |-> {}, version |-> <<>>, stated |-> {},
           args |-> <<>>]

PackInit ==
    /\ packWorld \in DOMAIN Worlds
    /\ pack = NoPack
    /\ tmpdirs = {} /\ packages = {} /\ hostVar = {} /\ packCount = 0

req == pack.req[1]
Environment == Worlds[packWorld]

(***************************************************************************)
(* The context of a command                                                *)
(***************************************************************************)

\* initAppsInfo: the applications of the environment, or those of the given names that are
\* applications; the first of them.
AppList(r, w) == IF r.apps = <<>> THEN w.list ELSE r.apps
InitAppsInfo(r, w) == ToSet(AppList(r, w)) \cap DOMAIN w.apps
FirstApp(r, w) ==
    LET list == AppList(r, w)
        found == {i \in DOMAIN list : list[i] \in DOMAIN w.apps}
    IN  list[CHOOSE i \in found : \A j \in found : i <= j]

\* setBundleName
SetBundleName(r, w) ==
    IF r.name # "" THEN r.name
    ELSE IF r.compat \/ w.dot THEN FirstApp(r, w) ELSE w.name

\* Faulty variant: a signed package may be packed in cartridge-compat mode.
FillCtxSignsCompat(r, w) ==
    LET apps == InitAppsInfo(r, w)
    IN  /\ apps # {} /\ \A a \in apps : w.apps[a].instances
        /\ ~(r.compat /\ Cardinality(apps) > 1)

\* FillCtx: integrity checks exclude the cartridge-compat mode, some application must be found,
\* its instances must be collected, and the compat mode takes one application.
FillCtx(r, w) ==
    LET apps == InitAppsInfo(r, w)
    IN  /\ ~(r.key /\ r.compat)
        /\ apps # {} /\ \A a \in apps : w.apps[a].instances
        /\ ~(r.compat /\ Cardinality(apps) > 1)

\* checkFlags: the only combination it refuses; for the others it warns.
CheckFlags(r) == ~(r.key /\ r.withoutBin)

\* The checks of the command itself, before the context is filled.
PackCmd(r) ==
    /\ r.compat => r.type = "tgz"
    /\ r.tntVersion => r.docker

\* dockerPackCtx: the bundle of a container build is prepared without binaries.
DockerCtx(r) == IF r.docker THEN [r EXCEPT !.withoutBin = TRUE, !.withBin = FALSE] ELSE r

StartPack(r) ==
    LET w == Environment
    IN  /\ pack.pc = "idle" /\ r.world = packWorld /\ packCount < MaxPacks
        /\ packCount' = packCount + 1
        /\ IF PackCmd(r) /\ FillCtx(r, w) /\ CheckFlags(r)
           THEN pack' = [NoPack EXCEPT
                    !.pc = IF r.docker THEN "docker" ELSE IF r.type = "tgz" THEN "signer" ELSE "root",
                    !.req = <<DockerCtx(r)>>, !.apps = InitAppsInfo(r, w),
                    !.name = SetBundleName(r, w), !.version = r.version]
           ELSE UNCHANGED pack
        /\ UNCHANGED <<packWorld, tmpdirs, packages, hostVar>>

\* The command ends: the deferred removals run.
Finish ==
    /\ pack' = NoPack
    /\ tmpdirs' = tmpdirs \ pack.deferred
    /\ UNCHANGED packWorld

\* A step fails and its error is returned.
Fails == Finish /\ UNCHANGED <<packages, hostVar, packCount>>

Proceed(pc, changed) ==
    /\ pack' = [changed EXCEPT !.pc = pc]
    /\ UNCHANGED <<packWorld, tmpdirs, packages, hostVar, packCount>>

\* Faulty variant: the removal of the directory is left to the caller that never gets its name.
MakeTempForgotten(pc, dir) ==
    \/ Fails
    \/ /\ tmpdirs' = tmpdirs \cup {dir}
       /\ pack' = [pack EXCEPT !.pc = pc]
       /\ UNCHANGED <<packWorld, packages, hostVar, packCount>>

\* A temporary directory is made, and its removal deferred.
MakeTemp(pc, dir) ==
    \/ Fails
    \/ /\ tmpdirs' = tmpdirs \cup {dir}
       /\ pack' = [pack EXCEPT !.pc = pc, !.deferred = @ \cup {dir}]
       /\ UNCHANGED <<packWorld, packages, hostVar, packCount>>

\* The packers of deb and rpm first look for ar or cpio, then make the directory of the package.
PackageRoot == pack.pc = "root" /\ MakeTemp("signer", "root")

\* Faulty variant: the value of --tarantool-version stays on the command line.
StripDockerArgsLeavesValue(args) ==
    SelectSeq(args, LAMBDA x : x \notin {"--use-docker", "--tarantool-version"})

\* PackInDocker removes --use-docker, and --tarantool-version with the argument after it.
StripDockerArgs(args) ==
    LET dropped == {i \in DOMAIN args :
            \/ args[i] \in {"--use-docker", "--tarantool-version"}
            \/ i > 1 /\ args[i - 1] = "--tarantool-version"}
        kept == SetToSortSeq(DOMAIN args \ dropped, <)
    IN  [i \in DOMAIN kept |-> args[kept[i]]]

\* PackInDocker: the build context, the Dockerfile and the command line of the container.
DockerContext ==
    /\ pack.pc = "docker"
    /\ \/ Fails
       \/ /\ tmpdirs' = tmpdirs \cup {"context"}
          /\ pack' = [pack EXCEPT !.pc = "signer", !.deferred = @ \cup {"context"},
                                  !.args = StripDockerArgs(req.args)]
          /\ UNCHANGED <<packWorld, packages, hostVar, packCount>>

(***************************************************************************)
(* prepareBundle                                                           *)
(***************************************************************************)

\* The key is read before anything is made.
NewSigner ==
    /\ pack.pc = "signer"
    /\ \/ req.key /\ Fails
       \/ Proceed("bundle", pack)

PrepareBundle == pack.pc = "bundle" /\ MakeTemp("env", "bundle")

\* The package holds one application in a directory of its own.
Single == Environment.dot \/ req.compat

\* updateEnvPath
UpdateEnvPath == IF Single THEN <<pack.name>> ELSE <<>>

\* createNewOpts: system directories for rpm and deb; the applications are under
\* instances.enabled unless they were in "."; separated data directories stay separated.
CreateNewOpts ==
    [enabled |-> IF Environment.dot \/ req.compat THEN "." ELSE "instances.enabled",
     bin |-> IF req.compat THEN "." ELSE "bin",
     vars |-> IF req.type \in {"rpm", "deb"} THEN "system" ELSE "local",
     split |-> Environment.split]

\* copyEnvModules: failures are warnings, so the modules may be missing from the bundle.
CopyEnvModules ==
    {{}} \cup (IF req.withoutModules \/ req.compat \/ ~Environment.modules THEN {}
               ELSE {{Entry("modules", "module", "")}})

EnvPath ==
    /\ pack.pc = "env"
    /\ \/ Fails
       \/ \E copied \in CopyEnvModules :
             Proceed("binaries", [pack EXCEPT !.envAt = UpdateEnvPath, !.opts = CreateNewOpts,
                                              !.env = copied])

\* copyBinaries: tarantool when it is not the system's or when it is asked for, tt always.
CopiedBinaries ==
    LET dir == IF req.compat THEN "" ELSE pack.opts.bin
    IN  IF req.withoutBin THEN {}
        ELSE {Entry(dir, "tt", "")} \cup
             (IF (~Environment.system \/ req.withBin) /\ Environment.tarantool THEN {Entry(dir, "tarantool", "")}
              ELSE {})

CopyBinaries ==
    /\ pack.pc = "binaries"
    /\ \/ ~req.withoutBin /\ Fails
       \/ Proceed("apps", [pack EXCEPT !.env = @ \cup CopiedBinaries, !.todo = pack.apps])

\* getDestAppDir
GetDestAppDir(a) == IF Single THEN "" ELSE a

\* Faulty variant: every package file is left out only under the name of the whole package.
PreviousPackagesByFullName(p) ==
    p.base = pack.name /\ p.ext = Extension[req.type]

\* previousPackageFilters: package files whose name begins with the name of this package.
PreviousPackage(p) ==
    (p.base = pack.name \/ <<pack.name, p.base>> \in LongerNames) /\ p.ext \in {".rpm", ".deb", ".gz", ".tgz"}

\* appSrcCopySkip: artifacts, parts of the tt environment, sockets and .git are left out.
AppSrcCopySkip(kind) == kind \in ArtifactKinds \cup EnvKinds \cup DefaultKinds

\* copyAppSrc: the files of the application that no filter skips; the package files of the
\* current directory are among them when that directory is the application.
CopyAppSrc(a) ==
    {Entry(GetDestAppDir(a), k, a) : k \in {f \in Environment.apps[a].files : ~AppSrcCopySkip(f)}}
    \cup (IF Environment.dot THEN {PackageEntry(p) : p \in {q \in packages : ~PreviousPackage(q)}}
          ELSE {})

\* Faulty variant: the link is left out for an application that is a script.
CreateAppSymlinkOfDirs(a) ==
    IF Environment.apps[a].script THEN {} ELSE {[name |-> a, to |-> Environment.apps[a].real]}

\* createAppSymlink: a link in instances.enabled to the base name of the resolved application.
CreateAppSymlink(a) == {[name |-> a, to |-> Environment.apps[a].real]}

\* copyApplications, one application at a time in any order: a script is copied under its
\* resolved name and gets a working directory, a directory is copied under the name of the
\* application.
CopyApplication(a) ==
    LET x == Environment.apps[a]
        linked == ~req.compat /\ pack.opts.enabled # "."
    IN  /\ pack.pc = "apps" /\ a \in pack.todo
        /\ \/ Fails
           \/ Proceed("apps", [pack EXCEPT
                 !.todo = @ \ {a},
                 !.env = CopyOver(@, (IF x.script THEN {Entry(x.real, "code", a)} ELSE CopyAppSrc(a))
                                 \cup (IF x.script /\ linked THEN {Entry(a, "workdir", a)} ELSE {})),
                 !.links = IF linked THEN @ \cup CreateAppSymlink(a) ELSE @])

ApplicationsCopied ==
    /\ pack.pc = "apps" /\ pack.todo = {}
    /\ Proceed("artifacts", pack)

\* The kinds of artifacts --all copies: the data directory once unless the kinds are separate.
CopiedKinds(files) == files \cap (IF pack.opts.split THEN {"log", "wal", "memtx", "vinyl"}
                                  ELSE {"log", "wal"})

\* In the layout of tarantoolctl the artifacts of single applications lie side by side.
ArtifactsDir(a) == IF Environment.tctl /\ Environment.apps[a].single THEN "" ELSE GetDestAppDir(a)

\* copyArtifacts, under --all for every type.  A destination that is an absolute path of the
\* new options is not inside the bundle: for rpm and deb it is a directory of this host, except
\* for separated data directories, which are relative.  Failures are warnings.
CopyArtifacts ==
    LET outside(k) == pack.opts.vars = "system" /\ (k = "log" \/ ~pack.opts.split)
        of(a) == {Entry(ArtifactsDir(a), k, a) : k \in CopiedKinds(Environment.apps[a].files)}
        wanted == UNION {of(a) : a \in pack.apps}
    IN  /\ pack.pc = "artifacts"
        /\ \E copied \in IF req.all THEN {wanted, {}} ELSE {{}} :
              /\ pack' = [pack EXCEPT !.pc = IF req.docker THEN "writeEnv" ELSE "rocks",
                                      !.env = CopyOver(@, {e \in copied : ~outside(e.kind)}),
                                      !.todo = pack.apps]
              /\ hostVar' = hostVar \cup {e.kind : e \in {f \in copied : outside(f.kind)}}
              /\ UNCHANGED <<packWorld, tmpdirs, packages, packCount>>

\* cleanupAfterBuild
CleanupAfterBuild(env, at) == {e \in env : ~(e.at = at /\ e.kind \in BuildKinds)}

\* buildAppRocks, one application at a time: the application is built when it has a rockspec,
\* and the build files are removed whether it has one or not.
BuildAppRocks(a) ==
    LET at == GetDestAppDir(a)
        rockspec == \E e \in pack.env : e.at = at /\ e.kind = "rockspec"
        built == IF rockspec THEN {Entry(at, "rock", a)} ELSE {}
    IN  /\ pack.pc = "rocks" /\ a \in pack.todo
        /\ \/ rockspec /\ Fails
           \/ Proceed("rocks", [pack EXCEPT !.todo = @ \ {a},
                                            !.env = CleanupAfterBuild(CopyOver(@, built), at)])

RocksBuilt ==
    /\ pack.pc = "rocks" /\ pack.todo = {}
    /\ Proceed("writeEnv", pack)

\* writeEnv: its error is not looked at, so the file may be missing or cut short.
WriteEnv ==
    /\ pack.pc = "writeEnv"
    /\ \E written \in {{Entry("", "new tt.yaml", "")}, {}} :
          Proceed("sign", [pack EXCEPT !.env = @ \cup written])

\* The packer that goes on once the bundle is prepared.
Packer == IF req.docker THEN "container" ELSE IF req.type = "tgz" THEN "versions" ELSE "tree"

\* signer.Sign: the hashes of all the files that are in the bundle at this point.
SignBundle ==
    /\ pack.pc = "sign"
    /\ \/ req.key /\ Fails
       \/ Proceed(Packer, [pack EXCEPT !.signed = IF req.key THEN pack.env ELSE {}])

(***************************************************************************)
(* The packers                                                             *)
(***************************************************************************)

\* A version as text: numbers joined by dots, perhaps after "v", perhaps with a number of
\* commits and the hash of one.
Version(v, numbers, count, hash) == [v |-> v, numbers |-> numbers, count |-> count, hash |-> hash]
NoVersion == Version(FALSE, <<>>, <<>>, FALSE)
DefaultVersion == Version(FALSE, <<0, 1, 0>>, <<>>, FALSE)
DefaultLongVersion == Version(FALSE, <<0, 1, 0, 0>>, <<>>, FALSE)

\* versionRgxps
Semantic(x) ==
    \/ ~x.v /\ Len(x.numbers) \in 1..3 /\ x.count = <<>> /\ ~x.hash
    \/ ~x.v /\ Len(x.numbers) = 3
    \/ x.v /\ Len(x.numbers) = 3 /\ x.count # <<>> /\ x.hash

\* normalizeGitVersion: major.minor.patch.count, with zeros for what is missing.
NormalizeGitVersion(x) ==
    LET count == IF x.count = <<>> THEN 0 ELSE x.count[1]
    IN  Version(FALSE, [i \in 1..4 |-> IF i = 4 THEN count
                                      ELSE IF i \in DOMAIN x.numbers THEN x.numbers[i] ELSE 0],
                <<>>, FALSE)

\* getVersion: the given version, or what git describes for a single application, normalized
\* in the compat mode when it can be, or the default of the caller.
GetVersion(default) ==
    IF pack.version # <<>> THEN pack.version[1]
    ELSE IF ~Single \/ Environment.git = <<>> THEN default
    ELSE IF req.compat /\ Semantic(Environment.git[1]) THEN NormalizeGitVersion(Environment.git[1])
    ELSE Environment.git[1]

\* Faulty variant: with a name of the user's the version is not asked for.
KeepVersionOfNamed == IF req.compat /\ req.file = "" THEN <<GetVersion(DefaultLongVersion)>> ELSE pack.version

\* In the compat mode getVersion leaves the version in the context, for the VERSION files.
KeepVersion == IF req.compat THEN <<GetVersion(DefaultLongVersion)>> ELSE pack.version

\* getPackageFileName: the given name, or the package's name, version and suffix.  A given name
\* is taken to end in the suffix of its type.
GetPackageFileName(ext) == [base |-> IF req.file # "" THEN req.file ELSE pack.name, ext |-> ext]
NamedVersion == IF req.file # "" THEN <<>> ELSE <<GetVersion(DefaultLongVersion)>>

\* A package file as the packer writes it.
Package(ext, state) ==
    [base |-> GetPackageFileName(ext).base, ext |-> GetPackageFileName(ext).ext, state |-> state,
     req |-> req, name |-> pack.name, apps |-> pack.apps, env |-> pack.env, links |-> pack.links,
     opts |-> pack.opts, signed |-> pack.signed, root |-> pack.root \o pack.envAt,
     units |-> pack.units, owned |-> pack.owned, named |-> NamedVersion, stated |-> pack.stated]

SameFile(p, q) == p.base = q.base /\ p.ext = q.ext
Replace(p) == {q \in packages : ~SameFile(p, q)} \cup {p}

\* Archive packer: in the compat mode VERSION and VERSION.lua are added with the version of the
\* context, or a warning is given.
VersionFiles ==
    /\ pack.pc = "versions"
    /\ \/ Fails
       \/ \E made \in IF req.compat THEN SUBSET {"VERSION", "VERSION.lua"} ELSE {{}} :
             Proceed("tarball", [pack EXCEPT !.env = @ \cup {Entry("", k, "") : k \in made},
                 !.version = KeepVersion,
                 !.stated = {IF KeepVersion = <<>> THEN NoVersion ELSE KeepVersion[1] : k \in made}])

\* Faulty variant: what was written of the tarball stays.
TarballFailsLeaving ==
    packages' = Replace(Package(".gz", "partial"))

\* When the tarball cannot be written its file is removed.
TarballFails ==
    packages' = {q \in packages : ~SameFile(q, Package(".gz", "partial"))}

\* WriteTarArchive for the links of instances.enabled: each is made to lead to the base name of
\* what it resolves to, one directory up; the base name of nothing is ".".
WriteTarArchive(links) ==
    {IF \E e \in pack.env : e.at = l.to THEN l ELSE [l EXCEPT !.to = "."] : l \in links}

\* writeTgzArchive of the archive packer.  The compressor is closed by a deferred call whose
\* error nobody sees: the last block may be missing from a tarball reported as packed.  When the
\* removal after a failure fails too, with a warning, what was written stays ("unremoved").
WriteTarball ==
    /\ pack.pc = "tarball"
    /\ Finish
    /\ UNCHANGED <<hostVar, packCount>>
    /\ \/ TarballFails
       \/ \E state \in {"whole", "truncated", "unremoved"} : packages' = Replace([Package(".gz", state) EXCEPT
                !.links = WriteTarArchive(@)])

\* getTTBinary
GetTTBinary ==
    IF (~Environment.system /\ ~req.withoutBin) \/ req.withBin THEN "packaged" ELSE "tt"

\* systemdUnitFileName: a plain unit for an application with one instance, else a template.
SystemdUnitFileName(a) == [app |-> a, template |-> ~Environment.apps[a].single]

\* systemdExecArgsForApp: the application, or its instance that the template stands for.
SystemdExecArgsForApp(a) == [app |-> a, instance |-> ~Environment.apps[a].single]

\* getUnitParams: the defaults, then the user's file (the application's own before the one of
\* the command line), then the name of the application, which the file cannot change.
GetUnitParams(a) ==
    LET user == Environment.apps[a].params \/ req.params
    IN  [tt |-> IF user THEN "user" ELSE GetTTBinary, config |-> <<"share", pack.name>>,
         args |-> SystemdExecArgsForApp(a)]

\* initSystemdDir: a unit for every application.
InitSystemdDir == {[file |-> SystemdUnitFileName(a), params |-> GetUnitParams(a)] : a \in pack.apps}

\* createArtifactsDirs: the directories of /var the package brings, owned by tarantool.
CreateArtifactsDirs == {<<dir, "tarantool">> : dir \in {"lib", "log", "run"}}

\* Faulty variant: the name of the package is a directory even when the bundle has one.
RootPrefixAlways == <<"share", pack.name>>

\* The directory of the package the bundle is copied to.
RootPrefix == IF Single THEN <<"share">> ELSE <<"share", pack.name>>

\* The tree of a deb or rpm package: the bundle, the units and the artifact directories.
PackageTree ==
    /\ pack.pc = "tree"
    /\ \/ Fails
       \/ Proceed(req.type, [pack EXCEPT !.root = RootPrefix, !.units = InitSystemdDir,
                                         !.owned = CreateArtifactsDirs])

\* debPacker.Run after the tree: the data archive.
DataArchive ==
    /\ pack.pc = "deb"
    /\ \/ Fails
       \/ Proceed("control", [pack EXCEPT !.links = WriteTarArchive(@)])

\* createControlDir and its archive: the control file, and a template for each script the user
\* does not give.  The version has another default than the one in the file name.
CreateControlDir ==
    /\ pack.pc = "control"
    /\ \/ Fails
       \/ Proceed("debian", [pack EXCEPT !.stated = {GetVersion(DefaultVersion)}])

\* createDebianBinary; then ar replaces the members of the result.  The archives in it are
\* written like a tarball, and may be cut short unseen.
PackDeb ==
    /\ pack.pc = "debian"
    /\ \/ Fails
       \/ /\ Finish
          /\ \E state \in {"whole", "truncated"} : packages' = Replace(Package(".deb", state))
          /\ UNCHANGED <<hostVar, packCount>>

\* A link in the tree that leads nowhere makes getFilesInfo fail.
Dangling == {l \in pack.links : \A e \in pack.env : e.at # l.to}

\* version.Parse: three numbers, whatever is around them.
ParseVersion(x) == Len(x.numbers) = 3

\* genRpmHeader puts the numbers of the version into the header.
StatedRpm(state) == [Package(".rpm", state) EXCEPT
    !.stated = {Version(FALSE, GetVersion(DefaultVersion).numbers, <<>>, FALSE)}]

\* rpmPacker.Run after the tree: the sections are made in the directory of the package and
\* merged into the result, unless the version cannot be parsed; a failing merge may leave a part of it.
PackRpm ==
    /\ pack.pc = "rpm"
    /\ \/ Fails
       \/ /\ Dangling = {} /\ ParseVersion(GetVersion(DefaultVersion))
          /\ Finish
          /\ \E state \in {"whole", "partial"} : packages' = Replace(StatedRpm(state))
          /\ UNCHANGED <<hostVar, packCount>>

\* RunContainer: the image is built and a container runs the command line in the bundle.  When
\* the container cannot be created no error is returned.
RunContainer ==
    /\ pack.pc = "container"
    /\ \/ Fails
       \/ Proceed("copyback", pack)

\* The packages the container left in the bundle, if any, are copied to the current directory.
CopyBack ==
    /\ pack.pc = "copyback"
    /\ \/ Fails
       \/ /\ Finish
          /\ packages' \in {packages, Replace(Package(Extension[req.type], "container"))}
          /\ UNCHANGED <<hostVar, packCount>>

PackNext ==
    \/ \E r \in Requests : StartPack(r)
    \/ DockerContext \/ PackageRoot \/ NewSigner \/ PrepareBundle \/ EnvPath \/ CopyBinaries
    \/ \E a \in pack.apps : CopyApplication(a) \/ BuildAppRocks(a)
    \/ ApplicationsCopied \/ CopyArtifacts \/ RocksBuilt \/ WriteEnv \/ SignBundle
    \/ VersionFiles \/ WriteTarball \/ PackageTree \/ DataArchive \/ CreateControlDir \/ PackDeb \/ PackRpm
    \/ RunContainer \/ CopyBack

PackSpec == PackInit /\ [][PackNext]_pvars

\* Requests are well formed; an application with instances that is a directory has code, and
\* the package files in it are those of packages; nobody gives an empty version.
Numbered == [v : BOOLEAN, numbers : Seq(Nat), count : Seq(Nat), hash : BOOLEAN] \ {NoVersion}
Request == [type : DOMAIN Extension, world : STRING, apps : Seq(STRING), name : STRING, file : STRING,
            docker : BOOLEAN, tntVersion : BOOLEAN, compat : BOOLEAN, all : BOOLEAN, key : BOOLEAN,
            withBin : BOOLEAN, withoutBin : BOOLEAN, withoutModules : BOOLEAN, params : BOOLEAN,
            args : Seq(STRING), version : Seq(Numbered)]
ASSUME PackagingAssumption ==
    /\ Requests \subseteq Request
    /\ \A w \in DOMAIN Worlds :
          /\ Worlds[w].git \in Seq(Numbered)
          /\ \A a \in DOMAIN Worlds[w].apps :
                LET x == Worlds[w].apps[a]
                IN x.files \cap {"package", "tt", "tarantool"} = {} /\ (x.instances /\ ~x.script => "code" \in x.files)

(***************************************************************************)
(* Properties                                                              *)
(***************************************************************************)

\* Whatever step of a pack command fails, and when it succeeds, every temporary directory
\* that the command made is removed: the deferred calls of prepareBundle, of the packers and of
\* PackInDocker together leave none.
NoTempLeft == pack.pc = "idle" => tmpdirs = {}

\* A package holds sources and what was built from them: no sockets, no .git, nothing of the tt
\* environment it was packed in, no rockspecs or build scripts, no run-time data unless --all
\* asks for it, and no package that an earlier command built under this name in the same
\* directory.
IsClean(p) ==
    p.state # "container" => \A e \in p.env :
        /\ e.kind \notin DefaultKinds \cup EnvKinds \cup BuildKinds
        /\ e.kind \in ArtifactKinds => p.req.all
        /\ e.kind = "package" => e.base # p.name
PackagesAreClean == \A p \in packages : IsClean(p)

\* Where copyApplications copies an application to, when it has a directory of its own.
CopiedTo(a) == IF Environment.apps[a].script THEN Environment.apps[a].real ELSE a

\* The environment in a package finds every application that was packed: with "." the code is
\* in the environment itself, otherwise instances.enabled has a link that leads to it.  This
\* needs an application directory enabled under its own name, one directory for ".", and
\* scripts that do not resolve to the same base name.
HasCode(env, a, at) == \E e \in env : e.at = at /\ e.kind = "code" /\ e.of = a
FindsApps(p) ==
    \A a \in p.apps :
        LET x == Environment.apps[a]
        IN  IF p.opts.enabled = "." THEN p.apps = {a} /\ ~x.script => HasCode(p.env, a, "")
            ELSE \E l \in p.links :
                    /\ l.name = a
                    /\ /\ x.script \/ x.real = a
                       /\ \A b \in p.apps : CopiedTo(b) = CopiedTo(a) => b = a
                       => HasCode(p.env, a, l.to)
PackedAppsAreFound == \A p \in packages : FindsApps(p)

\* The units of a deb or rpm package fit it: each runs its own application, is a template
\* exactly when it starts one instance of several, points to the directory where the
\* environment is installed, and runs a tt that is in the package unless it is the system's or
\* the user's (for a command line that does not ask for the binaries and for no binaries at
\* once).  The directories of the new options are in the package, owned by the user of the unit.
UnitsFit(p) ==
    p.ext \in {".deb", ".rpm"} /\ p.state # "container" =>
        /\ {u.params.args.app : u \in p.units} = p.apps
        /\ p.opts.vars = "system" => {<<d, "tarantool">> : d \in {"lib", "log", "run"}} \subseteq p.owned
        /\ \A u \in p.units :
              /\ u.file.template = u.params.args.instance
              /\ u.params.config = p.root
              /\ u.params.tt = "packaged" /\ ~(p.req.withBin /\ p.req.withoutBin)
                    => \E e \in p.env : e.at = "bin" /\ e.kind = "tt"
UnitsFitPackage == \A p \in packages : UnitsFit(p)

\* A package says one version: whatever its VERSION files, its control file or its header state
\* is the version in its file name, or the first three numbers of that (the header of an rpm,
\* and the default version); and VERSION files have a version even when the user names the file.
SaysOneVersion(p) ==
    \A x \in p.stated :
        /\ x # NoVersion
        /\ p.named # <<>> =>
              \/ x = p.named[1]
              \/ x.count = <<>> /\ IsPrefix(x.numbers, p.named[1].numbers) /\ Len(x.numbers) = 3
PackageSaysOneVersion == \A p \in packages : SaysOneVersion(p)

\* The signature of a package made with integrity checks covers every file of the bundle:
\* nothing is added to it or changed after it was signed.
SignatureCoversPackage ==
    \A p \in packages : p.req.key => p.env \subseteq p.signed

\* A pack command that fails to write a tarball leaves no part of it behind, unless the removal
\* of that part fails as well.
NoPartialTarball ==
    \A p \in packages : p.state = "partial" => p.req.type = "rpm"

\* What runs in the container is the same command without the docker options, on a bundle that
\* has no binary of the host.
DockerBundleIsBare == pack.pc = "container" => \A e \in pack.env : e.kind \notin {"tt", "tarantool"}
DockerBundleIsPortable ==
    /\ DockerBundleIsBare
    /\ pack.pc = "container" =>
          ToSet(pack.args) \cap {"--use-docker", "--tarantool-version", "2.11.1"} = {}

\* What is in a package belongs there, all of it signed where a key is given, and nothing that
\* was lying about when it was packed; a tarball that could not be written and whatever the
\* package was made in are removed.  (That a tarball reported as packed is not cut short is not
\* said, and does not hold.)
PackageIsComplete == PackagesAreClean /\ SignatureCoversPackage /\ NoPartialTarball /\ NoTempLeft

\* A package fits where it is installed: its applications are found, its units run them, and
\* it is of the version its name says.
PackageFits == PackedAppsAreFound /\ UnitsFitPackage /\ PackageSaysOneVersion

\* A package works where it is installed, and it can be finished in a container.
PackageWorks == PackageFits /\ DockerBundleIsPortable

\* The warning of checkFlags: --all is ignored when the package is not a tarball.
AllFlagIgnored ==
    /\ hostVar = {}
    /\ \A p \in packages : p.req.type # "tgz" => \A e \in p.env : e.kind \notin ArtifactKinds
=============================================================================
