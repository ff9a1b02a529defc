-------------------------- MODULE PackagingProofs ---------------------------
(***************************************************************************)
(* What tt pack guarantees for any environments, command lines, versions   *)
(* and failures, any number of commands one after the other.               *)
(***************************************************************************)
EXTENDS Packaging, SequenceTheorems, TLAPS

-----------------------------------------------------------------------------
(* The pack command.  A package is written at the last step, from what the *)
(* command has gathered since its first: PackInv states, for every program *)
(* point, what the bundle then holds, what is signed, which packer is at   *)
(* work and which versions have been stated, and for every package written *)
(* that it is good.                                                        *)

\* The steps are first-order unless they cite SMT.
USE Zenon

\* The fields of a pack command.
PackFields == {"pc", "req", "apps", "name", "deferred", "todo", "opts", "envAt", "env", "links",
               "signed", "root", "units", "owned", "version", "stated", "args"}

\* The program points of a pack command: before the bundle has its options, until the applications
\* are copied, until they are built, and those of the packers.
Early == {"docker", "root", "signer", "bundle", "env"}
Filling == {"binaries", "apps", "artifacts", "rocks", "writeEnv", "sign"}
OfDeb == {"deb", "control", "debian"}
Packers == {"versions", "tarball", "tree", "rpm", "container", "copyback"} \cup OfDeb

\* What is known of the command line.
Context ==
    /\ req \in Request /\ pack.version \in Seq(Numbered)
    /\ ~(req.key /\ req.compat) /\ (req.compat => req.type = "tgz")
    /\ req.docker => req.withoutBin
    /\ pack.apps \subseteq DOMAIN Environment.apps
    /\ \A a \in pack.apps : Environment.apps[a].instances

\* Which packer is at work.
RouteTo(pc) ==
    /\ pc \in {"rocks"} \cup (Packers \ {"container", "copyback"}) => ~req.docker
    /\ pc \in {"container", "copyback"} => req.docker
    /\ pc \in {"versions", "tarball"} => req.type = "tgz"
    /\ pc = "tree" => req.type \in {"deb", "rpm"}
    /\ pc \in OfDeb => req.type = "deb"
    /\ pc = "rpm" => req.type = "rpm"
Route ==
    /\ pack.pc \in Early \cup Filling \cup Packers /\ RouteTo(pack.pc)
    /\ pack.pc \in Early => pack.env = {} /\ pack.links = {}
    /\ pack.pc \notin Early => pack.opts = CreateNewOpts /\ pack.envAt = UpdateEnvPath

\* What the bundle may hold.
Belongs(e) ==
    /\ e.kind \notin DefaultKinds \cup EnvKinds
    /\ e.kind \in ArtifactKinds => req.all
    /\ e.kind = "package" => e.base # pack.name
    /\ e.kind \in {"tt", "tarantool"} => ~req.withoutBin
BundleHolds == \A e \in pack.env :
    /\ Belongs(e)
    /\ e.kind \in BuildKinds =>
          \/ req.docker
          \/ pack.pc \in {"apps", "artifacts"} /\ \E a \in pack.apps : e.at = GetDestAppDir(a)
          \/ pack.pc = "rocks" /\ \E a \in pack.todo : e.at = GetDestAppDir(a)

\* What it does hold: tt and the code of the applications that are copied.
HasKind(env, at, kind) == \E e \in env : e.at = at /\ e.kind = kind
BinAt == IF req.compat THEN "" ELSE pack.opts.bin
HasTt == pack.pc \notin Early \cup {"binaries"} /\ ~req.withoutBin =>
             HasKind(pack.env, BinAt, "tt")
Dest(a) == IF Environment.apps[a].script THEN Environment.apps[a].real ELSE GetDestAppDir(a)
Copied == IF pack.pc \in Early \cup {"binaries"} THEN {}
          ELSE IF pack.pc = "apps" THEN pack.apps \ pack.todo ELSE pack.apps
Codes == \A a \in Copied :
    (\A b \in pack.apps : Dest(b) = Dest(a) => b = a) => HasCode(pack.env, a, Dest(a))
LinkTo(a, to) == [name |-> a, to |-> to]
Enabled == \A a \in Copied : pack.opts.enabled # "." =>
    LET real == Environment.apps[a].real
    IN  \/ LinkTo(a, real) \in pack.links
        \/ /\ pack.pc \in {"control", "debian"} /\ LinkTo(a, ".") \in pack.links
           /\ \A e \in pack.env : e.at # real

\* What the packers add.
Built == pack.pc \in OfDeb \cup {"rpm"} =>
    pack.root = RootPrefix /\ pack.units = InitSystemdDir /\ pack.owned = CreateArtifactsDirs
Sealed == pack.pc \in Packers /\ req.key => pack.env \subseteq pack.signed
Versioned ==
    /\ pack.pc \notin {"tarball", "debian"} => pack.stated = {}
    /\ pack.pc = "tarball" => \A x \in pack.stated : pack.version # <<>> /\ x = pack.version[1]
    /\ pack.pc = "debian" => pack.stated = {GetVersion(DefaultVersion)}

Running == /\ Context /\ Route /\ BundleHolds /\ HasTt /\ Codes /\ Enabled
           /\ Built /\ Sealed /\ Versioned

\* What is known of a package.
GoodPackage(p) ==
    /\ p.ext \in {".gz", ".deb", ".rpm"}
    /\ IsClean(p) /\ FindsApps(p) /\ UnitsFit(p) /\ SaysOneVersion(p)
    /\ p.req.key => p.env \subseteq p.signed
    /\ p.state = "partial" => p.req.type = "rpm"

PackInv ==
    /\ packWorld \in DOMAIN Worlds /\ tmpdirs = pack.deferred /\ DOMAIN pack = PackFields
    /\ IF pack.pc = "idle" THEN pack = NoPack ELSE Running
    /\ \A p \in packages : GoodPackage(p)

\* What a step that keeps the command and the environment does not change.
LEMMA SameCommand ==
    ASSUME pack'.req = pack.req, pack'.apps = pack.apps, pack'.name = pack.name,
           packWorld' = packWorld
    PROVE  /\ req' = req /\ Environment' = Environment /\ Single' = Single
           /\ CreateNewOpts' = CreateNewOpts /\ UpdateEnvPath' = UpdateEnvPath
           /\ RootPrefix' = RootPrefix /\ InitSystemdDir' = InitSystemdDir
           /\ \A a : GetDestAppDir(a)' = GetDestAppDir(a)
           /\ \A a : Dest(a)' = Dest(a)
           /\ pack'.version = pack.version =>
                 GetVersion(DefaultVersion)' = GetVersion(DefaultVersion)
<1>1. req' = req /\ Environment' = Environment
  BY DEF req, Environment
<1>2. Single' = Single
  BY <1>1 DEF Single
<1>3. \A a : GetDestAppDir(a)' = GetDestAppDir(a)
  BY <1>2 DEF GetDestAppDir
<1>4. \A a : Dest(a)' = Dest(a)
  BY <1>1, <1>3 DEF Dest
<1>5. CreateNewOpts' = CreateNewOpts
  BY <1>1 DEF CreateNewOpts
<1>6. UpdateEnvPath' = UpdateEnvPath /\ RootPrefix' = RootPrefix
  BY <1>2 DEF UpdateEnvPath, RootPrefix
<1>7. InitSystemdDir' = InitSystemdDir
  BY <1>1, ZenonT(60) DEF InitSystemdDir, SystemdUnitFileName, GetUnitParams, GetTTBinary, SystemdExecArgsForApp
<1>8. ASSUME pack'.version = pack.version
      PROVE  GetVersion(DefaultVersion)' = GetVersion(DefaultVersion)
  BY <1>1, <1>2, <1>8 DEF GetVersion, DefaultVersion, Version, NormalizeGitVersion, Semantic
<1>9. QED
  BY <1>1, <1>2, <1>3, <1>4, <1>5, <1>6, <1>7, <1>8

\* What is known of a package stays true while the environment is the same one.
LEMMA PackageKeeps ==
    ASSUME packWorld' = packWorld, NEW p, GoodPackage(p)
    PROVE  GoodPackage(p)'
<1>1. Environment' = Environment
  BY DEF Environment
<1>2. \A a : CopiedTo(a)' = CopiedTo(a)
  BY <1>1 DEF CopiedTo
<1>3. FindsApps(p)'
  <2>1. SUFFICES ASSUME NEW a \in p.apps
                 PROVE  IF p.opts.enabled = "."
                        THEN p.apps = {a} /\ ~Environment.apps[a].script => HasCode(p.env, a, "")
                        ELSE \E l \in p.links :
                            /\ l.name = a
                            /\ /\ Environment.apps[a].script \/ Environment.apps[a].real = a
                               /\ \A b \in p.apps : CopiedTo(b)' = CopiedTo(a)' => b = a
                               => HasCode(p.env, a, l.to)
    BY <1>1 DEF FindsApps, HasCode
  <2>2. QED
    BY <1>2 DEF GoodPackage, FindsApps
<1>4. QED
  BY <1>3 DEF GoodPackage, IsClean, UnitsFit, SaysOneVersion

\* A command that ends, with or without a new package file; one that fails leaves what it found.
LEMMA EndKeeps ==
    ASSUME PackInv, Finish, \A q \in packages' : q \in packages \/ GoodPackage(q)
    PROVE  PackInv'
<1>1. packWorld' = packWorld /\ pack' = NoPack /\ tmpdirs' = {}
  BY DEF Finish, PackInv
<1>2. pack'.pc = "idle" /\ pack'.deferred = {} /\ DOMAIN pack' = PackFields
  BY <1>1 DEF NoPack, PackFields
<1>3. \A q \in packages' : GoodPackage(q)'
  BY <1>1, PackageKeeps DEF PackInv
<1>4. QED
  BY <1>1, <1>2, <1>3 DEF PackInv

\* A failed command (`return err` before the package is written) ends it, and the deferred
\* removals run.
LEMMA FailKeeps ==
    ASSUME PackInv, Fails
    PROVE  PackInv'
BY EndKeeps DEF Fails

\* A step that goes on.
LEMMA MoveKeeps ==
    ASSUME PackInv, packWorld' = packWorld, packages' = packages, pack'.pc # "idle",
           tmpdirs' = pack'.deferred, DOMAIN pack' = PackFields, Running'
    PROVE  PackInv'
BY PackageKeeps DEF PackInv

\* A step before the bundle has its options.
LEMMA EarlyKeeps ==
    ASSUME PackInv, pack.pc \in Early, pack'.pc \in Early, packWorld' = packWorld,
           packages' = packages, tmpdirs' = pack'.deferred, DOMAIN pack' = PackFields,
           \A f \in PackFields \ {"pc", "deferred", "args"} : pack'[f] = pack[f]
    PROVE  PackInv'
<1>1. Running
  BY DEF PackInv, Early
<1>2. /\ pack'.req = pack.req /\ pack'.apps = pack.apps /\ pack'.name = pack.name
      /\ pack'.version = pack.version /\ pack'.env = pack.env /\ pack'.links = pack.links
      /\ pack'.stated = pack.stated
  BY DEF PackFields
<1>3. req' = req /\ Environment' = Environment
  BY <1>2, SameCommand
<1>4. pack'.pc # "idle" /\ pack'.pc \notin Packers \cup {"rocks"} /\ pack'.pc \notin OfDeb
      /\ pack.pc \notin {"tarball", "debian"}
      /\ pack'.pc \notin {"tarball", "debian", "versions", "tree", "rpm", "container", "copyback"}
  BY DEF Early, Packers, OfDeb
<1>5. Context'
  BY <1>1, <1>2, <1>3 DEF Running, Context
<1>6. Route'
  BY <1>1, <1>2, <1>4 DEF Running, Route, RouteTo
<1>7. BundleHolds' /\ HasTt'
  BY <1>1, <1>2 DEF Running, Route, BundleHolds, HasTt
<1>8. Codes' /\ Enabled'
  BY DEF Codes, Enabled, Copied
<1>9. Built' /\ Sealed' /\ Versioned'
  BY <1>1, <1>2, <1>4 DEF Running, Built, Sealed, Versioned
<1>10. Running'
  BY <1>5, <1>6, <1>7, <1>8, <1>9 DEF Running
<1>11. QED
  BY <1>4, <1>10, MoveKeeps

\* MakeTemp defers the removal of what it makes.
LEMMA MakeTempKeeps ==
    ASSUME PackInv, NEW pc \in Early, NEW dir, pack.pc \in Early, MakeTemp(pc, dir)
    PROVE  PackInv'
<1>1. CASE Fails
  BY <1>1, FailKeeps
<1>2. CASE /\ tmpdirs' = tmpdirs \cup {dir}
           /\ pack' = [pack EXCEPT !.pc = pc, !.deferred = @ \cup {dir}]
           /\ UNCHANGED <<packWorld, packages, hostVar, packCount>>
  <2>1. DOMAIN pack = PackFields /\ tmpdirs = pack.deferred
    BY DEF PackInv
  <2>2. /\ pack'.pc = pc /\ pack'.deferred = pack.deferred \cup {dir} /\ DOMAIN pack' = PackFields
        /\ \A f \in PackFields \ {"pc", "deferred", "args"} : pack'[f] = pack[f]
    BY <1>2, <2>1 DEF PackFields
  <2>3. QED
    BY <1>2, <2>1, <2>2, EarlyKeeps
<1>3. QED
  BY <1>1, <1>2 DEF MakeTemp

\* PackInDocker, the signer, and the directories of the package and of its bundle.
LEMMA PreparesKeep ==
    ASSUME PackInv, DockerContext \/ PackageRoot \/ NewSigner \/ PrepareBundle
    PROVE  PackInv'
<1>0. DOMAIN pack = PackFields /\ tmpdirs = pack.deferred
  BY DEF PackInv
<1>1. CASE DockerContext
  <2>1. CASE Fails
    BY <2>1, FailKeeps
  <2>2. CASE /\ tmpdirs' = tmpdirs \cup {"context"}
             /\ pack' = [pack EXCEPT !.pc = "signer", !.deferred = @ \cup {"context"},
                                     !.args = StripDockerArgs(req.args)]
             /\ UNCHANGED <<packWorld, packages, hostVar, packCount>>
    <3>1. /\ pack'.pc = "signer" /\ pack'.deferred = pack.deferred \cup {"context"}
          /\ DOMAIN pack' = PackFields
          /\ \A f \in PackFields \ {"pc", "deferred", "args"} : pack'[f] = pack[f]
      BY <1>0, <2>2 DEF PackFields
    <3>2. pack.pc \in Early /\ pack'.pc \in Early
      BY <1>1, <3>1 DEF DockerContext, Early
    <3>3. QED
      BY <1>0, <2>2, <3>1, <3>2, EarlyKeeps
  <2>3. QED
    BY <1>1, <2>1, <2>2 DEF DockerContext
<1>2. CASE PackageRoot
  BY <1>2, MakeTempKeeps DEF PackageRoot, Early
<1>3. CASE NewSigner
  <2>1. CASE Fails
    BY <2>1, FailKeeps
  <2>2. CASE Proceed("bundle", pack)
    <3>1. /\ pack'.pc = "bundle" /\ pack'.deferred = pack.deferred /\ DOMAIN pack' = PackFields
          /\ \A f \in PackFields \ {"pc", "deferred", "args"} : pack'[f] = pack[f]
      BY <1>0, <2>2 DEF PackFields, Proceed
    <3>2. pack.pc \in Early /\ pack'.pc \in Early
      BY <1>3, <3>1 DEF NewSigner, Early
    <3>3. QED
      BY <1>0, <2>2, <3>1, <3>2, EarlyKeeps DEF Proceed
  <2>3. QED
    BY <1>3, <2>1, <2>2 DEF NewSigner
<1>4. CASE PrepareBundle
  BY <1>4, MakeTempKeeps DEF PrepareBundle, Early
<1>5. QED
  BY <1>1, <1>2, <1>3, <1>4

\* A step after that: the command and the options stay.
LEMMA LateKeeps ==
    ASSUME PackInv, pack.pc \in Filling \cup Packers, pack'.pc \in Filling \cup Packers,
           packWorld' = packWorld, packages' = packages, tmpdirs' = pack'.deferred,
           DOMAIN pack' = PackFields,
           \A f \in {"req", "apps", "name", "opts", "envAt"} : pack'[f] = pack[f],
           pack'.version \in Seq(Numbered), RouteTo(pack'.pc),
           BundleHolds', HasTt', Codes', Enabled', Built', Sealed', Versioned'
    PROVE  PackInv'
<1>1. pack.pc # "idle" /\ pack'.pc # "idle" /\ pack.pc \notin Early /\ pack'.pc \notin Early
  BY DEF Filling, Packers, OfDeb, Early
<1>2. Running
  BY <1>1 DEF PackInv
<1>3. /\ pack'.req = pack.req /\ pack'.apps = pack.apps /\ pack'.name = pack.name
      /\ pack'.opts = pack.opts /\ pack'.envAt = pack.envAt
  OBVIOUS
<1>4. /\ req' = req /\ Environment' = Environment
      /\ CreateNewOpts' = CreateNewOpts /\ UpdateEnvPath' = UpdateEnvPath
  BY <1>3, SameCommand
<1>5. Context'
  BY <1>2, <1>3, <1>4 DEF Running, Context
<1>6. Route'
  BY <1>1, <1>2, <1>3, <1>4 DEF Running, Route, RouteTo
<1>7. Running'
  BY <1>5, <1>6 DEF Running
<1>8. QED
  BY <1>1, <1>7, MoveKeeps

\* The steps of every packer leave what they do not add to.
LEMMA RestKeeps ==
    ASSUME PackInv, pack.pc \in Filling \cup Packers, packWorld' = packWorld,
           \A f \in {"req", "apps", "name", "opts"} : pack'[f] = pack[f]
    PROVE  /\ Running /\ req' = req /\ Environment' = Environment
           /\ \A a : GetDestAppDir(a)' = GetDestAppDir(a)
           /\ \A a : Dest(a)' = Dest(a)
           /\ BinAt' = BinAt
<1>1. pack.pc # "idle"
  BY DEF Filling, Packers, OfDeb
<1>2. /\ pack'.req = pack.req /\ pack'.apps = pack.apps /\ pack'.name = pack.name
      /\ pack'.opts = pack.opts
  OBVIOUS
<1>3. QED
  BY <1>1, <1>2, SameCommand DEF PackInv, BinAt

\* Copying over files (copy.Copy) adds them and no others.
LEMMA OverMembers ==
    ASSUME NEW env, NEW files
    PROVE  CopyOver(env, files) \subseteq env \cup files /\ files \subseteq CopyOver(env, files)
BY DEF CopyOver

\* Copying over files (copy.Copy) loses no kind of file from a directory.
LEMMA OverKind ==
    ASSUME NEW env, NEW files, NEW at, NEW kind, HasKind(env, at, kind)
    PROVE  HasKind(CopyOver(env, files), at, kind)
<1>1. PICK e \in env : e.at = at /\ e.kind = kind
  BY DEF HasKind
<1>2. CASE \A f \in files : <<e.at, e.kind, e.base, e.ext>> # <<f.at, f.kind, f.base, f.ext>>
  BY <1>1, <1>2 DEF CopyOver, HasKind
<1>3. ASSUME NEW f \in files, <<e.at, e.kind, e.base, e.ext>> = <<f.at, f.kind, f.base, f.ext>>
      PROVE  HasKind(CopyOver(env, files), at, kind)
  <2>1. e.at = f.at /\ e.kind = f.kind
    BY <1>3, SMT
  <2>2. QED
    BY <1>1, <2>1 DEF CopyOver, HasKind
<1>4. QED
  BY <1>2, <1>3

\* Copying over files replaces no code but where code is copied.
LEMMA OverCode ==
    ASSUME NEW env, NEW files, NEW a, NEW at, HasCode(env, a, at),
           \A f \in files : f.kind = "code" => f.at # at
    PROVE  HasCode(CopyOver(env, files), a, at)
<1>1. PICK e \in env : e.at = at /\ e.kind = "code" /\ e.of = a
  BY DEF HasCode
<1>2. ASSUME NEW f \in files
      PROVE  <<e.at, e.kind, e.base, e.ext>> # <<f.at, f.kind, f.base, f.ext>>
  <2>1. e.at # f.at \/ e.kind # f.kind
    BY <1>1
  <2>2. QED
    BY <2>1, SMT
<1>3. QED
  BY <1>1, <1>2 DEF CopyOver, HasCode

\* createNewOpts.
LEMMA OptsFields ==
    ASSUME Running, pack.pc \notin Early
    PROVE  /\ pack.opts.enabled = IF Single THEN "." ELSE "instances.enabled"
           /\ ~req.compat => pack.opts.bin = "bin"
BY SMT DEF Running, Route, CreateNewOpts, Single

\* dockerPackCtx changes the two options about binaries.
LEMMA DockerCtxFields ==
    ASSUME NEW r \in Request
    PROVE  /\ DockerCtx(r) \in Request /\ (DockerCtx(r).docker => DockerCtx(r).withoutBin)
           /\ DockerCtx(r).key = r.key /\ DockerCtx(r).compat = r.compat
           /\ DockerCtx(r).type = r.type /\ r.version \in Seq(Numbered)
<1>1. CASE ~r.docker
  <2>1. DockerCtx(r) = r
    BY <1>1 DEF DockerCtx
  <2>2. r.version \in Seq(Numbered)
    BY DEF Request
  <2>3. QED
    BY <1>1, <2>1, <2>2
<1>2. CASE r.docker
  <2>1. DockerCtx(r) = [r EXCEPT !.withoutBin = TRUE, !.withBin = FALSE]
    BY <1>2 DEF DockerCtx
  <2>2. DockerCtx(r) \in Request
    BY <2>1 DEF Request
  <2>3. /\ DockerCtx(r).withoutBin
        /\ DockerCtx(r).key = r.key /\ DockerCtx(r).compat = r.compat
        /\ DockerCtx(r).type = r.type /\ r.version \in Seq(Numbered)
    BY <2>1 DEF Request
  <2>4. QED
    BY <2>2, <2>3
<1>3. QED
  BY <1>1, <1>2

\* FillCtx and the checks of the command line, for a command that begins.
LEMMA StartKeeps ==
    ASSUME PackInv, NEW r \in Requests, StartPack(r)
    PROVE  PackInv'
<1>1. /\ pack = NoPack /\ packWorld' = packWorld /\ tmpdirs' = tmpdirs /\ packages' = packages
      /\ tmpdirs = {}
  <2>1. pack = NoPack /\ packWorld' = packWorld /\ tmpdirs' = tmpdirs /\ packages' = packages
    BY DEF PackInv, StartPack
  <2>2. QED
    BY <2>1 DEF PackInv, NoPack
<1>2. CASE UNCHANGED pack
  <2>1. pack'.pc = "idle" /\ pack' = NoPack
    BY <1>1, <1>2 DEF NoPack
  <2>2. QED
    BY <1>1, <1>2, <2>1, PackageKeeps DEF PackInv
<1>3. ASSUME PackCmd(r), FillCtx(r, Environment), CheckFlags(r),
             pack' = [NoPack EXCEPT
                 !.pc = IF r.docker THEN "docker" ELSE IF r.type = "tgz" THEN "signer" ELSE "root",
                 !.req = <<DockerCtx(r)>>, !.apps = InitAppsInfo(r, Environment),
                 !.name = SetBundleName(r, Environment), !.version = r.version]
      PROVE  PackInv'
  <2>1. /\ pack'.pc = (IF r.docker THEN "docker" ELSE IF r.type = "tgz" THEN "signer" ELSE "root")
        /\ pack'.req = <<DockerCtx(r)>> /\ pack'.apps = InitAppsInfo(r, Environment)
        /\ pack'.version = r.version /\ pack'.env = {} /\ pack'.links = {} /\ pack'.stated = {}
        /\ pack'.deferred = {} /\ DOMAIN pack' = PackFields
    BY <1>3 DEF NoPack, PackFields
  <2>2. req' = DockerCtx(r) /\ Environment' = Environment
    <3>1. req' = <<DockerCtx(r)>>[1]
      BY <2>1 DEF req
    <3>2. <<DockerCtx(r)>>[1] = DockerCtx(r)
      BY SMT
    <3>3. QED
      BY <1>1, <3>1, <3>2 DEF Environment
  <2>3. r \in Request
    BY PackagingAssumption
  <2>4. /\ req' \in Request /\ (req'.docker => req'.withoutBin)
        /\ req'.key = r.key /\ req'.compat = r.compat /\ req'.type = r.type
        /\ r.version \in Seq(Numbered)
    BY <2>2, <2>3, DockerCtxFields
  <2>5. Context'
    <3>1. ~(r.key /\ r.compat) /\ (r.compat => r.type = "tgz")
      BY <1>3 DEF PackCmd, FillCtx
    <3>2. /\ InitAppsInfo(r, Environment) \subseteq DOMAIN Environment.apps
          /\ \A a \in InitAppsInfo(r, Environment) : Environment.apps[a].instances
      BY <1>3 DEF FillCtx, InitAppsInfo
    <3>3. QED
      BY <2>1, <2>2, <2>4, <3>1, <3>2 DEF Context
  <2>6. pack'.pc \in Early
    BY <2>1 DEF Early
  <2>7. /\ pack'.pc # "idle" /\ pack'.pc \notin Packers \cup {"rocks"} /\ pack'.pc \notin OfDeb
        /\ pack'.pc \notin {"tarball", "debian", "versions", "tree", "rpm"}
    BY <2>6 DEF Early, Packers, OfDeb
  <2>8. Route'
    BY <2>1, <2>6, <2>7 DEF Route, RouteTo
  <2>9. BundleHolds' /\ HasTt' /\ Codes' /\ Enabled'
    BY <2>1, <2>6 DEF BundleHolds, HasTt, Codes, Enabled, Copied
  <2>10. Built' /\ Sealed' /\ Versioned'
    BY <2>1, <2>7 DEF Built, Sealed, Versioned
  <2>11. Running'
    BY <2>5, <2>8, <2>9, <2>10 DEF Running
  <2>12. QED
    BY <1>1, <2>1, <2>7, <2>11, MoveKeeps
<1>4. QED
  BY <1>2, <1>3 DEF StartPack

\* updateEnvPath, createNewOpts and copyEnvModules.
LEMMA EnvPathKeeps ==
    ASSUME PackInv, EnvPath
    PROVE  PackInv'
<1>1. CASE Fails
  BY <1>1, FailKeeps
<1>2. ASSUME NEW copied \in CopyEnvModules,
             Proceed("binaries", [pack EXCEPT !.envAt = UpdateEnvPath, !.opts = CreateNewOpts,
                                              !.env = copied])
      PROVE  PackInv'
  <2>1. DOMAIN pack = PackFields /\ tmpdirs = pack.deferred /\ Running /\ pack.pc = "env"
    BY DEF PackInv, EnvPath
  <2>2. pack' = [[pack EXCEPT !.envAt = UpdateEnvPath, !.opts = CreateNewOpts, !.env = copied]
                 EXCEPT !.pc = "binaries"]
        /\ packWorld' = packWorld /\ tmpdirs' = tmpdirs /\ packages' = packages
    BY <1>2 DEF Proceed
  <2>3. /\ pack'.pc = "binaries" /\ pack'.envAt = UpdateEnvPath /\ pack'.opts = CreateNewOpts
        /\ pack'.env = copied /\ DOMAIN pack' = PackFields
        /\ \A f \in PackFields \ {"pc", "envAt", "opts", "env"} : pack'[f] = pack[f]
    BY <2>1, <2>2 DEF PackFields
  <2>4. /\ pack'.req = pack.req /\ pack'.apps = pack.apps /\ pack'.name = pack.name
        /\ pack'.version = pack.version /\ pack'.stated = pack.stated
        /\ pack'.deferred = pack.deferred
    BY <2>3 DEF PackFields
  <2>5. /\ req' = req /\ Environment' = Environment
        /\ CreateNewOpts' = CreateNewOpts /\ UpdateEnvPath' = UpdateEnvPath
    BY <2>2, <2>4, SameCommand
  <2>6. Context'
    BY <2>1, <2>4, <2>5 DEF Running, Context
  <2>7. Route'
    BY <2>3, <2>5 DEF Route, RouteTo, Early, Filling, Packers, OfDeb
  <2>8. \A e \in copied : e.kind = "module"
    <3>1. copied = {} \/ copied = {Entry("modules", "module", "")}
      BY <1>2 DEF CopyEnvModules
    <3>2. Entry("modules", "module", "").kind = "module"
      BY DEF Entry
    <3>3. QED
      BY <3>1, <3>2
  <2>9. BundleHolds'
    BY <2>3, <2>8 DEF BundleHolds, Belongs, DefaultKinds, EnvKinds, ArtifactKinds, BuildKinds
  <2>10. HasTt' /\ Codes' /\ Enabled'
    BY <2>3 DEF HasTt, Codes, Enabled, Copied
  <2>11. Built' /\ Sealed' /\ Versioned'
    BY <2>1, <2>3, <2>4 DEF Running, Built, Sealed, Versioned, OfDeb, Packers
  <2>12. Running' /\ pack'.pc # "idle"
    BY <2>3, <2>6, <2>7, <2>9, <2>10, <2>11 DEF Running
  <2>13. QED
    BY <2>1, <2>2, <2>3, <2>4, <2>12, MoveKeeps
<1>3. QED
  BY <1>1, <1>2 DEF EnvPath

\* The binaries that are copied, and when.
LEMMA BinariesCopied ==
    /\ \A e \in CopiedBinaries : e.kind \in {"tt", "tarantool"} /\ ~req.withoutBin
    /\ ~req.withoutBin => \E e \in CopiedBinaries : e.at = BinAt /\ e.kind = "tt"
<1>1. CASE req.withoutBin
  BY <1>1 DEF CopiedBinaries
<1>2. CASE ~req.withoutBin
  <2>1. /\ Entry(BinAt, "tt", "").kind = "tt" /\ Entry(BinAt, "tt", "").at = BinAt
        /\ Entry(BinAt, "tarantool", "").kind = "tarantool"
    BY DEF Entry
  <2>2. /\ Entry(BinAt, "tt", "") \in CopiedBinaries
        /\ CopiedBinaries \subseteq {Entry(BinAt, "tt", ""), Entry(BinAt, "tarantool", "")}
    BY <1>2 DEF CopiedBinaries, BinAt
  <2>3. QED
    BY <1>2, <2>1, <2>2
<1>3. QED
  BY <1>1, <1>2

\* copyBinaries.
LEMMA CopyBinariesKeeps ==
    ASSUME PackInv, CopyBinaries
    PROVE  PackInv'
<1>1. CASE Fails
  BY <1>1, FailKeeps
<1>2. CASE Proceed("apps", [pack EXCEPT !.env = @ \cup CopiedBinaries, !.todo = pack.apps])
  <2>1. DOMAIN pack = PackFields /\ tmpdirs = pack.deferred /\ pack.pc = "binaries"
    BY DEF PackInv, CopyBinaries
  <2>2. pack' = [[pack EXCEPT !.env = @ \cup CopiedBinaries, !.todo = pack.apps]
                 EXCEPT !.pc = "apps"]
        /\ packWorld' = packWorld /\ tmpdirs' = tmpdirs /\ packages' = packages
    BY <1>2 DEF Proceed
  <2>3. /\ pack'.pc = "apps" /\ pack'.env = pack.env \cup CopiedBinaries /\ pack'.todo = pack.apps
        /\ DOMAIN pack' = PackFields
        /\ \A f \in PackFields \ {"pc", "env", "todo"} : pack'[f] = pack[f]
    BY <2>1, <2>2 DEF PackFields
  <2>4. /\ \A f \in {"req", "apps", "name", "opts", "envAt"} : pack'[f] = pack[f]
        /\ pack'.apps = pack.apps /\ pack'.name = pack.name
        /\ pack'.version = pack.version /\ pack'.stated = pack.stated
        /\ pack'.deferred = pack.deferred
    BY <2>3 DEF PackFields
  <2>5. pack.pc \in Filling \cup Packers /\ pack'.pc \in Filling \cup Packers
    BY <2>1, <2>3 DEF Filling
  <2>6. Running /\ req' = req /\ BinAt' = BinAt
    BY <2>2, <2>4, <2>5, RestKeeps
  <2>7. BundleHolds'
    <3>1. ASSUME NEW e \in pack.env
          PROVE  Belongs(e) /\ (e.kind \in BuildKinds => req.docker)
      BY <2>1, <2>6 DEF Running, BundleHolds
    <3>2. ASSUME NEW e \in CopiedBinaries
          PROVE  Belongs(e) /\ (e.kind \in BuildKinds => req.docker)
      BY <3>2, BinariesCopied DEF Belongs, DefaultKinds, EnvKinds, ArtifactKinds, BuildKinds
    <3>3. QED
      BY <2>3, <2>4, <2>6, <3>1, <3>2 DEF BundleHolds, Belongs
  <2>8. HasTt'
    BY <2>3, <2>6, BinariesCopied DEF HasTt, HasKind
  <2>9. Codes' /\ Enabled'
    BY <2>3, <2>4 DEF Codes, Enabled, Copied, Early
  <2>10. Built' /\ Sealed' /\ Versioned'
    BY <2>1, <2>3, <2>4, <2>6 DEF Running, Built, Sealed, Versioned, OfDeb, Packers
  <2>11. RouteTo(pack'.pc) /\ pack'.version \in Seq(Numbered)
    BY <2>3, <2>4, <2>6 DEF RouteTo, Packers, OfDeb, Running, Context
  <2>12. QED
    BY <2>1, <2>2, <2>3, <2>4, <2>5, <2>7, <2>8, <2>9, <2>10, <2>11, LateKeeps
<1>3. QED
  BY <1>1, <1>2 DEF CopyBinaries

\* The files copyApplications copies for one application: what they are, and that its code is one.
SourceFiles(a) ==
    (IF Environment.apps[a].script THEN {Entry(Environment.apps[a].real, "code", a)} ELSE CopyAppSrc(a))
    \cup (IF Environment.apps[a].script /\ ~req.compat /\ pack.opts.enabled # "."
          THEN {Entry(a, "workdir", a)} ELSE {})

\* copyApplications brings the code of the application to its place, and nothing it skips.
LEMMA SourcesCopied ==
    ASSUME PackInv, Running, NEW a \in pack.apps
    PROVE  /\ \A e \in SourceFiles(a) :
                 /\ Belongs(e) /\ (e.kind \in BuildKinds => e.at = GetDestAppDir(a))
                 /\ e.kind = "code" => e.at = Dest(a)
           /\ HasCode(SourceFiles(a), a, Dest(a))
<1>1. CASE Environment.apps[a].script
  <2> DEFINE c == Entry(Environment.apps[a].real, "code", a)
             d == Entry(a, "workdir", a)
  <2>1. c.kind = "code" /\ c.at = Dest(a) /\ c.of = a /\ d.kind = "workdir"
    BY <1>1 DEF Entry, Dest
  <2>2. SourceFiles(a) \subseteq {c, d} /\ c \in SourceFiles(a)
    BY <1>1 DEF SourceFiles
  <2> HIDE DEF c, d
  <2>3. Belongs(c) /\ Belongs(d) /\ c.kind \notin BuildKinds /\ d.kind \notin BuildKinds
    BY <2>1 DEF Belongs, DefaultKinds, EnvKinds, ArtifactKinds, BuildKinds
  <2>4. QED
    BY <2>1, <2>2, <2>3 DEF HasCode
<1>2. CASE ~Environment.apps[a].script
  <2>1. SourceFiles(a) = CopyAppSrc(a)
    BY <1>2 DEF SourceFiles
  <2>2. Dest(a) = GetDestAppDir(a)
    BY <1>2 DEF Dest
  <2>3. /\ Environment.apps[a].files \cap {"package", "tt", "tarantool"} = {}
        /\ "code" \in Environment.apps[a].files
    <3>1. packWorld \in DOMAIN Worlds /\ a \in DOMAIN Environment.apps /\ Environment.apps[a].instances
      BY DEF PackInv, Running, Context
    <3>2. QED
      BY <1>2, <3>1, PackagingAssumption DEF Environment
  <2>4. ASSUME NEW k \in Environment.apps[a].files, ~AppSrcCopySkip(k)
        PROVE  LET e == Entry(GetDestAppDir(a), k, a)
               IN  Belongs(e) /\ e.at = GetDestAppDir(a) /\ e.kind = k /\ e.of = a
    <3>1. /\ Entry(GetDestAppDir(a), k, a).at = GetDestAppDir(a)
          /\ Entry(GetDestAppDir(a), k, a).kind = k /\ Entry(GetDestAppDir(a), k, a).of = a
      BY DEF Entry
    <3>2. k \notin {"package", "tt", "tarantool"}
      BY <2>3
    <3>3. k \notin DefaultKinds /\ k \notin EnvKinds /\ k \notin ArtifactKinds
      BY <2>4 DEF AppSrcCopySkip
    <3>4. QED
      BY <3>1, <3>2, <3>3 DEF Belongs
  <2>5. ASSUME NEW p \in packages, ~PreviousPackage(p)
        PROVE  Belongs(PackageEntry(p)) /\ PackageEntry(p).kind = "package"
    <3>1. PackageEntry(p).kind = "package" /\ PackageEntry(p).base = p.base
      BY DEF PackageEntry, Entry
    <3>2. p.base # pack.name
      BY <2>5 DEF PreviousPackage, PackInv, GoodPackage
    <3>3. QED
      BY <3>1, <3>2 DEF Belongs, DefaultKinds, EnvKinds, ArtifactKinds
  <2>6. ASSUME NEW e \in CopyAppSrc(a)
        PROVE  /\ Belongs(e) /\ (e.kind \in BuildKinds => e.at = GetDestAppDir(a))
               /\ e.kind = "code" => e.at = Dest(a)
    <3>1. \/ \E k \in Environment.apps[a].files :
                ~AppSrcCopySkip(k) /\ e = Entry(GetDestAppDir(a), k, a)
          \/ \E p \in packages : ~PreviousPackage(p) /\ e = PackageEntry(p)
      BY <2>6 DEF CopyAppSrc
    <3>2. CASE \E k \in Environment.apps[a].files :
                  ~AppSrcCopySkip(k) /\ e = Entry(GetDestAppDir(a), k, a)
      BY <2>2, <2>4, <3>2
    <3>3. CASE \E p \in packages : ~PreviousPackage(p) /\ e = PackageEntry(p)
      <4>1. Belongs(e) /\ e.kind = "package"
        BY <2>5, <3>3
      <4>2. QED
        BY <4>1 DEF BuildKinds
    <3>4. QED
      BY <3>1, <3>2, <3>3
  <2>7. HasCode(CopyAppSrc(a), a, Dest(a))
    <3>1. ~AppSrcCopySkip("code")
      BY DEF AppSrcCopySkip, DefaultKinds, EnvKinds, ArtifactKinds
    <3>2. Entry(GetDestAppDir(a), "code", a) \in CopyAppSrc(a)
      BY <2>3, <3>1 DEF CopyAppSrc
    <3>3. QED
      BY <2>2, <2>3, <2>4, <3>1, <3>2 DEF HasCode
  <2>8. QED
    BY <2>1, <2>6, <2>7
<1>3. QED
  BY <1>1, <1>2

\* copyApplications, one application.
LEMMA CopyApplicationKeeps ==
    ASSUME PackInv, NEW a \in pack.apps, CopyApplication(a)
    PROVE  PackInv'
<1> DEFINE linked == ~req.compat /\ pack.opts.enabled # "."
           links == IF linked THEN pack.links \cup CreateAppSymlink(a) ELSE pack.links
<1>1. CASE Fails
  BY <1>1, FailKeeps
<1>2. CASE Proceed("apps", [pack EXCEPT !.todo = @ \ {a}, !.env = CopyOver(@, SourceFiles(a)),
                                        !.links = links])
  <2> HIDE DEF links
  <2>1. DOMAIN pack = PackFields /\ tmpdirs = pack.deferred /\ pack.pc = "apps" /\ a \in pack.todo
    BY DEF PackInv, CopyApplication
  <2>2. pack' = [[pack EXCEPT !.todo = @ \ {a}, !.env = CopyOver(@, SourceFiles(a)), !.links = links]
                 EXCEPT !.pc = "apps"]
        /\ packWorld' = packWorld /\ tmpdirs' = tmpdirs /\ packages' = packages
    BY <1>2 DEF Proceed
  <2>3. /\ pack'.pc = "apps" /\ pack'.env = CopyOver(pack.env, SourceFiles(a))
        /\ pack'.todo = pack.todo \ {a} /\ pack'.links = links /\ DOMAIN pack' = PackFields
        /\ \A f \in PackFields \ {"pc", "env", "todo", "links"} : pack'[f] = pack[f]
    BY <2>1, <2>2 DEF PackFields
  <2>4. /\ \A f \in {"req", "apps", "name", "opts", "envAt"} : pack'[f] = pack[f]
        /\ pack'.apps = pack.apps /\ pack'.name = pack.name /\ pack'.opts = pack.opts
        /\ pack'.version = pack.version /\ pack'.stated = pack.stated
        /\ pack'.deferred = pack.deferred
    BY <2>3 DEF PackFields
  <2>5. pack.pc \in Filling \cup Packers /\ pack'.pc \in Filling \cup Packers
    BY <2>1, <2>3 DEF Filling
  <2>6. /\ Running /\ req' = req /\ BinAt' = BinAt /\ Environment' = Environment
        /\ \A b : GetDestAppDir(b)' = GetDestAppDir(b)
        /\ \A b : Dest(b)' = Dest(b)
    BY <2>2, <2>4, <2>5, RestKeeps
  <2>7. BundleHolds'
    <3>1. ASSUME NEW e \in pack.env
          PROVE  /\ Belongs(e)
                 /\ e.kind \in BuildKinds => req.docker \/ \E b \in pack.apps : e.at = GetDestAppDir(b)
      BY <2>1, <2>6 DEF Running, BundleHolds
    <3>2. ASSUME NEW e \in SourceFiles(a)
          PROVE  /\ Belongs(e)
                 /\ e.kind \in BuildKinds => req.docker \/ \E b \in pack.apps : e.at = GetDestAppDir(b)
      BY <2>6, SourcesCopied
    <3>3. pack'.env \subseteq pack.env \cup SourceFiles(a)
      BY <2>3, OverMembers, SMT
    <3>4. \A e : Belongs(e)' <=> Belongs(e)
      BY <2>4, <2>6 DEF Belongs
    <3>5. QED
      BY <2>3, <2>4, <2>6, <3>1, <3>2, <3>3, <3>4 DEF BundleHolds
  <2>8. HasTt'
    <3>1. ~req.withoutBin => HasKind(pack.env, BinAt, "tt")
      BY <2>1, <2>6 DEF Running, HasTt, Early
    <3>2. ASSUME ~req.withoutBin
          PROVE  HasKind(pack'.env, BinAt, "tt")
      <4>1. HasKind(pack.env, BinAt, "tt")
        BY <3>1, <3>2
      <4>2. QED
        BY <2>3, <4>1, OverKind, SMT
    <3>3. QED
      BY <2>6, <3>2 DEF HasTt
  <2>9. \A b \in Copied' : b = a \/ (b \in Copied /\ b \notin pack.todo /\ b \in pack.apps)
    BY <2>1, <2>3, <2>4 DEF Copied, Early
  <2>10. Codes'
    <3>1. SUFFICES ASSUME NEW b \in Copied', \A c \in pack.apps : Dest(c) = Dest(b) => c = b
                   PROVE  HasCode(pack'.env, b, Dest(b))
      BY <2>4, <2>6 DEF Codes
    <3>2. CASE b = a
      <4>1. HasCode(SourceFiles(a), a, Dest(a))
        BY <2>6, SourcesCopied
      <4>2. SourceFiles(a) \subseteq pack'.env
        BY <2>3, OverMembers, SMT
      <4>3. QED
        BY <3>2, <4>1, <4>2 DEF HasCode
    <3>3. CASE b # a
      <4>1. HasCode(pack.env, b, Dest(b))
        BY <2>6, <2>9, <3>1, <3>3 DEF Running, Codes
      <4>2. Dest(a) # Dest(b)
        BY <3>1, <3>3
      <4>3. \A f \in SourceFiles(a) : f.kind = "code" => f.at # Dest(b)
        BY <2>6, <4>2, SourcesCopied
      <4>4. QED
        BY <2>3, <4>1, <4>3, OverCode, SMTT(30)
    <3>4. QED
      BY <3>2, <3>3
  <2>11. Enabled'
    <3>1. SUFFICES ASSUME NEW b \in Copied', pack.opts.enabled # "."
                   PROVE  LinkTo(b, Environment.apps[b].real) \in pack'.links
      BY <2>4, <2>6, SMT DEF Enabled
    <3>2. linked
      <4>1. pack.pc \notin Early
        BY <2>1 DEF Early
      <4>2. QED
        BY <2>6, <3>1, <4>1, OptsFields DEF Single
    <3>3. pack'.links = pack.links \cup {LinkTo(a, Environment.apps[a].real)}
      BY <2>3, <3>2 DEF links, CreateAppSymlink, LinkTo
    <3>4. QED
      BY <2>1, <2>6, <2>9, <3>1, <3>3 DEF Running, Enabled
  <2>12. Built' /\ Sealed' /\ Versioned'
    BY <2>1, <2>3, <2>4, <2>6 DEF Running, Built, Sealed, Versioned, OfDeb, Packers
  <2>13. RouteTo(pack'.pc) /\ pack'.version \in Seq(Numbered)
    BY <2>3, <2>4, <2>6 DEF RouteTo, Packers, OfDeb, Running, Context
  <2>14. QED
    BY <2>1, <2>2, <2>3, <2>4, <2>5, <2>7, <2>8, <2>10, <2>11, <2>12, <2>13, LateKeeps
<1>3. QED
  BY <1>1, <1>2 DEF CopyApplication, SourceFiles

\* A step once the applications are copied, that takes away nothing but build files.
Retains(files) ==
    /\ \A f \in files : f.kind # "code"
    /\ \A e \in CopyOver(pack.env, files) : e.kind \notin BuildKinds => e \in pack'.env

\* A step that fills the bundle and keeps what it holds of the applications and binaries.
LEMMA FillKeeps ==
    ASSUME PackInv, pack.pc \in Filling \cup Packers,
           pack.pc \notin {"binaries", "control", "debian"}, pack.pc = "apps" => pack.todo = {},
           pack'.pc \in Filling \cup Packers, pack'.pc \notin {"binaries", "apps"},
           packWorld' = packWorld, packages' = packages, tmpdirs' = pack'.deferred,
           DOMAIN pack' = PackFields,
           \A f \in {"req", "apps", "name", "opts", "envAt", "links"} : pack'[f] = pack[f],
           pack'.version \in Seq(Numbered), RouteTo(pack'.pc),
           NEW files, Retains(files), BundleHolds', Built', Sealed', Versioned'
    PROVE  PackInv'
<1>1. /\ Running /\ req' = req /\ BinAt' = BinAt /\ Environment' = Environment
      /\ \A b : Dest(b)' = Dest(b)
  BY RestKeeps
<1>2. /\ pack'.apps = pack.apps /\ pack'.links = pack.links /\ pack'.opts = pack.opts
      /\ pack.pc \notin Early /\ pack'.pc \notin Early
  BY DEF Filling, Packers, OfDeb, Early
<1>3. Copied = pack.apps /\ Copied' = pack.apps
  BY <1>2 DEF Copied
<1>4. "tt" \notin BuildKinds /\ "code" \notin BuildKinds
  BY DEF BuildKinds
<1>5. HasTt'
  <2>1. ASSUME ~req.withoutBin
        PROVE  HasKind(CopyOver(pack.env, files), BinAt, "tt")
    <3>1. HasKind(pack.env, BinAt, "tt")
      BY <1>1, <1>2, <2>1 DEF Running, HasTt
    <3>2. QED
      BY <3>1, OverKind, SMT
  <2>2. QED
    BY <1>1, <1>4, <2>1 DEF HasTt, HasKind, Retains
<1>6. Codes'
  <2>1. SUFFICES ASSUME NEW b \in pack.apps, \A c \in pack.apps : Dest(c) = Dest(b) => c = b
                 PROVE  HasCode(pack'.env, b, Dest(b))
    BY <1>1, <1>2, <1>3 DEF Codes
  <2>2. HasCode(pack.env, b, Dest(b))
    BY <1>1, <1>3, <2>1 DEF Running, Codes
  <2>3. HasCode(CopyOver(pack.env, files), b, Dest(b))
    <3>1. \A f \in files : f.kind = "code" => f.at # Dest(b)
      BY DEF Retains
    <3>2. QED
      BY <2>2, <3>1, OverCode, SMT
  <2>4. QED
    BY <1>4, <2>3 DEF HasCode, Retains
<1>7. Enabled'
  <2>1. \A b \in pack.apps : pack.opts.enabled # "." =>
            LinkTo(b, Environment.apps[b].real) \in pack.links
    BY <1>1, <1>3 DEF Running, Enabled
  <2>2. QED
    BY <1>1, <1>2, <1>3, <2>1, SMTT(30) DEF Enabled
<1>8. QED
  BY <1>5, <1>6, <1>7, LateKeeps

\* Nothing is lost when nothing is copied.
LEMMA OverNothing ==
    ASSUME NEW env, NEW e \in CopyOver(env, {})
    PROVE  e \in env
BY DEF CopyOver

\* What belongs in the bundle is settled by the command line.
LEMMA BelongsKeeps ==
    ASSUME req' = req, pack'.name = pack.name
    PROVE  \A e : Belongs(e)' <=> Belongs(e)
BY DEF Belongs

\* The end of copyApplications.
LEMMA ApplicationsCopiedKeeps ==
    ASSUME PackInv, ApplicationsCopied
    PROVE  PackInv'
<1>1. DOMAIN pack = PackFields /\ tmpdirs = pack.deferred /\ pack.pc = "apps" /\ pack.todo = {}
  BY DEF PackInv, ApplicationsCopied
<1>2. pack' = [pack EXCEPT !.pc = "artifacts"]
      /\ packWorld' = packWorld /\ tmpdirs' = tmpdirs /\ packages' = packages
  BY DEF Proceed, ApplicationsCopied
<1>3. /\ pack'.pc = "artifacts" /\ DOMAIN pack' = PackFields
      /\ \A f \in PackFields \ {"pc"} : pack'[f] = pack[f]
  BY <1>1, <1>2 DEF PackFields
<1>4. /\ \A f \in {"req", "apps", "name", "opts", "envAt", "links"} : pack'[f] = pack[f]
      /\ pack'.apps = pack.apps /\ pack'.name = pack.name /\ pack'.env = pack.env
      /\ pack'.version = pack.version /\ pack'.stated = pack.stated
      /\ pack'.deferred = pack.deferred
  BY <1>3 DEF PackFields
<1>5. pack.pc \in Filling \cup Packers /\ pack'.pc \in Filling \cup Packers
  BY <1>1, <1>3 DEF Filling
<1>6. Running /\ req' = req /\ \A b : GetDestAppDir(b)' = GetDestAppDir(b)
  BY <1>2, <1>4, <1>5, RestKeeps
<1>7. BundleHolds'
  <2>1. \A e : Belongs(e)' <=> Belongs(e)
    BY <1>4, <1>6, BelongsKeeps
  <2>2. QED
    BY <1>1, <1>3, <1>4, <1>6, <2>1 DEF Running, BundleHolds
<1>8. Built' /\ Sealed' /\ Versioned'
  BY <1>1, <1>3, <1>4, <1>6 DEF Running, Built, Sealed, Versioned, OfDeb, Packers
<1>9. RouteTo(pack'.pc) /\ pack'.version \in Seq(Numbered)
  BY <1>3, <1>4, <1>6 DEF RouteTo, Packers, OfDeb, Running, Context
<1>10. Retains({})
  BY <1>4, OverNothing DEF Retains
<1>11. QED
  BY <1>1, <1>2, <1>3, <1>4, <1>5, <1>7, <1>8, <1>9, <1>10, FillKeeps

\* copyArtifacts.
LEMMA CopyArtifactsKeeps ==
    ASSUME PackInv, CopyArtifacts
    PROVE  PackInv'
<1> DEFINE of(a) == {Entry(ArtifactsDir(a), k, a) : k \in CopiedKinds(Environment.apps[a].files)}
           wanted == UNION {of(a) : a \in pack.apps}
           outside(k) == pack.opts.vars = "system" /\ (k = "log" \/ ~pack.opts.split)
           next == IF req.docker THEN "writeEnv" ELSE "rocks"
<1>1. DOMAIN pack = PackFields /\ tmpdirs = pack.deferred /\ pack.pc = "artifacts"
  BY DEF PackInv, CopyArtifacts
<1>2. PICK copied \in IF req.all THEN {wanted, {}} ELSE {{}} :
          /\ pack' = [pack EXCEPT !.pc = next,
                                  !.env = CopyOver(@, {e \in copied : ~outside(e.kind)}),
                                  !.todo = pack.apps]
          /\ packWorld' = packWorld /\ tmpdirs' = tmpdirs /\ packages' = packages
  BY DEF CopyArtifacts
<1> DEFINE files == {e \in copied : ~outside(e.kind)}
<1>3. \A f \in files : f.kind \in {"log", "wal", "memtx", "vinyl"} /\ req.all
  <2>1. ASSUME NEW f \in files
        PROVE  req.all /\ f \in wanted
    BY <1>2
  <2>2. ASSUME NEW f \in wanted
        PROVE  f.kind \in {"log", "wal", "memtx", "vinyl"}
    <3>1. PICK a \in pack.apps : f \in of(a)
      BY <2>2
    <3>2. PICK k \in CopiedKinds(Environment.apps[a].files) : f = Entry(ArtifactsDir(a), k, a)
      BY <3>1
    <3>3. f.kind = k
      BY <3>2 DEF Entry
    <3>4. QED
      BY <3>2, <3>3 DEF CopiedKinds
  <2>3. QED
    BY <2>1, <2>2
<1> HIDE DEF wanted, files, next
<1>4. /\ pack'.pc = next /\ pack'.env = CopyOver(pack.env, files) /\ pack'.todo = pack.apps
      /\ DOMAIN pack' = PackFields
      /\ \A f \in PackFields \ {"pc", "env", "todo"} : pack'[f] = pack[f]
  BY <1>1, <1>2 DEF PackFields, files
<1>5. /\ \A f \in {"req", "apps", "name", "opts", "envAt", "links"} : pack'[f] = pack[f]
      /\ pack'.apps = pack.apps /\ pack'.name = pack.name
      /\ pack'.version = pack.version /\ pack'.stated = pack.stated
      /\ pack'.deferred = pack.deferred
  BY <1>4 DEF PackFields
<1>6. next \in {"writeEnv", "rocks"} /\ (next = "rocks" <=> ~req.docker)
  BY DEF next
<1>7. pack.pc \in Filling \cup Packers /\ pack'.pc \in Filling \cup Packers
  BY <1>1, <1>4, <1>6 DEF Filling
<1>8. Running /\ req' = req /\ \A b : GetDestAppDir(b)' = GetDestAppDir(b)
  BY <1>2, <1>5, <1>7, RestKeeps
<1>9. BundleHolds'
  <2>1. \A e : Belongs(e)' <=> Belongs(e)
    BY <1>5, <1>8, BelongsKeeps
  <2>2. ASSUME NEW e \in pack.env
        PROVE  /\ Belongs(e)
               /\ e.kind \in BuildKinds => req.docker \/ \E b \in pack.apps : e.at = GetDestAppDir(b)
    BY <1>1, <1>8 DEF Running, BundleHolds
  <2>3. ASSUME NEW e \in files
        PROVE  Belongs(e) /\ e.kind \notin BuildKinds
    BY <1>3 DEF Belongs, DefaultKinds, EnvKinds, ArtifactKinds, BuildKinds
  <2>4. pack'.env \subseteq pack.env \cup files
    BY <1>4, OverMembers, SMT
  <2>5. QED
    BY <1>4, <1>6, <1>8, <2>1, <2>2, <2>3, <2>4 DEF BundleHolds
<1>10. Built' /\ Sealed' /\ Versioned'
  BY <1>1, <1>4, <1>5, <1>6, <1>8 DEF Running, Built, Sealed, Versioned, OfDeb, Packers
<1>11. RouteTo(pack'.pc) /\ pack'.version \in Seq(Numbered)
  BY <1>4, <1>5, <1>6, <1>8 DEF RouteTo, Packers, OfDeb, Running, Context
<1>12. Retains(files)
  BY <1>3, <1>4 DEF Retains
<1>13. /\ pack.pc \notin {"binaries", "control", "debian", "apps"}
       /\ pack'.pc \notin {"binaries", "apps"} /\ tmpdirs' = pack'.deferred
  BY <1>1, <1>2, <1>4, <1>5, <1>6
<1>14. QED
  BY <1>2, <1>4, <1>5, <1>7, <1>9, <1>10, <1>11, <1>12, <1>13, FillKeeps

\* buildAppRocks and cleanupAfterBuild, one application.
LEMMA BuildAppRocksKeeps ==
    ASSUME PackInv, NEW a \in pack.apps, BuildAppRocks(a)
    PROVE  PackInv'
<1> DEFINE at == GetDestAppDir(a)
           built == IF \E e \in pack.env : e.at = at /\ e.kind = "rockspec"
                    THEN {Entry(at, "rock", a)} ELSE {}
           env == CleanupAfterBuild(CopyOver(pack.env, built), at)
<1>1. CASE Fails
  BY <1>1, FailKeeps
<1>2. CASE Proceed("rocks", [pack EXCEPT !.todo = @ \ {a}, !.env = env])
  <2>0. \A f \in built : f.kind = "rock"
    <3>1. Entry(at, "rock", a).kind = "rock"
      BY DEF Entry
    <3>2. QED
      BY <3>1
  <2>1. DOMAIN pack = PackFields /\ tmpdirs = pack.deferred /\ pack.pc = "rocks"
    BY DEF PackInv, BuildAppRocks
  <2>2. \A e : e \in env <=> e \in CopyOver(pack.env, built) /\ ~(e.at = at /\ e.kind \in BuildKinds)
    BY DEF CleanupAfterBuild
  <2> HIDE DEF env, built
  <2>3. pack' = [[pack EXCEPT !.todo = @ \ {a}, !.env = env] EXCEPT !.pc = "rocks"]
        /\ packWorld' = packWorld /\ tmpdirs' = tmpdirs /\ packages' = packages
    BY <1>2 DEF Proceed
  <2>4. /\ pack'.pc = "rocks" /\ pack'.env = env /\ pack'.todo = pack.todo \ {a}
        /\ DOMAIN pack' = PackFields
        /\ \A f \in PackFields \ {"pc", "env", "todo"} : pack'[f] = pack[f]
    BY <2>1, <2>3 DEF PackFields
  <2>5. /\ \A f \in {"req", "apps", "name", "opts", "envAt", "links"} : pack'[f] = pack[f]
        /\ pack'.apps = pack.apps /\ pack'.name = pack.name
        /\ pack'.version = pack.version /\ pack'.stated = pack.stated
        /\ pack'.deferred = pack.deferred
    BY <2>4 DEF PackFields
  <2>6. pack.pc \in Filling \cup Packers /\ pack'.pc \in Filling \cup Packers
    BY <2>1, <2>4 DEF Filling
  <2>7. Running /\ req' = req /\ \A b : GetDestAppDir(b)' = GetDestAppDir(b)
    BY <2>3, <2>5, <2>6, RestKeeps
  <2>8. ~req.docker
    BY <2>1, <2>7 DEF Running, Route, RouteTo
  <2>9. BundleHolds'
    <3>1. \A e : Belongs(e)' <=> Belongs(e)
      BY <2>5, <2>7, BelongsKeeps
    <3>2. ASSUME NEW e \in pack.env
          PROVE  /\ Belongs(e)
                 /\ e.kind \in BuildKinds => \E b \in pack.todo : e.at = GetDestAppDir(b)
      BY <2>1, <2>7, <2>8 DEF Running, BundleHolds
    <3>3. ASSUME NEW e \in built
          PROVE  Belongs(e) /\ e.kind \notin BuildKinds
      BY <2>0 DEF Belongs, DefaultKinds, EnvKinds, ArtifactKinds, BuildKinds
    <3>4. CopyOver(pack.env, built) \subseteq pack.env \cup built
      BY OverMembers
    <3>5. ASSUME NEW e \in env
          PROVE  /\ Belongs(e)
                 /\ e.kind \in BuildKinds => \E b \in pack.todo \ {a} : e.at = GetDestAppDir(b)
      BY <2>2, <3>2, <3>3, <3>4
    <3>6. QED
      BY <2>4, <2>7, <3>1, <3>5 DEF BundleHolds
  <2>10. Built' /\ Sealed' /\ Versioned'
    BY <2>1, <2>4, <2>5, <2>7 DEF Running, Built, Sealed, Versioned, OfDeb, Packers
  <2>11. RouteTo(pack'.pc) /\ pack'.version \in Seq(Numbered)
    BY <2>4, <2>5, <2>7, <2>8 DEF RouteTo, Packers, OfDeb, Running, Context
  <2>12. Retains(built)
    BY <2>0, <2>2, <2>4 DEF Retains
  <2>13. /\ pack.pc \notin {"binaries", "control", "debian", "apps"}
         /\ pack'.pc \notin {"binaries", "apps"} /\ tmpdirs' = pack'.deferred
    BY <2>1, <2>3, <2>4, <2>5
  <2>14. QED
    BY <2>3, <2>4, <2>5, <2>6, <2>9, <2>10, <2>11, <2>12, <2>13, FillKeeps
<1>3. QED
  BY <1>1, <1>2 DEF BuildAppRocks

\* A step that adds nothing but a configuration or version files once everything is built.
Growing == {"rocks", "writeEnv", "sign", "versions", "tree", "container"}
Grown == {"writeEnv", "sign"} \cup Packers

\* A step that only adds files of tt itself to the bundle.
LEMMA GrowKeeps ==
    ASSUME PackInv, pack.pc \in Growing,
           pack.pc = "rocks" => pack.todo = {},
           pack'.pc \in Grown,
           packWorld' = packWorld, packages' = packages, tmpdirs' = pack'.deferred,
           DOMAIN pack' = PackFields,
           \A f \in {"req", "apps", "name", "opts", "envAt", "links"} : pack'[f] = pack[f],
           NEW new, pack'.env = pack.env \cup new,
           \A e \in new : e.kind \in {"new tt.yaml", "VERSION", "VERSION.lua"},
           pack'.version \in Seq(Numbered), RouteTo(pack'.pc), Built', Sealed', Versioned'
    PROVE  PackInv'
<1>1. pack.pc \in Filling \cup Packers /\ pack'.pc \in Filling \cup Packers
  BY DEF Filling, Packers, Growing, Grown
<1>2. /\ pack.pc \notin {"binaries", "apps", "artifacts", "control", "debian"}
      /\ pack'.pc \notin {"binaries", "apps"} /\ pack'.name = pack.name
  BY DEF Packers, OfDeb, Growing, Grown
<1>3. Running /\ req' = req
  BY <1>1, RestKeeps
<1>4. \A e : Belongs(e)' <=> Belongs(e)
  BY <1>2, <1>3, BelongsKeeps
<1>5. ASSUME NEW e \in pack.env
      PROVE  Belongs(e) /\ (e.kind \in BuildKinds => req.docker)
  BY <1>2, <1>3 DEF Running, BundleHolds
<1>6. ASSUME NEW e \in new
      PROVE  Belongs(e) /\ e.kind \notin BuildKinds
  BY DEF Belongs, DefaultKinds, EnvKinds, ArtifactKinds, BuildKinds
<1>7. BundleHolds'
  BY <1>3, <1>4, <1>5, <1>6 DEF BundleHolds
<1>8. Retains({})
  BY OverNothing DEF Retains
<1>9. (pack.pc = "apps" => pack.todo = {}) /\ pack.pc \notin {"binaries", "control", "debian"}
  BY <1>2
<1>10. QED
  BY <1>1, <1>2, <1>7, <1>8, <1>9, FillKeeps

\* The end of the builds, the configuration of the bundle and its signature.
LEMMA RocksBuiltKeeps ==
    ASSUME PackInv, RocksBuilt
    PROVE  PackInv'
<1>1. DOMAIN pack = PackFields /\ tmpdirs = pack.deferred /\ pack.pc = "rocks" /\ pack.todo = {}
  BY DEF PackInv, RocksBuilt
<1>2. pack' = [pack EXCEPT !.pc = "writeEnv"]
      /\ packWorld' = packWorld /\ tmpdirs' = tmpdirs /\ packages' = packages
  BY DEF Proceed, RocksBuilt
<1>3. /\ pack'.pc = "writeEnv" /\ DOMAIN pack' = PackFields
      /\ \A f \in PackFields \ {"pc"} : pack'[f] = pack[f]
  BY <1>1, <1>2 DEF PackFields
<1>4. /\ \A f \in {"req", "apps", "name", "opts", "envAt", "links"} : pack'[f] = pack[f]
      /\ pack'.env = pack.env \cup {} /\ pack'.version = pack.version
      /\ pack'.stated = pack.stated /\ pack'.deferred = pack.deferred
  BY <1>3 DEF PackFields
<1>5. Running
  BY <1>1 DEF PackInv
<1>6. Built' /\ Sealed' /\ Versioned'
  BY <1>1, <1>3, <1>4, <1>5 DEF Running, Built, Sealed, Versioned, OfDeb, Packers
<1>7. RouteTo(pack'.pc) /\ pack'.version \in Seq(Numbered)
  BY <1>3, <1>4, <1>5 DEF RouteTo, Packers, OfDeb, Running, Context
<1>8. pack.pc \in Growing /\ pack'.pc \in Grown /\ tmpdirs' = pack'.deferred
  BY <1>1, <1>2, <1>3, <1>4 DEF Growing, Grown
<1>9. QED
  BY <1>1, <1>2, <1>3, <1>4, <1>6, <1>7, <1>8, GrowKeeps

\* writeEnv adds the new tt.yaml.
LEMMA WriteEnvKeeps ==
    ASSUME PackInv, WriteEnv
    PROVE  PackInv'
<1>1. DOMAIN pack = PackFields /\ tmpdirs = pack.deferred /\ pack.pc = "writeEnv"
  BY DEF PackInv, WriteEnv
<1>2. PICK written \in {{Entry("", "new tt.yaml", "")}, {}} :
          /\ pack' = [[pack EXCEPT !.env = @ \cup written] EXCEPT !.pc = "sign"]
          /\ packWorld' = packWorld /\ tmpdirs' = tmpdirs /\ packages' = packages
  BY DEF Proceed, WriteEnv
<1>3. \A e \in written : e.kind = "new tt.yaml"
  <2>1. Entry("", "new tt.yaml", "").kind = "new tt.yaml"
    BY DEF Entry
  <2>2. QED
    BY <1>2, <2>1
<1>4. /\ pack'.pc = "sign" /\ DOMAIN pack' = PackFields /\ pack'.env = pack.env \cup written
      /\ \A f \in PackFields \ {"pc", "env"} : pack'[f] = pack[f]
  BY <1>1, <1>2 DEF PackFields
<1>5. /\ \A f \in {"req", "apps", "name", "opts", "envAt", "links"} : pack'[f] = pack[f]
      /\ pack'.version = pack.version
      /\ pack'.stated = pack.stated /\ pack'.deferred = pack.deferred
  BY <1>4 DEF PackFields
<1>6. Running
  BY <1>1 DEF PackInv
<1>7. Built' /\ Sealed' /\ Versioned'
  BY <1>1, <1>4, <1>5, <1>6 DEF Running, Built, Sealed, Versioned, OfDeb, Packers
<1>8. RouteTo(pack'.pc) /\ pack'.version \in Seq(Numbered)
  BY <1>4, <1>5, <1>6 DEF RouteTo, Packers, OfDeb, Running, Context
<1>9. pack.pc \in Growing /\ pack'.pc \in Grown /\ tmpdirs' = pack'.deferred
  BY <1>1, <1>2, <1>4, <1>5 DEF Growing, Grown
<1>10. QED
  BY <1>1, <1>2, <1>3, <1>4, <1>5, <1>7, <1>8, <1>9, GrowKeeps

\* signBundle signs what the bundle then holds, when a key was given.
LEMMA SignBundleKeeps ==
    ASSUME PackInv, SignBundle
    PROVE  PackInv'
<1> DEFINE signed == IF req.key THEN pack.env ELSE {}
<1>1. CASE Fails
  BY <1>1, FailKeeps
<1>2. CASE Proceed(Packer, [pack EXCEPT !.signed = signed])
  <2>0. req.key => signed = pack.env
    OBVIOUS
  <2> HIDE DEF signed
  <2>1. DOMAIN pack = PackFields /\ tmpdirs = pack.deferred /\ pack.pc = "sign"
    BY DEF PackInv, SignBundle
  <2>2. pack' = [[pack EXCEPT !.signed = signed] EXCEPT !.pc = Packer]
        /\ packWorld' = packWorld /\ tmpdirs' = tmpdirs /\ packages' = packages
    BY <1>2 DEF Proceed
  <2>3. /\ pack'.pc = Packer /\ DOMAIN pack' = PackFields /\ pack'.signed = signed
        /\ \A f \in PackFields \ {"pc", "signed"} : pack'[f] = pack[f]
    BY <2>1, <2>2 DEF PackFields
  <2>4. /\ \A f \in {"req", "apps", "name", "opts", "envAt", "links"} : pack'[f] = pack[f]
        /\ pack'.env = pack.env /\ pack'.version = pack.version /\ pack'.req = pack.req
        /\ pack'.stated = pack.stated /\ pack'.deferred = pack.deferred
    BY <2>3 DEF PackFields
  <2>5. Running /\ req' = req
    BY <2>1, <2>4 DEF PackInv, req
  <2>6. /\ pack'.pc \in {"container", "versions", "tree"}
        /\ pack'.pc = "container" <=> req.docker
        /\ pack'.pc = "versions" => req.type = "tgz"
        /\ pack'.pc = "tree" => req.type # "tgz"
    BY <2>3 DEF Packer
  <2>7. req.type \in {"tgz", "deb", "rpm"}
    <3>1. req.type \in DOMAIN Extension
      BY <2>5 DEF Running, Context, Request
    <3>2. QED
      BY <3>1 DEF Extension
  <2>8. RouteTo(pack'.pc) /\ pack'.version \in Seq(Numbered)
    BY <2>4, <2>5, <2>6, <2>7 DEF RouteTo, Packers, OfDeb, Running, Context
  <2>9. Built' /\ Sealed' /\ Versioned'
    BY <2>0, <2>1, <2>3, <2>4, <2>5, <2>6 DEF Running, Built, Sealed, Versioned, OfDeb
  <2>10. pack'.pc \in Packers /\ pack'.env = pack.env \cup {}
    BY <2>4, <2>6 DEF Packers
  <2>11. /\ \A e \in {} : e.kind \in {"new tt.yaml", "VERSION", "VERSION.lua"}
         /\ pack'.pc \in Grown /\ tmpdirs' = pack'.deferred /\ pack.pc \in Growing
         /\ pack.pc = "rocks" => pack.todo = {}
    BY <2>1, <2>2, <2>4, <2>10 DEF Growing, Grown
  <2>12. QED
    BY <2>2, <2>3, <2>4, <2>8, <2>9, <2>10, <2>11, GrowKeeps
<1>3. QED
  BY <1>1, <1>2 DEF SignBundle

\* getVersion gives a version, and not the empty one.
LEMMA VersionsAreNumbered ==
    ASSUME PackInv, Running, NEW default \in Numbered
    PROVE  GetVersion(default) \in Numbered
<1>1. CASE pack.version # <<>>
  <2>1. pack.version[1] \in Numbered
    <3>1. pack.version \in Seq(Numbered)
      BY DEF Running, Context
    <3>2. QED
      BY <1>1, <3>1, SMT
  <2>2. QED
    BY <1>1, <2>1 DEF GetVersion
<1>2. CASE pack.version = <<>> /\ (~Single \/ Environment.git = <<>>)
  BY <1>2 DEF GetVersion
<1>3. CASE pack.version = <<>> /\ Single /\ Environment.git # <<>>
  <2>1. Environment.git \in Seq(Numbered)
    BY PackagingAssumption DEF PackInv, Environment
  <2>2. Environment.git[1] \in Numbered
    BY <1>3, <2>1, SMT
  <2>3. ASSUME NEW x \in Numbered
        PROVE  NormalizeGitVersion(x) \in Numbered
    <3>1. x.numbers \in Seq(Nat) /\ x.count \in Seq(Nat)
      BY DEF Numbered
    <3> DEFINE count == IF x.count = <<>> THEN 0 ELSE x.count[1]
               numbers == [i \in 1..4 |-> IF i = 4 THEN count
                                          ELSE IF i \in DOMAIN x.numbers THEN x.numbers[i] ELSE 0]
    <3>2. count \in Nat
      BY <3>1, SMT
    <3> HIDE DEF count
    <3>3. numbers \in Seq(Nat) /\ numbers # <<>>
      BY <3>1, <3>2, SMT
    <3>4. NormalizeGitVersion(x) = [v |-> FALSE, numbers |-> numbers, count |-> <<>>, hash |-> FALSE]
      BY DEF NormalizeGitVersion, Version, count
    <3> HIDE DEF numbers
    <3>5. <<>> \in Seq(Nat)
      BY SMT
    <3> DEFINE y == [v |-> FALSE, numbers |-> numbers, count |-> <<>>, hash |-> FALSE]
    <3>6. y \in [v : BOOLEAN, numbers : Seq(Nat), count : Seq(Nat), hash : BOOLEAN]
      BY <3>3, <3>5
    <3>7. y.numbers # NoVersion.numbers
      BY <3>3 DEF NoVersion, Version
    <3>8. QED
      BY <3>4, <3>6, <3>7 DEF Numbered
  <2>4. QED
    BY <1>3, <2>2, <2>3 DEF GetVersion
<1>4. QED
  BY <1>1, <1>2, <1>3

\* The defaults of the callers are versions.
LEMMA DefaultsAreNumbered == DefaultVersion \in Numbered /\ DefaultLongVersion \in Numbered
<1>1. <<0, 1, 0>> \in Seq(Nat) /\ <<0, 1, 0, 0>> \in Seq(Nat) /\ <<>> \in Seq(Nat)
  BY SMT
<1>2. <<0, 1, 0>> # <<>> /\ <<0, 1, 0, 0>> # <<>>
  BY SMT
<1>3. /\ DefaultVersion \in [v : BOOLEAN, numbers : Seq(Nat), count : Seq(Nat), hash : BOOLEAN]
      /\ DefaultLongVersion \in [v : BOOLEAN, numbers : Seq(Nat), count : Seq(Nat), hash : BOOLEAN]
  BY <1>1 DEF DefaultVersion, DefaultLongVersion, Version
<1>4. DefaultVersion.numbers # NoVersion.numbers /\ DefaultLongVersion.numbers # NoVersion.numbers
  BY <1>2 DEF DefaultVersion, DefaultLongVersion, NoVersion, Version
<1>5. QED
  BY <1>3, <1>4 DEF Numbered

\* The version files of the compat mode: they state the version that is left in the context.
LEMMA VersionFilesKeeps ==
    ASSUME PackInv, VersionFiles
    PROVE  PackInv'
<1>1. CASE Fails
  BY <1>1, FailKeeps
<1>2. ASSUME NEW made \in IF req.compat THEN SUBSET {"VERSION", "VERSION.lua"} ELSE {{}},
             Proceed("tarball", [pack EXCEPT !.env = @ \cup {Entry("", k, "") : k \in made},
                 !.version = KeepVersion,
                 !.stated = {IF KeepVersion = <<>> THEN NoVersion ELSE KeepVersion[1] : k \in made}])
      PROVE  PackInv'
  <2> DEFINE new == {Entry("", k, "") : k \in made}
             said == {IF KeepVersion = <<>> THEN NoVersion ELSE KeepVersion[1] : k \in made}
  <2>1. DOMAIN pack = PackFields /\ tmpdirs = pack.deferred /\ pack.pc = "versions"
    BY DEF PackInv, VersionFiles
  <2>2. Running
    BY <2>1 DEF PackInv
  <2>3. (req.compat => KeepVersion = <<GetVersion(DefaultLongVersion)>>) /\ (~req.compat => made = {})
    BY <1>2 DEF KeepVersion
  <2>4. KeepVersion \in Seq(Numbered)
    <3>1. CASE req.compat
      <4>1. GetVersion(DefaultLongVersion) \in Numbered
        BY <2>2, VersionsAreNumbered, DefaultsAreNumbered
      <4>2. <<GetVersion(DefaultLongVersion)>> \in Seq(Numbered)
        BY <4>1, SMT
      <4>3. QED
        BY <2>3, <3>1, <4>2
    <3>2. CASE ~req.compat
      BY <2>2, <3>2 DEF KeepVersion, Running, Context
    <3>3. QED
      BY <3>1, <3>2
  <2>5. /\ \A e \in new : e.kind \in {"VERSION", "VERSION.lua"} /\ req.compat
        /\ \A x \in said : KeepVersion # <<>> /\ x = KeepVersion[1]
    <3>1. ASSUME NEW k \in made
          PROVE  req.compat /\ k \in {"VERSION", "VERSION.lua"} /\ Entry("", k, "").kind = k
      <4>1. req.compat
        BY <2>3
      <4>2. Entry("", k, "").kind = k
        BY DEF Entry
      <4>3. QED
        BY <1>2, <4>1, <4>2
    <3>2. req.compat => KeepVersion # <<>>
      <4>1. <<GetVersion(DefaultLongVersion)>> # <<>>
        BY SMT
      <4>2. QED
        BY <2>3, <4>1
    <3>3. QED
      BY <3>1, <3>2
  <2> HIDE DEF new, said
  <2>6. pack' = [[pack EXCEPT !.env = @ \cup new, !.version = KeepVersion, !.stated = said]
                 EXCEPT !.pc = "tarball"]
        /\ packWorld' = packWorld /\ tmpdirs' = tmpdirs /\ packages' = packages
    BY <1>2 DEF Proceed, new, said
  <2>7. /\ pack'.pc = "tarball" /\ pack'.env = pack.env \cup new /\ pack'.version = KeepVersion
        /\ pack'.stated = said /\ DOMAIN pack' = PackFields
        /\ \A f \in PackFields \ {"pc", "env", "version", "stated"} : pack'[f] = pack[f]
    BY <2>1, <2>6 DEF PackFields
  <2>8. /\ \A f \in {"req", "apps", "name", "opts", "envAt", "links"} : pack'[f] = pack[f]
        /\ pack'.req = pack.req /\ pack'.signed = pack.signed /\ pack'.deferred = pack.deferred
    BY <2>7 DEF PackFields
  <2>9. req' = req
    BY <2>8 DEF req
  <2>10. RouteTo(pack'.pc)
    BY <2>1, <2>2, <2>7 DEF RouteTo, Packers, OfDeb, Running, Route
  <2>11. Built' /\ Versioned'
    BY <2>5, <2>7 DEF Built, Versioned, OfDeb
  <2>12. Sealed'
    <3>1. req.key => pack.env \subseteq pack.signed /\ ~req.compat
      BY <2>1, <2>2 DEF Running, Sealed, Context, Packers
    <3>2. QED
      BY <2>5, <2>7, <2>8, <2>9, <3>1 DEF Sealed
  <2>13. pack.pc \in Growing /\ pack'.pc \in Grown /\ tmpdirs' = pack'.deferred
    BY <2>1, <2>6, <2>7, <2>8 DEF Growing, Grown, Packers
  <2>14. /\ \A e \in new : e.kind \in {"new tt.yaml", "VERSION", "VERSION.lua"}
         /\ pack.pc = "rocks" => pack.todo = {}
    BY <2>1, <2>5
  <2>15. QED
    BY <2>4, <2>6, <2>7, <2>8, <2>10, <2>11, <2>12, <2>13, <2>14, GrowKeeps
<1>3. QED
  BY <1>1, <1>2 DEF VersionFiles

\* The tree of a deb or rpm package.
LEMMA PackageTreeKeeps ==
    ASSUME PackInv, PackageTree
    PROVE  PackInv'
<1>1. CASE Fails
  BY <1>1, FailKeeps
<1>2. CASE Proceed(req.type, [pack EXCEPT !.root = RootPrefix, !.units = InitSystemdDir,
                                          !.owned = CreateArtifactsDirs])
  <2>1. DOMAIN pack = PackFields /\ tmpdirs = pack.deferred /\ pack.pc = "tree"
    BY DEF PackInv, PackageTree
  <2>2. Running
    BY <2>1 DEF PackInv
  <2>3. req.type \in {"deb", "rpm"} /\ ~req.docker
    BY <2>1, <2>2 DEF Running, Route, RouteTo, Packers
  <2>4. pack' = [[pack EXCEPT !.root = RootPrefix, !.units = InitSystemdDir, !.owned = CreateArtifactsDirs]
                 EXCEPT !.pc = req.type]
        /\ packWorld' = packWorld /\ tmpdirs' = tmpdirs /\ packages' = packages
    BY <1>2 DEF Proceed
  <2>5. /\ pack'.pc = req.type /\ pack'.root = RootPrefix /\ pack'.units = InitSystemdDir
        /\ pack'.owned = CreateArtifactsDirs /\ DOMAIN pack' = PackFields
        /\ \A f \in PackFields \ {"pc", "root", "units", "owned"} : pack'[f] = pack[f]
    BY <2>1, <2>4 DEF PackFields
  <2>6. /\ \A f \in {"req", "apps", "name", "opts", "envAt", "links"} : pack'[f] = pack[f]
        /\ pack'.req = pack.req /\ pack'.apps = pack.apps /\ pack'.name = pack.name
        /\ pack'.signed = pack.signed /\ pack'.deferred = pack.deferred
        /\ pack'.env = pack.env /\ pack'.version = pack.version /\ pack'.stated = pack.stated
    BY <2>5 DEF PackFields
  <2>7. req' = req /\ RootPrefix' = RootPrefix /\ InitSystemdDir' = InitSystemdDir
    BY <2>4, <2>6, SameCommand
  <2>8. RouteTo(pack'.pc) /\ pack'.version \in Seq(Numbered)
    BY <2>2, <2>3, <2>5, <2>6 DEF RouteTo, OfDeb, Running, Context
  <2>9. Built'
    BY <2>5, <2>7 DEF Built, CreateArtifactsDirs
  <2>10. Sealed' /\ Versioned'
    BY <2>1, <2>2, <2>3, <2>5, <2>6, <2>7 DEF Running, Sealed, Versioned, Packers
  <2>11. pack.pc \in Growing /\ pack'.pc \in Grown /\ tmpdirs' = pack'.deferred
    BY <2>1, <2>3, <2>4, <2>5, <2>6 DEF Growing, Grown, Packers, OfDeb
  <2>12. /\ \A e \in {} : e.kind \in {"new tt.yaml", "VERSION", "VERSION.lua"}
         /\ (pack.pc = "rocks" => pack.todo = {}) /\ pack'.env = pack.env \cup {}
    BY <2>1, <2>6
  <2>13. QED
    BY <2>4, <2>5, <2>6, <2>8, <2>9, <2>10, <2>11, <2>12, GrowKeeps
<1>3. QED
  BY <1>1, <1>2 DEF PackageTree

\* The container.
LEMMA RunContainerKeeps ==
    ASSUME PackInv, RunContainer
    PROVE  PackInv'
<1>1. CASE Fails
  BY <1>1, FailKeeps
<1>2. CASE Proceed("copyback", pack)
  <2>1. DOMAIN pack = PackFields /\ tmpdirs = pack.deferred /\ pack.pc = "container"
    BY DEF PackInv, RunContainer
  <2>2. Running
    BY <2>1 DEF PackInv
  <2>3. pack' = [pack EXCEPT !.pc = "copyback"]
        /\ packWorld' = packWorld /\ tmpdirs' = tmpdirs /\ packages' = packages
    BY <1>2 DEF Proceed
  <2>4. /\ pack'.pc = "copyback" /\ DOMAIN pack' = PackFields
        /\ \A f \in PackFields \ {"pc"} : pack'[f] = pack[f]
    BY <2>1, <2>3 DEF PackFields
  <2>5. /\ \A f \in {"req", "apps", "name", "opts", "envAt", "links"} : pack'[f] = pack[f]
        /\ pack'.req = pack.req /\ pack'.signed = pack.signed /\ pack'.deferred = pack.deferred
        /\ pack'.env = pack.env /\ pack'.version = pack.version /\ pack'.stated = pack.stated
    BY <2>4 DEF PackFields
  <2>6. req' = req
    BY <2>5 DEF req
  <2>7. RouteTo(pack'.pc) /\ pack'.version \in Seq(Numbered)
    BY <2>1, <2>2, <2>4, <2>5 DEF RouteTo, OfDeb, Running, Context, Route
  <2>8. Built' /\ Sealed' /\ Versioned'
    BY <2>1, <2>2, <2>4, <2>5, <2>6 DEF Running, Built, Sealed, Versioned, Packers, OfDeb
  <2>9. pack.pc \in Growing /\ pack'.pc \in Grown /\ tmpdirs' = pack'.deferred
    BY <2>1, <2>3, <2>4, <2>5 DEF Growing, Grown, Packers
  <2>10. /\ \A e \in {} : e.kind \in {"new tt.yaml", "VERSION", "VERSION.lua"}
         /\ (pack.pc = "rocks" => pack.todo = {}) /\ pack'.env = pack.env \cup {}
    BY <2>1, <2>5
  <2>11. QED
    BY <2>3, <2>4, <2>5, <2>7, <2>8, <2>9, <2>10, GrowKeeps
<1>3. QED
  BY <1>1, <1>2 DEF RunContainer

\* The archives of a deb package: the bundle stays, its links are made to lead where they can.
LEMMA DebKeeps ==
    ASSUME PackInv, pack.pc \in {"deb", "control"}, pack'.pc \in {"control", "debian"},
           packWorld' = packWorld, packages' = packages, tmpdirs' = pack'.deferred,
           DOMAIN pack' = PackFields,
           \A f \in PackFields \ {"pc", "links", "stated"} : pack'[f] = pack[f],
           Enabled', Versioned'
    PROVE  PackInv'
<1>1. /\ \A f \in {"req", "apps", "name", "opts", "envAt"} : pack'[f] = pack[f]
      /\ pack'.req = pack.req /\ pack'.apps = pack.apps /\ pack'.name = pack.name
      /\ pack'.root = pack.root /\ pack'.units = pack.units /\ pack'.owned = pack.owned
      /\ pack'.signed = pack.signed /\ pack'.env = pack.env /\ pack'.version = pack.version
  BY DEF PackFields
<1>2. /\ pack.pc \in Filling \cup Packers /\ pack'.pc \in Filling \cup Packers
      /\ pack.pc \in Packers /\ pack'.pc \in Packers
  BY DEF Packers, OfDeb
<1>3. pack.pc \in OfDeb /\ pack'.pc \in OfDeb
  BY DEF OfDeb
<1>4. /\ pack.pc \notin Early \cup {"binaries", "apps", "artifacts", "rocks"}
      /\ pack'.pc \notin Early \cup {"binaries", "apps", "artifacts", "rocks"}
  BY DEF Early
<1>5. /\ Running /\ req' = req /\ BinAt' = BinAt
      /\ \A b : Dest(b)' = Dest(b)
  BY <1>1, <1>2, RestKeeps
<1>6. RootPrefix' = RootPrefix /\ InitSystemdDir' = InitSystemdDir
  BY <1>1, SameCommand
<1>7. BundleHolds'
  <2>1. \A e : Belongs(e)' <=> Belongs(e)
    BY <1>1, <1>5, BelongsKeeps
  <2>2. \A e \in pack.env : Belongs(e) /\ (e.kind \in BuildKinds => req.docker)
    BY <1>4, <1>5 DEF Running, BundleHolds
  <2>3. QED
    BY <1>1, <1>5, <2>1, <2>2 DEF BundleHolds
<1>8. HasTt'
  BY <1>1, <1>4, <1>5 DEF Running, HasTt, HasKind
<1>9. Codes'
  <2>1. Copied = pack.apps /\ Copied' = pack.apps
    BY <1>1, <1>4 DEF Copied
  <2>2. QED
    BY <1>1, <1>5, <2>1 DEF Running, Codes, HasCode
<1>10. Built' /\ Sealed'
  BY <1>1, <1>2, <1>3, <1>5, <1>6 DEF Running, Built, Sealed, CreateArtifactsDirs
<1>11. RouteTo(pack'.pc) /\ pack'.version \in Seq(Numbered)
  <2>1. ~req.docker /\ req.type = "deb"
    BY <1>3, <1>5 DEF Running, Route, RouteTo, Packers, OfDeb
  <2>2. QED
    BY <1>1, <1>5, <2>1 DEF RouteTo, Running, Context
<1>12. QED
  BY <1>1, <1>2, <1>7, <1>8, <1>9, <1>10, <1>11, LateKeeps

\* WriteTarArchive: a link still leads to what is in the bundle.
LEMMA LinksLead ==
    ASSUME NEW a, NEW to, LinkTo(a, to) \in pack.links
    PROVE  \/ LinkTo(a, to) \in WriteTarArchive(pack.links)
           \/ LinkTo(a, ".") \in WriteTarArchive(pack.links) /\ \A e \in pack.env : e.at # to
<1>1. LinkTo(a, to).to = to
  BY DEF LinkTo
<1>2. CASE \E e \in pack.env : e.at = to
  BY <1>1, <1>2 DEF WriteTarArchive
<1>3. CASE \A e \in pack.env : e.at # to
  <2>1. [LinkTo(a, to) EXCEPT !.to = "."] \in WriteTarArchive(pack.links)
    BY <1>1, <1>3 DEF WriteTarArchive
  <2>2. [LinkTo(a, to) EXCEPT !.to = "."] = LinkTo(a, ".")
    BY SMT DEF LinkTo
  <2>3. QED
    BY <1>3, <2>1, <2>2
<1>4. QED
  BY <1>2, <1>3

\* debPacker.Run: the data archive and the control files.
LEMMA DataArchiveKeeps ==
    ASSUME PackInv, DataArchive
    PROVE  PackInv'
<1>1. CASE Fails
  BY <1>1, FailKeeps
<1>2. CASE Proceed("control", [pack EXCEPT !.links = WriteTarArchive(@)])
  <2>1. DOMAIN pack = PackFields /\ tmpdirs = pack.deferred /\ pack.pc = "deb" /\ Running
    BY DEF PackInv, DataArchive
  <2>2. pack' = [[pack EXCEPT !.links = WriteTarArchive(@)] EXCEPT !.pc = "control"]
        /\ packWorld' = packWorld /\ tmpdirs' = tmpdirs /\ packages' = packages
    BY <1>2 DEF Proceed
  <2>3. /\ pack'.pc = "control" /\ pack'.links = WriteTarArchive(pack.links)
        /\ DOMAIN pack' = PackFields
        /\ \A f \in PackFields \ {"pc", "links"} : pack'[f] = pack[f]
    BY <2>1, <2>2 DEF PackFields
  <2>4. /\ \A f \in {"req", "apps", "name", "opts"} : pack'[f] = pack[f]
        /\ pack'.apps = pack.apps /\ pack'.opts = pack.opts /\ pack'.env = pack.env
        /\ pack'.stated = pack.stated /\ pack'.deferred = pack.deferred
    BY <2>3 DEF PackFields
  <2>5. Environment' = Environment
    BY <2>2 DEF Environment
  <2>6. Copied = pack.apps /\ Copied' = pack.apps
    BY <2>1, <2>3, <2>4 DEF Copied, Early
  <2>7. Enabled'
    <3>1. ASSUME NEW a \in pack.apps, pack.opts.enabled # "."
          PROVE  \/ LinkTo(a, Environment.apps[a].real) \in pack'.links
                 \/ /\ LinkTo(a, ".") \in pack'.links
                    /\ \A e \in pack.env : e.at # Environment.apps[a].real
      <4>1. LinkTo(a, Environment.apps[a].real) \in pack.links
        BY <2>1, <2>6, <3>1 DEF Running, Enabled
      <4>2. QED
        BY <2>3, <4>1, LinksLead
    <3>2. QED
      BY <2>3, <2>4, <2>5, <2>6, <3>1, SMTT(30) DEF Enabled
  <2>8. Versioned'
    BY <2>1, <2>3, <2>4 DEF Running, Versioned
  <2>9. QED
    BY <2>1, <2>2, <2>3, <2>4, <2>7, <2>8, DebKeeps
<1>3. QED
  BY <1>1, <1>2 DEF DataArchive

\* createControlDir states the version of the package in the control file.
LEMMA CreateControlDirKeeps ==
    ASSUME PackInv, CreateControlDir
    PROVE  PackInv'
<1>1. CASE Fails
  BY <1>1, FailKeeps
<1>2. CASE Proceed("debian", [pack EXCEPT !.stated = {GetVersion(DefaultVersion)}])
  <2>1. DOMAIN pack = PackFields /\ tmpdirs = pack.deferred /\ pack.pc = "control" /\ Running
    BY DEF PackInv, CreateControlDir
  <2>2. pack' = [[pack EXCEPT !.stated = {GetVersion(DefaultVersion)}] EXCEPT !.pc = "debian"]
        /\ packWorld' = packWorld /\ tmpdirs' = tmpdirs /\ packages' = packages
    BY <1>2 DEF Proceed
  <2>3. /\ pack'.pc = "debian" /\ pack'.stated = {GetVersion(DefaultVersion)}
        /\ DOMAIN pack' = PackFields
        /\ \A f \in PackFields \ {"pc", "stated"} : pack'[f] = pack[f]
    BY <2>1, <2>2 DEF PackFields
  <2>4. /\ pack'.req = pack.req /\ pack'.name = pack.name /\ pack'.version = pack.version
        /\ pack'.apps = pack.apps /\ pack'.opts = pack.opts /\ pack'.env = pack.env
        /\ pack'.links = pack.links /\ pack'.deferred = pack.deferred
    BY <2>3 DEF PackFields
  <2>5. Environment' = Environment /\ GetVersion(DefaultVersion)' = GetVersion(DefaultVersion)
    BY <2>2, <2>4, SameCommand
  <2>6. Copied = pack.apps /\ Copied' = pack.apps
    BY <2>1, <2>3, <2>4 DEF Copied, Early
  <2>7. Enabled'
    <3>1. ASSUME NEW a \in pack.apps, pack.opts.enabled # "."
          PROVE  \/ LinkTo(a, Environment.apps[a].real) \in pack'.links
                 \/ /\ LinkTo(a, ".") \in pack'.links
                    /\ \A e \in pack.env : e.at # Environment.apps[a].real
      BY <2>1, <2>4, <2>6, <3>1 DEF Running, Enabled
    <3>2. QED
      BY <2>3, <2>4, <2>5, <2>6, <3>1, SMTT(30) DEF Enabled
  <2>8. Versioned'
    BY <2>3, <2>5 DEF Versioned
  <2>9. QED
    BY <2>1, <2>2, <2>3, <2>4, <2>7, <2>8, DebKeeps
<1>3. QED
  BY <1>1, <1>2 DEF CreateControlDir

\* A package that is made of the bundle, with links that lead where they can.
Leads(links) == \A a \in pack.apps : pack.opts.enabled # "." =>
    \/ LinkTo(a, Environment.apps[a].real) \in links
    \/ LinkTo(a, ".") \in links /\ \A e \in pack.env : e.at # Environment.apps[a].real
Describes(p) ==
    /\ p.req = req /\ p.name = pack.name /\ p.apps = pack.apps /\ p.opts = pack.opts
    /\ p.env = pack.env /\ p.signed = pack.signed
    /\ p.ext \in {".gz", ".deb", ".rpm"} /\ (p.state # "container" => ~req.docker)
    /\ p.state = "partial" => req.type = "rpm"

\* The applications of a package are found in it.
LEMMA AppsFound ==
    ASSUME Running, pack.pc \in Packers, NEW p, Describes(p), Leads(p.links)
    PROVE  FindsApps(p)
<1>1. pack.pc \notin Early /\ Copied = pack.apps
  BY DEF Packers, OfDeb, Early, Copied
<1>2. \A a \in pack.apps : (\A b \in pack.apps : Dest(b) = Dest(a) => b = a)
                               => HasCode(pack.env, a, Dest(a))
  BY <1>1 DEF Running, Codes
<1>3. (pack.opts.enabled = "." => Single) /\ (pack.opts.enabled # "." => ~Single)
  BY <1>1, OptsFields
<1>4. SUFFICES ASSUME NEW a \in pack.apps
               PROVE  IF pack.opts.enabled = "."
                      THEN pack.apps = {a} /\ ~Environment.apps[a].script => HasCode(pack.env, a, "")
                      ELSE \E l \in p.links :
                          /\ l.name = a
                          /\ /\ Environment.apps[a].script \/ Environment.apps[a].real = a
                             /\ \A b \in pack.apps : CopiedTo(b) = CopiedTo(a) => b = a
                             => HasCode(pack.env, a, l.to)
  BY DEF FindsApps, Describes
<1>5. ASSUME pack.opts.enabled = ".", pack.apps = {a}, ~Environment.apps[a].script
      PROVE  HasCode(pack.env, a, "")
  <2>1. Dest(a) = ""
    BY <1>3, <1>5 DEF Dest, GetDestAppDir
  <2>2. QED
    BY <1>2, <1>5, <2>1
<1>6. ASSUME pack.opts.enabled # "."
      PROVE  \E l \in p.links :
                 /\ l.name = a
                 /\ /\ Environment.apps[a].script \/ Environment.apps[a].real = a
                    /\ \A b \in pack.apps : CopiedTo(b) = CopiedTo(a) => b = a
                    => HasCode(pack.env, a, l.to)
  <2> DEFINE real == Environment.apps[a].real
  <2>1. \A b : Dest(b) = CopiedTo(b)
    BY <1>3, <1>6 DEF Dest, GetDestAppDir, CopiedTo
  <2>2. ASSUME Environment.apps[a].script \/ real = a,
               \A b \in pack.apps : CopiedTo(b) = CopiedTo(a) => b = a
        PROVE  HasCode(pack.env, a, real)
    <3>1. CopiedTo(a) = real
      BY <2>2 DEF CopiedTo
    <3>2. QED
      BY <1>2, <2>1, <2>2, <3>1
  <2> HIDE DEF real
  <2>3. \A to : LinkTo(a, to).name = a /\ LinkTo(a, to).to = to
    BY DEF LinkTo
  <2>4. CASE LinkTo(a, real) \in p.links
    BY <2>2, <2>3, <2>4 DEF real
  <2>5. CASE LinkTo(a, ".") \in p.links /\ \A e \in pack.env : e.at # real
    <3>1. ~HasCode(pack.env, a, real)
      BY <2>5 DEF HasCode
    <3>2. QED
      BY <2>2, <2>3, <2>5, <3>1 DEF real
  <2>6. QED
    BY <1>6, <2>4, <2>5 DEF real, Leads
<1>7. QED
  BY <1>5, <1>6

\* Two sequences of one element make a pair.
LEMMA Pairing ==
    ASSUME NEW x, NEW y
    PROVE  <<x>> \o <<y>> = <<x, y>>
<1> DEFINE c == <<x>> \o <<y>>
<1>1. c \in Seq({x, y}) /\ Len(c) = 2
  BY SMT
<1>2. <<x, y>> \in Seq({x, y}) /\ Len(<<x, y>>) = 2
  BY SMT
<1>3. \A i \in 1..2 : c[i] = <<x, y>>[i]
  BY SMT
<1> HIDE DEF c
<1>4. c = <<x, y>>
  BY <1>1, <1>2, <1>3, SeqEqual
<1>5. QED
  BY <1>4 DEF c

\* The units of a package fit it.
LEMMA UnitsAreFit ==
    ASSUME Running, pack.pc \in OfDeb \cup {"rpm"}, NEW p,
           p.apps = pack.apps, p.units = pack.units, p.owned = pack.owned, p.env = pack.env,
           p.req = req, p.root = pack.root \o pack.envAt
    PROVE  UnitsFit(p)
<1>1. /\ pack.root = RootPrefix /\ pack.units = InitSystemdDir /\ pack.owned = CreateArtifactsDirs
      /\ pack.pc \notin Early /\ pack.pc \notin Early \cup {"binaries"}
  BY DEF Running, Built, OfDeb, Early
<1>2. p.root = <<"share", pack.name>>
  <2>1. pack.envAt = UpdateEnvPath
    BY <1>1 DEF Running, Route
  <2>2. CASE Single
    <3>1. pack.root = <<"share">> /\ pack.envAt = <<pack.name>>
      BY <1>1, <2>1, <2>2 DEF RootPrefix, UpdateEnvPath
    <3>2. <<"share">> \o <<pack.name>> = <<"share", pack.name>>
      BY Pairing
    <3>3. p.root = <<"share">> \o <<pack.name>>
      BY <3>1
    <3>4. QED
      BY <3>2, <3>3
  <2>3. CASE ~Single
    <3>1. pack.root = <<"share", pack.name>> /\ pack.envAt = <<>>
      BY <1>1, <2>1, <2>3 DEF RootPrefix, UpdateEnvPath
    <3>2. <<"share", pack.name>> \o <<>> = <<"share", pack.name>>
      BY SMTT(30)
    <3>3. p.root = <<"share", pack.name>> \o <<>>
      BY <3>1
    <3>4. QED
      BY <3>2, <3>3
  <2>4. QED
    BY <2>2, <2>3
<1>3. ~req.compat
  <2>1. req.type # "tgz"
    BY DEF Running, Route, RouteTo, OfDeb
  <2>2. QED
    BY <2>1 DEF Running, Context
<1>4. ~req.withoutBin => \E e \in pack.env : e.at = "bin" /\ e.kind = "tt"
  <2>1. pack.opts.bin = "bin" /\ BinAt = "bin"
    BY <1>1, <1>3, OptsFields DEF BinAt
  <2>2. QED
    BY <1>1, <2>1 DEF Running, HasTt, HasKind
<1>5. ASSUME NEW a \in pack.apps
      PROVE  LET u == [file |-> SystemdUnitFileName(a), params |-> GetUnitParams(a)]
             IN  /\ u.params.args.app = a /\ u.file.template = u.params.args.instance
                 /\ u.params.config = <<"share", pack.name>>
                 /\ u.params.tt = "packaged" => ~req.withoutBin \/ req.withBin
  <2>1. /\ GetUnitParams(a).args = SystemdExecArgsForApp(a)
        /\ GetUnitParams(a).config = <<"share", pack.name>>
        /\ GetUnitParams(a).tt \in {"user", GetTTBinary}
    BY DEF GetUnitParams
  <2>2. /\ SystemdExecArgsForApp(a).app = a
        /\ SystemdUnitFileName(a).template = SystemdExecArgsForApp(a).instance
    BY DEF SystemdExecArgsForApp, SystemdUnitFileName
  <2>3. GetTTBinary = "packaged" => ~req.withoutBin \/ req.withBin
    BY DEF GetTTBinary
  <2>4. QED
    BY <2>1, <2>2, <2>3
<1>6. \A u \in p.units : \E a \in pack.apps :
          u = [file |-> SystemdUnitFileName(a), params |-> GetUnitParams(a)]
  BY <1>1 DEF InitSystemdDir
<1>7. {u.params.args.app : u \in p.units} = pack.apps
  <2>1. ASSUME NEW a \in pack.apps
        PROVE  \E u \in p.units : u.params.args.app = a
    BY <1>1, <1>5 DEF InitSystemdDir
  <2>2. \A u \in p.units : u.params.args.app \in pack.apps
    BY <1>5, <1>6, ZenonT(60)
  <2>3. QED
    BY <2>1, <2>2
<1>8. ASSUME NEW u \in p.units
      PROVE  /\ u.file.template = u.params.args.instance
             /\ u.params.config = p.root
             /\ u.params.tt = "packaged" /\ ~(p.req.withBin /\ p.req.withoutBin)
                   => \E e \in p.env : e.at = "bin" /\ e.kind = "tt"
  BY <1>2, <1>4, <1>5, <1>6
<1>9. {<<d, "tarantool">> : d \in {"lib", "log", "run"}} \subseteq p.owned
  BY <1>1 DEF CreateArtifactsDirs
<1>10. QED
  BY <1>7, <1>8, <1>9 DEF UnitsFit

\* What makes a package a good one.
LEMMA GoodFrom ==
    ASSUME Running, pack.pc \in Packers, NEW p, Describes(p), Leads(p.links),
           UnitsFit(p), SaysOneVersion(p)
    PROVE  GoodPackage(p)
<1>1. FindsApps(p)
  BY AppsFound
<1>2. pack.pc \notin {"apps", "artifacts", "rocks"}
  BY DEF Packers, OfDeb
<1>3. \A e \in pack.env : Belongs(e) /\ (e.kind \in BuildKinds => req.docker)
  BY <1>2 DEF Running, BundleHolds
<1>4. IsClean(p)
  BY <1>3 DEF IsClean, Belongs, Describes
<1>5. req.key => pack.env \subseteq pack.signed
  BY DEF Running, Sealed
<1>6. QED
  BY <1>1, <1>4, <1>5 DEF GoodPackage, Describes

\* The fields of a package file.
OfPackage == {"base", "ext", "state", "req", "name", "apps", "env", "links", "opts", "signed", "root",
              "units", "owned", "named", "stated"}

\* getPackageFileName gives the extension asked for.
LEMMA FileExtension ==
    ASSUME NEW ext \in {".gz", ".deb", ".rpm"}
    PROVE  GetPackageFileName(ext).ext = ext
BY DEF GetPackageFileName

\* Before the packers have rewritten the links, they lead to the applications.
LEMMA LinksRaw ==
    ASSUME Running, pack.pc \in Packers, pack.pc \notin {"control", "debian"}
    PROVE  Leads(pack.links) /\ Leads(WriteTarArchive(pack.links))
<1>1. Copied = pack.apps
  BY DEF Packers, OfDeb, Early, Copied
<1>2. \A a \in pack.apps : pack.opts.enabled # "." =>
          LinkTo(a, Environment.apps[a].real) \in pack.links
  BY <1>1 DEF Running, Enabled
<1>3. QED
  BY <1>2, LinksLead DEF Leads

\* The tarball: its version files state the version in its name.
LEMMA WriteTarballKeeps ==
    ASSUME PackInv, WriteTarball
    PROVE  PackInv'
<1>1. CASE TarballFails
  BY <1>1, EndKeeps DEF TarballFails, WriteTarball
<1>2. ASSUME NEW state \in {"whole", "truncated", "unremoved"},
             packages' = Replace([Package(".gz", state) EXCEPT !.links = WriteTarArchive(@)])
      PROVE  PackInv'
  <2> DEFINE p == [Package(".gz", state) EXCEPT !.links = WriteTarArchive(@)]
  <2>1. Running /\ pack.pc = "tarball" /\ pack.pc \in Packers /\ pack.pc \notin {"control", "debian"}
    BY DEF PackInv, WriteTarball, Packers
  <2> DEFINE q == Package(".gz", state)
  <2>2. /\ q.ext = GetPackageFileName(".gz").ext /\ q.state = state /\ q.req = req
        /\ q.name = pack.name /\ q.apps = pack.apps /\ q.env = pack.env
        /\ q.opts = pack.opts /\ q.signed = pack.signed /\ q.links = pack.links
        /\ q.named = NamedVersion /\ q.stated = pack.stated /\ DOMAIN q = OfPackage
    BY DEF Package, OfPackage
  <2>3. /\ p.links = WriteTarArchive(pack.links)
        /\ \A f \in OfPackage \ {"links"} : p[f] = q[f]
    BY <2>2 DEF OfPackage
  <2> HIDE DEF p, q
  <2>4. /\ p.ext = GetPackageFileName(".gz").ext /\ p.state = state /\ p.req = req
        /\ p.name = pack.name /\ p.apps = pack.apps /\ p.env = pack.env
        /\ p.opts = pack.opts /\ p.signed = pack.signed
        /\ p.named = NamedVersion /\ p.stated = pack.stated
    BY <2>2, <2>3 DEF OfPackage
  <2>5. p.ext = ".gz"
    BY <2>4, FileExtension
  <2>6. UnitsFit(p)
    BY <2>5 DEF UnitsFit
  <2>7. SaysOneVersion(p)
    <3>1. ASSUME NEW x \in pack.stated
          PROVE  x # NoVersion /\ (NamedVersion # <<>> => x = NamedVersion[1])
      <4>1. pack.version # <<>> /\ x = pack.version[1]
        BY <2>1 DEF Running, Versioned
      <4>2. pack.version \in Seq(Numbered)
        BY <2>1 DEF Running, Context
      <4>3. pack.version[1] \in Numbered
        BY <4>1, <4>2, SMT
      <4>4. GetVersion(DefaultLongVersion) = pack.version[1]
        BY <4>1 DEF GetVersion
      <4>5. NamedVersion # <<>> => NamedVersion = <<GetVersion(DefaultLongVersion)>>
        BY DEF NamedVersion
      <4>6. <<GetVersion(DefaultLongVersion)>>[1] = GetVersion(DefaultLongVersion)
        BY SMT
      <4>7. QED
        BY <4>1, <4>3, <4>4, <4>5, <4>6 DEF Numbered
    <3>2. QED
      BY <2>4, <3>1 DEF SaysOneVersion
  <2>8. Leads(p.links)
    BY <2>1, <2>3, LinksRaw
  <2>9. Describes(p)
    <3>1. ~req.docker
      BY <2>1 DEF Running, Route, RouteTo, Packers
    <3>2. QED
      BY <1>2, <2>4, <2>5, <3>1 DEF Describes
  <2>10. GoodPackage(p)
    BY <2>1, <2>6, <2>7, <2>8, <2>9, GoodFrom
  <2>11. packages' \subseteq packages \cup {p}
    BY <1>2 DEF Replace, p
  <2>12. QED
    BY <2>10, <2>11, EndKeeps DEF WriteTarball
<1>3. QED
  BY <1>1, <1>2 DEF WriteTarball

\* The two defaults of getVersion: what the file name and the control data say is one version, or
\* both are defaults, of which one continues the other.
LEMMA VersionsAgree ==
    LET x == GetVersion(DefaultVersion)
        y == GetVersion(DefaultLongVersion)
    IN  x = y \/ (x.count = <<>> /\ Len(x.numbers) = 3 /\ IsPrefix(x.numbers, y.numbers))
<1>1. CASE pack.version = <<>> /\ (~Single \/ Environment.git = <<>>)
  <2>1. GetVersion(DefaultVersion) = DefaultVersion /\ GetVersion(DefaultLongVersion) = DefaultLongVersion
    BY <1>1 DEF GetVersion
  <2>2. DefaultVersion.count = <<>> /\ DefaultVersion.numbers = <<0, 1, 0>>
        /\ DefaultLongVersion.numbers = <<0, 1, 0, 0>>
    BY DEF DefaultVersion, DefaultLongVersion, Version
  <2>3. Len(<<0, 1, 0>>) = 3 /\ IsPrefix(<<0, 1, 0>>, <<0, 1, 0, 0>>)
    <3>1. Len(<<0, 1, 0>>) = 3 /\ Len(<<0, 1, 0>>) <= Len(<<0, 1, 0, 0>>)
      BY SMT
    <3>2. SubSeq(<<0, 1, 0>>, 1, 3) = SubSeq(<<0, 1, 0, 0>>, 1, 3)
      BY SMTT(30)
    <3>3. QED
      BY <3>1, <3>2 DEF IsPrefix
  <2>4. QED
    BY <2>1, <2>2, <2>3
<1>2. CASE ~(pack.version = <<>> /\ (~Single \/ Environment.git = <<>>))
  BY <1>2 DEF GetVersion
<1>3. QED
  BY <1>1, <1>2

\* The version in the name of a package file.
LEMMA NamedAfter ==
    NamedVersion # <<>> => NamedVersion[1] = GetVersion(DefaultLongVersion)
<1>1. <<GetVersion(DefaultLongVersion)>>[1] = GetVersion(DefaultLongVersion)
  BY SMT
<1>2. QED
  BY <1>1 DEF NamedVersion

\* The deb package.
LEMMA PackDebKeeps ==
    ASSUME PackInv, PackDeb
    PROVE  PackInv'
<1>1. CASE Fails
  BY <1>1, FailKeeps
<1>2. ASSUME Finish, NEW state \in {"whole", "truncated"}, packages' = Replace(Package(".deb", state))
      PROVE  PackInv'
  <2> DEFINE p == Package(".deb", state)
  <2>1. Running /\ pack.pc = "debian" /\ pack.pc \in Packers /\ pack.pc \in OfDeb
    BY DEF PackInv, PackDeb, Packers, OfDeb
  <2>2. /\ p.ext = GetPackageFileName(".deb").ext /\ p.state = state /\ p.req = req
        /\ p.name = pack.name /\ p.apps = pack.apps /\ p.env = pack.env
        /\ p.opts = pack.opts /\ p.signed = pack.signed /\ p.links = pack.links
        /\ p.named = NamedVersion /\ p.stated = pack.stated
        /\ p.root = pack.root \o pack.envAt /\ p.units = pack.units /\ p.owned = pack.owned
    BY DEF Package
  <2>3. p.ext = ".deb"
    BY <2>2, FileExtension
  <2> HIDE DEF p
  <2>4. UnitsFit(p)
    BY <2>1, <2>2, UnitsAreFit
  <2>5. SaysOneVersion(p)
    <3>1. pack.stated = {GetVersion(DefaultVersion)}
      BY <2>1 DEF Running, Versioned
    <3>2. GetVersion(DefaultVersion) # NoVersion
      BY <2>1, VersionsAreNumbered, DefaultsAreNumbered DEF Numbered
    <3>3. QED
      BY <2>2, <3>1, <3>2, VersionsAgree, NamedAfter DEF SaysOneVersion
  <2>6. Leads(p.links)
    <3>1. Copied = pack.apps
      BY <2>1 DEF Copied, Early
    <3>2. QED
      BY <2>1, <2>2, <3>1 DEF Running, Enabled, Leads
  <2>7. Describes(p)
    <3>1. ~req.docker
      BY <2>1 DEF Running, Route, RouteTo, Packers
    <3>2. QED
      BY <1>2, <2>2, <2>3, <3>1 DEF Describes
  <2>8. GoodPackage(p)
    BY <2>1, <2>4, <2>5, <2>6, <2>7, GoodFrom
  <2>9. packages' \subseteq packages \cup {p}
    BY <1>2 DEF Replace, p
  <2>10. QED
    BY <1>2, <2>8, <2>9, EndKeeps
<1>3. QED
  BY <1>1, <1>2 DEF PackDeb

\* The rpm package: its header has the numbers of the version.
LEMMA PackRpmKeeps ==
    ASSUME PackInv, PackRpm
    PROVE  PackInv'
<1>1. CASE Fails
  BY <1>1, FailKeeps
<1>2. ASSUME ParseVersion(GetVersion(DefaultVersion)), Finish, NEW state \in {"whole", "partial"},
             packages' = Replace(StatedRpm(state))
      PROVE  PackInv'
  <2> DEFINE q == Package(".rpm", state)
             p == StatedRpm(state)
             header == Version(FALSE, GetVersion(DefaultVersion).numbers, <<>>, FALSE)
  <2>1. Running /\ pack.pc = "rpm" /\ pack.pc \in Packers /\ pack.pc \notin {"control", "debian"}
    BY DEF PackInv, PackRpm, Packers
  <2>2. /\ q.ext = GetPackageFileName(".rpm").ext /\ q.state = state /\ q.req = req
        /\ q.name = pack.name /\ q.apps = pack.apps /\ q.env = pack.env
        /\ q.opts = pack.opts /\ q.signed = pack.signed /\ q.links = pack.links
        /\ q.named = NamedVersion /\ DOMAIN q = OfPackage
        /\ q.root = pack.root \o pack.envAt /\ q.units = pack.units /\ q.owned = pack.owned
    BY DEF Package, OfPackage
  <2>3. q.ext = ".rpm"
    BY <2>2, FileExtension
  <2>4. p = [q EXCEPT !.stated = {header}]
    BY DEF StatedRpm
  <2>5. header.numbers = GetVersion(DefaultVersion).numbers /\ header.count = <<>>
    BY DEF Version
  <2>6. NoVersion.numbers = <<>>
    BY DEF NoVersion, Version
  <2> HIDE DEF p, q, header
  <2>7. /\ p.stated = {header}
        /\ \A f \in OfPackage \ {"stated"} : p[f] = q[f]
    BY <2>2, <2>4 DEF OfPackage
  <2>8. /\ p.ext = ".rpm" /\ p.state = state /\ p.req = req
        /\ p.name = pack.name /\ p.apps = pack.apps /\ p.env = pack.env
        /\ p.opts = pack.opts /\ p.signed = pack.signed /\ p.links = pack.links
        /\ p.named = NamedVersion
        /\ p.root = pack.root \o pack.envAt /\ p.units = pack.units /\ p.owned = pack.owned
    BY <2>2, <2>3, <2>7 DEF OfPackage
  <2>9. UnitsFit(p)
    BY <2>1, <2>8, UnitsAreFit
  <2>10. SaysOneVersion(p)
    <3> DEFINE x == GetVersion(DefaultVersion)
               y == GetVersion(DefaultLongVersion)
    <3>1. Len(x.numbers) = 3
      BY <1>2 DEF ParseVersion
    <3>2. x \in Numbered
      BY <2>1, VersionsAreNumbered, DefaultsAreNumbered
    <3>3. x.numbers \in Seq(Nat)
      BY <3>2 DEF Numbered
    <3> HIDE DEF x, y
    <3>4. x.numbers # <<>> /\ IsPrefix(x.numbers, x.numbers)
      <4>1. Len(x.numbers) <= Len(x.numbers) /\ x.numbers # <<>>
        <5>1. \A s \in Seq(Nat) : Len(s) = 3 => Len(s) <= Len(s) /\ s # <<>>
          BY SMT
        <5>2. QED
          BY <3>1, <3>3, <5>1 DEF x
      <4>2. QED
        BY <4>1 DEF IsPrefix
    <3>5. IsPrefix(x.numbers, y.numbers)
      BY <3>4, VersionsAgree DEF x, y
    <3>6. header # NoVersion
      BY <2>5, <2>6, <3>4 DEF x
    <3>7. QED
      BY <2>5, <2>7, <2>8, <3>1, <3>5, <3>6, NamedAfter DEF SaysOneVersion, x, y
  <2>11. Leads(p.links)
    BY <2>1, <2>8, LinksRaw
  <2>12. Describes(p)
    <3>1. ~req.docker /\ req.type = "rpm"
      BY <2>1 DEF Running, Route, RouteTo, Packers
    <3>2. QED
      BY <2>8, <3>1 DEF Describes
  <2>13. GoodPackage(p)
    BY <2>1, <2>9, <2>10, <2>11, <2>12, GoodFrom
  <2>14. packages' \subseteq packages \cup {p}
    BY <1>2 DEF Replace, p
  <2>15. QED
    BY <1>2, <2>13, <2>14, EndKeeps
<1>3. QED
  BY <1>1, <1>2 DEF PackRpm

\* The package that comes out of the container.
LEMMA CopyBackKeeps ==
    ASSUME PackInv, CopyBack
    PROVE  PackInv'
<1>1. CASE Fails
  BY <1>1, FailKeeps
<1>2. CASE Finish /\ packages' = Replace(Package(Extension[req.type], "container"))
  <2> DEFINE p == Package(Extension[req.type], "container")
  <2>1. Running /\ pack.pc = "copyback" /\ pack.pc \in Packers /\ pack.pc \notin {"control", "debian"}
    BY DEF PackInv, CopyBack, Packers
  <2>2. /\ p.ext = GetPackageFileName(Extension[req.type]).ext /\ p.state = "container" /\ p.req = req
        /\ p.name = pack.name /\ p.apps = pack.apps /\ p.env = pack.env
        /\ p.opts = pack.opts /\ p.signed = pack.signed /\ p.links = pack.links
        /\ p.stated = pack.stated
    BY DEF Package
  <2>3. Extension[req.type] \in {".gz", ".deb", ".rpm"}
    <3>1. req.type \in DOMAIN Extension
      BY <2>1 DEF Running, Context, Request
    <3>2. req.type \in {"tgz", "deb", "rpm"}
      BY <3>1 DEF Extension
    <3>3. Extension["tgz"] = ".gz" /\ Extension["deb"] = ".deb" /\ Extension["rpm"] = ".rpm"
      BY DEF Extension
    <3>4. QED
      BY <3>2, <3>3
  <2>4. p.ext \in {".gz", ".deb", ".rpm"}
    BY <2>2, <2>3, FileExtension
  <2> HIDE DEF p
  <2>5. UnitsFit(p)
    BY <2>2 DEF UnitsFit
  <2>6. SaysOneVersion(p)
    BY <2>1, <2>2 DEF Running, Versioned, SaysOneVersion
  <2>7. Leads(p.links)
    BY <2>1, <2>2, LinksRaw
  <2>8. Describes(p)
    BY <2>2, <2>4 DEF Describes
  <2>9. GoodPackage(p)
    BY <2>1, <2>5, <2>6, <2>7, <2>8, GoodFrom
  <2>10. packages' \subseteq packages \cup {p}
    BY <1>2 DEF Replace, p
  <2>11. QED
    BY <1>2, <2>9, <2>10, EndKeeps
<1>3. CASE Finish /\ packages' = packages
  BY <1>3, EndKeeps
<1>4. QED
  BY <1>1, <1>2, <1>3 DEF CopyBack

\* The invariant of tt pack: what is known of the running command, of its bundle and of every package
\* file holds from the start and through every step of every command.
THEOREM PackInvariant == PackSpec => []PackInv
<1>1. PackInit => PackInv
  <2>1. SUFFICES ASSUME PackInit
                 PROVE  PackInv
    OBVIOUS
  <2>2. pack.pc = "idle" /\ pack.deferred = {} /\ DOMAIN pack = PackFields
    BY <2>1 DEF PackInit, NoPack, PackFields
  <2>3. QED
    BY <2>1, <2>2 DEF PackInit, PackInv
<1>2. PackInv /\ [PackNext]_pvars => PackInv'
  <2>1. SUFFICES ASSUME PackInv, [PackNext]_pvars
                 PROVE  PackInv'
    OBVIOUS
  <2>2. CASE UNCHANGED pvars
    <3>1. UNCHANGED <<packWorld, pack, tmpdirs, packages>>
      BY <2>2 DEF pvars
    <3>2. CASE pack.pc = "idle"
      BY <2>1, <3>1, <3>2, PackageKeeps DEF PackInv
    <3>3. CASE pack.pc # "idle"
      <4>1. Running
        BY <2>1, <3>3 DEF PackInv
      <4>2. /\ req' = req /\ Environment' = Environment /\ CreateNewOpts' = CreateNewOpts
            /\ UpdateEnvPath' = UpdateEnvPath /\ RootPrefix' = RootPrefix
            /\ InitSystemdDir' = InitSystemdDir /\ BinAt' = BinAt
            /\ \A a : GetDestAppDir(a)' = GetDestAppDir(a)
            /\ \A a : Dest(a)' = Dest(a)
            /\ GetVersion(DefaultVersion)' = GetVersion(DefaultVersion)
        BY <3>1, SameCommand DEF BinAt
      <4>3. Context' /\ Route'
        BY <3>1, <4>1, <4>2 DEF Running, Context, Route, RouteTo
      <4>4. BundleHolds'
        BY <3>1, <4>1, <4>2 DEF Running, BundleHolds, Belongs
      <4>5. HasTt' /\ Built' /\ Sealed' /\ Versioned'
        BY <3>1, <4>1, <4>2 DEF Running, HasTt, HasKind, Built, Sealed, Versioned, CreateArtifactsDirs
      <4>6. Copied' = Copied
        BY <3>1 DEF Copied
      <4>7. Codes'
        BY <3>1, <4>1, <4>2, <4>6 DEF Running, Codes, HasCode
      <4>8. Enabled'
        BY <3>1, <4>1, <4>2, <4>6 DEF Running, Enabled, LinkTo
      <4>9. Running'
        BY <4>3, <4>4, <4>5, <4>7, <4>8 DEF Running
      <4>10. tmpdirs' = pack'.deferred /\ DOMAIN pack' = PackFields /\ pack'.pc # "idle"
        BY <2>1, <3>1, <3>3 DEF PackInv
      <4>11. QED
        BY <2>1, <3>1, <4>9, <4>10, MoveKeeps
    <3>4. QED
      BY <3>2, <3>3
  <2>3. CASE \E r \in Requests : StartPack(r)
    BY <2>1, <2>3, StartKeeps
  <2>4. CASE DockerContext \/ PackageRoot \/ NewSigner \/ PrepareBundle
    BY <2>1, <2>4, PreparesKeep
  <2>5. CASE \E a \in pack.apps : CopyApplication(a) \/ BuildAppRocks(a)
    BY <2>1, <2>5, CopyApplicationKeeps, BuildAppRocksKeeps
  <2>6. CASE EnvPath \/ CopyBinaries \/ ApplicationsCopied \/ CopyArtifacts
    BY <2>1, <2>6, EnvPathKeeps, CopyBinariesKeeps, ApplicationsCopiedKeeps, CopyArtifactsKeeps
  <2>7. CASE RocksBuilt \/ WriteEnv \/ SignBundle \/ VersionFiles \/ WriteTarball
    BY <2>1, <2>7, RocksBuiltKeeps, WriteEnvKeeps, SignBundleKeeps, VersionFilesKeeps, WriteTarballKeeps
  <2>8. CASE PackageTree \/ DataArchive \/ CreateControlDir \/ PackDeb \/ PackRpm
    BY <2>1, <2>8, PackageTreeKeeps, DataArchiveKeeps, CreateControlDirKeeps, PackDebKeeps, PackRpmKeeps
  <2>9. CASE RunContainer \/ CopyBack
    BY <2>1, <2>9, RunContainerKeeps, CopyBackKeeps
  <2>10. QED
    BY <2>1, <2>2, <2>3, <2>4, <2>5, <2>6, <2>7, <2>8, <2>9 DEF PackNext
<1>3. QED
  BY <1>1, <1>2, PTL DEF PackSpec

\* Every package file is clean and signed as a whole, no part of a tarball is left, and no temporary
\* directory stays behind a pack command, whatever step of it fails and whatever was packed in the
\* same directory before: prepareBundle, the filters of copyAppSrc, the signer and the packers.
THEOREM PackagesComplete == PackSpec => []PackageIsComplete
<1>1. PackInv => PackageIsComplete
  <2>1. SUFFICES ASSUME PackInv
                 PROVE  PackageIsComplete
    OBVIOUS
  <2>2. NoTempLeft
    <3>1. NoPack.deferred = {}
      BY DEF NoPack
    <3>2. QED
      BY <2>1, <3>1 DEF NoTempLeft, PackInv
  <2>3. PackagesAreClean /\ SignatureCoversPackage /\ NoPartialTarball
    BY <2>1 DEF PackInv, GoodPackage, PackagesAreClean, SignatureCoversPackage, NoPartialTarball
  <2>4. QED
    BY <2>2, <2>3 DEF PackageIsComplete
<1>2. QED
  BY <1>1, PackInvariant, PTL

\* Every package fits where it is installed: its applications are found through its links, its units
\* point to its directory and to a tt that is in it, and it states the version it is named after; and
\* the bundle given to a container has no binary of the host.
THEOREM PackagesFit == PackSpec => [](PackageFits /\ DockerBundleIsBare)
<1>1. PackInv => PackageFits /\ DockerBundleIsBare
  <2>1. SUFFICES ASSUME PackInv
                 PROVE  PackageFits /\ DockerBundleIsBare
    OBVIOUS
  <2>2. PackedAppsAreFound /\ UnitsFitPackage /\ PackageSaysOneVersion
    BY <2>1 DEF PackInv, GoodPackage, PackedAppsAreFound, UnitsFitPackage, PackageSaysOneVersion
  <2>3. ASSUME pack.pc = "container", NEW e \in pack.env
        PROVE  e.kind \notin {"tt", "tarantool"}
    <3>1. Running
      BY <2>1, <2>3 DEF PackInv
    <3>2. req.withoutBin
      BY <2>3, <3>1 DEF Running, Route, RouteTo, Context
    <3>3. QED
      BY <3>1, <3>2 DEF Running, BundleHolds, Belongs
  <2>4. QED
    BY <2>2, <2>3 DEF PackageFits, DockerBundleIsBare
<1>2. QED
  BY <1>1, PackInvariant, PTL

=============================================================================
