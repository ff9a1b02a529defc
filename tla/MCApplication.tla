--------------------------- MODULE MCApplication ---------------------------
(* Machines that share no state: the commands on one application, the packing of applications, *)
(* the making of an RPM file, the packing of a set of tags and the launch of tt itself.  Each       *)
(* behaviour is one of one of them.                                                                *)
EXTENDS Application, Packaging, RpmFormat, TLC

VARIABLES host, edited, procs, machine

Symmetry == Permutations(Procs)

Tmpl(files, manifest, default, re, hooks, include, message) ==
    [files |-> files, manifest |-> manifest, default |-> default, re |-> re, pre |-> hooks[1],
     post |-> hooks[2], include |-> include, message |-> message]
Raw == File("init.lua", "raw")
Mf == File("MANIFEST.yaml", "plain")
MCTemplates ==
    [full |-> Tmpl({Raw, Mf, File("pre.sh", "plain"), File("doc.md", "plain")}, "ok", "a", TRUE,
                   <<"pre.sh", "">>, {"init.lua"}, ""),
     loose |-> Tmpl({File("instances.yml", "raw"), Mf, File("post.sh", "plain")}, "ok", "", FALSE, <<"", "post.sh">>,
                    {}, "bad"),
     nohook |-> Tmpl({Raw, Mf}, "ok", "x", TRUE, <<"lost.sh", "">>, {}, ""),
     nopost |-> Tmpl({Raw, Mf}, "ok", "a", TRUE, <<"", "lost.sh">>, {}, ""),
     plain |-> Tmpl({File("rock.spec", "plain")}, "none", "", FALSE, <<"", "">>, {}, ""),
     bare |-> Tmpl({File("instances.yml", "raw")}, "none", "", FALSE, <<"", "">>, {}, ""),
     broken |-> Tmpl({Mf}, "bad", "", FALSE, <<"", "">>, {}, "")]
MCForeign == [env |-> {File("cartridge.pre-build", "plain")},
              other |-> {File("init.lua", "plain"), File("tt.post-build", "plain")}]
MCInstances == <<"i1", "i2">>
A(op) == [op |-> op, template |-> "", force |-> FALSE, silent |-> FALSE, file |-> "",
          cli |-> "", skip |-> FALSE, path |-> "", verbose |-> FALSE]
Cr(t, force, silent, given, cli) == [A("create") EXCEPT !.template = t, !.force = force,
    !.silent = silent, !.file = given, !.cli = cli]
MCJobs ==
    {[A("init") EXCEPT !.force = f, !.skip = k] : f \in BOOLEAN, k \in BOOLEAN}
    \cup {A("enable"), A("clean"), [A("clean") EXCEPT !.force = TRUE]}
    \cup {[A("build") EXCEPT !.path = d, !.verbose = v] : d \in {"", "app"}, v \in BOOLEAN}
    \cup {Cr("full", f, TRUE, "", "") : f \in BOOLEAN}
    \cup {Cr("full", FALSE, FALSE, "x", ""), Cr("full", FALSE, TRUE, "a", "x"),
          Cr("loose", TRUE, FALSE, "x", ""), Cr("loose", FALSE, TRUE, "", ""),
          Cr("nohook", TRUE, TRUE, "", "a"), Cr("nohook", FALSE, TRUE, "", ""), Cr("nopost", FALSE, TRUE, "", ""),
          Cr("plain", FALSE, FALSE, "", ""), Cr("bare", TRUE, TRUE, "x", "a"),
          Cr("bare", TRUE, TRUE, "", ""), Cr("broken", TRUE, TRUE, "", ""),
          Cr("absent", TRUE, TRUE, "", ""), Cr("full", TRUE, TRUE, "malformed", ""),
          Cr("full", TRUE, TRUE, "", "malformed")}

Dir(files, real, params) == [script |-> FALSE, real |-> real, files |-> files, instances |-> TRUE,
                             params |-> params, single |-> params]
Script(real) == [script |-> TRUE, real |-> real, files |-> {}, instances |-> TRUE, params |-> FALSE,
                 single |-> TRUE]
MCWorlds ==
    [multi |-> [git |-> <<[v |-> FALSE, numbers |-> <<1, 2>>, count |-> <<4>>, hash |-> TRUE]>>,
                name |-> "multi", tctl |-> FALSE, dot |-> FALSE, system |-> FALSE, tarantool |-> TRUE, split |-> FALSE,
                modules |-> TRUE, list |-> <<"a", "s">>,
                apps |-> [a |-> Dir({"code", "rockspec", "hook", "log", "wal", "git", "socket"}, "a", FALSE),
                          s |-> Script("s.lua")]],
     dot |-> [git |-> <<[v |-> TRUE, numbers |-> <<1, 2, 3>>, count |-> <<4>>, hash |-> TRUE]>>,
              name |-> "dot", tctl |-> FALSE, dot |-> TRUE, system |-> TRUE, tarantool |-> TRUE, split |-> FALSE,
              modules |-> FALSE, list |-> <<"d">>,
              apps |-> [d |-> Dir({"code", "hook", "tt.yaml", "bin", "include", "run"}, "d", FALSE)]],
     linked |-> [git |-> <<>>,
                 name |-> "linked", tctl |-> TRUE, dot |-> FALSE, system |-> FALSE, tarantool |-> FALSE, split |-> TRUE,
                 modules |-> TRUE, list |-> <<"l">>,
                 apps |-> [l |-> Dir({"code", "vinyl", "memtx", "log"}, "r", TRUE)]],
     crowd |-> [git |-> <<>>,
                name |-> "crowd", tctl |-> FALSE, dot |-> TRUE, system |-> TRUE, tarantool |-> FALSE, split |-> FALSE,
                modules |-> FALSE, list |-> <<"a", "b">>,
                apps |-> [a |-> Dir({"code"}, "a", FALSE), b |-> Dir({"code"}, "b", FALSE)]],
     broken |-> [git |-> <<>>,
                 name |-> "broken", tctl |-> FALSE, dot |-> FALSE, system |-> FALSE, tarantool |-> FALSE, split |-> FALSE,
                 modules |-> FALSE, list |-> <<"n">>,
                 apps |-> [n |-> [Dir({}, "n", FALSE) EXCEPT !.instances = FALSE]]]]
MCLongerNames == {<<"mine", "mine2">>}
R(type, world) == [type |-> type, world |-> world, apps |-> <<>>, name |-> "", file |-> "", docker |-> FALSE,
    tntVersion |-> FALSE, compat |-> FALSE, all |-> FALSE, key |-> FALSE, withBin |-> FALSE,
    withoutBin |-> FALSE, withoutModules |-> FALSE, params |-> FALSE, args |-> <<>>,
    version |-> <<>>]
MCRequests ==
    {R(t, w) : t \in {"tgz", "deb", "rpm"}, w \in {"multi", "dot", "linked"}}
    \cup {[R(t, "multi") EXCEPT !.all = TRUE] : t \in {"tgz", "rpm"}}
    \cup {[R(t, "linked") EXCEPT !.all = TRUE, !.withoutModules = TRUE] : t \in {"tgz", "deb"}}
    \cup {[R("rpm", "dot") EXCEPT !.withBin = TRUE, !.params = TRUE],
          [R("deb", "multi") EXCEPT !.withoutBin = TRUE],
          [R("deb", "dot") EXCEPT !.withBin = TRUE, !.withoutBin = TRUE],
          [R("tgz", "dot") EXCEPT !.key = TRUE], [R("deb", "multi") EXCEPT !.key = TRUE],
          [R("tgz", "multi") EXCEPT !.key = TRUE, !.withoutBin = TRUE],
          [R("tgz", "multi") EXCEPT !.compat = TRUE], [R("deb", "dot") EXCEPT !.compat = TRUE],
          [R("tgz", "multi") EXCEPT !.compat = TRUE, !.apps = <<"a">>],
          [R("tgz", "dot") EXCEPT !.compat = TRUE],
          [R("tgz", "dot") EXCEPT !.compat = TRUE, !.key = TRUE],
          [R("tgz", "dot") EXCEPT !.file = "mine", !.name = "mine"],
          [R("deb", "dot") EXCEPT !.file = "mine2", !.name = "mine"], [R("rpm", "multi") EXCEPT !.file = "named"],
          [R("tgz", "dot") EXCEPT !.compat = TRUE, !.file = "named"],
          [R("rpm", "dot") EXCEPT !.version = <<[v |-> FALSE, numbers |-> <<2>>, count |-> <<>>, hash |-> FALSE]>>],
          [R("deb", "dot") EXCEPT !.version = <<[v |-> FALSE, numbers |-> <<2>>, count |-> <<>>, hash |-> FALSE]>>],
          [R("tgz", "dot") EXCEPT !.tntVersion = TRUE], R("tgz", "broken"), R("tgz", "crowd"),
          [R("tgz", "multi") EXCEPT !.apps = <<"nobody", "s">>], [R("tgz", "multi") EXCEPT !.apps = <<"nobody">>],
          [R("rpm", "multi") EXCEPT !.docker = TRUE, !.withBin = TRUE, !.tntVersion = TRUE,
               !.args = <<"tt", "pack", "--use-docker", "rpm", "--tarantool-version", "2.11.1", "--with-binaries">>],
          [R("tgz", "dot") EXCEPT !.docker = TRUE, !.args = <<"tt", "pack", "tgz", "--use-docker">>]}

\* usr, usr/app, usr/app.d/link, usr/app/init.lua, usr/unit, var and var/lib, in this order.
Path(at, dir, base, kind, to) == [at |-> at, dir |-> dir, base |-> base, kind |-> kind, to |-> to]
Usr == Path(1, 0, 1, "dir", 0)
AppDir == Path(2, 1, 1, "dir", 0)
Link == Path(3, 4, 1, "link", 3)
InitLua == Path(4, 3, 1, "file", 0)
Unit == Path(5, 1, 2, "file", 0)
Var == Path(6, 0, 2, "dir", 0)
VarLib == Path(7, 2, 1, "dir", 0)
MCTrees == {{Usr, AppDir, InitLua}, {Usr, Var, VarLib, AppDir, InitLua, Link, Unit}, {Usr, AppDir, Unit, Link}}
Dep(name, relations) == [name |-> name, relations |-> relations]
MCDeps == {<<>>, <<Dep("d1", <<<<">", "1">>, <<"<=", "3">>>>), Dep("", <<>>), Dep("d2", <<>>)>>,
           <<Dep("d3", <<<<"==", "1">>>>), Dep("d4", <<<<"<", "2">>>>)>>}
MCRpmInputs ==
    {[tree |-> t, system |-> {Usr, Var}, owned |-> {VarLib}, deps |-> d, depsFile |-> f,
      withTarantool |-> w, pre |-> FALSE, post |-> FALSE, name |-> 5] :
        t \in MCTrees, d \in MCDeps, f \in {<<>>, <<Dep("d5", <<<<">=", "1">>, <<"=", "2">>>>)>>}, w \in BOOLEAN}
    \cup {[tree |-> {Usr, Unit}, system |-> {Usr}, owned |-> {}, deps |-> <<>>, depsFile |-> <<>>,
           withTarantool |-> FALSE, pre |-> pre, post |-> post, name |-> n] :
             pre \in BOOLEAN, post \in BOOLEAN, n \in 64..67}
T(type, count, chars) == [id |-> 1, type |-> type, count |-> count, chars |-> chars]
MCTagSets ==
    LET tags == {T("string", 1, 2), T("array", 2, 3), T("int64", 1, 0), T("int32", 2, 0), T("int16", 1, 0),
                 T("int8", 3, 0), T("bin", 1, 0), T("null", 0, 0), T("i18n", 1, 1)}
    IN  UNION {[1..n -> tags] : n \in 1..3}

-----------------------------------------------------------------------------
(* Launch: an environment in /e with its applications in /e/apps, and the  *)
(* system's configuration in /etc.                                         *)

Under(names) == [abs |-> FALSE, names |-> names]
From(names) == [abs |-> TRUE, names |-> names]
InstKey(full, after, board) == [full |-> full, after |-> after, board |-> board]
PlainKey(n) == InstKey(n, "", FALSE)
EmptyDir == [scripts |-> {}, own |-> {}, instYamls |-> 0, keys |-> {}, clusterYamls |-> 0, cluster |-> <<>>]
ScriptApp == [EmptyDir EXCEPT !.scripts = {"init"}]
ManyApp(keys) == [ScriptApp EXCEPT !.instYamls = 1, !.keys = keys]
TextAt(path) == [abs |-> path.abs, names |-> path.names, text |-> TRUE]
ClusterApp(insts, raw) == [EmptyDir EXCEPT !.instYamls = 1, !.clusterYamls = 1, !.keys = {PlainKey(n) : n \in insts},
                                    !.cluster = [n \in insts |-> raw]]
EnvDir == <<"e">>
AppsDir == <<"e", "apps">>
AppAt(n) == Append(AppsDir, n)
MakeTree(a, b, here) ==
    (<<>> :> EmptyDir) @@ (EnvDir :> here) @@ (<<"e", "e">> :> EmptyDir) @@ (<<"etc">> :> EmptyDir)
    @@ (AppsDir :> EmptyDir) @@ (AppAt("a") :> a) @@ (AppAt("b") :> b)
BinDir(tt, ttExec, tnt, tntExec, major) ==
    [tt |-> [name |-> tt, exec |-> ttExec, major |-> 0], tarantool |-> [name |-> tnt, exec |-> tntExec, major |-> major]]
EnvYaml == [enabled |-> Under(<<"apps">>), restartable |-> TRUE]
SharedYaml == [enabled |-> Under(<<"apps">>), restartable |-> TRUE,
               run |-> From(<<"run">>), log |-> From(<<"log">>), data |-> From(<<"lib">>)]
TwoKeys == {PlainKey("i"), InstKey("a.j", "j", FALSE)}
HostWith(tree, later, yaml, bins) ==
    [tree |-> tree, later |-> later, yamls |-> (EnvDir :> <<yaml>>) @@ (<<"etc">> :> <<[bin |-> From(<<"usr">>)]>>),
     broken |-> {}, bins |-> bins, modules |-> <<>>, etc |-> <<"etc">>, tarantool |-> 2]
H0 == HostWith(MakeTree(ManyApp(TwoKeys), EmptyDir, EmptyDir),
           MakeTree(ManyApp(TwoKeys \ {PlainKey("i")}), EmptyDir, EmptyDir), EnvYaml,
           (<<"e", "bin">> :> BinDir("tt2", TRUE, "tnt", TRUE, 3)) @@ (<<"usr">> :> BinDir("tt3", TRUE, "", FALSE, 0)))
H1 == HostWith(MakeTree(ManyApp({PlainKey("i")}), ManyApp({PlainKey("i")}), EmptyDir),
           MakeTree(ManyApp(TwoKeys), ScriptApp, EmptyDir), SharedYaml, <<>>)
H2 == HostWith(MakeTree(ScriptApp, ClusterApp({"i"}, [wal |-> TextAt(Under(<<"w", "{{ instance_name }}">>))]), EmptyDir),
           MakeTree(ScriptApp, ClusterApp({"i", "a.j"}, <<>>), EmptyDir),
           [SharedYaml EXCEPT !.restartable = FALSE] @@ [tarantoolctl |-> TRUE],
           (<<"e", "bin">> :> BinDir("", FALSE, "tnt", TRUE, 3)))
MCHosts == {H0, H1, H2,
    [H0 EXCEPT !.tree = MakeTree(ManyApp({InstKey("x.i", "i", FALSE), InstKey("y.i", "i", FALSE)}), EmptyDir, EmptyDir)],
    [H0 EXCEPT !.tree = MakeTree(ManyApp({InstKey("a-stateboard", "", TRUE), PlainKey("a")}), EmptyDir, EmptyDir),
              !.later = MakeTree(ScriptApp, ScriptApp, EmptyDir)],
    [H0 EXCEPT !.yamls = (<<>> :> <<EnvYaml>>) @@ (<<"e", "e">> :> <<[restartable |-> TRUE]>>) @@ @],
    [H0 EXCEPT !.yamls = (<<"e", "e">> :> <<[restartable |-> TRUE]>>) @@ @,
              !.bins = (<<"e", "e", "bin">> :> BinDir("tt4", TRUE, "tnt", TRUE, 3)) @@ @],
    [H0 EXCEPT !.bins = <<"e", "bin">> :> BinDir("tt2", FALSE, "tnt", TRUE, 3)],
    [H0 EXCEPT !.bins = <<"e", "bin">> :> BinDir("", FALSE, "tnt", FALSE, 0)],
    [H0 EXCEPT !.yamls = (EnvDir :> <<EnvYaml, EnvYaml>>)],
    [H0 EXCEPT !.yamls = (EnvDir :> <<<<>>>>), !.tree = MakeTree(EmptyDir, EmptyDir, ManyApp(TwoKeys)),
              !.later = MakeTree(EmptyDir, EmptyDir, ScriptApp), !.tarantool = 0],
    [H0 EXCEPT !.yamls = <<>>], [H0 EXCEPT !.broken = {EnvDir}],
    [H1 EXCEPT !.modules = <<"e", "modules">> :> [isDir |-> TRUE, names |-> {"start", "mod"}]],
    [H1 EXCEPT !.modules = <<"e", "modules">> :> [isDir |-> FALSE, names |-> {}]],
    [H2 EXCEPT !.bins = <<>>],
    [H1 EXCEPT !.later = [H1.tree EXCEPT ![AppsDir].scripts = {"a"}]],
    [H1 EXCEPT !.tree[AppsDir].scripts = {"s"},
              !.tree[AppAt("b")] = ClusterApp({"i"}, [console |->
                  [abs |-> TRUE, names |-> <<"c">>, text |-> FALSE]])]}
Flag(flag, value) == [flag |-> flag, joined |-> FALSE, value |-> value]
CmdLine(flags, cmd, targets) == [flags |-> flags, cmd |-> cmd, targets |-> targets, watchdog |-> FALSE]
StartLine(flags) == CmdLine(flags, "start", <<>>)
Invoked(cwd, env, line) == [tt |-> "tt1", cwd |-> cwd, env |-> env, line |-> line]
Target(a, i) == [app |-> a, inst |-> i]
MCInvocations ==
    {Invoked(<<>>, {}, StartLine(f)) : f \in {
        <<>>, <<Flag("local", Under(<<"e">>))>>, <<Flag("local", From(<<"e">>))>>, <<Flag("local", From(<<>>))>>,
        <<[Flag("local", Under(<<"e">>)) EXCEPT !.joined = TRUE]>>, <<[Flag("local", From(<<"e">>)) EXCEPT !.joined = TRUE]>>,
        <<Flag("system", Under(<<>>))>>, <<Flag("cfg", Under(<<"e">>))>>, <<Flag("cfg", Under(<<"none">>))>>,
        <<Flag("local", From(<<"e">>)), Flag("system", Under(<<>>))>>, <<Flag("local", From(<<"none">>))>>}}
    \cup {Invoked(c, {}, StartLine(f)) : c \in {EnvDir, AppAt("a")}, 
          f \in {<<>>, <<Flag("self", Under(<<>>))>>, <<Flag("internal", Under(<<>>))>>}}
    \cup {Invoked(<<>>, {Under(<<"e">>)}, StartLine(f)) :
          f \in {<<>>, <<Flag("system", Under(<<>>))>>, <<Flag("cfg", From(<<"etc">>))>>}}
    \cup {Invoked(EnvDir, {}, CmdLine(<<>>, c, t)) :
          c \in {"start"}, t \in {<<Target("a", "i")>>, <<Target("b", "")>>, <<Target("a", ""), Target("b", "")>>}}
    \cup {Invoked(EnvDir, {}, CmdLine(f, "mod", <<>>)) :
          f \in {<<>>, <<Flag("internal", Under(<<>>))>>, <<Flag("local", From(<<"e">>))>>}}
Launching == INSTANCE Launch WITH Hosts <- MCHosts, Invocations <- MCInvocations

-----------------------------------------------------------------------------
(* The sum: a behaviour follows one of the machines. *)

launchVars == <<host, edited, procs>>
atRest == /\ rpm = RpmStart([tree |-> {}])
          /\ tagTodo = <<>> /\ tagData = 0 /\ tagIndex = <<>> /\ tagFailed = FALSE
Init == /\ AppInit /\ PackInit /\ machine \in {"app", "pack", "rpm", "tags", "launch"}
        /\ machine # "pack" => packWorld = "dot"
        /\ machine # "app" => app = None /\ place = Place(TRUE, "none", "none", FALSE)
        /\ IF machine = "launch" THEN Launching!LaunchInit ELSE host = <<>> /\ edited = FALSE /\ procs = <<>>
        /\ \/ machine \in {"app", "pack", "launch"} /\ atRest
           \/ machine = "rpm" /\ RpmInit
           \/ machine = "tags" /\ TagInit /\ rpm = RpmStart([tree |-> {}])
Next == /\ UNCHANGED machine
        /\ \/ machine = "app" /\ AppNext /\ UNCHANGED <<pvars, rpmVars, launchVars>>
           \/ machine = "pack" /\ PackNext /\ UNCHANGED <<avars, rpmVars, launchVars>>
           \/ machine = "rpm" /\ RpmNext /\ UNCHANGED <<avars, pvars, launchVars>>
           \/ machine = "tags" /\ TagNext /\ UNCHANGED <<rpm, avars, pvars, launchVars>>
           \/ machine = "launch" /\ Launching!LaunchNext /\ UNCHANGED <<avars, pvars, rpmVars>>
Spec == Init /\ [][Next]_<<avars, pvars, rpmVars, launchVars, machine>>

\* Launch, LaunchKeepsEnvironment: a command stays in the environment it was given for, and a
\* process never executes a tt it has already been.
LaunchKeepsEnvironment == Launching!LaunchKeepsEnvironment
\* Launch, WatchdogKeepsCourse: a watchdog keeps the environment of its command and its instance.
WatchdogKeepsCourse == Launching!WatchdogKeepsCourse
\* Launch, InstancesOwnFiles: instances do not share files.
InstancesOwnFiles == Launching!InstancesOwnFiles
=============================================================================
