------------------------------ MODULE Binaries ------------------------------
(***************************************************************************)
(* The programs of a tt environment: `tt install`, `tt uninstall` and      *)
(* `tt binaries switch` on one bin_dir and one include_dir.                *)
(*                                                                         *)
(* A program version is a file <program>_<version> in bin_dir and, for a   *)
(* tarantool, a directory of the same name in include_dir.  The version in *)
(* use is the target of a symbolic link: bin/tt, bin/tarantool and         *)
(* include/tarantool.  Every command is a sequence of file system calls;   *)
(* commands of several users may interleave, any call may fail, and a      *)
(* command may be killed between two calls.                                *)
(*                                                                         *)
(* Abstracted: where sources come from (git, tarantool.io, distfiles) and  *)
(* how they are built, which can fail but do not touch the environment;    *)
(* file contents, which are absent, torn (a copy was begun and not         *)
(* finished) or whole.                                                     *)
(***************************************************************************)
EXTENDS Integers, Sequences, FiniteSets, Functions

CONSTANTS
    Procs,       \* the commands that may run at the same time
    Tags,        \* program -> its released versions, as the repositories name them
    Hash,        \* a commit hash some version was built from
    Prefixed,    \* X.Y.Z -> vX.Y.Z, for the versions of tt
    Rank,        \* released version -> its place in the order of version.IsLess
    Stable,      \* released versions that are not alpha, beta or rc
    Within,      \* <<a, b>> : the file name a is a substring of the file name b
    Listing,     \* all entries bin_dir can have, in the order os.ReadDir returns them
    Requests,    \* the commands users give: [op, prog, ver, flags]
    MaxInitial,  \* bound: program versions installed at first
    MaxCommands, \* bound: commands ever started
    MaxParallel, \* bound: commands that overlap; none is started after they ended
    MaxFaults,   \* bound: calls that fail and commands that are killed
    None

VARIABLES
    file,     \* file[dir][name] \in Content : bin_dir and include_dir
    link,     \* link[dir][linkName] : what a symbolic link names, or None
    built,    \* the build directory of tarantool-dev exists
    cmd,      \* cmd[p] : the command process p runs or ran last
    started,  \* commands started so far
    faults,   \* faults so far
    removals, \* history: an uninstall was started
    hurt      \* history: commands that stopped half-way; 2 when commands overlapped

vars == <<file, link, built, cmd, started, faults, removals, hurt>>

Programs == {"tt", "tarantool", "tarantool-ee"}

Content == {"absent", "torn", "whole"}

Dirs == {"bin", "inc"}

LinkNames == {"tt", "tarantool"}

\* <program>_<version>: releases, and what is built from master or a commit.
Names ==
    UNION {{[prog |-> g, ver |-> v] :
                v \in Tags[g] \cup (IF g = "tarantool-ee" THEN {} ELSE {"master", Hash})}
           : g \in Programs}

\* The link targets outside the environment: the binary and the headers of
\* a build directory.
Dev == [prog |-> "tarantool-dev", ver |-> "build"]

Versions(g) == {n.ver : n \in {m \in Names : m.prog = g}}

Idle == [op |-> "none", prog |-> "tt", ver |-> "", flags |-> {}, pc |-> "idle",
         name |-> None, dir |-> "bin", names |-> <<>>, links |-> <<>>,
         unlinked |-> FALSE, touched |-> FALSE, alone |-> TRUE, res |-> "ok"]

\* Requests are well formed, each set of releases has a newest one, every program
\* version is in the listing, and a file name is a substring of itself.
ASSUME BinariesAssumption ==
    /\ None \notin Names /\ None # Dev
    /\ Requests \subseteq [op : {"install", "uninstall", "switch"},
                           prog : Programs \cup {"tarantool-dev"}, ver : STRING,
                           flags : SUBSET {"reinstall", "docker"}]
    /\ \A v \in DOMAIN Prefixed : Prefixed[v] \in Tags["tt"]
    /\ Tags["tt"] # {} /\ Tags["tarantool"] \cap Stable # {}
    /\ \A g \in Programs : Tags[g] \subseteq DOMAIN Rank
    /\ \A S \in SUBSET DOMAIN Rank : S # {} => \E v \in S : \A w \in S : Rank[w] <= Rank[v]
    /\ DOMAIN Listing \subseteq Nat
    /\ \A n \in Names : n.ver # "link" /\ \E i \in DOMAIN Listing : Listing[i] = n
    /\ \A n \in Names : <<n, n>> \in Within

-----------------------------------------------------------------------------
(* Names, links and what they resolve to.                                  *)

\* CE, EE and a development build share the links named tarantool.
LinkOf(g) == IF g = "tt" THEN "tt" ELSE "tarantool"

\* The directories in which a program has files and links.
DirsOf(g) == IF g = "tt" THEN <<"bin">> ELSE <<"bin", "inc">>
LastDir(g) == IF g = "tt" THEN "bin" ELSE "inc"

Present(d, n) == n \in Names /\ file[d][n] # "absent"

\* Faulty variant: the headers are not looked at.
InstalledBinary(n) == Present("bin", n)

Installed(n) == \A d \in Range(DirsOf(n.prog)) : Present(d, n)

\* util.ResolveSymlink and os.Stat succeed: the link is there and so is its target.
Resolves(d, l) ==
    /\ link[d][l] # None
    /\ IF link[d][l] = Dev THEN built ELSE Present(d, link[d][l])

\* Faulty variant: the headers keep their link.
LinksToBinary(g, n) == <<[dir |-> "bin", name |-> LinkOf(g), to |-> n]>>

\* The symbolic links that make n active, in the order the code sets them.
LinksTo(g, n) ==
    [i \in DOMAIN DirsOf(g) |-> [dir |-> DirsOf(g)[i], name |-> LinkOf(g), to |-> n]]

\* The entries of bin_dir, links included, that os.ReadDir lists: their places in Listing.
InBin(e) == IF e.ver = "link" THEN link["bin"][e.prog] # None ELSE Present("bin", e)
ReadBinDir == {i \in DOMAIN Listing : InBin(Listing[i])}
First(places) == Listing[CHOOSE i \in places : \A j \in places : i <= j]

\* The version an install is about, None when there is no such version; all
\* of it is known before anything is touched.
Newest(S) == CHOOSE v \in S : \A w \in S : Rank[w] <= Rank[v]

\* checkCommit: a pull request is built under the hash of its last commit.
CheckCommit(g, v) == IF v \in {"pr/1", Hash} THEN Hash ELSE None

\* The last tag; a version may be given without its "v".
ResolveTt(v) ==
    CASE v = "" -> Newest(Tags["tt"])
      [] v \in DOMAIN Prefixed -> Prefixed[v]
      [] v \in Tags["tt"] \cup {"master"} -> v
      [] OTHER -> CheckCommit("tt", v)

\* The last tag that is a release.
ResolveTarantool(v) ==
    CASE v = "" -> Newest(Tags["tarantool"] \cap Stable)
      [] v \in Tags["tarantool"] \cup {"master"} -> v
      [] OTHER -> CheckCommit("tarantool", v)

\* The version of an enterprise bundle must be given.
ResolveTarantoolEE(v) == IF v \in Tags["tarantool-ee"] THEN v ELSE None

\* uninstall.searchLatestVersion: the newest installed release a link may
\* name, or else the first build of a commit; what was built from master is
\* neither.
Suitable(l) ==
    {i \in ReadBinDir : LET e == Listing[i] IN e.ver # "link" /\ LinkOf(e.prog) = l /\ Installed(e)}
SearchLatestVersion(l) ==
    LET releases == {i \in Suitable(l) : Listing[i].ver \in Tags[Listing[i].prog]}
        hashes == {i \in Suitable(l) : Listing[i].ver = Hash}
        newest == {i \in releases : \A j \in releases : Rank[Listing[j].ver] <= Rank[Listing[i].ver]}
    IN IF releases # {} THEN First(newest) ELSE IF hashes # {} THEN First(hashes) ELSE None

\* uninstall.getDefault: the loop keeps looking after it found a version, and
\* takes whatever entry follows for a second one.
GetDefault(g) ==
    LET found == {i \in ReadBinDir : Listing[i].prog = g /\ Listing[i].ver # "link"}
    IN IF \E i \in found : found = {i} /\ \A j \in ReadBinDir : j <= i THEN First(found).ver ELSE ""

\* uninstall.getAllTtVersionFormats.
AllFormats(g, v) ==
    <<[prog |-> g, ver |-> v]>>
    \o (IF g = "tt" /\ v \in DOMAIN Prefixed THEN <<[prog |-> g, ver |-> Prefixed[v]]>> ELSE <<>>)

-----------------------------------------------------------------------------
(* Frames: how one step of command p ends.                                 *)

\* The command goes on with the fields of its record changed.
Goto(p, c) == /\ cmd' = [cmd EXCEPT ![p] = c]
              /\ UNCHANGED <<started, faults, removals, hurt, built>>

\* The command is over.
Finish(p, c, res) ==
    /\ cmd' = [cmd EXCEPT ![p] = [Idle EXCEPT !.res = res]]
    /\ hurt' = IF res # "ok" /\ c.touched /\ hurt < 2 THEN hurt + 1 ELSE hurt
    /\ UNCHANGED <<started, removals, built>>

Fail(p) == Finish(p, cmd[p], "error") /\ UNCHANGED <<file, link, faults>>

At(p, pc) == cmd[p].pc = pc

Start(p, r) ==
    /\ At(p, "idle")
    /\ started < MaxCommands
    /\ started' = started + 1
    /\ LET busy == \E q \in Procs \ {p} : ~At(q, "idle")
       IN /\ IF busy THEN started < MaxParallel /\ faults = 0 ELSE hurt < 2
          /\ cmd' = [q \in Procs |->
                 IF q = p
                 THEN [Idle EXCEPT !.op = r.op, !.prog = r.prog, !.ver = r.ver, !.flags = r.flags,
                                   !.pc = r.op, !.alone = ~busy]
                 ELSE IF At(q, "idle") THEN Idle ELSE [cmd[q] EXCEPT !.alone = FALSE]]
          /\ hurt' = IF busy THEN 2 ELSE hurt
    /\ removals' = (removals \/ r.op = "uninstall")
    /\ UNCHANGED <<file, link, built, faults>>

\* Faults are bounded, and not combined with commands that overlap.
Fault == faults < MaxFaults /\ hurt < 2 /\ faults' = faults + 1

\* A call of the command fails and the command reports the error, or the
\* command is killed: either way it stops where it is.
Interrupt(p) ==
    /\ ~At(p, "idle")
    /\ Fault
    /\ Finish(p, cmd[p], "error")
    /\ UNCHANGED <<file, link>>

-----------------------------------------------------------------------------
(* tt install.                                                             *)

\* Install and installTarantoolDev up to the first change of a link.
Install(p) ==
    /\ At(p, "install")
    /\ LET c == cmd[p]
           v == CASE c.prog = "tt" -> ResolveTt(c.ver)
                  [] c.prog = "tarantool" -> ResolveTarantool(c.ver)
                  [] c.prog = "tarantool-ee" -> ResolveTarantoolEE(c.ver)
                  [] c.prog = "tarantool-dev" -> IF built THEN "build" ELSE None
           n == [prog |-> c.prog, ver |-> v]
       IN IF v = None THEN Fail(p)
          ELSE /\ Goto(p, IF n = Dev
                          THEN [c EXCEPT !.pc = "stat", !.name = n,
                                         !.links = <<Head(LinksTo(c.prog, n))>>]
                          ELSE [c EXCEPT !.pc = "probe", !.name = n])
               /\ UNCHANGED <<file, link>>

\* isUpdatePossible: only what was built from master is ever updated, when the
\* user agrees and the installed binary tells its commit.
IsUpdatePossible(n) ==
    IF n.ver # "master" THEN {"no"}
    ELSE {"no", IF file["bin"][n] = "whole" THEN "yes" ELSE "error"}

\* "Checking existing...": a version that is there only becomes active, unless
\* master has moved since.
Activate(p) == Goto(p, [cmd[p] EXCEPT !.pc = "stat", !.links = LinksTo(cmd[p].prog, cmd[p].name)])
               /\ UNCHANGED <<file, link>>
Rebuild(p, pc, flags) == Goto(p, [cmd[p] EXCEPT !.pc = pc, !.flags = flags])
                         /\ UNCHANGED <<file, link>>
NotThere(p) == "reinstall" \in cmd[p].flags \/ ~Installed(cmd[p].name)

\* installTt reduces an update of master to a reinstallation.
ProbeTt(p) ==
    /\ At(p, "probe") /\ cmd[p].prog = "tt"
    /\ IF NotThere(p) THEN Rebuild(p, "build", cmd[p].flags)
       ELSE \E u \in IsUpdatePossible(cmd[p].name) :
               \/ u = "no" /\ Activate(p)
               \/ u = "yes" /\ Rebuild(p, "build", cmd[p].flags \cup {"reinstall"})
               \/ u = "error" /\ Fail(p)

\* installTarantool overwrites the files of master in place.
ProbeTarantool(p) ==
    /\ At(p, "probe") /\ cmd[p].prog = "tarantool"
    /\ LET next == IF "docker" \in cmd[p].flags THEN "docker" ELSE "build"
       IN IF NotThere(p) THEN Rebuild(p, next, cmd[p].flags)
          ELSE \E u \in IsUpdatePossible(cmd[p].name) :
                  \/ u = "no" /\ Activate(p)
                  \/ u = "yes" /\ Rebuild(p, next, cmd[p].flags)
                  \/ u = "error" /\ Fail(p)

\* Faulty variant: a version that is there is left as it is.
ProbeTarantoolEEDone(p) ==
    /\ At(p, "probe") /\ cmd[p].prog = "tarantool-ee"
    /\ IF NotThere(p) THEN Rebuild(p, "build", cmd[p].flags)
       ELSE Finish(p, cmd[p], "ok") /\ UNCHANGED <<file, link, faults>>

ProbeTarantoolEE(p) ==
    /\ At(p, "probe") /\ cmd[p].prog = "tarantool-ee"
    /\ IF NotThere(p) THEN Rebuild(p, "build", cmd[p].flags) ELSE Activate(p)

\* installTarantoolInDocker: the container runs tt install on the same
\* directories.  When the tt executable cannot be copied it returns nil.
InstallInDocker(p) ==
    /\ At(p, "docker")
    /\ \/ /\ Goto(p, [cmd[p] EXCEPT !.pc = "probe", !.flags = @ \ {"docker"}])
          /\ UNCHANGED <<file, link>>
       \/ /\ Fault
          /\ Finish(p, cmd[p], "ok")
          /\ UNCHANGED <<file, link>>

\* Dependencies are checked, sources are downloaded, patched and built in a
\* temporary directory; nothing of the environment changes.
BuildTt(p) ==
    /\ At(p, "build") /\ cmd[p].prog = "tt"
    /\ Goto(p, [cmd[p] EXCEPT !.pc = IF "reinstall" \in cmd[p].flags THEN "clear" ELSE "open"])
    /\ UNCHANGED <<file, link>>

ClearFirst(c) == "reinstall" \in c.flags /\ Present("bin", c.name)

BuildTarantool(p) ==
    /\ At(p, "build") /\ cmd[p].prog = "tarantool"
    /\ Goto(p, [cmd[p] EXCEPT !.pc = IF ClearFirst(cmd[p]) THEN "clear" ELSE "open"])
    /\ UNCHANGED <<file, link>>

\* The bundle is found by its name, downloaded and unpacked.
GetTarantoolEE(p) ==
    /\ At(p, "build") /\ cmd[p].prog = "tarantool-ee"
    /\ Goto(p, [cmd[p] EXCEPT !.pc = IF ClearFirst(cmd[p]) THEN "clear" ELSE "open"])
    /\ UNCHANGED <<file, link>>

\* copyBuildedTT on --reinstall: os.Remove fails when there is no such file.
ClearTt(p) ==
    /\ At(p, "clear") /\ cmd[p].prog = "tt"
    /\ IF ~Present("bin", cmd[p].name) THEN Fail(p)
       ELSE /\ file' = [file EXCEPT !["bin"][cmd[p].name] = "absent"]
            /\ Goto(p, [cmd[p] EXCEPT !.pc = "open", !.touched = TRUE])
            /\ UNCHANGED link

\* tarantool on --reinstall: os.RemoveAll on the binary, then on the headers.
ClearTarantool(p) ==
    /\ At(p, "clear") /\ cmd[p].prog # "tt"
    /\ LET c == cmd[p]
       IN /\ file' = [file EXCEPT ![c.dir][c.name] = "absent"]
          /\ Goto(p, IF c.dir = "bin" THEN [c EXCEPT !.dir = "inc", !.touched = TRUE]
                     ELSE [c EXCEPT !.pc = "open", !.dir = "bin"])
    /\ UNCHANGED link

\* copyBuildedTT and copyBuildedTarantool: a copy truncates its target and
\* then fills it.  A copy that ends while another is at work leaves what that
\* one has written so far; headers cannot be copied into a removed directory.
Open(p) ==
    /\ At(p, "open")
    /\ LET c == cmd[p]
       IN /\ file' = [file EXCEPT ![c.dir][c.name] = "torn"]
          /\ Goto(p, [c EXCEPT !.pc = "fill", !.touched = TRUE])
    /\ UNCHANGED link

Fill(p) ==
    /\ At(p, "fill")
    /\ LET c == cmd[p]
           shared == \E q \in Procs \ {p} :
                         At(q, "fill") /\ cmd[q].name = c.name /\ cmd[q].dir = c.dir
           gone == file[c.dir][c.name] = "absent"
       IN IF gone /\ c.dir = "inc" THEN Fail(p)
          ELSE /\ file' = [file EXCEPT ![c.dir][c.name] =
                               IF gone THEN "absent" ELSE IF shared THEN "torn" ELSE "whole"]
               /\ IF c.dir = LastDir(c.prog)
                  THEN Goto(p, [c EXCEPT !.pc = "stat", !.links = LinksTo(c.prog, c.name)])
                  ELSE Goto(p, [c EXCEPT !.pc = "open", !.dir = "inc"])
               /\ UNCHANGED link

-----------------------------------------------------------------------------
(* util.CreateSymlink with overwrite: stat, remove, symlink.               *)

\* os.Stat follows the link, so a link whose target is gone is taken for none.
Stat(p) ==
    /\ At(p, "stat")
    /\ LET c == cmd[p] h == Head(c.links)
       IN Goto(p, [c EXCEPT !.pc = IF Resolves(h.dir, h.name) THEN "unlink" ELSE "symlink"])
    /\ UNCHANGED <<file, link>>

Unlink(p) ==
    /\ At(p, "unlink")
    /\ LET c == cmd[p] h == Head(c.links)
       IN IF link[h.dir][h.name] = None THEN Fail(p)
          ELSE /\ link' = [link EXCEPT ![h.dir][h.name] = None]
               /\ Goto(p, [c EXCEPT !.pc = "symlink", !.touched = TRUE])
               /\ UNCHANGED file

\* Faulty variant: when the second link cannot be set the first is taken back.
SymlinkUndo(p) ==
    /\ At(p, "symlink")
    /\ LET c == cmd[p] h == Head(c.links) rest == Tail(c.links)
           more == [c EXCEPT !.links = rest, !.touched = TRUE,
                             !.pc = IF rest = <<>> THEN "headers" ELSE "stat"]
       IN IF link[h.dir][h.name] # None
          THEN /\ link' = [link EXCEPT !["bin"][h.name] = None]
               /\ Finish(p, c, "error") /\ UNCHANGED <<file, faults>>
          ELSE /\ link' = [link EXCEPT ![h.dir][h.name] = h.to]
               /\ IF rest # <<>> \/ (h.to = Dev /\ h.dir = "bin")
                  THEN Goto(p, more) /\ UNCHANGED file
                  ELSE Finish(p, more, "ok") /\ UNCHANGED <<file, faults>>

\* os.Symlink does not overwrite.  The links of a version are set one after
\* the other; a development build looks for its headers in between.
Symlink(p) ==
    /\ At(p, "symlink")
    /\ LET c == cmd[p] h == Head(c.links) rest == Tail(c.links)
           more == [c EXCEPT !.links = rest, !.touched = TRUE,
                             !.pc = IF rest = <<>> THEN "headers" ELSE "stat"]
       IN IF link[h.dir][h.name] # None THEN Fail(p)
          ELSE /\ link' = [link EXCEPT ![h.dir][h.name] = h.to]
               /\ IF rest # <<>> \/ (h.to = Dev /\ h.dir = "bin")
                  THEN Goto(p, more) /\ UNCHANGED file
                  ELSE Finish(p, more, "ok") /\ UNCHANGED <<file, faults>>

\* The tail of installTarantoolDev: a wrong --include-dir is an error after
\* the binary was switched; the old link to headers is removed in any case.
Headers(p) ==
    /\ At(p, "headers")
    /\ LET c == cmd[p]
           headers == Tail(LinksTo(c.prog, Dev))
           unlinked == [link EXCEPT !["inc"]["tarantool"] = None]
       IN \/ Fail(p)
          \/ /\ link' = unlinked
             /\ Goto(p, [c EXCEPT !.pc = "stat", !.links = headers])
             /\ UNCHANGED file
          \/ /\ link' = unlinked
             /\ Finish(p, c, "ok")
             /\ UNCHANGED <<file, faults>>

-----------------------------------------------------------------------------
(* tt uninstall.                                                           *)

Uninstall(p) ==
    /\ At(p, "uninstall")
    /\ LET c == cmd[p]
           v == IF c.ver = "" THEN GetDefault(c.prog) ELSE c.ver
       IN CASE c.prog = "tarantool-dev" /\ link["bin"]["tarantool"] = Dev ->
                   /\ Goto(p, [c EXCEPT !.pc = "undev", !.name = Dev])
                   /\ UNCHANGED <<file, link>>
            [] c.prog # "tarantool-dev" /\ v # "" ->
                   /\ Goto(p, [c EXCEPT !.pc = "remove", !.names = AllFormats(c.prog, v)])
                   /\ UNCHANGED <<file, link>>
            [] OTHER -> Fail(p)

\* A development build has links only; it may have none to headers.
RemoveDev(p) ==
    /\ At(p, "undev")
    /\ LET c == cmd[p]
       IN IF c.dir = "bin" /\ link["bin"]["tarantool"] = None THEN Fail(p)
          ELSE /\ link' = [link EXCEPT ![c.dir]["tarantool"] = None]
               /\ Goto(p, [c EXCEPT !.dir = "inc", !.touched = TRUE,
                                    !.pc = IF c.dir = "bin" THEN "undev" ELSE "latest"])
               /\ UNCHANGED file

\* remove, its checks: the file must be there and the link must resolve, to
\* whatever program.  A version of tt is tried in both of its spellings.
RemoveProgram(p) ==
    /\ At(p, "remove")
    /\ LET c == cmd[p] n == Head(c.names)
           target == link[c.dir][LinkOf(c.prog)]
           points == <<n, target>> \in Within
       IN IF ~Present(c.dir, n)
          THEN IF Len(c.names) = 1 THEN Fail(p)
               ELSE /\ Goto(p, [c EXCEPT !.names = Tail(@)])
                    /\ UNCHANGED <<file, link>>
          ELSE IF ~Resolves(c.dir, LinkOf(c.prog)) THEN Fail(p)
          ELSE /\ Goto(p, [c EXCEPT !.pc = IF points THEN "removeLink" ELSE "removeFile",
                                    !.name = n])
               /\ UNCHANGED <<file, link>>

RemoveLink(p) ==
    /\ At(p, "removeLink")
    /\ LET c == cmd[p]
       IN IF link[c.dir][LinkOf(c.prog)] = None THEN Fail(p)
          ELSE /\ link' = [link EXCEPT ![c.dir][LinkOf(c.prog)] = None]
               /\ Goto(p, [c EXCEPT !.pc = "removeFile", !.touched = TRUE,
                                    !.unlinked = @ \/ c.dir = "bin"])
               /\ UNCHANGED file

\* Faulty variant: the headers stay.
RemoveFileBinary(p) ==
    /\ At(p, "removeFile")
    /\ LET c == cmd[p]
       IN /\ file' = [file EXCEPT ![c.dir][c.name] = "absent"]
          /\ IF c.unlinked
             THEN Goto(p, [c EXCEPT !.pc = "latest"]) /\ UNCHANGED link
             ELSE Finish(p, c, "ok") /\ UNCHANGED <<link, faults>>

\* Headers follow the binary; only the link of the binary tells whether the
\* program was the active one.
RemoveFile(p) ==
    /\ At(p, "removeFile")
    /\ LET c == cmd[p]
       IN /\ file' = [file EXCEPT ![c.dir][c.name] = "absent"]
          /\ IF c.dir # LastDir(c.prog)
             THEN /\ Goto(p, [c EXCEPT !.pc = "remove", !.dir = "inc", !.touched = TRUE,
                                       !.names = <<c.name>>])
                  /\ UNCHANGED link
             ELSE IF c.unlinked
             THEN Goto(p, [c EXCEPT !.pc = "latest"]) /\ UNCHANGED link
             ELSE Finish(p, c, "ok") /\ UNCHANGED <<link, faults>>

SwitchToLatest(p) ==
    /\ At(p, "latest")
    /\ LET c == cmd[p] n == SearchLatestVersion(LinkOf(c.prog))
       IN IF n = None
          THEN Finish(p, c, "ok") /\ UNCHANGED <<file, link, faults>>
          ELSE /\ Goto(p, [c EXCEPT !.pc = "stat", !.links = LinksTo(n.prog, n)])
               /\ UNCHANGED <<file, link>>

-----------------------------------------------------------------------------
(* tt binaries switch.                                                     *)

\* Without a version the user picks one of those ParseBinaries lists.
ListedVersions(g) ==
    {Listing[i].ver : i \in {i \in ReadBinDir : Listing[i].prog = g /\ Listing[i].ver # "link"}}

\* switchTt puts a "v" before every version that has none.
SwitchTtName(v) ==
    [prog |-> "tt", ver |-> IF v \in Tags["tt"] THEN v
                            ELSE IF v \in DOMAIN Prefixed THEN Prefixed[v] ELSE "none"]

\* switchTt and switchTarantool set the links of a version that is installed.
SwitchTo(p, n) ==
    IF n \in Names /\ Installed(n)
    THEN /\ Goto(p, [cmd[p] EXCEPT !.pc = "stat", !.name = n, !.links = LinksTo(n.prog, n)])
         /\ UNCHANGED <<file, link>>
    ELSE Fail(p)

Switch(p) ==
    /\ At(p, "switch")
    /\ LET c == cmd[p]
           choice == IF c.ver = "" THEN ListedVersions(c.prog) ELSE {c.ver}
       IN \/ choice = {} /\ Fail(p)
          \/ \E v \in choice :
                SwitchTo(p, IF c.prog = "tt" THEN SwitchTtName(v) ELSE [prog |-> c.prog, ver |-> v])

-----------------------------------------------------------------------------
(* The specification.                                                      *)

\* An environment in which versions were installed one after the other: the
\* last one, or a development build after it, is active.
Init ==
    /\ \E S \in {T \in SUBSET Names : Cardinality(T) <= MaxInitial} :
       \E active \in [LinkNames -> S \cup {None, Dev}], headers \in BOOLEAN :
          /\ active["tt"] # Dev
          /\ \A l \in LinkNames :
                /\ active[l] \in S => LinkOf(active[l].prog) = l
                /\ active[l] = None => \A n \in S : LinkOf(n.prog) # l
          /\ file = [d \in Dirs |-> [n \in Names |->
                        IF n \in S /\ d \in Range(DirsOf(n.prog)) THEN "whole" ELSE "absent"]]
          /\ headers \/ active["tarantool"] = Dev
          /\ link = [d \in Dirs |-> [l \in LinkNames |->
                        IF d = "inc" /\ (l = "tt" \/ ~headers) THEN None ELSE active[l]]]
    /\ built = TRUE
    /\ cmd = [p \in Procs |-> Idle]
    /\ started = 0
    /\ faults = 0
    /\ removals = FALSE
    /\ hurt = 0

\* The user removes the build directory an installed tarantool-dev lives in.
BuildDirGone ==
    /\ built
    /\ Fault
    /\ built' = FALSE
    /\ UNCHANGED <<file, link, cmd, started, removals, hurt>>

Next ==
    \/ \E p \in Procs :
          \/ \E r \in Requests : Start(p, r)
          \/ Install(p) \/ ProbeTt(p) \/ ProbeTarantool(p) \/ ProbeTarantoolEE(p)
          \/ InstallInDocker(p) \/ BuildTt(p) \/ BuildTarantool(p) \/ GetTarantoolEE(p)
          \/ ClearTt(p) \/ ClearTarantool(p) \/ Open(p) \/ Fill(p)
          \/ Stat(p) \/ Unlink(p) \/ Symlink(p) \/ Headers(p)
          \/ Uninstall(p) \/ RemoveDev(p) \/ RemoveProgram(p) \/ RemoveLink(p) \/ RemoveFile(p)
          \/ SwitchToLatest(p) \/ Switch(p)
          \/ Interrupt(p)
    \/ BuildDirGone

Spec == Init /\ [][Next]_vars

-----------------------------------------------------------------------------
(* Properties.                                                             *)

Quiet == \A p \in Procs : At(p, "idle")

\* Between commands that ran one at a time and none of which stopped half-way,
\* the tarantool in bin_dir and the headers in include_dir are of one version
\* and both are there: changeActiveTarantoolVersion, installTarantoolDev and
\* uninstall's switchProgramToLatestVersion set the two links separately.  And a
\* program of which a release or a commit build is installed has an active
\* version: uninstalling the active one makes another one active.  (What was
\* built from master is not considered for that.)
LinksAgree ==
    (Quiet /\ hurt = 0) =>
        LET b == link["bin"]["tarantool"] i == link["inc"]["tarantool"]
        IN /\ b # Dev => b = i
           /\ b = Dev => i \in {Dev, None}
           /\ \A d \in Dirs, l \in LinkNames :
                 link[d][l] \in Names => file[d][link[d][l]] = "whole"
           /\ \A n \in Names :
                 n.ver # "master" /\ Installed(n) => link["bin"][LinkOf(n.prog)] # None

\* Installs and switches that race with one another, none of them interrupted,
\* never lose the active version: when all have ended, each program that has a
\* version has an active one, and its binary is whole.  CreateSymlink is stat,
\* remove, symlink without a lock, and two installs may copy one file.
RacesKeepAVersion ==
    (Quiet /\ faults = 0 /\ ~removals) =>
        \A n \in Names : Installed(n) =>
            LET active == link["bin"][LinkOf(n.prog)]
            IN active = Dev \/ (active \in Names /\ file["bin"][active] = "whole")

\* The active version of a program is there and whole, after commands that ran one at a time
\* and after installs and switches that raced.
ActiveIsSound == LinksAgree /\ RacesKeepAVersion

\* Command p, which did op and was alone, ends successfully in this step.
Ends(p, op) == ~At(p, "idle") /\ At(p, "idle")' /\ cmd'[p].res = "ok"
               /\ cmd[p].op = op /\ cmd[p].alone

\* A successful command that ran alone has done what it was asked for, however
\* earlier commands left the environment.  After an uninstall there is neither
\* the binary nor the headers of the version, and no link that names it: the
\* binary may be known in two spellings, and the two links may name different
\* versions.  After an install or a switch the version is active, in both
\* directories; an install through docker may report success without
\* installing.
SuccessIsComplete ==
    [][\A p \in Procs :
          /\ Ends(p, "uninstall") /\ cmd[p].prog # "tarantool-dev" =>
               \A d \in Dirs : /\ cmd[p].name \in Names /\ file'[d][cmd[p].name] = "absent"
                               /\ \A l \in LinkNames : link'[d][l] # cmd[p].name
          /\ \A op \in {"install", "switch"} : Ends(p, op) /\ "docker" \notin cmd[p].flags =>
               \A i \in DOMAIN DirsOf(cmd[p].prog) :
                  \/ link'[DirsOf(cmd[p].prog)[i]][LinkOf(cmd[p].prog)] = cmd[p].name
                  \/ cmd[p].name = Dev /\ i = 2 /\ link'["inc"]["tarantool"] = None]_vars

\* After commands that ran one at a time and of which at most one stopped
\* half-way, a successful install of a released tarantool leaves a whole
\* binary: a copy that was cut short has no headers, so the next install does
\* not take it for an installed version.
HealsAfterOneFault ==
    [][\A p \in Procs :
          (Ends(p, "install") /\ hurt <= 1 /\ "docker" \notin cmd[p].flags
             /\ cmd[p].prog \in {"tarantool", "tarantool-ee"} /\ cmd[p].name.ver # "master") =>
                 file'["bin"][cmd[p].name] = "whole"]_vars
=============================================================================
