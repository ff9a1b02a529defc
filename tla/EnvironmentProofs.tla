-------------------------- MODULE EnvironmentProofs -------------------------
(***************************************************************************)
(* The programs of an environment: the order of versions is a strict weak  *)
(* order, and the search for the newest one finds it in every bin_dir; and  *)
(* what the commands on bin_dir and include_dir guarantee for any programs, *)
(* versions, requests and faults and any number of commands at a time.      *)
(***************************************************************************)
EXTENDS Binaries, VersionOrder, WellFoundedInduction, TLAPS

-----------------------------------------------------------------------------
(* The order. *)

\* IsLess written out: the loop of the code, unrolled.
LEMMA Unrolled ==
    ASSUME NEW a \in Version, NEW b \in Version
    PROVE  IsLess(a, b) <=>
        \/ a[1] < b[1]
        \/ a[2] < b[2] /\ a[1] = b[1]
        \/ a[3] < b[3] /\ a[1] = b[1] /\ a[2] = b[2]
        \/ a[4] < b[4] /\ a[1] = b[1] /\ a[2] = b[2] /\ a[3] = b[3]
        \/ a[5] < b[5] /\ a[1] = b[1] /\ a[2] = b[2] /\ a[3] = b[3] /\ a[4] = b[4]
        \/ a[6] < b[6] /\ a[1] = b[1] /\ a[2] = b[2] /\ a[3] = b[3] /\ a[4] = b[4] /\ a[5] = b[5]
        \/ a[7] < b[7] /\ a[1] = b[1] /\ a[2] = b[2] /\ a[3] = b[3] /\ a[4] = b[4] /\ a[5] = b[5]
                       /\ a[6] = b[6]
<1>1. Fields = {1, 2, 3, 4, 5, 6, 7}
    BY DEF Fields
<1>2. /\ 1 .. 0 = {} /\ 1 .. 1 = {1} /\ 1 .. 2 = {1, 2} /\ 1 .. 3 = {1, 2, 3}
      /\ 1 .. 4 = {1, 2, 3, 4} /\ 1 .. 5 = {1, 2, 3, 4, 5} /\ 1 .. 6 = {1, 2, 3, 4, 5, 6}
    OBVIOUS
<1>3. IsLess(a, b) <=>
        \/ a[1] < b[1]
        \/ a[2] < b[2] /\ \A j \in {1} : a[j] = b[j]
        \/ a[3] < b[3] /\ \A j \in {1, 2} : a[j] = b[j]
        \/ a[4] < b[4] /\ \A j \in {1, 2, 3} : a[j] = b[j]
        \/ a[5] < b[5] /\ \A j \in {1, 2, 3, 4} : a[j] = b[j]
        \/ a[6] < b[6] /\ \A j \in {1, 2, 3, 4, 5} : a[j] = b[j]
        \/ a[7] < b[7] /\ \A j \in {1, 2, 3, 4, 5, 6} : a[j] = b[j]
    BY <1>1, <1>2 DEF IsLess
<1> QED BY <1>3

\* The numbers of a version.
LEMMA Numbers ==
    ASSUME NEW a \in Version
    PROVE  /\ a[1] \in Nat /\ a[2] \in Nat /\ a[3] \in Nat /\ a[4] \in Nat
           /\ a[5] \in Nat /\ a[6] \in Nat /\ a[7] \in Nat
BY DEF Version, Fields

\* version.IsLess is a strict weak order, as sort.Stable and the search for the newest version
\* need it: no version is less than itself, the order is transitive, and if a is below c and
\* not below b, then b is below c too.
THEOREM OrderIsWeak ==
    ASSUME NEW a \in Version, NEW b \in Version, NEW c \in Version
    PROVE  /\ ~IsLess(a, a)
           /\ IsLess(a, b) /\ IsLess(b, c) => IsLess(a, c)
           /\ ~IsLess(a, b) /\ IsLess(a, c) => IsLess(b, c)
<1>1. ~IsLess(a, a)
    BY Unrolled, Numbers
<1>2. IsLess(a, b) /\ IsLess(b, c) => IsLess(a, c)
    BY Unrolled, Numbers
<1>3. ~IsLess(a, b) /\ IsLess(a, c) => IsLess(b, c)
    BY Unrolled, Numbers
<1> QED BY <1>1, <1>2, <1>3

-----------------------------------------------------------------------------
(* The search. *)

TypeInv ==
    /\ binaries \in Seq(Entry)
    /\ at \in 1 .. (Len(binaries) + 1)
    /\ latestVersion \in Nat /\ latestHash \in Nat
    /\ latestVersionInfo \in Version

\* What has been found among the entries before at.
VersionInv ==
    /\ latestVersion = 0 => UsableBefore("version", at) = {}
    /\ latestVersion # 0 =>
          /\ latestVersion \in UsableBefore("version", at)
          /\ latestVersionInfo = binaries[latestVersion].ver
          /\ \A k \in UsableBefore("version", at) :
                /\ ~IsLess(latestVersionInfo, binaries[k].ver)
                /\ k < latestVersion => IsLess(binaries[k].ver, latestVersionInfo)

HashInv ==
    /\ latestHash = 0 => UsableBefore("hash", at) = {}
    /\ latestHash # 0 => /\ latestHash \in UsableBefore("hash", at)
                         /\ \A k \in UsableBefore("hash", at) : latestHash <= k

IndInv == TypeInv /\ VersionInv /\ HashInv

\* An entry that the loop passes is added to those it has seen if it is usable and of the
\* kind in question.
LEMMA Grows ==
    ASSUME TypeInv, at' = at + 1, binaries' = binaries, NEW kind
    PROVE  UsableBefore(kind, at)' =
              UsableBefore(kind, at) \cup
              (IF Usable(at) /\ binaries[at].kind = kind THEN {at} ELSE {})
<1>1. 1 .. (at' - 1) = 1 .. (at - 1) \cup {at}
    BY DEF TypeInv
<1>2. \A k : Usable(k)' <=> Usable(k)
    BY DEF Usable
<1> QED BY <1>1, <1>2 DEF UsableBefore

\* Every entry of the directory has a version to compare.
LEMMA EntryHasVersion ==
    ASSUME TypeInv, NEW k \in 1 .. Len(binaries)
    PROVE  binaries[k].ver \in Version
<1>1. binaries[k] \in Entry
    BY DEF TypeInv
<1> QED BY <1>1 DEF Entry

\* The loop has found nothing before its first entry.
LEMMA InitInv == LatestInit => IndInv
<1> SUFFICES ASSUME LatestInit PROVE IndInv
    OBVIOUS
<1>1. TypeInv
    <2>1. binaries \in Seq(Entry)
        BY ListingsAssumption DEF LatestInit
    <2>2. latestVersionInfo \in Version
        BY DEF LatestInit, Version
    <2> QED BY <2>1, <2>2 DEF LatestInit, TypeInv
<1>2. \A kind : UsableBefore(kind, at) = {}
    BY DEF LatestInit, UsableBefore
<1> QED BY <1>1, <1>2 DEF LatestInit, IndInv, VersionInv, HashInv

\* An iteration of the loop keeps what is known of the entries before it.
LEMMA StepInv == IndInv /\ [LatestNext]_latestVars => IndInv'
<1> SUFFICES ASSUME IndInv, [LatestNext]_latestVars PROVE IndInv'
    OBVIOUS
<1>1. CASE UNCHANGED latestVars
    BY <1>1 DEF latestVars, IndInv, TypeInv, VersionInv, HashInv, UsableBefore, Usable
<1>2. CASE Skip
    <2>1. TypeInv'
        BY <1>2 DEF Skip, IndInv, TypeInv
    <2>2. \A kind : UsableBefore(kind, at)' = UsableBefore(kind, at)
        BY <1>2, Grows, ZenonT(60) DEF Skip, IndInv
    <2> QED BY <1>2, <2>1, <2>2 DEF Skip, IndInv, VersionInv, HashInv
<1>3. CASE LookAtHash
    <2>1. TypeInv'
        BY <1>3 DEF LookAtHash, IndInv, TypeInv
    <2>2. UsableBefore("version", at)' = UsableBefore("version", at)
        BY <1>3, Grows, ZenonT(60) DEF LookAtHash, IndInv
    <2>3. UsableBefore("hash", at)' = UsableBefore("hash", at) \cup {at}
        BY <1>3, Grows DEF LookAtHash, IndInv
    <2>4. \A k \in UsableBefore("hash", at) : k <= at
        BY DEF UsableBefore, IndInv, TypeInv
    <2>5. VersionInv'
        BY <1>3, <2>2 DEF LookAtHash, IndInv, VersionInv
    <2>6. HashInv'
        BY <1>3, <2>3, <2>4 DEF LookAtHash, IndInv, TypeInv, HashInv
    <2> QED BY <2>1, <2>5, <2>6 DEF IndInv
<1>4. CASE LookAtVersion
    <2>1. binaries[at].ver \in Version
        <3>1. at \in 1 .. Len(binaries)
            BY <1>4 DEF LookAtVersion, IndInv, TypeInv
        <3> QED BY <3>1, EntryHasVersion DEF IndInv
    <2>2. TypeInv'
        BY <1>4, <2>1 DEF LookAtVersion, IndInv, TypeInv
    <2>3. UsableBefore("hash", at)' = UsableBefore("hash", at)
        BY <1>4, Grows, ZenonT(60) DEF LookAtVersion, IndInv
    <2>4. HashInv'
        BY <1>4, <2>3 DEF LookAtVersion, IndInv, HashInv
    <2>5. UsableBefore("version", at)' = UsableBefore("version", at) \cup {at}
        BY <1>4, Grows DEF LookAtVersion, IndInv
    <2>6. \A k \in UsableBefore("version", at) : k < at /\ binaries[k].ver \in Version
        <3>1. \A k \in UsableBefore("version", at) : k < at /\ k \in 1 .. Len(binaries)
            BY DEF UsableBefore, IndInv, TypeInv
        <3> QED BY <3>1, EntryHasVersion DEF IndInv
    <2>7. VersionInv'
        <3>1. CASE latestVersion = 0
            <4>1. UsableBefore("version", at)' = {at}
                BY <2>5, <3>1 DEF IndInv, VersionInv
            <4>2. latestVersion' = at /\ latestVersionInfo' = binaries[at].ver /\ binaries' = binaries
                BY <1>4, <3>1 DEF LookAtVersion
            <4>3. at # 0 /\ ~(at < at)
                BY DEF IndInv, TypeInv
            <4> QED BY <4>1, <4>2, <4>3, <2>1, OrderIsWeak DEF VersionInv
        <3>2. CASE latestVersion # 0 /\ IsLess(latestVersionInfo, binaries[at].ver)
            <4>1. latestVersion' = at /\ latestVersionInfo' = binaries[at].ver /\ binaries' = binaries
                BY <1>4, <3>2 DEF LookAtVersion
            <4>2. at # 0 /\ ~(at < at)
                BY DEF IndInv, TypeInv
            <4>3. ASSUME NEW k \in UsableBefore("version", at)
                  PROVE  /\ ~IsLess(binaries[at].ver, binaries[k].ver)
                         /\ IsLess(binaries[k].ver, binaries[at].ver)
                <5>1. ~IsLess(latestVersionInfo, binaries[k].ver)
                    BY <3>2 DEF IndInv, VersionInv
                <5>2. latestVersionInfo \in Version /\ binaries[k].ver \in Version
                    BY <2>6 DEF IndInv, TypeInv
                <5> QED BY <5>1, <5>2, <3>2, <2>1, OrderIsWeak
            <4> QED BY <2>5, <2>1, <4>1, <4>2, <4>3, OrderIsWeak DEF VersionInv
        <3>3. CASE latestVersion # 0 /\ ~IsLess(latestVersionInfo, binaries[at].ver)
            <4>1. UNCHANGED <<latestVersion, latestVersionInfo, binaries>>
                BY <1>4, <3>3 DEF LookAtVersion
            <4>2. latestVersion < at
                BY <3>3, <2>6 DEF IndInv, VersionInv
            <4>3. ~(at < latestVersion)
                BY <4>2 DEF IndInv, TypeInv
            <4> QED BY <2>5, <3>3, <4>1, <4>3 DEF IndInv, VersionInv
        <3> QED BY <3>1, <3>2, <3>3
    <2> QED BY <2>2, <2>4, <2>7 DEF IndInv
<1> QED BY <1>1, <1>2, <1>3, <1>4 DEF LatestNext

\* After an uninstall the newest version left becomes the active one: searchLatestVersion
\* finds it in every bin_dir, whatever else is there and in whatever order.
THEOREM NewestIsFound == LatestSpec => []LatestIsNewest
<1>1. IndInv => LatestIsNewest
    BY DEF IndInv, TypeInv, VersionInv, HashInv, LatestIsNewest, Latest
<1> QED BY InitInv, StepInv, <1>1, PTL DEF LatestSpec

-----------------------------------------------------------------------------
(* The commands on bin_dir and include_dir.                                *)

\* From here on the steps are first-order unless they cite SMT.
USE Zenon

\* The types.
Progs == Programs \cup {"tarantool-dev"}
Vers == STRING \cup {""} \cup {n.ver : n \in Names}
        \cup {Prefixed[v] : v \in DOMAIN Prefixed} \cup {Listing[i].ver : i \in DOMAIN Listing}
Targets == Names \cup {Dev}
NamesOf(S) == [prog : S, ver : Vers]
LinkTo == [dir : Dirs, name : LinkNames, to : Targets]
Linking == {"stat", "unlink", "symlink"}
Installing == {"install", "probe", "docker", "build", "clear", "open", "fill", "headers"}
Removing == {"uninstall", "undev", "remove", "removeLink", "removeFile", "latest"}
Points == {"idle", "switch"} \cup Linking \cup Installing \cup Removing
Command == [op : {"none", "install", "uninstall", "switch"}, prog : Progs, ver : Vers,
            flags : SUBSET {"reinstall", "docker"}, pc : Points, name : Targets \cup {None},
            dir : Dirs, names : Seq(NamesOf(Progs)), links : Seq(LinkTo), unlinked : BOOLEAN,
            touched : BOOLEAN, alone : BOOLEAN, res : {"ok", "error"}]

BinTypeOK ==
    /\ file \in [Dirs -> [Names -> Content]]
    /\ link \in [Dirs -> [LinkNames -> Targets \cup {None}]]
    /\ built \in BOOLEAN /\ removals \in BOOLEAN /\ hurt \in {0, 1, 2} /\ faults \in Nat
    /\ cmd \in [Procs -> Command]

\* The link to t in the directory d, and what is left to do to make t active.
LinkFor(d, t) == [dir |-> d, name |-> LinkOf(t.prog), to |-> t]
PlanOf(links, t) ==
    \/ (t.prog = "tt" \/ t = Dev) /\ links = <<LinkFor("bin", t)>>
    \/ t \in Names /\ t.prog # "tt" /\ links = <<LinkFor("bin", t), LinkFor("inc", t)>>
    \/ t.prog # "tt" /\ links = <<LinkFor("inc", t)>>

\* What a command is about, at its program point.
ShapeOf(c) ==
    /\ c.pc \in Installing => c.op = "install"
    /\ c.pc \in Removing => c.op = "uninstall"
    /\ c.pc = "switch" => c.op = "switch"
    /\ c.pc \in Linking => c.op # "none"
    /\ c.pc \in Installing \ {"install", "headers"} => c.name \in Names /\ c.name.prog = c.prog
    /\ c.pc = "docker" => c.prog = "tarantool" /\ "docker" \in c.flags
    /\ c.pc = "headers" => c.prog = "tarantool-dev" /\ c.name = Dev
    /\ c.pc \in {"install", "probe", "docker", "build", "uninstall"} => c.dir = "bin"
    /\ c.pc \in {"clear", "open", "fill", "remove", "removeLink", "removeFile"} =>
          (c.prog = "tt" => c.dir = "bin")
    /\ c.pc \in {"idle", "install", "probe", "docker", "build", "uninstall", "switch"} =>
          ~c.touched /\ ~c.unlinked
    /\ c.pc \in {"clear", "fill", "remove", "removeLink", "removeFile", "undev", "latest"} =>
          (c.pc \in {"fill", "latest"} \/ c.dir = "inc" => c.touched)
    /\ c.unlinked => c.touched
    /\ c.pc \in {"remove", "removeLink"} /\ c.dir = "bin" => ~c.touched
    /\ c.pc \in {"clear", "open", "fill"} => c.prog \in Programs
    /\ c.pc = "undev" => c.prog = "tarantool-dev" /\ c.name = Dev
    /\ c.pc \in {"removeLink", "removeFile"} => c.name \in Names /\ c.name.prog = c.prog
    /\ c.pc = "remove" => c.prog \in Programs /\ c.names \in Seq(NamesOf({c.prog})) /\ c.names # <<>>
    /\ c.pc = "remove" /\ c.dir = "inc" =>
          c.names = <<c.name>> /\ c.name \in Names /\ c.name.prog = c.prog
    /\ c.pc = "latest" /\ c.prog # "tarantool-dev" => c.name \in Names /\ c.name.prog = c.prog
    /\ c.pc \in Linking => \E t \in Targets :
          /\ PlanOf(c.links, t) /\ (c.op # "install" => t \in Names)
          /\ c.op # "uninstall" => t = c.name /\ t.prog = c.prog
          /\ c.op = "uninstall" /\ c.prog # "tarantool-dev" =>
                c.name \in Names /\ c.name.prog = c.prog /\ (c.alone => t # c.name)

\* Links have the name of their program, and tt has no headers.
Placed ==
    /\ \A d \in Dirs, l \in LinkNames : link[d][l] # None => LinkOf(link[d][l].prog) = l
    /\ link["inc"]["tt"] = None
    /\ \A n \in Names : n.prog = "tt" => file["inc"][n] = "absent"

\* A command that is alone is the only one, and until commands overlap each is alone.
Solo ==
    /\ \A p, q \in Procs : cmd[p].alone /\ cmd[p].pc # "idle" /\ cmd[q].pc # "idle" => p = q
    /\ hurt < 2 => \A p \in Procs : cmd[p].alone

BinInv ==
    /\ BinTypeOK /\ Placed /\ Solo
    /\ \A p \in Procs : ShapeOf(cmd[p])


-----------------------------------------------------------------------------
(* The invariants.                                                         *)

\* The first of the two links of a program that has headers is set.
Second(c) == c.pc \in Linking /\ Head(c.links).dir = "inc"

\* Nothing of n is left in the directory d.
Clean(d, n) == file[d][n] = "absent" /\ \A l \in LinkNames : link[d][l] # n

\* What a command that is alone has done so far.
DoneOf(c) ==
    c.alone =>
        /\ Second(c) => link["bin"]["tarantool"] = Head(c.links).to
        /\ c.pc = "headers" => link["bin"]["tarantool"] = Dev
        /\ c.op = "uninstall" /\ c.prog # "tarantool-dev" =>
              /\ c.pc = "removeFile" => link[c.dir][LinkOf(c.prog)] # c.name
              /\ c.pc \in {"remove", "removeLink", "removeFile"} /\ c.dir = "inc" =>
                    Clean("bin", c.name)
              /\ c.pc \in Linking \cup {"latest"} => \A d \in Dirs : Clean(d, c.name)

-----------------------------------------------------------------------------
(* Names, links and records.                                               *)

\* A nonempty set of natural numbers has a least element.
LEMMA Least ==
    ASSUME NEW S \in SUBSET Nat, S # {}
    PROVE  \E i \in S : \A j \in S : i <= j
<1> DEFINE R == {ss \in Nat \X Nat : ss[1] < ss[2]}
<1>1. IsWellFoundedOn(R, Nat)
    BY NatLessThanWellFounded DEF OpToRel
<1>2. \A x, y \in Nat : x < y => <<x, y>> \in R
    BY SMT
<1> HIDE DEF R
<1>3. PICK i \in S : \A j \in S : ~(<<j, i>> \in R)
    BY <1>1, WFMin
<1>4. \A j \in S : ~(j < i)
    BY <1>2, <1>3
<1>5. QED
    BY <1>4, SMT

\* The programs that have a name.
LEMMA NameFacts ==
    /\ \A n \in Names : /\ n.prog \in Programs /\ n = [prog |-> n.prog, ver |-> n.ver]
                        /\ n.ver \in Tags[n.prog] \cup {"master", Hash}
                        /\ n # Dev /\ n # None
    /\ Dev # None /\ Dev.prog = "tarantool-dev"
<1>1. ASSUME NEW n \in Names
      PROVE  /\ n.prog \in Programs /\ n = [prog |-> n.prog, ver |-> n.ver]
             /\ n.ver \in Tags[n.prog] \cup {"master", Hash}
    <2>1. PICK g \in Programs :
             n \in {[prog |-> g, ver |-> v] :
                       v \in Tags[g] \cup (IF g = "tarantool-ee" THEN {} ELSE {"master", Hash})}
        BY DEF Names
    <2>2. PICK v \in Tags[g] \cup (IF g = "tarantool-ee" THEN {} ELSE {"master", Hash}) :
             n = [prog |-> g, ver |-> v]
        BY <2>1
    <2>3. QED
        BY <2>2
<1>2. Dev.prog = "tarantool-dev" /\ Dev # None
    BY BinariesAssumption DEF Dev
<1>3. QED
    BY <1>1, <1>2, BinariesAssumption DEF Programs

\* A release, a build of master and a build of a commit have a name.
LEMMA NamesAre ==
    ASSUME NEW g \in Programs, NEW v, v \in Tags[g] \/ (g # "tarantool-ee" /\ v \in {"master", Hash})
    PROVE  [prog |-> g, ver |-> v] \in Names
<1> DEFINE Of(h) == {[prog |-> h, ver |-> w] :
                w \in Tags[h] \cup (IF h = "tarantool-ee" THEN {} ELSE {"master", Hash})}
<1>1. [prog |-> g, ver |-> v] \in Of(g)
    OBVIOUS
<1>2. Names = UNION {Of(h) : h \in Programs}
    BY DEF Names
<1> HIDE DEF Of
<1>3. QED
    BY <1>1, <1>2

\* A link target is a known version or the development build, under a link name of its program.
LEMMA TargetFacts ==
    /\ \A t \in Targets : t.prog \in Progs /\ LinkOf(t.prog) \in LinkNames
    /\ Names \subseteq NamesOf(Progs)
    /\ \A t \in Targets : t # Dev => t \in Names
    /\ \A t \in Targets, d \in Dirs : LinkFor(d, t) \in LinkTo
<1>1. \A t \in Targets : t.prog \in Progs
    BY NameFacts DEF Targets, Progs
<1>2. \A t : LinkOf(t.prog) \in LinkNames
    BY DEF LinkOf, LinkNames
<1>3. \A n \in Names : n \in NamesOf(Progs)
    <2>1. \A n \in Names : n.ver \in Vers /\ n.prog \in Progs
        BY NameFacts DEF Vers, Progs
    <2>2. \A n \in Names : [prog |-> n.prog, ver |-> n.ver] \in NamesOf(Progs)
        BY <2>1 DEF NamesOf
    <2>3. \A n \in Names : n = [prog |-> n.prog, ver |-> n.ver]
        BY NameFacts
    <2>4. QED
        BY <2>2, <2>3
<1>4. QED
    BY <1>1, <1>2, <1>3 DEF Targets, LinkFor, LinkTo

\* The first link of a plan, and the rest.
LEMMA PlanFacts ==
    ASSUME NEW t \in Targets, NEW s, PlanOf(s, t)
    PROVE  /\ s \in Seq(LinkTo) /\ Tail(s) \in Seq(LinkTo)
           /\ Head(s).to = t /\ Head(s).name = LinkOf(t.prog) /\ Head(s).dir \in Dirs
           /\ Head(s) = LinkFor(Head(s).dir, t)
           /\ Head(s).dir = "inc" => Tail(s) = <<>> /\ t.prog # "tt"
           /\ Head(s).dir = "bin" /\ t \in Names /\ t.prog # "tt" =>
                 /\ Tail(s) # <<>> /\ PlanOf(Tail(s), t) /\ Head(Tail(s)).dir = "inc"
                 /\ Head(Tail(s)).to = t
           /\ Head(s).dir = "bin" /\ (t.prog = "tt" \/ t = Dev) => Tail(s) = <<>>
<1>1. /\ LinkFor("bin", t) \in LinkTo /\ LinkFor("inc", t) \in LinkTo
      /\ LinkFor("bin", t).dir = "bin" /\ LinkFor("inc", t).dir = "inc"
      /\ \A d : LinkFor(d, t).to = t /\ LinkFor(d, t).name = LinkOf(t.prog)
    BY TargetFacts DEF LinkFor, Dirs
<1>2. \A a \in LinkTo : <<a>> \in Seq(LinkTo) /\ Head(<<a>>) = a /\ Tail(<<a>>) = <<>>
    BY SMT
<1>3. \A a, b \in LinkTo : /\ <<a, b>> \in Seq(LinkTo) /\ Head(<<a, b>>) = a
                           /\ Tail(<<a, b>>) = <<b>> /\ <<b>> # <<>>
    BY SMT
<1>4. <<>> \in Seq(LinkTo)
    BY SMT
<1>5. Dev.prog # "tt" /\ Dev \notin Names
    BY NameFacts
<1>6. CASE (t.prog = "tt" \/ t = Dev) /\ s = <<LinkFor("bin", t)>>
    BY <1>1, <1>2, <1>4, <1>5, <1>6 DEF Dirs
<1>7. CASE t \in Names /\ t.prog # "tt" /\ s = <<LinkFor("bin", t), LinkFor("inc", t)>>
    <2>1. /\ Head(s) = LinkFor("bin", t) /\ Tail(s) = <<LinkFor("inc", t)>> /\ Tail(s) # <<>>
          /\ s \in Seq(LinkTo) /\ Tail(s) \in Seq(LinkTo) /\ Head(Tail(s)) = LinkFor("inc", t)
        BY <1>1, <1>2, <1>3, <1>7
    <2>2. PlanOf(Tail(s), t)
        BY <1>7, <2>1 DEF PlanOf
    <2>3. QED
        BY <1>1, <1>5, <1>7, <2>1, <2>2 DEF Dirs
<1>8. CASE t.prog # "tt" /\ s = <<LinkFor("inc", t)>>
    BY <1>1, <1>2, <1>4, <1>5, <1>8 DEF Dirs
<1>9. QED
    BY <1>6, <1>7, <1>8 DEF PlanOf

\* What LinksTo plans.
LEMMA LinksToIs ==
    ASSUME NEW t \in Targets
    PROVE  /\ t # Dev => PlanOf(LinksTo(t.prog, t), t)
           /\ Head(LinksTo(t.prog, t)) = LinkFor("bin", t)
           /\ t = Dev => Tail(LinksTo(t.prog, t)) = <<LinkFor("inc", t)>>
<1>1. t.prog = "tt" => LinksTo(t.prog, t) = <<LinkFor("bin", t)>>
    BY SMT DEF LinksTo, DirsOf, LinkFor
<1>2. t.prog # "tt" => LinksTo(t.prog, t) = <<LinkFor("bin", t), LinkFor("inc", t)>>
    BY SMT DEF LinksTo, DirsOf, LinkFor
<1>3. \A a, b \in LinkTo : Tail(<<a, b>>) = <<b>> /\ Head(<<a, b>>) = a /\ Head(<<a>>) = a
    BY SMT
<1>4. /\ Dev.prog # "tt"
      /\ LinkFor("bin", t) \in LinkTo /\ LinkFor("inc", t) \in LinkTo
    BY NameFacts, TargetFacts DEF Dirs
<1>5. QED
    BY <1>1, <1>2, <1>3, <1>4, TargetFacts DEF PlanOf

\* A version is installed when its binary is there, and its headers if it has any.
LEMMA InstalledIs ==
    ASSUME NEW n
    PROVE  Installed(n) <=> Present("bin", n) /\ (n.prog # "tt" => Present("inc", n))
<1>1. n.prog = "tt" => Range(DirsOf(n.prog)) = {"bin"}
    BY SMT DEF DirsOf, Range
<1>2. n.prog # "tt" => Range(DirsOf(n.prog)) = {"bin", "inc"}
    BY SMT DEF DirsOf, Range
<1>3. QED
    BY <1>1, <1>2 DEF Installed

\* One file, and one link, is changed.
FilePut(d, n, x) ==
    /\ file' \in [Dirs -> [Names -> Content]]
    /\ \A e \in Dirs, m \in Names : file'[e][m] = IF e = d /\ m = n THEN x ELSE file[e][m]
LinkPut(d, l, t) ==
    /\ link' \in [Dirs -> [LinkNames -> Targets \cup {None}]]
    /\ \A e \in Dirs, k \in LinkNames : link'[e][k] = IF e = d /\ k = l THEN t ELSE link[e][k]

\* Assigning one content changes that file only, and keeps the types.
LEMMA FileSet ==
    ASSUME BinTypeOK, NEW d \in Dirs, NEW n \in Names, NEW x \in Content,
           file' = [file EXCEPT ![d][n] = x]
    PROVE  FilePut(d, n, x)
BY DEF BinTypeOK, FilePut

\* Assigning one link changes that link only, and keeps the types.
LEMMA LinkSet ==
    ASSUME BinTypeOK, NEW d \in Dirs, NEW l \in LinkNames, NEW t \in Targets \cup {None},
           link' = [link EXCEPT ![d][l] = t]
    PROVE  LinkPut(d, l, t)
BY DEF BinTypeOK, LinkPut

-----------------------------------------------------------------------------
(* The steps of a command.                                                 *)

\* The rest of the state, whatever p does to its own record.
Others(p) ==
    /\ cmd' \in [Procs -> Command] /\ \A q \in Procs : q # p => cmd'[q] = cmd[q]
    /\ removals' = removals /\ built' = built

\* The command goes on.
Moves(p) ==
    /\ Others(p) /\ faults' = faults /\ hurt' = hurt
    /\ cmd'[p].op = cmd[p].op /\ cmd'[p].prog = cmd[p].prog /\ cmd'[p].alone = cmd[p].alone

\* The command is over; t tells whether it had changed anything.
Ended(p, t) ==
    /\ Others(p) /\ faults' \in Nat /\ (faults' = 0 => faults = 0)
    /\ cmd'[p].pc = "idle" /\ cmd'[p].op = "none" /\ cmd'[p].alone
    /\ ~cmd'[p].touched /\ ~cmd'[p].unlinked
    /\ IF cmd'[p].res # "ok" /\ t /\ hurt < 2 THEN hurt' = hurt + 1 ELSE hurt' = hurt

\* Goto replaces the record of its command and touches no other.
LEMMA GotoMoves ==
    ASSUME BinTypeOK, NEW p \in Procs, NEW j \in Command, Goto(p, j),
           j.op = cmd[p].op, j.prog = cmd[p].prog, j.alone = cmd[p].alone
    PROVE  Moves(p) /\ cmd'[p] = j
BY DEF BinTypeOK, Goto, Moves, Others

\* Finish resets the record of its command; hurt counts it when it had changed something.
LEMMA FinishEnds ==
    ASSUME BinTypeOK, NEW p \in Procs, NEW c, NEW r \in {"ok", "error"}, Finish(p, c, r),
           \/ faults' = faults
           \/ Fault
    PROVE  Ended(p, c.touched) /\ cmd'[p].res = r
<1> DEFINE j == [Idle EXCEPT !.res = r]
<1>1. /\ j.pc = "idle" /\ j.op = "none" /\ j.alone /\ j.res = r
      /\ j.name = None /\ j.prog = "tt" /\ j.ver = "" /\ j.flags = {} /\ j.dir = "bin"
      /\ j.names = <<>> /\ j.links = <<>> /\ j.unlinked = FALSE /\ j.touched = FALSE
    BY DEF Idle
<1>2. <<>> \in Seq(NamesOf(Progs)) /\ <<>> \in Seq(LinkTo)
    BY SMT
<1>3. j \in Command
    BY <1>1, <1>2 DEF Idle, Command, Progs, Programs, Vers, Points, Dirs
<1>4. cmd' = [cmd EXCEPT ![p] = j]
    BY DEF Finish
<1> HIDE DEF j
<1>5. faults' \in Nat /\ (faults' = 0 => faults = 0)
    BY SMT DEF Fault, BinTypeOK
<1>6. QED
    BY <1>1, <1>3, <1>4, <1>5 DEF Finish, Ended, Others, BinTypeOK

\* The record of p after one of its steps.
Becomes(p, pc, flags, name, dir, names, links, unlinked, touched) ==
    /\ Moves(p)
    /\ cmd'[p].pc = pc /\ cmd'[p].flags = flags /\ cmd'[p].name = name /\ cmd'[p].dir = dir
    /\ cmd'[p].names = names /\ cmd'[p].links = links
    /\ cmd'[p].unlinked = unlinked /\ cmd'[p].touched = touched

\* Each form in which an action changes the record of its command.
LEMMA SetPc ==
    ASSUME BinTypeOK, NEW p \in Procs, NEW k \in Points,
           Goto(p, [cmd[p] EXCEPT !.pc = k])
    PROVE  Becomes(p, k, cmd[p].flags, cmd[p].name, cmd[p].dir, cmd[p].names, cmd[p].links, cmd[p].unlinked, cmd[p].touched)
<1> DEFINE j == [cmd[p] EXCEPT !.pc = k]
<1>1. cmd[p] \in Command
    BY DEF BinTypeOK
<1>2. j \in Command
    BY <1>1 DEF Command
<1>3. /\ j.op = cmd[p].op /\ j.prog = cmd[p].prog /\ j.alone = cmd[p].alone
      /\ j.pc = k /\ j.flags = cmd[p].flags /\ j.name = cmd[p].name /\ j.dir = cmd[p].dir
      /\ j.names = cmd[p].names /\ j.links = cmd[p].links /\ j.unlinked = cmd[p].unlinked /\ j.touched = cmd[p].touched
    BY <1>1 DEF Command
<1> HIDE DEF j
<1>4. Goto(p, j)
    BY DEF j
<1>5. QED
    BY <1>2, <1>3, <1>4, GotoMoves DEF Becomes

\* Program point and flags (Rebuild, InstallInDocker).
LEMMA SetPcFlags ==
    ASSUME BinTypeOK, NEW p \in Procs, NEW k \in Points, NEW f \in SUBSET {"reinstall", "docker"},
           Goto(p, [cmd[p] EXCEPT !.pc = k, !.flags = f])
    PROVE  Becomes(p, k, f, cmd[p].name, cmd[p].dir, cmd[p].names, cmd[p].links, cmd[p].unlinked, cmd[p].touched)
<1> DEFINE j == [cmd[p] EXCEPT !.pc = k, !.flags = f]
<1>1. cmd[p] \in Command
    BY DEF BinTypeOK
<1>2. j \in Command
    BY <1>1 DEF Command
<1>3. /\ j.op = cmd[p].op /\ j.prog = cmd[p].prog /\ j.alone = cmd[p].alone
      /\ j.pc = k /\ j.flags = f /\ j.name = cmd[p].name /\ j.dir = cmd[p].dir
      /\ j.names = cmd[p].names /\ j.links = cmd[p].links /\ j.unlinked = cmd[p].unlinked /\ j.touched = cmd[p].touched
    BY <1>1 DEF Command
<1> HIDE DEF j
<1>4. Goto(p, j)
    BY DEF j
<1>5. QED
    BY <1>2, <1>3, <1>4, GotoMoves DEF Becomes

\* Program point and version (Install, Uninstall).
LEMMA SetPcName ==
    ASSUME BinTypeOK, NEW p \in Procs, NEW k \in Points, NEW n \in Targets \cup {None},
           Goto(p, [cmd[p] EXCEPT !.pc = k, !.name = n])
    PROVE  Becomes(p, k, cmd[p].flags, n, cmd[p].dir, cmd[p].names, cmd[p].links, cmd[p].unlinked, cmd[p].touched)
<1> DEFINE j == [cmd[p] EXCEPT !.pc = k, !.name = n]
<1>1. cmd[p] \in Command
    BY DEF BinTypeOK
<1>2. j \in Command
    BY <1>1 DEF Command
<1>3. /\ j.op = cmd[p].op /\ j.prog = cmd[p].prog /\ j.alone = cmd[p].alone
      /\ j.pc = k /\ j.flags = cmd[p].flags /\ j.name = n /\ j.dir = cmd[p].dir
      /\ j.names = cmd[p].names /\ j.links = cmd[p].links /\ j.unlinked = cmd[p].unlinked /\ j.touched = cmd[p].touched
    BY <1>1 DEF Command
<1> HIDE DEF j
<1>4. Goto(p, j)
    BY DEF j
<1>5. QED
    BY <1>2, <1>3, <1>4, GotoMoves DEF Becomes

\* Program point and links (Activate, Fill, Headers, SwitchToLatest).
LEMMA SetPcLinks ==
    ASSUME BinTypeOK, NEW p \in Procs, NEW k \in Points, NEW ls \in Seq(LinkTo),
           Goto(p, [cmd[p] EXCEPT !.pc = k, !.links = ls])
    PROVE  Becomes(p, k, cmd[p].flags, cmd[p].name, cmd[p].dir, cmd[p].names, ls, cmd[p].unlinked, cmd[p].touched)
<1> DEFINE j == [cmd[p] EXCEPT !.pc = k, !.links = ls]
<1>1. cmd[p] \in Command
    BY DEF BinTypeOK
<1>2. j \in Command
    BY <1>1 DEF Command
<1>3. /\ j.op = cmd[p].op /\ j.prog = cmd[p].prog /\ j.alone = cmd[p].alone
      /\ j.pc = k /\ j.flags = cmd[p].flags /\ j.name = cmd[p].name /\ j.dir = cmd[p].dir
      /\ j.names = cmd[p].names /\ j.links = ls /\ j.unlinked = cmd[p].unlinked /\ j.touched = cmd[p].touched
    BY <1>1 DEF Command
<1> HIDE DEF j
<1>4. Goto(p, j)
    BY DEF j
<1>5. QED
    BY <1>2, <1>3, <1>4, GotoMoves DEF Becomes

\* Program point, version and links (Install of a development build, SwitchTo).
LEMMA SetPcNameLinks ==
    ASSUME BinTypeOK, NEW p \in Procs, NEW k \in Points, NEW n \in Targets \cup {None}, NEW ls \in Seq(LinkTo),
           Goto(p, [cmd[p] EXCEPT !.pc = k, !.name = n, !.links = ls])
    PROVE  Becomes(p, k, cmd[p].flags, n, cmd[p].dir, cmd[p].names, ls, cmd[p].unlinked, cmd[p].touched)
<1> DEFINE j == [cmd[p] EXCEPT !.pc = k, !.name = n, !.links = ls]
<1>1. cmd[p] \in Command
    BY DEF BinTypeOK
<1>2. j \in Command
    BY <1>1 DEF Command
<1>3. /\ j.op = cmd[p].op /\ j.prog = cmd[p].prog /\ j.alone = cmd[p].alone
      /\ j.pc = k /\ j.flags = cmd[p].flags /\ j.name = n /\ j.dir = cmd[p].dir
      /\ j.names = cmd[p].names /\ j.links = ls /\ j.unlinked = cmd[p].unlinked /\ j.touched = cmd[p].touched
    BY <1>1 DEF Command
<1> HIDE DEF j
<1>4. Goto(p, j)
    BY DEF j
<1>5. QED
    BY <1>2, <1>3, <1>4, GotoMoves DEF Becomes

\* Program point and touched (ClearTt, Open, Unlink).
LEMMA SetPcTouched ==
    ASSUME BinTypeOK, NEW p \in Procs, NEW k \in Points, NEW t \in BOOLEAN,
           Goto(p, [cmd[p] EXCEPT !.pc = k, !.touched = t])
    PROVE  Becomes(p, k, cmd[p].flags, cmd[p].name, cmd[p].dir, cmd[p].names, cmd[p].links, cmd[p].unlinked, t)
<1> DEFINE j == [cmd[p] EXCEPT !.pc = k, !.touched = t]
<1>1. cmd[p] \in Command
    BY DEF BinTypeOK
<1>2. j \in Command
    BY <1>1 DEF Command
<1>3. /\ j.op = cmd[p].op /\ j.prog = cmd[p].prog /\ j.alone = cmd[p].alone
      /\ j.pc = k /\ j.flags = cmd[p].flags /\ j.name = cmd[p].name /\ j.dir = cmd[p].dir
      /\ j.names = cmd[p].names /\ j.links = cmd[p].links /\ j.unlinked = cmd[p].unlinked /\ j.touched = t
    BY <1>1 DEF Command
<1> HIDE DEF j
<1>4. Goto(p, j)
    BY DEF j
<1>5. QED
    BY <1>2, <1>3, <1>4, GotoMoves DEF Becomes

\* Directory and touched (ClearTarantool).
LEMMA SetDirTouched ==
    ASSUME BinTypeOK, NEW p \in Procs, NEW d \in Dirs, NEW t \in BOOLEAN,
           Goto(p, [cmd[p] EXCEPT !.dir = d, !.touched = t])
    PROVE  Becomes(p, cmd[p].pc, cmd[p].flags, cmd[p].name, d, cmd[p].names, cmd[p].links, cmd[p].unlinked, t)
<1> DEFINE j == [cmd[p] EXCEPT !.dir = d, !.touched = t]
<1>1. cmd[p] \in Command
    BY DEF BinTypeOK
<1>2. j \in Command
    BY <1>1 DEF Command
<1>3. /\ j.op = cmd[p].op /\ j.prog = cmd[p].prog /\ j.alone = cmd[p].alone
      /\ j.pc = cmd[p].pc /\ j.flags = cmd[p].flags /\ j.name = cmd[p].name /\ j.dir = d
      /\ j.names = cmd[p].names /\ j.links = cmd[p].links /\ j.unlinked = cmd[p].unlinked /\ j.touched = t
    BY <1>1 DEF Command
<1> HIDE DEF j
<1>4. Goto(p, j)
    BY DEF j
<1>5. QED
    BY <1>2, <1>3, <1>4, GotoMoves DEF Becomes

\* Program point and directory (ClearTarantool, Fill).
LEMMA SetPcDir ==
    ASSUME BinTypeOK, NEW p \in Procs, NEW k \in Points, NEW d \in Dirs,
           Goto(p, [cmd[p] EXCEPT !.pc = k, !.dir = d])
    PROVE  Becomes(p, k, cmd[p].flags, cmd[p].name, d, cmd[p].names, cmd[p].links, cmd[p].unlinked, cmd[p].touched)
<1> DEFINE j == [cmd[p] EXCEPT !.pc = k, !.dir = d]
<1>1. cmd[p] \in Command
    BY DEF BinTypeOK
<1>2. j \in Command
    BY <1>1 DEF Command
<1>3. /\ j.op = cmd[p].op /\ j.prog = cmd[p].prog /\ j.alone = cmd[p].alone
      /\ j.pc = k /\ j.flags = cmd[p].flags /\ j.name = cmd[p].name /\ j.dir = d
      /\ j.names = cmd[p].names /\ j.links = cmd[p].links /\ j.unlinked = cmd[p].unlinked /\ j.touched = cmd[p].touched
    BY <1>1 DEF Command
<1> HIDE DEF j
<1>4. Goto(p, j)
    BY DEF j
<1>5. QED
    BY <1>2, <1>3, <1>4, GotoMoves DEF Becomes

\* Links, touched and program point (Symlink).
LEMMA SetLinksTouchedPc ==
    ASSUME BinTypeOK, NEW p \in Procs, NEW ls \in Seq(LinkTo), NEW t \in BOOLEAN, NEW k \in Points,
           Goto(p, [cmd[p] EXCEPT !.links = ls, !.touched = t, !.pc = k])
    PROVE  Becomes(p, k, cmd[p].flags, cmd[p].name, cmd[p].dir, cmd[p].names, ls, cmd[p].unlinked, t)
<1> DEFINE j == [cmd[p] EXCEPT !.links = ls, !.touched = t, !.pc = k]
<1>1. cmd[p] \in Command
    BY DEF BinTypeOK
<1>2. j \in Command
    BY <1>1 DEF Command
<1>3. /\ j.op = cmd[p].op /\ j.prog = cmd[p].prog /\ j.alone = cmd[p].alone
      /\ j.pc = k /\ j.flags = cmd[p].flags /\ j.name = cmd[p].name /\ j.dir = cmd[p].dir
      /\ j.names = cmd[p].names /\ j.links = ls /\ j.unlinked = cmd[p].unlinked /\ j.touched = t
    BY <1>1 DEF Command
<1> HIDE DEF j
<1>4. Goto(p, j)
    BY DEF j
<1>5. QED
    BY <1>2, <1>3, <1>4, GotoMoves DEF Becomes

\* Program point and names (Uninstall).
LEMMA SetPcNames ==
    ASSUME BinTypeOK, NEW p \in Procs, NEW k \in Points, NEW s \in Seq(NamesOf(Progs)),
           Goto(p, [cmd[p] EXCEPT !.pc = k, !.names = s])
    PROVE  Becomes(p, k, cmd[p].flags, cmd[p].name, cmd[p].dir, s, cmd[p].links, cmd[p].unlinked, cmd[p].touched)
<1> DEFINE j == [cmd[p] EXCEPT !.pc = k, !.names = s]
<1>1. cmd[p] \in Command
    BY DEF BinTypeOK
<1>2. j \in Command
    BY <1>1 DEF Command
<1>3. /\ j.op = cmd[p].op /\ j.prog = cmd[p].prog /\ j.alone = cmd[p].alone
      /\ j.pc = k /\ j.flags = cmd[p].flags /\ j.name = cmd[p].name /\ j.dir = cmd[p].dir
      /\ j.names = s /\ j.links = cmd[p].links /\ j.unlinked = cmd[p].unlinked /\ j.touched = cmd[p].touched
    BY <1>1 DEF Command
<1> HIDE DEF j
<1>4. Goto(p, j)
    BY DEF j
<1>5. QED
    BY <1>2, <1>3, <1>4, GotoMoves DEF Becomes

\* Names (RemoveProgram, the second spelling).
LEMMA SetNames ==
    ASSUME BinTypeOK, NEW p \in Procs, NEW s \in Seq(NamesOf(Progs)),
           Goto(p, [cmd[p] EXCEPT !.names = s])
    PROVE  Becomes(p, cmd[p].pc, cmd[p].flags, cmd[p].name, cmd[p].dir, s, cmd[p].links, cmd[p].unlinked, cmd[p].touched)
<1> DEFINE j == [cmd[p] EXCEPT !.names = s]
<1>1. cmd[p] \in Command
    BY DEF BinTypeOK
<1>2. j \in Command
    BY <1>1 DEF Command
<1>3. /\ j.op = cmd[p].op /\ j.prog = cmd[p].prog /\ j.alone = cmd[p].alone
      /\ j.pc = cmd[p].pc /\ j.flags = cmd[p].flags /\ j.name = cmd[p].name /\ j.dir = cmd[p].dir
      /\ j.names = s /\ j.links = cmd[p].links /\ j.unlinked = cmd[p].unlinked /\ j.touched = cmd[p].touched
    BY <1>1 DEF Command
<1> HIDE DEF j
<1>4. Goto(p, j)
    BY DEF j
<1>5. QED
    BY <1>2, <1>3, <1>4, GotoMoves DEF Becomes

\* Directory, touched and program point (RemoveDev).
LEMMA SetDirTouchedPc ==
    ASSUME BinTypeOK, NEW p \in Procs, NEW d \in Dirs, NEW t \in BOOLEAN, NEW k \in Points,
           Goto(p, [cmd[p] EXCEPT !.dir = d, !.touched = t, !.pc = k])
    PROVE  Becomes(p, k, cmd[p].flags, cmd[p].name, d, cmd[p].names, cmd[p].links, cmd[p].unlinked, t)
<1> DEFINE j == [cmd[p] EXCEPT !.dir = d, !.touched = t, !.pc = k]
<1>1. cmd[p] \in Command
    BY DEF BinTypeOK
<1>2. j \in Command
    BY <1>1 DEF Command
<1>3. /\ j.op = cmd[p].op /\ j.prog = cmd[p].prog /\ j.alone = cmd[p].alone
      /\ j.pc = k /\ j.flags = cmd[p].flags /\ j.name = cmd[p].name /\ j.dir = d
      /\ j.names = cmd[p].names /\ j.links = cmd[p].links /\ j.unlinked = cmd[p].unlinked /\ j.touched = t
    BY <1>1 DEF Command
<1> HIDE DEF j
<1>4. Goto(p, j)
    BY DEF j
<1>5. QED
    BY <1>2, <1>3, <1>4, GotoMoves DEF Becomes

\* Program point, touched and unlinked (RemoveLink).
LEMMA SetPcTouchedUnlinked ==
    ASSUME BinTypeOK, NEW p \in Procs, NEW k \in Points, NEW t \in BOOLEAN, NEW u \in BOOLEAN,
           Goto(p, [cmd[p] EXCEPT !.pc = k, !.touched = t, !.unlinked = u])
    PROVE  Becomes(p, k, cmd[p].flags, cmd[p].name, cmd[p].dir, cmd[p].names, cmd[p].links, u, t)
<1> DEFINE j == [cmd[p] EXCEPT !.pc = k, !.touched = t, !.unlinked = u]
<1>1. cmd[p] \in Command
    BY DEF BinTypeOK
<1>2. j \in Command
    BY <1>1 DEF Command
<1>3. /\ j.op = cmd[p].op /\ j.prog = cmd[p].prog /\ j.alone = cmd[p].alone
      /\ j.pc = k /\ j.flags = cmd[p].flags /\ j.name = cmd[p].name /\ j.dir = cmd[p].dir
      /\ j.names = cmd[p].names /\ j.links = cmd[p].links /\ j.unlinked = u /\ j.touched = t
    BY <1>1 DEF Command
<1> HIDE DEF j
<1>4. Goto(p, j)
    BY DEF j
<1>5. QED
    BY <1>2, <1>3, <1>4, GotoMoves DEF Becomes

\* Program point, directory, touched and names (RemoveFile).
LEMMA SetPcDirTouchedNames ==
    ASSUME BinTypeOK, NEW p \in Procs, NEW k \in Points, NEW d \in Dirs, NEW t \in BOOLEAN, NEW s \in Seq(NamesOf(Progs)),
           Goto(p, [cmd[p] EXCEPT !.pc = k, !.dir = d, !.touched = t, !.names = s])
    PROVE  Becomes(p, k, cmd[p].flags, cmd[p].name, d, s, cmd[p].links, cmd[p].unlinked, t)
<1> DEFINE j == [cmd[p] EXCEPT !.pc = k, !.dir = d, !.touched = t, !.names = s]
<1>1. cmd[p] \in Command
    BY DEF BinTypeOK
<1>2. j \in Command
    BY <1>1 DEF Command
<1>3. /\ j.op = cmd[p].op /\ j.prog = cmd[p].prog /\ j.alone = cmd[p].alone
      /\ j.pc = k /\ j.flags = cmd[p].flags /\ j.name = cmd[p].name /\ j.dir = d
      /\ j.names = s /\ j.links = cmd[p].links /\ j.unlinked = cmd[p].unlinked /\ j.touched = t
    BY <1>1 DEF Command
<1> HIDE DEF j
<1>4. Goto(p, j)
    BY DEF j
<1>5. QED
    BY <1>2, <1>3, <1>4, GotoMoves DEF Becomes

-----------------------------------------------------------------------------
(* What a command finds out before it changes anything.                    *)

\* First takes an entry of the places it is given.
LEMMA FirstIs ==
    ASSUME NEW S \in SUBSET DOMAIN Listing, S # {}
    PROVE  \E i \in S : First(S) = Listing[i]
<1>1. S \in SUBSET Nat
    BY BinariesAssumption
<1>2. \E i \in S : \A j \in S : i <= j
    BY <1>1, Least
<1>3. QED
    BY <1>2 DEF First

\* searchLatestVersion returns an installed version of a program with that link, and finds
\* nothing only when there is nothing but builds of master.
LEMMA SearchFacts ==
    ASSUME NEW l
    PROVE  /\ SearchLatestVersion(l) # None =>
                 /\ SearchLatestVersion(l) \in Names /\ Installed(SearchLatestVersion(l))
                 /\ LinkOf(SearchLatestVersion(l).prog) = l
           /\ SearchLatestVersion(l) = None =>
                 \A m \in Names : m.ver # "master" /\ LinkOf(m.prog) = l => ~Installed(m)
<1> DEFINE releases == {i \in Suitable(l) : Listing[i].ver \in Tags[Listing[i].prog]}
           hashes == {i \in Suitable(l) : Listing[i].ver = Hash}
           newest == {i \in releases : \A j \in releases : Rank[Listing[j].ver] <= Rank[Listing[i].ver]}
<1>1. \A i \in Suitable(l) : /\ i \in DOMAIN Listing /\ Listing[i] \in Names
                             /\ Installed(Listing[i]) /\ LinkOf(Listing[i].prog) = l
    BY InstalledIs DEF Suitable, ReadBinDir, Present
<1>2. ASSUME releases # {}
      PROVE  newest # {}
    <2> DEFINE T == {Listing[i].ver : i \in releases}
    <2>1. \A i \in releases : Listing[i].ver \in DOMAIN Rank
        BY <1>1, NameFacts, BinariesAssumption
    <2>2. T \in SUBSET DOMAIN Rank /\ T # {}
        BY <1>2, <2>1
    <2>3. PICK v \in T : \A w \in T : Rank[w] <= Rank[v]
        BY <2>2, BinariesAssumption
    <2>4. PICK i \in releases : v = Listing[i].ver
        BY <2>3
    <2>5. QED
        BY <2>3, <2>4
<1>3. SearchLatestVersion(l) = IF releases # {} THEN First(newest)
                               ELSE IF hashes # {} THEN First(hashes) ELSE None
    BY DEF SearchLatestVersion
<1>4. \A S \in SUBSET Suitable(l) : S # {} =>
          First(S) \in Names /\ Installed(First(S)) /\ LinkOf(First(S).prog) = l
    BY <1>1, FirstIs
<1>5. newest \in SUBSET Suitable(l) /\ hashes \in SUBSET Suitable(l)
    OBVIOUS
<1>6. ASSUME NEW m \in Names, m.ver # "master", LinkOf(m.prog) = l, Installed(m)
      PROVE  releases # {} \/ hashes # {}
    <2>1. PICK i \in DOMAIN Listing : Listing[i] = m
        BY BinariesAssumption
    <2>2. Present("bin", m) /\ m.ver # "link"
        BY <1>6, InstalledIs, BinariesAssumption
    <2>3. i \in Suitable(l)
        BY <1>6, <2>1, <2>2 DEF Suitable, ReadBinDir, InBin
    <2>4. m.ver \in Tags[m.prog] \/ m.ver = Hash
        BY <1>6, NameFacts
    <2>5. QED
        BY <2>1, <2>3, <2>4
<1> HIDE DEF releases, hashes, newest
<1>7. None \notin Names
    BY BinariesAssumption
<1>8. QED
    BY <1>2, <1>3, <1>4, <1>5, <1>6, <1>7

\* The version an install resolves to has a name.
LEMMA ResolveFacts ==
    ASSUME NEW v
    PROVE  /\ ResolveTt(v) # None => [prog |-> "tt", ver |-> ResolveTt(v)] \in Names
           /\ ResolveTarantool(v) # None =>
                 [prog |-> "tarantool", ver |-> ResolveTarantool(v)] \in Names
           /\ ResolveTarantoolEE(v) # None =>
                 [prog |-> "tarantool-ee", ver |-> ResolveTarantoolEE(v)] \in Names
<1>1. ASSUME NEW S \in SUBSET DOMAIN Rank, S # {}
      PROVE  Newest(S) \in S
    <2>1. \E w \in S : \A u \in S : Rank[u] <= Rank[w]
        BY <1>1, BinariesAssumption
    <2>2. QED
        BY <2>1 DEF Newest
<1>2. Newest(Tags["tt"]) \in Tags["tt"]
    BY <1>1, BinariesAssumption DEF Programs
<1>3. Newest(Tags["tarantool"] \cap Stable) \in Tags["tarantool"]
    BY <1>1, BinariesAssumption DEF Programs
<1>4. ResolveTt(v) # None => ResolveTt(v) \in Tags["tt"] \cup {"master", Hash}
    BY <1>2, BinariesAssumption DEF ResolveTt, CheckCommit
<1>5. ResolveTarantool(v) # None => ResolveTarantool(v) \in Tags["tarantool"] \cup {"master", Hash}
    BY <1>3 DEF ResolveTarantool, CheckCommit
<1>6. ResolveTarantoolEE(v) # None => ResolveTarantoolEE(v) \in Tags["tarantool-ee"]
    BY DEF ResolveTarantoolEE
<1>7. QED
    BY <1>4, <1>5, <1>6, NamesAre DEF Programs

-----------------------------------------------------------------------------
(* The steps of a command, as the invariants see them.                     *)

Fails(p) ==
    Ended(p, cmd[p].touched) /\ cmd'[p].res = "error" /\ UNCHANGED <<file, link>>

Succeeds(p) == Ended(p, TRUE) /\ cmd'[p].res = "ok"

\* The command only moves on.
Proceeds(p, pc) ==
    Becomes(p, pc, cmd[p].flags, cmd[p].name, cmd[p].dir, cmd[p].names, cmd[p].links,
            cmd[p].unlinked, cmd[p].touched)

\* The command is about to make n active.
Plans(p, n, links) ==
    Becomes(p, "stat", cmd[p].flags, n, cmd[p].dir, cmd[p].names, links,
            cmd[p].unlinked, cmd[p].touched)

\* Fail ends the command with an error and changes no file and no link.
LEMMA FailFails ==
    ASSUME BinInv, NEW p \in Procs, Fail(p)
    PROVE  Fails(p)
BY FinishEnds DEF Fail, Fails, BinInv

\* Finish with "ok" ends the command successfully.
LEMMA FinishSucceeds ==
    ASSUME BinInv, NEW p \in Procs, NEW c, Finish(p, c, "ok"), faults' = faults \/ Fault
    PROVE  Succeeds(p)
BY FinishEnds DEF Succeeds, BinInv, Ended

\* Install: no such version, a development build to link, or a version to look for.
LEMMA InstallStep ==
    ASSUME BinInv, NEW p \in Procs, Install(p)
    PROVE  /\ cmd[p].pc = "install"
           /\ \/ Fails(p)
              \/ /\ cmd[p].prog = "tarantool-dev" /\ Plans(p, Dev, <<LinkFor("bin", Dev)>>)
                 /\ UNCHANGED <<file, link>>
              \/ /\ \E n \in Names :
                       /\ n.prog = cmd[p].prog
                       /\ Becomes(p, "probe", cmd[p].flags, n, cmd[p].dir, cmd[p].names, cmd[p].links,
                                  cmd[p].unlinked, cmd[p].touched)
                 /\ UNCHANGED <<file, link>>
<1> DEFINE c == cmd[p]
           v == CASE c.prog = "tt" -> ResolveTt(c.ver)
                  [] c.prog = "tarantool" -> ResolveTarantool(c.ver)
                  [] c.prog = "tarantool-ee" -> ResolveTarantoolEE(c.ver)
                  [] c.prog = "tarantool-dev" -> IF built THEN "build" ELSE None
           n == [prog |-> c.prog, ver |-> v]
<1>1. c.prog \in Progs
    BY DEF BinInv, BinTypeOK, Command
<1>2. v # None => n \in Names \/ (n = Dev /\ c.prog = "tarantool-dev")
    BY <1>1, ResolveFacts DEF Progs, Programs, Dev
<1>3. /\ v = None => Fail(p)
      /\ v # None /\ n = Dev =>
            Goto(p, [c EXCEPT !.pc = "stat", !.name = n, !.links = <<Head(LinksTo(c.prog, n))>>])
            /\ UNCHANGED <<file, link>>
      /\ v # None /\ n # Dev =>
            Goto(p, [c EXCEPT !.pc = "probe", !.name = n]) /\ UNCHANGED <<file, link>>
      /\ c.pc = "install"
    BY DEF Install, At
<1>4. n.prog = c.prog
    OBVIOUS
<1> HIDE DEF v, n
<1>5. CASE v = None
    BY <1>3, <1>5, FailFails
<1>6. CASE v # None /\ n = Dev
    <2>1. Dev \in Targets /\ Dev \notin Names /\ Dev.prog = "tarantool-dev"
        BY NameFacts DEF Targets
    <2>2. Head(LinksTo(c.prog, n)) = LinkFor("bin", Dev)
        BY <1>2, <1>6, <2>1, LinksToIs
    <2>3. <<LinkFor("bin", Dev)>> \in Seq(LinkTo)
        BY <2>1, PlanFacts DEF PlanOf
    <2>4. Plans(p, Dev, <<LinkFor("bin", Dev)>>)
        BY <1>3, <1>6, <2>1, <2>2, <2>3, SetPcNameLinks DEF Plans, BinInv, Points, Linking
    <2>5. QED
        BY <1>2, <1>3, <1>6, <2>1, <2>4
<1>7. CASE v # None /\ n # Dev
    <2>1. n \in Names /\ n \in Targets \cup {None}
        BY <1>2, <1>7 DEF Targets
    <2>2. Becomes(p, "probe", c.flags, n, c.dir, c.names, c.links, c.unlinked, c.touched)
        BY <1>3, <1>7, <2>1, SetPcName DEF BinInv, Points, Installing
    <2>3. QED
        BY <1>3, <1>4, <1>7, <2>1, <2>2
<1>8. QED
    BY <1>5, <1>6, <1>7

\* The three probes: what is there is activated, the rest and an update is built.
LEMMA ProbeStep ==
    ASSUME BinInv, NEW p \in Procs, ProbeTt(p) \/ ProbeTarantool(p) \/ ProbeTarantoolEE(p)
    PROVE  /\ cmd[p].pc = "probe" /\ UNCHANGED <<file, link>>
           /\ \/ Fails(p)
              \/ Installed(cmd[p].name) /\ Plans(p, cmd[p].name, LinksTo(cmd[p].prog, cmd[p].name))
              \/ \E k \in {"build", "docker"}, f \in SUBSET {"reinstall", "docker"} :
                    /\ Becomes(p, k, f, cmd[p].name, cmd[p].dir, cmd[p].names, cmd[p].links,
                               cmd[p].unlinked, cmd[p].touched)
                    /\ k = "docker" => cmd[p].prog = "tarantool" /\ "docker" \in f
                    /\ cmd[p].name.ver # "master" /\ "reinstall" \notin f => ~Installed(cmd[p].name)
<1> DEFINE c == cmd[p]
<1>1. /\ c.pc = "probe" /\ c \in Command /\ BinTypeOK
      /\ c.name \in Names /\ c.name.prog = c.prog
    BY DEF BinInv, BinTypeOK, ProbeTt, ProbeTarantool, ProbeTarantoolEE, At, ShapeOf, Installing
<1>2. c.name \in Targets /\ c.name # Dev /\ c.flags \in SUBSET {"reinstall", "docker"}
    BY <1>1, NameFacts DEF Targets, Command
<1>3. ASSUME Activate(p)
      PROVE  Plans(p, c.name, LinksTo(c.prog, c.name)) /\ UNCHANGED <<file, link>>
    <2>1. LinksTo(c.prog, c.name) \in Seq(LinkTo)
        BY <1>1, <1>2, LinksToIs, PlanFacts
    <2>2. QED
        BY <1>1, <1>3, <2>1, SetPcLinks DEF Activate, Plans, Points, Linking
<1>4. ASSUME NEW k \in {"build", "docker"}, NEW f \in SUBSET {"reinstall", "docker"}, Rebuild(p, k, f)
      PROVE  /\ Becomes(p, k, f, c.name, c.dir, c.names, c.links, c.unlinked, c.touched)
             /\ UNCHANGED <<file, link>>
    BY <1>1, <1>4, SetPcFlags DEF Rebuild, Points, Installing
<1>5. Fail(p) => Fails(p)
    BY FailFails
<1>6. \A u \in IsUpdatePossible(c.name) : u = "yes" => c.name.ver = "master"
    BY DEF IsUpdatePossible
<1>7. NotThere(p) <=> "reinstall" \in c.flags \/ ~Installed(c.name)
    BY DEF NotThere
<1>8. Fails(p) => UNCHANGED <<file, link>>
    BY DEF Fails
<1>9. c.flags \cup {"reinstall"} \in SUBSET {"reinstall", "docker"}
    BY <1>2
<1>10. CASE ProbeTt(p)
    BY <1>1, <1>2, <1>3, <1>4, <1>5, <1>6, <1>7, <1>8, <1>9, <1>10 DEF ProbeTt
<1>11. CASE ProbeTarantool(p)
    BY <1>1, <1>2, <1>3, <1>4, <1>5, <1>6, <1>7, <1>8, <1>11 DEF ProbeTarantool
<1>12. CASE ProbeTarantoolEE(p)
    BY <1>1, <1>2, <1>3, <1>4, <1>7, <1>12 DEF ProbeTarantoolEE
<1>13. QED
    BY <1>10, <1>11, <1>12

\* InstallInDocker goes back to the probe without the flag, or ends.
LEMMA DockerStep ==
    ASSUME BinInv, NEW p \in Procs, InstallInDocker(p)
    PROVE  /\ cmd[p].pc = "docker" /\ UNCHANGED <<file, link>>
           /\ \/ Succeeds(p)
              \/ Becomes(p, "probe", cmd[p].flags \ {"docker"}, cmd[p].name, cmd[p].dir, cmd[p].names,
                         cmd[p].links, cmd[p].unlinked, cmd[p].touched)
<1>1. cmd[p].pc = "docker" /\ cmd[p] \in Command /\ BinTypeOK
    BY DEF BinInv, BinTypeOK, InstallInDocker, At
<1>2. cmd[p].flags \ {"docker"} \in SUBSET {"reinstall", "docker"}
    BY <1>1 DEF Command
<1>3. ASSUME Goto(p, [cmd[p] EXCEPT !.pc = "probe", !.flags = @ \ {"docker"}])
      PROVE  Becomes(p, "probe", cmd[p].flags \ {"docker"}, cmd[p].name, cmd[p].dir, cmd[p].names,
                     cmd[p].links, cmd[p].unlinked, cmd[p].touched)
    BY <1>1, <1>2, <1>3, SetPcFlags DEF Points, Installing
<1>4. Fault /\ Finish(p, cmd[p], "ok") => Succeeds(p)
    BY FinishSucceeds
<1>5. QED
    BY <1>1, <1>3, <1>4 DEF InstallInDocker

\* The three builds: what is there is removed first when it is reinstalled.
LEMMA BuildStep ==
    ASSUME BinInv, NEW p \in Procs, BuildTt(p) \/ BuildTarantool(p) \/ GetTarantoolEE(p)
    PROVE  /\ cmd[p].pc = "build" /\ UNCHANGED <<file, link>>
           /\ \E k \in {"clear", "open"} :
                 /\ Proceeds(p, k)
                 /\ k = "open" /\ cmd[p].prog # "tt" =>
                       "reinstall" \notin cmd[p].flags \/ ~Present("bin", cmd[p].name)
<1>1. cmd[p].pc = "build" /\ BinTypeOK /\ UNCHANGED <<file, link>>
    BY DEF BinInv, BuildTt, BuildTarantool, GetTarantoolEE, At
<1>2. ASSUME NEW k \in {"clear", "open"}, Goto(p, [cmd[p] EXCEPT !.pc = k])
      PROVE  Proceeds(p, k)
    BY <1>1, <1>2, SetPc DEF Proceeds, Points, Installing
<1>3. CASE BuildTt(p)
    BY <1>1, <1>2, <1>3 DEF BuildTt
<1>4. CASE BuildTarantool(p)
    BY <1>1, <1>2, <1>4 DEF BuildTarantool, ClearFirst
<1>5. CASE GetTarantoolEE(p)
    BY <1>1, <1>2, <1>5 DEF GetTarantoolEE, ClearFirst
<1>6. QED
    BY <1>3, <1>4, <1>5

\* Files are removed.
LEMMA ClearTtStep ==
    ASSUME BinInv, NEW p \in Procs, ClearTt(p)
    PROVE  /\ cmd[p].pc = "clear" /\ cmd[p].prog = "tt" /\ UNCHANGED link
           /\ \/ Fails(p)
              \/ /\ FilePut("bin", cmd[p].name, "absent")
                 /\ Becomes(p, "open", cmd[p].flags, cmd[p].name, cmd[p].dir, cmd[p].names,
                            cmd[p].links, cmd[p].unlinked, TRUE)
<1>1. cmd[p].pc = "clear" /\ cmd[p].prog = "tt" /\ BinTypeOK /\ cmd[p].name \in Names
    BY DEF BinInv, ClearTt, At, ShapeOf, Installing
<1>2. Fail(p) => Fails(p)
    BY FailFails
<1>3. ASSUME file' = [file EXCEPT !["bin"][cmd[p].name] = "absent"]
      PROVE  FilePut("bin", cmd[p].name, "absent")
    BY <1>1, <1>3, FileSet DEF Dirs, Content
<1>4. ASSUME Goto(p, [cmd[p] EXCEPT !.pc = "open", !.touched = TRUE])
      PROVE  Becomes(p, "open", cmd[p].flags, cmd[p].name, cmd[p].dir, cmd[p].names,
                     cmd[p].links, cmd[p].unlinked, TRUE)
    BY <1>1, <1>4, SetPcTouched DEF Points, Installing
<1>5. QED
    BY <1>1, <1>2, <1>3, <1>4 DEF ClearTt, Fails

\* ClearTarantool removes the binary, then the headers.
LEMMA ClearTarantoolStep ==
    ASSUME BinInv, NEW p \in Procs, ClearTarantool(p)
    PROVE  /\ cmd[p].pc = "clear" /\ cmd[p].prog # "tt" /\ UNCHANGED link
           /\ FilePut(cmd[p].dir, cmd[p].name, "absent")
           /\ \/ /\ cmd[p].dir = "bin"
                 /\ Becomes(p, "clear", cmd[p].flags, cmd[p].name, "inc", cmd[p].names,
                            cmd[p].links, cmd[p].unlinked, TRUE)
              \/ /\ cmd[p].dir = "inc"
                 /\ Becomes(p, "open", cmd[p].flags, cmd[p].name, "bin", cmd[p].names,
                            cmd[p].links, cmd[p].unlinked, cmd[p].touched)
<1>1. /\ cmd[p].pc = "clear" /\ cmd[p].prog # "tt" /\ BinTypeOK /\ cmd[p].name \in Names
      /\ cmd[p] \in Command /\ cmd[p].dir \in Dirs
    BY DEF BinInv, BinTypeOK, Command, ClearTarantool, At, ShapeOf, Installing
<1>2. FilePut(cmd[p].dir, cmd[p].name, "absent")
    BY <1>1, FileSet DEF Content, ClearTarantool
<1>3. ASSUME Goto(p, [cmd[p] EXCEPT !.dir = "inc", !.touched = TRUE])
      PROVE  Becomes(p, "clear", cmd[p].flags, cmd[p].name, "inc", cmd[p].names,
                     cmd[p].links, cmd[p].unlinked, TRUE)
    BY <1>1, <1>3, SetDirTouched DEF Dirs
<1>4. ASSUME Goto(p, [cmd[p] EXCEPT !.pc = "open", !.dir = "bin"])
      PROVE  Becomes(p, "open", cmd[p].flags, cmd[p].name, "bin", cmd[p].names,
                     cmd[p].links, cmd[p].unlinked, cmd[p].touched)
    BY <1>1, <1>4, SetPcDir DEF Dirs, Points, Installing
<1>5. QED
    BY <1>1, <1>2, <1>3, <1>4 DEF ClearTarantool, Dirs

\* Files are copied.
LEMMA OpenStep ==
    ASSUME BinInv, NEW p \in Procs, Open(p)
    PROVE  /\ cmd[p].pc = "open" /\ UNCHANGED link
           /\ FilePut(cmd[p].dir, cmd[p].name, "torn")
           /\ Becomes(p, "fill", cmd[p].flags, cmd[p].name, cmd[p].dir, cmd[p].names,
                      cmd[p].links, cmd[p].unlinked, TRUE)
<1>1. /\ cmd[p].pc = "open" /\ BinTypeOK /\ cmd[p].name \in Names
      /\ cmd[p] \in Command /\ cmd[p].dir \in Dirs
    BY DEF BinInv, BinTypeOK, Command, Open, At, ShapeOf, Installing
<1>2. FilePut(cmd[p].dir, cmd[p].name, "torn")
    BY <1>1, FileSet DEF Content, Open
<1>3. QED
    BY <1>1, <1>2, SetPcTouched DEF Points, Installing, Open

\* Fill fails when the headers are gone; else it completes the file unless that was removed or is
\* shared, and goes on to the headers or to the links.
LEMMA FillStep ==
    ASSUME BinInv, NEW p \in Procs, Fill(p)
    PROVE  /\ cmd[p].pc = "fill" /\ UNCHANGED link
           /\ \/ Fails(p) /\ cmd[p].dir = "inc" /\ file["inc"][cmd[p].name] = "absent"
              \/ /\ \E x \in Content :
                       /\ FilePut(cmd[p].dir, cmd[p].name, x)
                       /\ x = "absent" <=> file[cmd[p].dir][cmd[p].name] = "absent"
                       /\ x = "absent" => cmd[p].dir = "bin"
                       /\ x = "torn" => \E q \in Procs \ {p} :
                             cmd[q].pc = "fill" /\ cmd[q].name = cmd[p].name /\ cmd[q].dir = cmd[p].dir
                 /\ \/ /\ cmd[p].dir = LastDir(cmd[p].prog)
                       /\ Plans(p, cmd[p].name, LinksTo(cmd[p].prog, cmd[p].name))
                    \/ /\ cmd[p].dir # LastDir(cmd[p].prog)
                       /\ Becomes(p, "open", cmd[p].flags, cmd[p].name, "inc", cmd[p].names,
                                  cmd[p].links, cmd[p].unlinked, cmd[p].touched)
<1> DEFINE c == cmd[p]
           gone == file[c.dir][c.name] = "absent"
           shared == \E q \in Procs \ {p} :
                         At(q, "fill") /\ cmd[q].name = c.name /\ cmd[q].dir = c.dir
           x == IF gone THEN "absent" ELSE IF shared THEN "torn" ELSE "whole"
<1>1. /\ c.pc = "fill" /\ BinTypeOK /\ c.name \in Names /\ c.name.prog = c.prog
      /\ c \in Command /\ c.dir \in Dirs
    BY DEF BinInv, BinTypeOK, Command, Fill, At, ShapeOf, Installing
<1>2. c.name \in Targets /\ c.name # Dev
    BY <1>1, NameFacts DEF Targets
<1>3. /\ gone /\ c.dir = "inc" => Fail(p)
      /\ ~(gone /\ c.dir = "inc") =>
            /\ file' = [file EXCEPT ![c.dir][c.name] = x] /\ UNCHANGED link
            /\ c.dir = LastDir(c.prog) =>
                  Goto(p, [c EXCEPT !.pc = "stat", !.links = LinksTo(c.prog, c.name)])
            /\ c.dir # LastDir(c.prog) => Goto(p, [c EXCEPT !.pc = "open", !.dir = "inc"])
    BY DEF Fill
<1>4. x \in Content /\ (x = "absent" <=> gone) /\ (x = "torn" => shared)
    BY DEF Content
<1> HIDE DEF x
<1>5. CASE gone /\ c.dir = "inc"
    BY <1>1, <1>3, <1>5, FailFails DEF Fails
<1>6. CASE ~(gone /\ c.dir = "inc")
    <2>1. FilePut(c.dir, c.name, x)
        BY <1>1, <1>3, <1>4, <1>6, FileSet
    <2>2. LinksTo(c.prog, c.name) \in Seq(LinkTo)
        BY <1>1, <1>2, LinksToIs, PlanFacts
    <2>3. c.dir = LastDir(c.prog) => Plans(p, c.name, LinksTo(c.prog, c.name))
        BY <1>1, <1>3, <1>6, <2>2, SetPcLinks DEF Plans, Points, Linking
    <2>4. c.dir # LastDir(c.prog) =>
             Becomes(p, "open", c.flags, c.name, "inc", c.names, c.links, c.unlinked, c.touched)
        BY <1>1, <1>3, <1>6, SetPcDir DEF Points, Installing, Dirs
    <2>5. x = "absent" => c.dir = "bin"
        BY <1>1, <1>4, <1>6 DEF Dirs
    <2>6. shared => \E q \in Procs \ {p} :
                       cmd[q].pc = "fill" /\ cmd[q].name = c.name /\ cmd[q].dir = c.dir
        BY DEF At
    <2>7. QED
        BY <1>1, <1>3, <1>4, <1>6, <2>1, <2>3, <2>4, <2>5, <2>6
<1>7. QED
    BY <1>5, <1>6

\* Links: what the command is about to set.
LEMMA LinkingFacts ==
    ASSUME BinInv, NEW p \in Procs, cmd[p].pc \in Linking
    PROVE  LET c == cmd[p] h == Head(cmd[p].links) t == h.to
           IN  /\ t \in Targets /\ PlanOf(c.links, t) /\ h = LinkFor(h.dir, t)
               /\ h.dir \in Dirs /\ h.name \in LinkNames /\ h.name = LinkOf(t.prog)
               /\ c.op # "install" => t \in Names
               /\ c.op # "uninstall" => t = c.name /\ t.prog = c.prog
               /\ c.op = "uninstall" /\ c.prog # "tarantool-dev" =>
                     c.name \in Names /\ c.name.prog = c.prog /\ (c.alone => t # c.name)
<1>1. PICK t \in Targets :
          /\ PlanOf(cmd[p].links, t) /\ (cmd[p].op # "install" => t \in Names)
          /\ cmd[p].op # "uninstall" => t = cmd[p].name /\ t.prog = cmd[p].prog
          /\ cmd[p].op = "uninstall" /\ cmd[p].prog # "tarantool-dev" =>
                /\ cmd[p].name \in Names /\ cmd[p].name.prog = cmd[p].prog
                /\ cmd[p].alone => t # cmd[p].name
    BY DEF BinInv, ShapeOf
<1>2. LET h == Head(cmd[p].links)
      IN h.to = t /\ h.name = LinkOf(t.prog) /\ h.dir \in Dirs /\ h = LinkFor(h.dir, t)
    BY <1>1, PlanFacts
<1>3. LinkOf(t.prog) \in LinkNames
    BY TargetFacts
<1>4. QED
    BY <1>1, <1>2, <1>3

\* Stat tells a link that resolves from one that does not.
LEMMA StatStep ==
    ASSUME BinInv, NEW p \in Procs, Stat(p)
    PROVE  /\ cmd[p].pc = "stat" /\ UNCHANGED <<file, link>>
           /\ LET h == Head(cmd[p].links)
              IN \/ Resolves(h.dir, h.name) /\ Proceeds(p, "unlink")
                 \/ ~Resolves(h.dir, h.name) /\ Proceeds(p, "symlink")
<1>1. cmd[p].pc = "stat" /\ UNCHANGED <<file, link>> /\ BinTypeOK
    BY DEF BinInv, Stat, At
<1>2. ASSUME NEW k \in Points, Goto(p, [cmd[p] EXCEPT !.pc = k])
      PROVE  Proceeds(p, k)
    BY <1>1, <1>2, SetPc DEF Proceeds
<1>3. QED
    BY <1>1, <1>2 DEF Stat, Points, Linking

\* Unlink fails when the link is gone, or removes it.
LEMMA UnlinkStep ==
    ASSUME BinInv, NEW p \in Procs, Unlink(p)
    PROVE  /\ cmd[p].pc = "unlink" /\ UNCHANGED file
           /\ \/ Fails(p) /\ link[Head(cmd[p].links).dir][Head(cmd[p].links).name] = None
              \/ /\ LinkPut(Head(cmd[p].links).dir, Head(cmd[p].links).name, None)
                 /\ Becomes(p, "symlink", cmd[p].flags, cmd[p].name, cmd[p].dir, cmd[p].names,
                            cmd[p].links, cmd[p].unlinked, TRUE)
<1> DEFINE h == Head(cmd[p].links)
<1>1. cmd[p].pc = "unlink" /\ BinTypeOK /\ h.dir \in Dirs /\ h.name \in LinkNames
    BY LinkingFacts DEF BinInv, Unlink, At, Linking
<1>2. /\ link[h.dir][h.name] = None => Fail(p)
      /\ link[h.dir][h.name] # None =>
            /\ link' = [link EXCEPT ![h.dir][h.name] = None] /\ UNCHANGED file
            /\ Goto(p, [cmd[p] EXCEPT !.pc = "symlink", !.touched = TRUE])
    BY DEF Unlink
<1> HIDE DEF h
<1>3. link[h.dir][h.name] # None =>
          /\ LinkPut(h.dir, h.name, None)
          /\ Becomes(p, "symlink", cmd[p].flags, cmd[p].name, cmd[p].dir, cmd[p].names,
                     cmd[p].links, cmd[p].unlinked, TRUE)
    BY <1>1, <1>2, LinkSet, SetPcTouched DEF Points, Linking
<1>4. QED
    BY <1>1, <1>2, <1>3, FailFails DEF Fails, h

\* Symlink fails when there is a link, or sets it and goes on to the next one, to the headers of a
\* development build, or ends.
LEMMA SymlinkStep ==
    ASSUME BinInv, NEW p \in Procs, Symlink(p)
    PROVE  LET c == cmd[p] h == Head(cmd[p].links) rest == Tail(cmd[p].links)
           IN  /\ c.pc = "symlink" /\ UNCHANGED file
               /\ \/ Fails(p) /\ link[h.dir][h.name] # None
                  \/ /\ LinkPut(h.dir, h.name, h.to)
                     /\ \/ Succeeds(p) /\ rest = <<>> /\ ~(h.to = Dev /\ h.dir = "bin")
                        \/ /\ rest # <<>>
                           /\ Becomes(p, "stat", c.flags, c.name, c.dir, c.names, rest, c.unlinked, TRUE)
                        \/ /\ rest = <<>> /\ h.to = Dev /\ h.dir = "bin"
                           /\ Becomes(p, "headers", c.flags, c.name, c.dir, c.names, rest,
                                      c.unlinked, TRUE)
<1> DEFINE c == cmd[p]
           h == Head(c.links)
           rest == Tail(c.links)
           pc == IF rest = <<>> THEN "headers" ELSE "stat"
           more == [c EXCEPT !.links = rest, !.touched = TRUE, !.pc = pc]
<1>1. /\ c.pc = "symlink" /\ BinTypeOK /\ h.dir \in Dirs /\ h.name \in LinkNames
      /\ h.to \in Targets /\ PlanOf(c.links, h.to)
    BY LinkingFacts DEF BinInv, Symlink, At, Linking
<1>2. rest \in Seq(LinkTo)
    BY <1>1, PlanFacts
<1>3. /\ link[h.dir][h.name] # None => Fail(p)
      /\ link[h.dir][h.name] = None =>
            /\ link' = [link EXCEPT ![h.dir][h.name] = h.to] /\ UNCHANGED file
            /\ IF rest # <<>> \/ (h.to = Dev /\ h.dir = "bin") THEN Goto(p, more)
               ELSE Finish(p, more, "ok") /\ faults' = faults
    BY DEF Symlink
<1>4. pc \in Points
    BY DEF Points, Linking, Installing
<1>5. Goto(p, more) => Becomes(p, pc, c.flags, c.name, c.dir, c.names, rest, c.unlinked, TRUE)
    <2> HIDE DEF rest, pc
    <2>1. QED
        BY <1>1, <1>2, <1>4, SetLinksTouchedPc
<1> HIDE DEF more, h, rest
<1>6. link[h.dir][h.name] = None => LinkPut(h.dir, h.name, h.to)
    BY <1>1, <1>3, LinkSet
<1>7. CASE link[h.dir][h.name] # None
    <2>1. Fails(p)
        BY <1>3, <1>7, FailFails
    <2>2. QED
        BY <1>1, <1>7, <2>1 DEF Fails, h
<1>8. CASE link[h.dir][h.name] = None /\ (rest # <<>> \/ (h.to = Dev /\ h.dir = "bin"))
    BY <1>1, <1>3, <1>5, <1>6, <1>8 DEF h, rest
<1>9. CASE link[h.dir][h.name] = None /\ ~(rest # <<>> \/ (h.to = Dev /\ h.dir = "bin"))
    <2>1. Succeeds(p)
        BY <1>3, <1>9, FinishSucceeds
    <2>2. QED
        BY <1>1, <1>3, <1>6, <1>9, <2>1 DEF h, rest
<1>10. QED
    BY <1>7, <1>8, <1>9

\* Headers fails, or removes the old link to headers and sets a new one or ends.
LEMMA HeadersStep ==
    ASSUME BinInv, NEW p \in Procs, Headers(p)
    PROVE  /\ cmd[p].pc = "headers" /\ UNCHANGED file
           /\ \/ Fails(p)
              \/ /\ LinkPut("inc", "tarantool", None)
                 /\ Plans(p, cmd[p].name, <<LinkFor("inc", Dev)>>) \/ Succeeds(p)
<1>1. cmd[p].pc = "headers" /\ BinTypeOK /\ cmd[p].prog = "tarantool-dev"
    BY DEF BinInv, Headers, At, ShapeOf
<1>2. Dev \in Targets /\ Dev.prog = "tarantool-dev" /\ Dev \notin Names
    BY NameFacts DEF Targets
<1>3. Tail(LinksTo(cmd[p].prog, Dev)) = <<LinkFor("inc", Dev)>>
    BY <1>1, <1>2, LinksToIs
<1>4. <<LinkFor("inc", Dev)>> \in Seq(LinkTo)
    BY <1>2, PlanFacts DEF PlanOf
<1>5. ASSUME link' = [link EXCEPT !["inc"]["tarantool"] = None]
      PROVE  LinkPut("inc", "tarantool", None)
    BY <1>1, <1>5, LinkSet DEF Dirs, LinkNames
<1>6. ASSUME Goto(p, [cmd[p] EXCEPT !.pc = "stat", !.links = Tail(LinksTo(cmd[p].prog, Dev))])
      PROVE  Plans(p, cmd[p].name, <<LinkFor("inc", Dev)>>)
    BY <1>1, <1>3, <1>4, <1>6, SetPcLinks DEF Plans, Points, Linking
<1>7. Fail(p) => Fails(p) /\ UNCHANGED file
    BY FailFails DEF Fails
<1>8. Finish(p, cmd[p], "ok") /\ faults' = faults => Succeeds(p)
    BY FinishSucceeds
<1>9. QED
    BY <1>1, <1>5, <1>6, <1>7, <1>8 DEF Headers

\* Uninstall: the names to remove, or the links of a development build.
LEMMA UninstallStep ==
    ASSUME BinInv, NEW p \in Procs, Uninstall(p)
    PROVE  /\ cmd[p].pc = "uninstall" /\ UNCHANGED <<file, link>>
           /\ \/ Fails(p)
              \/ /\ cmd[p].prog = "tarantool-dev" /\ link["bin"]["tarantool"] = Dev
                 /\ Becomes(p, "undev", cmd[p].flags, Dev, cmd[p].dir, cmd[p].names, cmd[p].links,
                            cmd[p].unlinked, cmd[p].touched)
              \/ /\ cmd[p].prog \in Programs
                 /\ \E s \in Seq(NamesOf({cmd[p].prog})) :
                       /\ s # <<>>
                       /\ Becomes(p, "remove", cmd[p].flags, cmd[p].name, cmd[p].dir, s, cmd[p].links,
                                  cmd[p].unlinked, cmd[p].touched)
<1> DEFINE c == cmd[p]
           v == IF c.ver = "" THEN GetDefault(c.prog) ELSE c.ver
           s == AllFormats(c.prog, v)
<1>1. c.pc = "uninstall" /\ BinTypeOK /\ c \in Command /\ c.prog \in Progs /\ c.ver \in Vers
    BY DEF BinInv, BinTypeOK, Command, Uninstall, At
<1>2. v \in Vers
    <2> DEFINE found == {i \in ReadBinDir : Listing[i].prog = c.prog /\ Listing[i].ver # "link"}
    <2>1. found \in SUBSET DOMAIN Listing
        BY DEF ReadBinDir
    <2>2. found # {} => First(found).ver \in Vers
        BY <2>1, FirstIs DEF Vers
    <2>3. GetDefault(c.prog) = "" \/ (found # {} /\ GetDefault(c.prog) = First(found).ver)
        BY DEF GetDefault
    <2>4. "" \in Vers
        BY DEF Vers
    <2>5. QED
        BY <1>1, <2>2, <2>3, <2>4
<1> HIDE DEF v
<1>3. s \in Seq(NamesOf({c.prog})) /\ s \in Seq(NamesOf(Progs)) /\ s # <<>>
    <2> DEFINE a == [prog |-> c.prog, ver |-> v]
               b == [prog |-> c.prog, ver |-> Prefixed[v]]
    <2>1. a \in NamesOf({c.prog}) /\ a \in NamesOf(Progs)
        BY <1>1, <1>2 DEF NamesOf
    <2>2. v \in DOMAIN Prefixed => b \in NamesOf({c.prog}) /\ b \in NamesOf(Progs)
        BY <1>1 DEF NamesOf, Vers
    <2> HIDE DEF a, b
    <2>3. \A S : a \in S => /\ <<a>> \o <<>> \in Seq(S) /\ <<a>> \o <<>> # <<>>
                            /\ b \in S => <<a>> \o <<b>> \in Seq(S) /\ <<a>> \o <<b>> # <<>>
        BY SMT
    <2>4. s = <<a>> \o (IF c.prog = "tt" /\ v \in DOMAIN Prefixed THEN <<b>> ELSE <<>>)
        BY DEF AllFormats, a, b
    <2>5. QED
        BY <2>1, <2>2, <2>3, <2>4
<1>4. CASE c.prog = "tarantool-dev" /\ link["bin"]["tarantool"] = Dev
    <2>1. Goto(p, [c EXCEPT !.pc = "undev", !.name = Dev]) /\ UNCHANGED <<file, link>>
        BY <1>4 DEF Uninstall
    <2>2. Becomes(p, "undev", c.flags, Dev, c.dir, c.names, c.links, c.unlinked, c.touched)
        BY <1>1, <2>1, SetPcName DEF Points, Removing, Targets
    <2>3. QED
        BY <1>1, <1>4, <2>1, <2>2
<1>5. CASE c.prog # "tarantool-dev" /\ v # ""
    <2>1. Goto(p, [c EXCEPT !.pc = "remove", !.names = s]) /\ UNCHANGED <<file, link>>
        BY <1>5 DEF Uninstall, v
    <2> HIDE DEF s
    <2>2. Becomes(p, "remove", c.flags, c.name, c.dir, s, c.links, c.unlinked, c.touched)
        BY <1>1, <1>3, <2>1, SetPcNames DEF Points, Removing
    <2>3. QED
        BY <1>1, <1>3, <1>5, <2>1, <2>2 DEF Progs
<1>6. CASE /\ ~(c.prog = "tarantool-dev" /\ link["bin"]["tarantool"] = Dev)
           /\ ~(c.prog # "tarantool-dev" /\ v # "")
    <2>1. Fail(p)
        BY <1>6 DEF Uninstall, v
    <2>2. QED
        BY <1>1, <2>1, FailFails DEF Fails
<1>7. QED
    BY <1>4, <1>5, <1>6

\* RemoveDev removes the link of the binary and then that of the headers.
LEMMA RemoveDevStep ==
    ASSUME BinInv, NEW p \in Procs, RemoveDev(p)
    PROVE  /\ cmd[p].pc = "undev" /\ UNCHANGED file
           /\ \/ Fails(p)
              \/ /\ LinkPut(cmd[p].dir, "tarantool", None)
                 /\ \/ /\ cmd[p].dir = "bin"
                       /\ Becomes(p, "undev", cmd[p].flags, cmd[p].name, "inc", cmd[p].names,
                                  cmd[p].links, cmd[p].unlinked, TRUE)
                    \/ /\ cmd[p].dir = "inc"
                       /\ Becomes(p, "latest", cmd[p].flags, cmd[p].name, "inc", cmd[p].names,
                                  cmd[p].links, cmd[p].unlinked, TRUE)
<1> DEFINE c == cmd[p]
           pc == IF c.dir = "bin" THEN "undev" ELSE "latest"
<1>1. c.pc = "undev" /\ BinTypeOK /\ c \in Command /\ c.dir \in Dirs
    BY DEF BinInv, BinTypeOK, Command, RemoveDev, At
<1>2. CASE c.dir = "bin" /\ link["bin"]["tarantool"] = None
    BY <1>1, <1>2, FailFails DEF RemoveDev, Fails
<1>3. CASE ~(c.dir = "bin" /\ link["bin"]["tarantool"] = None)
    <2>1. /\ link' = [link EXCEPT ![c.dir]["tarantool"] = None] /\ UNCHANGED file
          /\ Goto(p, [c EXCEPT !.dir = "inc", !.touched = TRUE, !.pc = pc])
        BY <1>3 DEF RemoveDev
    <2>2. LinkPut(c.dir, "tarantool", None)
        BY <1>1, <2>1, LinkSet DEF LinkNames
    <2>3. pc \in Points
        BY DEF Points, Removing
    <2>4. Becomes(p, pc, c.flags, c.name, "inc", c.names, c.links, c.unlinked, TRUE)
        <3> HIDE DEF pc
        <3>1. QED
            BY <1>1, <2>1, <2>3, SetDirTouchedPc DEF Dirs
    <2>5. QED
        BY <1>1, <2>1, <2>2, <2>4 DEF Dirs
<1>4. QED
    BY <1>2, <1>3

\* RemoveProgram fails, tries the second spelling, or has found the file to remove.
LEMMA RemoveProgramStep ==
    ASSUME BinInv, NEW p \in Procs, RemoveProgram(p)
    PROVE  LET c == cmd[p] n == Head(cmd[p].names) target == link[c.dir][LinkOf(c.prog)]
           IN  /\ c.pc = "remove" /\ UNCHANGED <<file, link>>
               /\ \/ Fails(p)
                  \/ /\ c.dir = "bin" /\ Tail(c.names) # <<>>
                     /\ Tail(c.names) \in Seq(NamesOf({c.prog}))
                     /\ Becomes(p, "remove", c.flags, c.name, c.dir, Tail(c.names), c.links,
                                c.unlinked, c.touched)
                  \/ /\ n \in Names /\ n.prog = c.prog /\ Resolves(c.dir, LinkOf(c.prog))
                     /\ c.dir = "inc" => n = c.name
                     /\ \E k \in {"removeLink", "removeFile"} :
                           /\ k = "removeLink" <=> <<n, target>> \in Within
                           /\ Becomes(p, k, c.flags, n, c.dir, c.names, c.links, c.unlinked, c.touched)
<1> DEFINE c == cmd[p]
           n == Head(c.names)
           target == link[c.dir][LinkOf(c.prog)]
           k == IF <<n, target>> \in Within THEN "removeLink" ELSE "removeFile"
<1>1. /\ c.pc = "remove" /\ BinTypeOK /\ c \in Command /\ c.dir \in Dirs /\ c.prog \in Programs
      /\ c.names \in Seq(NamesOf({c.prog})) /\ c.names # <<>> /\ c.names \in Seq(NamesOf(Progs))
      /\ c.dir = "inc" => c.names = <<c.name>>
    BY DEF BinInv, BinTypeOK, Command, RemoveProgram, At, ShapeOf
<1>2. /\ n \in NamesOf({c.prog}) /\ Tail(c.names) \in Seq(NamesOf({c.prog}))
      /\ Tail(c.names) \in Seq(NamesOf(Progs))
      /\ Len(c.names) # 1 => Tail(c.names) # <<>>
    <2> HIDE DEF c
    <2>1. n \in NamesOf({c.prog}) /\ Tail(c.names) \in Seq(NamesOf({c.prog}))
        BY <1>1, SMT
    <2>2. Tail(c.names) \in Seq(NamesOf(Progs))
        BY <1>1, SMT
    <2>3. Len(c.names) # 1 => Tail(c.names) # <<>>
        <3>1. Len(Tail(c.names)) = Len(c.names) - 1 /\ Len(c.names) \in Nat
            BY <1>1, SMT
        <3>2. Len(<<>>) = 0
            BY SMT
        <3>3. Tail(c.names) = <<>> => 0 = Len(c.names) - 1
            BY <3>1, <3>2
        <3>4. 0 = Len(c.names) - 1 => Len(c.names) = 1
            BY <3>1, SMT
        <3>5. QED
            BY <3>3, <3>4
    <2>4. QED
        BY <2>1, <2>2, <2>3
<1>3. c.dir = "inc" => n = c.name /\ Len(c.names) = 1
    <2>1. \A x : Head(<<x>>) = x /\ Len(<<x>>) = 1
        BY SMT
    <2>2. QED
        BY <1>1, <2>1
<1>4. n.prog = c.prog
    BY <1>2 DEF NamesOf
<1>5. k \in Points /\ k \in {"removeLink", "removeFile"} /\ (k = "removeLink" <=> <<n, target>> \in Within)
    BY DEF Points, Removing
<1>6. /\ ~Present(c.dir, n) /\ Len(c.names) = 1 => Fail(p)
      /\ ~Present(c.dir, n) /\ Len(c.names) # 1 =>
            Goto(p, [c EXCEPT !.names = Tail(c.names)]) /\ UNCHANGED <<file, link>>
      /\ Present(c.dir, n) /\ ~Resolves(c.dir, LinkOf(c.prog)) => Fail(p)
      /\ Present(c.dir, n) /\ Resolves(c.dir, LinkOf(c.prog)) =>
            Goto(p, [c EXCEPT !.pc = k, !.name = n]) /\ UNCHANGED <<file, link>>
    BY DEF RemoveProgram
<1> HIDE DEF k, n
<1>7. Fail(p) => Fails(p) /\ UNCHANGED <<file, link>>
    BY FailFails DEF Fails
<1>8. CASE ~Present(c.dir, n) /\ Len(c.names) # 1
    <2>1. Becomes(p, c.pc, c.flags, c.name, c.dir, Tail(c.names), c.links, c.unlinked, c.touched)
        BY <1>1, <1>2, <1>6, <1>8, SetNames
    <2>2. QED
        BY <1>1, <1>2, <1>3, <1>6, <1>8, <2>1 DEF Dirs
<1>9. CASE Present(c.dir, n) /\ Resolves(c.dir, LinkOf(c.prog))
    <2>1. n \in Names /\ n \in Targets \cup {None}
        BY <1>9 DEF Present, Targets
    <2>2. Becomes(p, k, c.flags, n, c.dir, c.names, c.links, c.unlinked, c.touched)
        BY <1>1, <1>5, <1>6, <1>9, <2>1, SetPcName
    <2>3. QED
        BY <1>1, <1>3, <1>4, <1>5, <1>6, <1>9, <2>1, <2>2 DEF n
<1>10. QED
    BY <1>1, <1>6, <1>7, <1>8, <1>9

\* RemoveLink fails when the link is gone, or removes it.
LEMMA RemoveLinkStep ==
    ASSUME BinInv, NEW p \in Procs, RemoveLink(p)
    PROVE  /\ cmd[p].pc = "removeLink" /\ UNCHANGED file
           /\ \/ Fails(p)
              \/ /\ LinkPut(cmd[p].dir, LinkOf(cmd[p].prog), None)
                 /\ Becomes(p, "removeFile", cmd[p].flags, cmd[p].name, cmd[p].dir, cmd[p].names,
                            cmd[p].links, cmd[p].unlinked \/ cmd[p].dir = "bin", TRUE)
<1> DEFINE c == cmd[p]
           u == c.unlinked \/ c.dir = "bin"
<1>1. /\ c.pc = "removeLink" /\ BinTypeOK /\ c \in Command /\ c.dir \in Dirs
      /\ LinkOf(c.prog) \in LinkNames /\ u \in BOOLEAN
    BY DEF BinInv, BinTypeOK, Command, RemoveLink, At, LinkOf, LinkNames
<1>2. CASE link[c.dir][LinkOf(c.prog)] = None
    BY <1>1, <1>2, FailFails DEF RemoveLink, Fails
<1>3. CASE link[c.dir][LinkOf(c.prog)] # None
    <2>1. /\ link' = [link EXCEPT ![c.dir][LinkOf(c.prog)] = None] /\ UNCHANGED file
          /\ Goto(p, [c EXCEPT !.pc = "removeFile", !.touched = TRUE, !.unlinked = u])
        BY <1>3 DEF RemoveLink
    <2> HIDE DEF u
    <2>2. LinkPut(c.dir, LinkOf(c.prog), None)
        BY <1>1, <2>1, LinkSet
    <2>3. Becomes(p, "removeFile", c.flags, c.name, c.dir, c.names, c.links, u, TRUE)
        BY <1>1, <2>1, SetPcTouchedUnlinked DEF Points, Removing
    <2>4. QED
        BY <1>1, <2>1, <2>2, <2>3 DEF u
<1>4. QED
    BY <1>2, <1>3

\* RemoveFile removes the file and goes on to the headers, to the next active version, or ends.
LEMMA RemoveFileStep ==
    ASSUME BinInv, NEW p \in Procs, RemoveFile(p)
    PROVE  LET c == cmd[p]
           IN  /\ c.pc = "removeFile" /\ UNCHANGED link
               /\ FilePut(c.dir, c.name, "absent")
               /\ \/ /\ c.dir # LastDir(c.prog)
                     /\ Becomes(p, "remove", c.flags, c.name, "inc", <<c.name>>, c.links, c.unlinked, TRUE)
                  \/ /\ c.dir = LastDir(c.prog) /\ c.unlinked
                     /\ Proceeds(p, "latest")
                  \/ /\ c.dir = LastDir(c.prog) /\ ~c.unlinked
                     /\ Succeeds(p)
<1> DEFINE c == cmd[p]
<1>1. /\ c.pc = "removeFile" /\ BinTypeOK /\ c \in Command /\ c.dir \in Dirs
      /\ c.name \in Names
    BY DEF BinInv, BinTypeOK, Command, RemoveFile, At, ShapeOf
<1>2. FilePut(c.dir, c.name, "absent")
    BY <1>1, FileSet DEF RemoveFile, Content
<1>3. <<c.name>> \in Seq(NamesOf(Progs))
    <2>1. c.name \in NamesOf(Progs)
        BY <1>1, TargetFacts
    <2>2. QED
        BY <2>1, SMT
<1>4. CASE c.dir # LastDir(c.prog)
    <2>1. /\ Goto(p, [c EXCEPT !.pc = "remove", !.dir = "inc", !.touched = TRUE, !.names = <<c.name>>])
          /\ UNCHANGED link
        BY <1>4 DEF RemoveFile
    <2>2. Becomes(p, "remove", c.flags, c.name, "inc", <<c.name>>, c.links, c.unlinked, TRUE)
        BY <1>1, <1>3, <2>1, SetPcDirTouchedNames DEF Points, Removing, Dirs
    <2>3. QED
        BY <1>1, <1>2, <1>4, <2>1, <2>2
<1>5. CASE c.dir = LastDir(c.prog) /\ c.unlinked
    BY <1>1, <1>2, <1>5, SetPc DEF RemoveFile, Proceeds, Points, Removing
<1>6. CASE c.dir = LastDir(c.prog) /\ ~c.unlinked
    BY <1>1, <1>2, <1>6, FinishSucceeds DEF RemoveFile
<1>7. QED
    BY <1>4, <1>5, <1>6

\* SwitchToLatest ends when nothing is left to switch to, or is about to make an installed version
\* active.
LEMMA LatestStep ==
    ASSUME BinInv, NEW p \in Procs, SwitchToLatest(p)
    PROVE  /\ cmd[p].pc = "latest" /\ UNCHANGED <<file, link>>
           /\ \/ /\ Succeeds(p)
                 /\ \A m \in Names :
                       m.ver # "master" /\ LinkOf(m.prog) = LinkOf(cmd[p].prog) => ~Installed(m)
              \/ \E n \in Names :
                    /\ Installed(n) /\ LinkOf(n.prog) = LinkOf(cmd[p].prog)
                    /\ Plans(p, cmd[p].name, LinksTo(n.prog, n))
<1> DEFINE n == SearchLatestVersion(LinkOf(cmd[p].prog))
<1>1. cmd[p].pc = "latest" /\ BinTypeOK /\ UNCHANGED <<file, link>>
    BY DEF BinInv, SwitchToLatest, At
<1>2. /\ n = None => Finish(p, cmd[p], "ok") /\ faults' = faults
      /\ n # None => Goto(p, [cmd[p] EXCEPT !.pc = "stat", !.links = LinksTo(n.prog, n)])
    BY DEF SwitchToLatest
<1>3. /\ n # None => n \in Names /\ Installed(n) /\ LinkOf(n.prog) = LinkOf(cmd[p].prog)
      /\ n = None => \A m \in Names :
            m.ver # "master" /\ LinkOf(m.prog) = LinkOf(cmd[p].prog) => ~Installed(m)
    BY SearchFacts
<1> HIDE DEF n
<1>4. CASE n = None
    BY <1>1, <1>2, <1>3, <1>4, FinishSucceeds
<1>5. CASE n # None
    <2>1. LinksTo(n.prog, n) \in Seq(LinkTo)
        BY <1>3, <1>5, LinksToIs, PlanFacts, NameFacts DEF Targets
    <2>2. Plans(p, cmd[p].name, LinksTo(n.prog, n))
        BY <1>1, <1>2, <1>5, <2>1, SetPcLinks DEF Plans, Points, Linking
    <2>3. QED
        BY <1>1, <1>3, <1>5, <2>2
<1>6. QED
    BY <1>4, <1>5

\* Switch fails, or is about to make an installed version active.
LEMMA SwitchStep ==
    ASSUME BinInv, NEW p \in Procs, Switch(p)
    PROVE  /\ cmd[p].pc = "switch" /\ UNCHANGED <<file, link>>
           /\ \/ Fails(p)
              \/ \E n \in Names : /\ Installed(n) /\ n.prog = cmd[p].prog
                                  /\ Plans(p, n, LinksTo(n.prog, n))
<1>1. cmd[p].pc = "switch" /\ BinTypeOK
    BY DEF BinInv, Switch, At
<1>2. Fail(p) => Fails(p) /\ UNCHANGED <<file, link>>
    BY FailFails DEF Fails
<1>3. ASSUME NEW n, n.prog = cmd[p].prog, SwitchTo(p, n)
      PROVE  \/ Fails(p)
             \/ n \in Names /\ Installed(n) /\ Plans(p, n, LinksTo(n.prog, n)) /\ UNCHANGED <<file, link>>
    <2>1. CASE ~(n \in Names /\ Installed(n))
        BY <1>2, <1>3, <2>1 DEF SwitchTo
    <2>2. CASE n \in Names /\ Installed(n)
        <3>1. LinksTo(n.prog, n) \in Seq(LinkTo) /\ n \in Targets \cup {None}
            BY <2>2, LinksToIs, PlanFacts, NameFacts DEF Targets
        <3>2. Plans(p, n, LinksTo(n.prog, n)) /\ UNCHANGED <<file, link>>
            BY <1>1, <1>3, <2>2, <3>1, SetPcNameLinks DEF Plans, SwitchTo, Points, Linking
        <3>3. QED
            BY <2>2, <3>2
    <2>3. QED
        BY <2>1, <2>2
<1>4. CASE Fail(p)
    BY <1>1, <1>2, <1>4
<1>5. ASSUME NEW v, SwitchTo(p, IF cmd[p].prog = "tt" THEN SwitchTtName(v)
                                ELSE [prog |-> cmd[p].prog, ver |-> v])
      PROVE  /\ UNCHANGED <<file, link>>
             /\ \/ Fails(p)
                \/ \E n \in Names : /\ Installed(n) /\ n.prog = cmd[p].prog
                                    /\ Plans(p, n, LinksTo(n.prog, n))
    <2> DEFINE n == IF cmd[p].prog = "tt" THEN SwitchTtName(v) ELSE [prog |-> cmd[p].prog, ver |-> v]
    <2>1. n.prog = cmd[p].prog
        BY DEF SwitchTtName
    <2>2. SwitchTo(p, n)
        BY <1>5
    <2> HIDE DEF n
    <2>3. QED
        BY <1>3, <2>1, <2>2 DEF Fails
<1>6. QED
    BY <1>1, <1>4, <1>5 DEF Switch

-----------------------------------------------------------------------------
(* BinInv: types, program points, where links may be and who is alone.     *)

\* Placed depends on the files and links only.
LEMMA PlacedSame ==
    ASSUME Placed, UNCHANGED <<file, link>>
    PROVE  Placed'
BY DEF Placed

\* A file is put where its program has files.
LEMMA PlacedFile ==
    ASSUME Placed, NEW d \in Dirs, NEW n \in Names, NEW x, FilePut(d, n, x), UNCHANGED link,
           n.prog = "tt" /\ d = "inc" => x = "absent"
    PROVE  Placed'
BY DEF Placed, FilePut, Dirs

\* A link is set under the name of its program.
LEMMA PlacedLink ==
    ASSUME Placed, NEW d \in Dirs, NEW l \in LinkNames, NEW t, LinkPut(d, l, t), UNCHANGED file,
           \/ t = None
           \/ LinkOf(t.prog) = l /\ (d = "inc" => l # "tt")
    PROVE  Placed'
BY ZenonT(60) DEF Placed, LinkPut, Dirs, LinkNames

\* The rest of BinInv when p ends, and when it goes on.
LEMMA BinEnds ==
    ASSUME BinInv, NEW p \in Procs, cmd[p].pc # "idle", NEW t, Ended(p, t), Placed',
           file' \in [Dirs -> [Names -> Content]],
           link' \in [Dirs -> [LinkNames -> Targets \cup {None}]]
    PROVE  BinInv'
<1>1. hurt' \in {0, 1, 2} /\ (hurt' < 2 => hurt < 2)
    BY SMT DEF Ended, BinInv, BinTypeOK
<1>2. BinTypeOK'
    BY <1>1 DEF BinInv, BinTypeOK, Ended, Others
<1>3. Solo'
    BY <1>1 DEF BinInv, Solo, Ended, Others
<1>4. ShapeOf(cmd'[p])
    BY DEF Ended, ShapeOf, Linking, Installing, Removing
<1>5. \A q \in Procs : ShapeOf(cmd'[q])
    BY <1>4 DEF BinInv, Ended, Others
<1>6. QED
    BY <1>2, <1>3, <1>5 DEF BinInv

\* A command that goes on sees to its own record, and to the files and links.
LEMMA BinMoves ==
    ASSUME BinInv, NEW p \in Procs, cmd[p].pc # "idle", Moves(p), ShapeOf(cmd'[p]), Placed',
           file' \in [Dirs -> [Names -> Content]],
           link' \in [Dirs -> [LinkNames -> Targets \cup {None}]]
    PROVE  BinInv'
<1>1. BinTypeOK'
    BY DEF BinInv, BinTypeOK, Moves, Others
<1>2. Solo'
    BY DEF BinInv, Solo, Moves, Others
<1>3. \A q \in Procs : ShapeOf(cmd'[q])
    BY DEF BinInv, Moves, Others
<1>4. QED
    BY <1>1, <1>2, <1>3 DEF BinInv

\* A step that leaves files and links alone keeps them placed.
LEMMA BinStays ==
    ASSUME BinInv, UNCHANGED <<file, link>>
    PROVE  /\ Placed' /\ file' \in [Dirs -> [Names -> Content]]
           /\ link' \in [Dirs -> [LinkNames -> Targets \cup {None}]]
BY PlacedSame DEF BinInv, BinTypeOK

\* A failing command keeps the invariant.
LEMMA BinFails ==
    ASSUME BinInv, NEW p \in Procs, cmd[p].pc # "idle", Fails(p)
    PROVE  BinInv'
BY BinStays, BinEnds DEF Fails

\* The shape of a command that is about to set links.
LEMMA PlansShape ==
    ASSUME BinInv, NEW p \in Procs, NEW n, NEW links, Plans(p, n, links), NEW t \in Targets,
           PlanOf(links, t), cmd[p].op # "none",
           cmd[p].op # "install" => t \in Names,
           cmd[p].op # "uninstall" => t = n /\ t.prog = cmd[p].prog,
           cmd[p].op = "uninstall" /\ cmd[p].prog # "tarantool-dev" =>
              n \in Names /\ n.prog = cmd[p].prog /\ (cmd[p].alone => t # n)
    PROVE  ShapeOf(cmd'[p])
<1>1. cmd[p].unlinked => cmd[p].touched
    BY DEF BinInv, ShapeOf
<1>2. QED
    BY <1>1 DEF Plans, Becomes, Moves, ShapeOf, Linking, Installing, Removing

DoneInv == \A p \in Procs : DoneOf(cmd[p])

\* The steps of an install before it touches anything.
LEMMA BinInstall ==
    ASSUME BinInv, NEW p \in Procs,
           \/ Install(p) \/ ProbeTt(p) \/ ProbeTarantool(p) \/ ProbeTarantoolEE(p)
           \/ InstallInDocker(p) \/ BuildTt(p) \/ BuildTarantool(p) \/ GetTarantoolEE(p)
    PROVE  BinInv'
<1> DEFINE c == cmd[p]
<1>1. ShapeOf(c) /\ Dev \in Targets /\ Names \subseteq Targets
    BY DEF BinInv, Targets
<1>2. CASE Install(p)
    <2>1. c.pc = "install" /\ c.op = "install"
        BY <1>1, <1>2, InstallStep DEF ShapeOf, Installing
    <2>2. CASE Fails(p)
        BY <2>1, <2>2, BinFails
    <2>3. CASE /\ c.prog = "tarantool-dev" /\ Plans(p, Dev, <<LinkFor("bin", Dev)>>)
               /\ UNCHANGED <<file, link>>
        <3>1. PlanOf(<<LinkFor("bin", Dev)>>, Dev) /\ Dev.prog = c.prog
            BY <2>3, NameFacts DEF PlanOf
        <3>2. ShapeOf(cmd'[p])
            BY <1>1, <2>1, <2>3, <3>1, PlansShape
        <3>3. QED
            BY <2>1, <2>3, <3>2, BinStays, BinMoves DEF Plans, Becomes
    <2>4. ASSUME NEW n \in Names, n.prog = c.prog, UNCHANGED <<file, link>>,
                 Becomes(p, "probe", c.flags, n, c.dir, c.names, c.links, c.unlinked, c.touched)
          PROVE  BinInv'
        <3>1. ShapeOf(cmd'[p])
            BY <1>1, <2>1, <2>4 DEF Becomes, Moves, ShapeOf, Linking, Installing, Removing
        <3>2. QED
            BY <2>1, <2>4, <3>1, BinStays, BinMoves DEF Becomes
    <2>5. QED
        BY <1>2, <2>2, <2>3, <2>4, InstallStep
<1>3. CASE ProbeTt(p) \/ ProbeTarantool(p) \/ ProbeTarantoolEE(p)
    <2>1. /\ c.pc = "probe" /\ c.op = "install" /\ c.name \in Names /\ c.name.prog = c.prog
          /\ UNCHANGED <<file, link>>
        BY <1>1, <1>3, ProbeStep DEF ShapeOf, Installing
    <2>2. CASE Fails(p)
        BY <2>1, <2>2, BinFails
    <2>3. CASE Plans(p, c.name, LinksTo(c.prog, c.name))
        <3>1. PlanOf(LinksTo(c.prog, c.name), c.name)
            BY <1>1, <2>1, NameFacts, LinksToIs
        <3>2. ShapeOf(cmd'[p])
            BY <1>1, <2>1, <2>3, <3>1, PlansShape
        <3>3. QED
            BY <2>1, <2>3, <3>2, BinStays, BinMoves DEF Plans, Becomes
    <2>4. ASSUME NEW k \in {"build", "docker"}, NEW f \in SUBSET {"reinstall", "docker"},
                 Becomes(p, k, f, c.name, c.dir, c.names, c.links, c.unlinked, c.touched),
                 k = "docker" => c.prog = "tarantool" /\ "docker" \in f
          PROVE  BinInv'
        <3>1. ShapeOf(cmd'[p])
            BY <1>1, <2>1, <2>4 DEF Becomes, Moves, ShapeOf, Linking, Installing, Removing
        <3>2. QED
            BY <2>1, <2>4, <3>1, BinStays, BinMoves DEF Becomes
    <2>5. QED
        BY <1>3, <2>2, <2>3, <2>4, ProbeStep
<1>4. CASE InstallInDocker(p)
    <2>1. c.pc = "docker" /\ UNCHANGED <<file, link>>
        BY <1>4, DockerStep
    <2>2. CASE Succeeds(p)
        BY <2>1, <2>2, BinStays, BinEnds DEF Succeeds
    <2>3. CASE Becomes(p, "probe", c.flags \ {"docker"}, c.name, c.dir, c.names, c.links,
                       c.unlinked, c.touched)
        <3>1. ShapeOf(cmd'[p])
            BY <1>1, <2>1, <2>3 DEF Becomes, Moves, ShapeOf, Linking, Installing, Removing
        <3>2. QED
            BY <2>1, <2>3, <3>1, BinStays, BinMoves DEF Becomes
    <2>4. QED
        BY <1>4, <2>2, <2>3, DockerStep
<1>5. CASE BuildTt(p) \/ BuildTarantool(p) \/ GetTarantoolEE(p)
    <2>1. c.pc = "build" /\ UNCHANGED <<file, link>>
        BY <1>5, BuildStep
    <2>2. PICK k \in {"clear", "open"} : Proceeds(p, k)
        BY <1>5, BuildStep
    <2>3. ShapeOf(cmd'[p])
        <3>1. c.name \in Names /\ c.name.prog = c.prog /\ c.prog \in Programs
            BY <1>1, <2>1, NameFacts DEF ShapeOf, Installing
        <3>2. QED
            BY <1>1, <2>1, <2>2, <3>1
               DEF Proceeds, Becomes, Moves, ShapeOf, Linking, Installing, Removing
    <2>4. QED
        BY <2>1, <2>2, <2>3, BinStays, BinMoves DEF Proceeds, Becomes
<1>6. QED
    BY <1>2, <1>3, <1>4, <1>5

\* The steps that remove and copy files.
LEMMA BinCopy ==
    ASSUME BinInv, NEW p \in Procs, ClearTt(p) \/ ClearTarantool(p) \/ Open(p) \/ Fill(p)
    PROVE  BinInv'
<1> DEFINE c == cmd[p]
<1>1. ShapeOf(c) /\ Placed /\ c.dir \in Dirs
    BY DEF BinInv, BinTypeOK, Command
<1>2. c.pc \in {"clear", "open", "fill"}
    BY ClearTtStep, ClearTarantoolStep, OpenStep, FillStep
<1>3. /\ c.op = "install" /\ c.name \in Names /\ c.name.prog = c.prog /\ c.prog \in Programs
      /\ c.prog = "tt" => c.dir = "bin"
    BY <1>1, <1>2 DEF ShapeOf, Installing
<1>4. ASSUME NEW x, FilePut(c.dir, c.name, x), UNCHANGED link
      PROVE  /\ Placed' /\ file' \in [Dirs -> [Names -> Content]]
             /\ link' \in [Dirs -> [LinkNames -> Targets \cup {None}]]
    <2>1. Placed'
        BY <1>1, <1>3, <1>4, PlacedFile
    <2>2. QED
        BY <1>4, <2>1 DEF FilePut, BinInv, BinTypeOK
<1>5. Fails(p) => BinInv'
    BY <1>2, BinFails
<1>6. ASSUME NEW k \in {"clear", "open", "fill"}, NEW d \in Dirs, NEW t \in BOOLEAN,
             Becomes(p, k, c.flags, c.name, d, c.names, c.links, c.unlinked, t),
             c.prog = "tt" => d = "bin", c.touched => t,
             (k = "clear" /\ d = "inc") \/ k = "fill" => t
      PROVE  ShapeOf(cmd'[p])
    BY <1>1, <1>3, <1>6 DEF Becomes, Moves, ShapeOf, Linking, Installing, Removing
<1>7. CASE ClearTt(p)
    <2>1. c.dir = "bin"
        BY <1>3, <1>7, ClearTtStep
    <2>2. QED
        BY <1>2, <1>3, <1>4, <1>5, <1>6, <1>7, <2>1, ClearTtStep, BinMoves DEF Becomes, Dirs
<1>8. CASE ClearTarantool(p)
    <2>1. c.touched \in BOOLEAN /\ "inc" \in Dirs /\ "bin" \in Dirs
        BY DEF BinInv, BinTypeOK, Command, Dirs
    <2>2. ShapeOf(cmd'[p]) /\ Moves(p)
        BY <1>3, <1>6, <1>8, <2>1, ClearTarantoolStep DEF Becomes
    <2>3. QED
        BY <1>2, <1>4, <1>8, <2>2, ClearTarantoolStep, BinMoves
<1>9. CASE Open(p)
    BY <1>1, <1>2, <1>3, <1>4, <1>6, <1>9, OpenStep, BinMoves DEF Becomes
<1>10. CASE Fill(p)
    <2>1. CASE Fails(p)
        BY <1>5, <2>1
    <2>2. CASE ~Fails(p)
        <3>1. PICK x \in Content : FilePut(c.dir, c.name, x) /\ UNCHANGED link
            BY <1>10, <2>2, FillStep
        <3>2. CASE Plans(p, c.name, LinksTo(c.prog, c.name))
            <4>1. PlanOf(LinksTo(c.prog, c.name), c.name) /\ c.name \in Targets
                BY <1>3, NameFacts, LinksToIs DEF Targets
            <4>2. ShapeOf(cmd'[p])
                BY <1>3, <3>2, <4>1, PlansShape
            <4>3. QED
                BY <1>2, <1>4, <3>1, <3>2, <4>2, BinMoves DEF Plans, Becomes
        <3>3. CASE /\ c.dir # LastDir(c.prog)
                   /\ Becomes(p, "open", c.flags, c.name, "inc", c.names, c.links, c.unlinked, c.touched)
            <4>1. c.prog # "tt" /\ c.touched \in BOOLEAN
                BY <1>1, <1>3, <3>3 DEF LastDir, BinInv, BinTypeOK, Command
            <4>2. ShapeOf(cmd'[p])
                BY <1>6, <3>3, <4>1 DEF Dirs
            <4>3. QED
                BY <1>2, <1>4, <3>1, <3>3, <4>2, BinMoves DEF Becomes
        <3>4. QED
            BY <1>10, <2>2, <3>2, <3>3, FillStep
    <2>3. QED
        BY <2>1, <2>2
<1>11. QED
    BY <1>7, <1>8, <1>9, <1>10

\* The steps that set links.
LEMMA BinLink ==
    ASSUME BinInv, NEW p \in Procs, Stat(p) \/ Unlink(p) \/ Symlink(p) \/ Headers(p)
    PROVE  BinInv'
<1> DEFINE c == cmd[p]
           h == Head(c.links)
           t == h.to
<1>1. ShapeOf(c) /\ Placed /\ c.dir \in Dirs /\ c.touched \in BOOLEAN
    BY DEF BinInv, BinTypeOK, Command
<1>2. c.pc \in Linking \cup {"headers"} /\ c.pc # "idle"
    BY StatStep, UnlinkStep, SymlinkStep, HeadersStep DEF Linking
<1>3. Fails(p) => BinInv'
    BY <1>2, BinFails
<1>4. ASSUME NEW d \in Dirs, NEW l \in LinkNames, NEW u, LinkPut(d, l, u), UNCHANGED file,
             u = None \/ (LinkOf(u.prog) = l /\ (d = "inc" => l # "tt"))
      PROVE  /\ Placed' /\ file' \in [Dirs -> [Names -> Content]]
             /\ link' \in [Dirs -> [LinkNames -> Targets \cup {None}]]
    <2>1. Placed'
        BY <1>1, <1>4, PlacedLink
    <2>2. QED
        BY <1>4, <2>1 DEF LinkPut, BinInv, BinTypeOK
<1>5. c.pc \in Linking => c.op # "none"
    BY <1>1 DEF ShapeOf
<1>6. ASSUME c.pc \in Linking, NEW k \in Linking, NEW s, NEW b, c.touched => b, PlanOf(s, t),
             Becomes(p, k, c.flags, c.name, c.dir, c.names, s, c.unlinked, b)
      PROVE  ShapeOf(cmd'[p])
    <2>1. /\ t \in Targets /\ (c.op # "install" => t \in Names)
          /\ c.op # "uninstall" => t = c.name /\ t.prog = c.prog
          /\ c.op = "uninstall" /\ c.prog # "tarantool-dev" =>
                c.name \in Names /\ c.name.prog = c.prog /\ (c.alone => t # c.name)
        BY <1>6, LinkingFacts
    <2>2. (c.unlinked => c.touched) /\ cmd'[p].links = s
        BY <1>1, <1>6 DEF ShapeOf, Becomes
    <2> HIDE DEF t
    <2>3. QED
        BY <1>5, <1>6, <2>1, <2>2 DEF Becomes, Moves, ShapeOf, Linking, Installing, Removing
<1>7. c.pc \in Linking =>
          /\ t \in Targets /\ h.dir \in Dirs /\ h.name \in LinkNames /\ h.name = LinkOf(t.prog)
          /\ PlanOf(c.links, t) /\ (h.dir = "inc" => t.prog # "tt")
    BY LinkingFacts, PlanFacts
<1>8. CASE Stat(p)
    <2>1. c.pc \in Linking /\ UNCHANGED <<file, link>>
        BY <1>8, StatStep DEF Linking
    <2>2. PICK k \in {"unlink", "symlink"} : Proceeds(p, k)
        BY <1>8, StatStep
    <2>3. ShapeOf(cmd'[p])
        BY <1>6, <1>7, <2>1, <2>2 DEF Proceeds, Linking
    <2>4. QED
        BY <1>2, <2>1, <2>2, <2>3, BinStays, BinMoves DEF Proceeds, Becomes
<1>9. CASE Unlink(p)
    <2>1. c.pc \in Linking /\ UNCHANGED file
        BY <1>9, UnlinkStep DEF Linking
    <2>2. CASE Fails(p)
        BY <1>3, <2>2
    <2>3. CASE /\ LinkPut(h.dir, h.name, None)
               /\ Becomes(p, "symlink", c.flags, c.name, c.dir, c.names, c.links, c.unlinked, TRUE)
        <3>1. ShapeOf(cmd'[p])
            BY <1>6, <1>7, <2>1, <2>3 DEF Linking
        <3>2. QED
            BY <1>2, <1>4, <1>7, <2>1, <2>3, <3>1, BinMoves DEF Becomes
    <2>4. QED
        BY <1>9, <2>2, <2>3, UnlinkStep
<1>10. CASE Symlink(p)
    <2>1. c.pc \in Linking /\ UNCHANGED file
        BY <1>10, SymlinkStep DEF Linking
    <2>2. CASE Fails(p)
        BY <1>3, <2>2
    <2>3. CASE LinkPut(h.dir, h.name, t)
        <3>1. /\ Placed' /\ file' \in [Dirs -> [Names -> Content]]
              /\ link' \in [Dirs -> [LinkNames -> Targets \cup {None}]]
            <4>1. h.dir = "inc" => h.name # "tt"
                BY <1>7, <2>1 DEF LinkOf
            <4>2. QED
                BY <1>4, <1>7, <2>1, <2>3, <4>1
        <3>2. CASE Succeeds(p)
            BY <1>2, <3>1, <3>2, BinEnds DEF Succeeds
        <3>3. CASE /\ Tail(c.links) # <<>>
                   /\ Becomes(p, "stat", c.flags, c.name, c.dir, c.names, Tail(c.links), c.unlinked, TRUE)
            <4>1. PlanOf(Tail(c.links), t)
                <5>1. h.dir # "inc" /\ ~(t.prog = "tt" \/ t = Dev)
                    BY <1>7, <2>1, <3>3, PlanFacts, ZenonT(60) DEF Dirs
                <5>2. h.dir = "bin" /\ t \in Names
                    BY <1>7, <2>1, <5>1 DEF Dirs, Targets
                <5>3. QED
                    BY <1>7, <2>1, <5>1, <5>2, PlanFacts
            <4>2. ShapeOf(cmd'[p])
                BY <1>6, <2>1, <3>3, <4>1 DEF Linking
            <4>3. QED
                BY <1>2, <3>1, <3>3, <4>2, BinMoves DEF Becomes
        <3>4. CASE /\ t = Dev
                   /\ Becomes(p, "headers", c.flags, c.name, c.dir, c.names, Tail(c.links),
                              c.unlinked, TRUE)
            <4>1. c.op = "install" /\ c.name = Dev /\ c.prog = "tarantool-dev"
                <5>1. Dev \notin Names /\ Dev.prog = "tarantool-dev"
                    BY NameFacts
                <5>2. c.op = "install"
                    BY <2>1, <3>4, <5>1, LinkingFacts
                <5>3. t = c.name /\ t.prog = c.prog
                    BY <2>1, <5>2, LinkingFacts
                <5>4. QED
                    BY <3>4, <5>1, <5>2, <5>3
            <4>2. ShapeOf(cmd'[p])
                BY <3>4, <4>1 DEF Becomes, Moves, ShapeOf, Linking, Installing, Removing
            <4>3. QED
                BY <1>2, <3>1, <3>4, <4>2, BinMoves DEF Becomes
        <3>5. QED
            <4>1. \/ Succeeds(p)
                  \/ /\ Tail(c.links) # <<>>
                     /\ Becomes(p, "stat", c.flags, c.name, c.dir, c.names, Tail(c.links), c.unlinked, TRUE)
                  \/ /\ t = Dev
                     /\ Becomes(p, "headers", c.flags, c.name, c.dir, c.names, Tail(c.links),
                                c.unlinked, TRUE)
                  \/ Fails(p)
                BY <1>10, SymlinkStep
            <4>2. QED
                BY <2>2, <3>2, <3>3, <3>4, <4>1
    <2>4. QED
        BY <1>10, <2>2, <2>3, SymlinkStep
<1>11. CASE Headers(p)
    <2>1. c.pc = "headers" /\ UNCHANGED file /\ c.op = "install" /\ c.prog = "tarantool-dev" /\ c.name = Dev
        BY <1>1, <1>11, HeadersStep DEF ShapeOf, Installing
    <2>2. CASE Fails(p)
        BY <1>3, <2>2
    <2>3. CASE LinkPut("inc", "tarantool", None)
        <3>1. /\ Placed' /\ file' \in [Dirs -> [Names -> Content]]
              /\ link' \in [Dirs -> [LinkNames -> Targets \cup {None}]]
            BY <1>4, <2>1, <2>3 DEF Dirs, LinkNames
        <3>2. CASE Succeeds(p)
            BY <1>2, <3>1, <3>2, BinEnds DEF Succeeds
        <3>3. CASE Plans(p, c.name, <<LinkFor("inc", Dev)>>)
            <4>1. PlanOf(<<LinkFor("inc", Dev)>>, Dev) /\ Dev.prog = "tarantool-dev" /\ Dev \in Targets
                BY NameFacts DEF PlanOf, Targets
            <4>2. ShapeOf(cmd'[p])
                BY <2>1, <3>3, <4>1, PlansShape
            <4>3. QED
                BY <1>2, <3>1, <3>3, <4>2, BinMoves DEF Plans, Becomes
        <3>4. CASE Fails(p)
            BY <1>3, <3>4
        <3>5. QED
            BY <1>11, <3>2, <3>3, <3>4, HeadersStep
    <2>4. QED
        BY <1>11, <2>2, <2>3, HeadersStep
<1>12. QED
    BY <1>8, <1>9, <1>10, <1>11

\* The steps of an uninstall.
LEMMA BinRemove ==
    ASSUME BinInv, NEW p \in Procs,
           Uninstall(p) \/ RemoveDev(p) \/ RemoveProgram(p) \/ RemoveLink(p) \/ RemoveFile(p)
    PROVE  BinInv'
<1> DEFINE c == cmd[p]
<1>1. ShapeOf(c) /\ Placed /\ c.dir \in Dirs /\ c.touched \in BOOLEAN /\ c.unlinked \in BOOLEAN
    BY DEF BinInv, BinTypeOK, Command
<1>2. /\ c.pc \in {"uninstall", "undev", "remove", "removeLink", "removeFile"}
      /\ c.op = "uninstall" /\ c.pc # "idle"
    <2>1. c.pc \in {"uninstall", "undev", "remove", "removeLink", "removeFile"}
        BY UninstallStep, RemoveDevStep, RemoveProgramStep, RemoveLinkStep, RemoveFileStep
    <2>2. QED
        BY <1>1, <2>1 DEF ShapeOf, Removing
<1>3. Fails(p) => BinInv'
    BY <1>2, BinFails
<1>4. ASSUME NEW d \in Dirs, NEW l \in LinkNames, LinkPut(d, l, None), UNCHANGED file
      PROVE  /\ Placed' /\ file' \in [Dirs -> [Names -> Content]]
             /\ link' \in [Dirs -> [LinkNames -> Targets \cup {None}]]
    <2>1. Placed'
        BY <1>1, <1>4, PlacedLink
    <2>2. QED
        BY <1>4, <2>1 DEF LinkPut, BinInv, BinTypeOK
<1>5. CASE Uninstall(p)
    <2>1. c.pc = "uninstall" /\ UNCHANGED <<file, link>> /\ c.dir = "bin" /\ ~c.touched /\ ~c.unlinked
        BY <1>1, <1>5, UninstallStep DEF ShapeOf
    <2>2. CASE Fails(p)
        BY <1>3, <2>2
    <2>3. CASE /\ c.prog = "tarantool-dev"
               /\ Becomes(p, "undev", c.flags, Dev, c.dir, c.names, c.links, c.unlinked, c.touched)
        <3>1. ShapeOf(cmd'[p])
            BY <1>2, <2>1, <2>3 DEF Becomes, Moves, ShapeOf, Linking, Installing, Removing
        <3>2. QED
            BY <1>2, <2>1, <2>3, <3>1, BinStays, BinMoves DEF Becomes
    <2>4. ASSUME c.prog \in Programs, NEW s \in Seq(NamesOf({c.prog})), s # <<>>,
                 Becomes(p, "remove", c.flags, c.name, c.dir, s, c.links, c.unlinked, c.touched)
          PROVE  BinInv'
        <3>1. ShapeOf(cmd'[p])
            BY <1>2, <2>1, <2>4 DEF Becomes, Moves, ShapeOf, Linking, Installing, Removing
        <3>2. QED
            BY <1>2, <2>1, <2>4, <3>1, BinStays, BinMoves DEF Becomes
    <2>5. QED
        BY <1>5, <2>2, <2>3, <2>4, UninstallStep
<1>6. CASE RemoveDev(p)
    <2>1. c.pc = "undev" /\ c.prog = "tarantool-dev" /\ c.name = Dev /\ UNCHANGED file
        BY <1>1, <1>6, RemoveDevStep DEF ShapeOf
    <2>2. CASE Fails(p)
        BY <1>3, <2>2
    <2>3. ASSUME LinkPut(c.dir, "tarantool", None), NEW k \in {"undev", "latest"},
                 Becomes(p, k, c.flags, c.name, "inc", c.names, c.links, c.unlinked, TRUE)
          PROVE  BinInv'
        <3>1. ShapeOf(cmd'[p])
            BY <1>2, <2>1, <2>3 DEF Becomes, Moves, ShapeOf, Linking, Installing, Removing
        <3>2. QED
            BY <1>1, <1>2, <1>4, <2>1, <2>3, <3>1, BinMoves DEF Becomes, LinkNames
    <2>4. QED
        BY <1>6, <2>2, <2>3, RemoveDevStep
<1>7. CASE RemoveProgram(p)
    <2>1. /\ c.pc = "remove" /\ UNCHANGED <<file, link>> /\ c.prog \in Programs
          /\ c.names \in Seq(NamesOf({c.prog})) /\ c.names # <<>>
          /\ c.prog = "tt" => c.dir = "bin"
          /\ c.dir = "inc" => c.touched
          /\ c.dir = "bin" => ~c.touched
          /\ c.unlinked => c.touched
        BY <1>1, <1>7, RemoveProgramStep DEF ShapeOf
    <2>2. CASE Fails(p)
        BY <1>3, <2>2
    <2>3. ASSUME c.dir = "bin", NEW s \in Seq(NamesOf({c.prog})), s # <<>>,
                 Becomes(p, "remove", c.flags, c.name, c.dir, s, c.links, c.unlinked, c.touched)
          PROVE  BinInv'
        <3>1. ShapeOf(cmd'[p])
            BY <1>2, <2>1, <2>3 DEF Becomes, Moves, ShapeOf, Linking, Installing, Removing
        <3>2. QED
            BY <1>2, <2>1, <2>3, <3>1, BinStays, BinMoves DEF Becomes
    <2>4. ASSUME NEW n \in Names, n.prog = c.prog, NEW k \in {"removeLink", "removeFile"},
                 Becomes(p, k, c.flags, n, c.dir, c.names, c.links, c.unlinked, c.touched)
          PROVE  BinInv'
        <3>1. ShapeOf(cmd'[p])
            BY <1>2, <2>1, <2>4 DEF Becomes, Moves, ShapeOf, Linking, Installing, Removing
        <3>2. QED
            BY <1>2, <2>1, <2>4, <3>1, BinStays, BinMoves DEF Becomes
    <2>5. QED
        BY <1>7, <2>2, <2>3, <2>4, RemoveProgramStep
<1>8. CASE RemoveLink(p)
    <2>1. /\ c.pc = "removeLink" /\ UNCHANGED file /\ c.name \in Names /\ c.name.prog = c.prog
          /\ c.prog = "tt" => c.dir = "bin"
        BY <1>1, <1>8, RemoveLinkStep DEF ShapeOf
    <2>2. CASE Fails(p)
        BY <1>3, <2>2
    <2>3. ASSUME LinkPut(c.dir, LinkOf(c.prog), None), NEW u,
                 Becomes(p, "removeFile", c.flags, c.name, c.dir, c.names, c.links, u, TRUE)
          PROVE  BinInv'
        <3>1. ShapeOf(cmd'[p])
            BY <1>2, <2>1, <2>3 DEF Becomes, Moves, ShapeOf, Linking, Installing, Removing
        <3>2. LinkOf(c.prog) \in LinkNames
            BY DEF LinkOf, LinkNames
        <3>3. QED
            BY <1>1, <1>2, <1>4, <2>1, <2>3, <3>1, <3>2, BinMoves DEF Becomes
    <2>4. QED
        BY <1>8, <2>2, <2>3, RemoveLinkStep
<1>9. CASE RemoveFile(p)
    <2>1. /\ c.pc = "removeFile" /\ UNCHANGED link /\ c.name \in Names /\ c.name.prog = c.prog
          /\ c.prog = "tt" => c.dir = "bin"
          /\ c.dir = "inc" \/ c.unlinked => c.touched
          /\ FilePut(c.dir, c.name, "absent") /\ c.prog \in Programs
        BY <1>1, <1>9, RemoveFileStep, NameFacts DEF ShapeOf
    <2>2. /\ Placed' /\ file' \in [Dirs -> [Names -> Content]]
          /\ link' \in [Dirs -> [LinkNames -> Targets \cup {None}]]
        <3>1. Placed'
            BY <1>1, <2>1, PlacedFile
        <3>2. QED
            BY <2>1, <3>1 DEF FilePut, BinInv, BinTypeOK
    <2>3. CASE /\ c.dir # LastDir(c.prog)
               /\ Becomes(p, "remove", c.flags, c.name, "inc", <<c.name>>, c.links, c.unlinked, TRUE)
        <3>1. c.prog # "tt"
            BY <2>1, <2>3 DEF LastDir
        <3>2. <<c.name>> \in Seq(NamesOf({c.prog})) /\ <<c.name>> # <<>>
            <4>1. c.name \in NamesOf({c.prog})
                BY <2>1, TargetFacts DEF NamesOf
            <4>2. QED
                BY <4>1, SMT
        <3>3. ShapeOf(cmd'[p])
            BY <1>2, <2>1, <2>3, <3>1, <3>2 DEF Becomes, Moves, ShapeOf, Linking, Installing, Removing
        <3>4. QED
            BY <1>2, <2>2, <2>3, <3>3, BinMoves DEF Becomes
    <2>4. CASE c.unlinked /\ Proceeds(p, "latest")
        <3>1. ShapeOf(cmd'[p])
            BY <1>2, <2>1, <2>4 DEF Proceeds, Becomes, Moves, ShapeOf, Linking, Installing, Removing
        <3>2. QED
            BY <1>2, <2>2, <2>4, <3>1, BinMoves DEF Proceeds, Becomes
    <2>5. CASE Succeeds(p)
        BY <1>2, <2>2, <2>5, BinEnds DEF Succeeds
    <2>6. QED
        BY <1>9, <2>3, <2>4, <2>5, RemoveFileStep
<1>10. QED
    BY <1>5, <1>6, <1>7, <1>8, <1>9

\* The steps that choose the version to switch to.
LEMMA BinSwitch ==
    ASSUME BinInv, DoneInv, NEW p \in Procs, SwitchToLatest(p) \/ Switch(p)
    PROVE  BinInv'
<1> DEFINE c == cmd[p]
<1>1. ShapeOf(c) /\ DoneOf(c) /\ Names \subseteq Targets
    BY DEF BinInv, DoneInv, Targets
<1>2. \A n \in Names : PlanOf(LinksTo(n.prog, n), n)
    BY <1>1, NameFacts, LinksToIs
<1>3. CASE SwitchToLatest(p)
    <2>1. c.pc = "latest" /\ UNCHANGED <<file, link>> /\ c.op = "uninstall" /\ c.pc # "idle"
        BY <1>1, <1>3, LatestStep DEF ShapeOf, Removing
    <2>2. CASE Succeeds(p)
        BY <2>1, <2>2, BinStays, BinEnds DEF Succeeds
    <2>3. ASSUME NEW n \in Names, Installed(n), Plans(p, c.name, LinksTo(n.prog, n))
          PROVE  BinInv'
        <3>1. c.prog # "tarantool-dev" => c.name \in Names /\ c.name.prog = c.prog
            BY <1>1, <2>1 DEF ShapeOf
        <3>2. c.prog # "tarantool-dev" /\ c.alone => n # c.name
            <4>1. c.prog # "tarantool-dev" /\ c.alone => file["bin"][c.name] = "absent"
                BY <1>1, <2>1 DEF DoneOf, Clean, Dirs
            <4>2. file["bin"][n] # "absent"
                BY <2>3, InstalledIs DEF Present
            <4>3. QED
                BY <4>1, <4>2
        <3>3. ShapeOf(cmd'[p])
            BY <1>1, <1>2, <2>1, <2>3, <3>1, <3>2, PlansShape
        <3>4. QED
            BY <2>1, <2>3, <3>3, BinStays, BinMoves DEF Plans, Becomes
    <2>4. QED
        BY <1>3, <2>2, <2>3, LatestStep
<1>4. CASE Switch(p)
    <2>1. c.pc = "switch" /\ UNCHANGED <<file, link>> /\ c.op = "switch" /\ c.pc # "idle"
        BY <1>1, <1>4, SwitchStep DEF ShapeOf
    <2>2. CASE Fails(p)
        BY <2>1, <2>2, BinFails
    <2>3. ASSUME NEW n \in Names, n.prog = c.prog, Plans(p, n, LinksTo(n.prog, n))
          PROVE  BinInv'
        <3>1. ShapeOf(cmd'[p])
            BY <1>1, <1>2, <2>1, <2>3, PlansShape
        <3>2. QED
            BY <2>1, <2>3, <3>1, BinStays, BinMoves DEF Plans, Becomes
    <2>4. QED
        BY <1>4, <2>2, <2>3, SwitchStep
<1>5. QED
    BY <1>3, <1>4

\* A new command; the ones that run are no longer alone.
Busy(p) == \E q \in Procs \ {p} : cmd[q].pc # "idle"
Same(c, d) ==
    /\ c.op = d.op /\ c.prog = d.prog /\ c.flags = d.flags /\ c.pc = d.pc /\ c.name = d.name
    /\ c.dir = d.dir /\ c.names = d.names /\ c.links = d.links /\ c.unlinked = d.unlinked
    /\ c.touched = d.touched

\* Start gives p a new command; those that run are no longer alone.
LEMMA StartStep ==
    ASSUME BinInv, NEW p \in Procs, NEW r \in Requests, Start(p, r)
    PROVE  /\ cmd[p].pc = "idle" /\ UNCHANGED <<file, link, built, faults>>
           /\ cmd' \in [Procs -> Command]
           /\ cmd'[p].op = cmd'[p].pc /\ cmd'[p].op \in {"install", "uninstall", "switch"}
           /\ cmd'[p].dir = "bin" /\ ~cmd'[p].touched /\ ~cmd'[p].unlinked
           /\ removals' \in BOOLEAN
           /\ ~removals' => ~removals /\ cmd'[p].op # "uninstall"
           /\ IF Busy(p) THEN hurt' = 2 /\ ~cmd'[p].alone
              ELSE hurt' = hurt /\ hurt < 2 /\ cmd'[p].alone
           /\ \A q \in Procs \ {p} :
                 IF cmd[q].pc = "idle"
                 THEN /\ cmd'[q].pc = "idle" /\ cmd'[q].op = "none" /\ cmd'[q].alone
                      /\ ~cmd'[q].touched /\ ~cmd'[q].unlinked
                 ELSE Same(cmd'[q], cmd[q]) /\ ~cmd'[q].alone
<1> DEFINE busy == \E q \in Procs \ {p} : ~At(q, "idle")
           j == [Idle EXCEPT !.op = r.op, !.prog = r.prog, !.ver = r.ver, !.flags = r.flags,
                             !.pc = r.op, !.alone = ~busy]
<1>1. /\ r.op \in {"install", "uninstall", "switch"} /\ r.prog \in Progs /\ r.ver \in STRING
      /\ r.flags \in SUBSET {"reinstall", "docker"}
    BY BinariesAssumption DEF Progs
<1>2. <<>> \in Seq(NamesOf(Progs)) /\ <<>> \in Seq(LinkTo)
    BY SMT
<1>3. /\ j.op = r.op /\ j.pc = r.op /\ j.dir = "bin" /\ ~j.touched /\ ~j.unlinked /\ j.alone = ~busy
      /\ Idle.pc = "idle" /\ Idle.op = "none" /\ Idle.alone /\ ~Idle.touched /\ ~Idle.unlinked
    BY DEF Idle
<1>4. Idle \in Command
    BY <1>2 DEF Idle, Command, Progs, Programs, Vers, Points, Dirs
<1>5. j \in Command
    <2> DEFINE b == ~busy
    <2>1. r.op \in Points /\ r.ver \in Vers
        BY <1>1 DEF Points, Removing, Installing, Vers
    <2>2. b \in BOOLEAN
        OBVIOUS
    <2> HIDE DEF b
    <2>3. [Idle EXCEPT !.op = r.op, !.prog = r.prog, !.ver = r.ver, !.flags = r.flags,
                       !.pc = r.op, !.alone = b] \in Command
        BY <1>1, <1>4, <2>1, <2>2 DEF Command
    <2>4. QED
        BY <2>3 DEF b
<1>6. ASSUME NEW q \in Procs
      PROVE  /\ [cmd[q] EXCEPT !.alone = FALSE] \in Command
             /\ Same([cmd[q] EXCEPT !.alone = FALSE], cmd[q])
             /\ ~[cmd[q] EXCEPT !.alone = FALSE].alone
    <2>1. cmd[q] \in Command
        BY DEF BinInv, BinTypeOK
    <2>2. QED
        BY <2>1 DEF Command, Same
<1>7. busy <=> Busy(p)
    BY DEF At, Busy
<1>8. cmd' = [q \in Procs |-> IF q = p THEN j ELSE IF At(q, "idle") THEN Idle
                              ELSE [cmd[q] EXCEPT !.alone = FALSE]]
    BY DEF Start
<1>9. /\ cmd[p].pc = "idle" /\ UNCHANGED <<file, link, built, faults>>
      /\ removals' = (removals \/ r.op = "uninstall")
      /\ IF busy THEN hurt' = 2 ELSE hurt' = hurt /\ hurt < 2
    BY DEF Start, At
<1> HIDE DEF j, busy
<1>10. cmd' \in [Procs -> Command]
    BY <1>4, <1>5, <1>6, <1>8
<1>11. cmd'[p] = j
    BY <1>8
<1>12. ASSUME NEW q \in Procs \ {p}
       PROVE  cmd'[q] = IF cmd[q].pc = "idle" THEN Idle ELSE [cmd[q] EXCEPT !.alone = FALSE]
    BY <1>8, <1>12 DEF At
<1>13. ASSUME NEW q \in Procs \ {p}
       PROVE  IF cmd[q].pc = "idle"
              THEN /\ cmd'[q].pc = "idle" /\ cmd'[q].op = "none" /\ cmd'[q].alone
                   /\ ~cmd'[q].touched /\ ~cmd'[q].unlinked
              ELSE Same(cmd'[q], cmd[q]) /\ ~cmd'[q].alone
    BY <1>3, <1>6, <1>12, <1>13, ZenonT(60)
<1>14. QED
    BY <1>1, <1>3, <1>7, <1>9, <1>10, <1>11, <1>13

\* A command that is no longer alone keeps its shape.
LEMMA SameShape ==
    ASSUME NEW c, NEW d, Same(c, d), ~c.alone, ShapeOf(d)
    PROVE  ShapeOf(c)
BY SMT DEF Same, ShapeOf

\* Starting a command keeps the invariant.
LEMMA BinStart ==
    ASSUME BinInv, NEW p \in Procs, NEW r \in Requests, Start(p, r)
    PROVE  BinInv'
<1>1. BinTypeOK' /\ Placed'
    BY StartStep, PlacedSame DEF BinInv, BinTypeOK
<1>2. Solo'
    <2>1. Busy(p) => ~(hurt' < 2)
        BY StartStep, SMT
    <2>2. \A q \in Procs \ {p} : ~Busy(p) => cmd'[q].pc = "idle" /\ cmd'[q].alone
        BY StartStep DEF Busy
    <2>3. \A q \in Procs \ {p} : cmd'[q].alone => cmd'[q].pc = "idle"
        BY StartStep
    <2>4. Busy(p) => ~cmd'[p].alone
        BY StartStep
    <2>5. ~Busy(p) => cmd'[p].alone
        BY StartStep
    <2>6. QED
        BY <2>1, <2>2, <2>3, <2>4, <2>5 DEF Solo
<1>3. ShapeOf(cmd'[p])
    BY StartStep DEF ShapeOf, Linking, Installing, Removing
<1>4. ASSUME NEW q \in Procs, q # p
      PROVE  ShapeOf(cmd'[q])
    <2>1. CASE cmd[q].pc = "idle"
        BY <1>4, <2>1, StartStep DEF ShapeOf, Linking, Installing, Removing
    <2>2. CASE cmd[q].pc # "idle"
        <3>1. Same(cmd'[q], cmd[q]) /\ ~cmd'[q].alone /\ ShapeOf(cmd[q])
            BY <1>4, <2>2, StartStep DEF BinInv
        <3>2. QED
            BY <3>1, SameShape
    <2>3. QED
        BY <2>1, <2>2
<1>5. QED
    BY <1>1, <1>2, <1>3, <1>4 DEF BinInv

\* Interrupt ends the command with an error and counts a fault.
LEMMA InterruptStep ==
    ASSUME BinInv, NEW p \in Procs, Interrupt(p)
    PROVE  /\ cmd[p].pc # "idle" /\ Fails(p)
           /\ faults' # 0 /\ hurt < 2
<1>1. cmd[p].pc # "idle" /\ Fault /\ Finish(p, cmd[p], "error") /\ UNCHANGED <<file, link>>
    BY DEF Interrupt, At
<1>2. Fails(p)
    BY <1>1, FinishEnds DEF Fails, BinInv
<1>3. faults' # 0 /\ hurt < 2
    BY <1>1, SMT DEF Fault, BinInv, BinTypeOK
<1>4. QED
    BY <1>1, <1>2, <1>3

\* BuildDirGone counts a fault.
LEMMA GoneStep ==
    ASSUME BinInv, BuildDirGone
    PROVE  UNCHANGED <<file, link, cmd, removals, hurt>> /\ faults' \in Nat /\ built' = FALSE /\ faults' # 0
BY SMT DEF BinInv, BinTypeOK, BuildDirGone, Fault

\* Removing the build directory keeps the invariant.
LEMMA BinGone ==
    ASSUME BinInv, BuildDirGone
    PROVE  BinInv'
<1>1. BinTypeOK' /\ Placed'
    BY GoneStep, PlacedSame DEF BinInv, BinTypeOK
<1>2. Solo' /\ \A p \in Procs : ShapeOf(cmd'[p])
    BY GoneStep DEF BinInv, Solo
<1>3. QED
    BY <1>1, <1>2 DEF BinInv

\* A stuttering step keeps the invariant.
LEMMA BinSame ==
    ASSUME BinInv, UNCHANGED vars
    PROVE  BinInv'
BY DEF BinInv, BinTypeOK, Placed, Solo, vars

\* The invariant holds at first.
LEMMA BinInit ==
    ASSUME Init
    PROVE  BinInv
<1>1. PICK S \in SUBSET Names : \E active \in [LinkNames -> S \cup {None, Dev}], headers \in BOOLEAN :
          /\ active["tt"] # Dev
          /\ \A l \in LinkNames : active[l] \in S => LinkOf(active[l].prog) = l
          /\ file = [d \in Dirs |-> [n \in Names |->
                        IF n \in S /\ d \in Range(DirsOf(n.prog)) THEN "whole" ELSE "absent"]]
          /\ link = [d \in Dirs |-> [l \in LinkNames |->
                        IF d = "inc" /\ (l = "tt" \/ ~headers) THEN None ELSE active[l]]]
    BY ZenonT(60) DEF Init
<1>2. PICK active \in [LinkNames -> S \cup {None, Dev}], headers \in BOOLEAN :
          /\ active["tt"] # Dev
          /\ \A l \in LinkNames : active[l] \in S => LinkOf(active[l].prog) = l
          /\ file = [d \in Dirs |-> [n \in Names |->
                        IF n \in S /\ d \in Range(DirsOf(n.prog)) THEN "whole" ELSE "absent"]]
          /\ link = [d \in Dirs |-> [l \in LinkNames |->
                        IF d = "inc" /\ (l = "tt" \/ ~headers) THEN None ELSE active[l]]]
    BY <1>1
<1>3. file \in [Dirs -> [Names -> Content]] /\ \A d \in Dirs, n \in Names :
          file[d][n] = IF n \in S /\ d \in Range(DirsOf(n.prog)) THEN "whole" ELSE "absent"
    BY <1>2 DEF Content
<1>4. \A d \in Dirs, l \in LinkNames :
          link[d][l] = IF d = "inc" /\ (l = "tt" \/ ~headers) THEN None ELSE active[l]
    BY <1>2
<1>5. \A l \in LinkNames : active[l] \in Targets \cup {None}
    BY <1>2 DEF Targets
<1>6. link \in [Dirs -> [LinkNames -> Targets \cup {None}]]
    BY <1>2, <1>5
<1>7. /\ Idle.pc = "idle" /\ Idle.op = "none" /\ Idle.alone /\ ~Idle.touched /\ ~Idle.unlinked
      /\ Idle \in Command
    <2>1. <<>> \in Seq(NamesOf(Progs)) /\ <<>> \in Seq(LinkTo)
        BY SMT
    <2>2. QED
        BY <2>1 DEF Idle, Command, Progs, Programs, Vers, Points, Dirs
<1>8. cmd \in [Procs -> Command] /\ \A p \in Procs : cmd[p] = Idle
    BY <1>7 DEF Init
<1>9. BinTypeOK
    <2>1. built \in BOOLEAN /\ removals \in BOOLEAN /\ hurt \in {0, 1, 2} /\ faults \in Nat
        <3>1. built = TRUE /\ removals = FALSE /\ hurt = 0 /\ faults = 0
            BY DEF Init
        <3>2. 0 \in Nat
            BY SMT
        <3>3. QED
            BY <3>1, <3>2
    <2>2. QED
        BY <1>3, <1>6, <1>8, <2>1 DEF BinTypeOK
<1>10. Placed
    <2>1. ASSUME NEW l \in LinkNames, active[l] # None
          PROVE  LinkOf(active[l].prog) = l
        <3>1. active[l] = Dev => l = "tarantool" /\ LinkOf(Dev.prog) = "tarantool"
            BY <1>2, NameFacts DEF LinkOf, LinkNames
        <3>2. QED
            BY <1>2, <2>1, <3>1
    <2>2. \A n \in Names : n.prog = "tt" => "inc" \notin Range(DirsOf(n.prog))
        BY SMT DEF DirsOf, Range
    <2>3. QED
        BY <1>3, <1>4, <2>1, <2>2 DEF Placed, Dirs, LinkNames
<1>11. Solo
    BY <1>7, <1>8 DEF Solo
<1>12. \A p \in Procs : ShapeOf(cmd[p])
    BY <1>7, <1>8 DEF ShapeOf, Linking, Installing, Removing
<1>13. QED
    BY <1>9, <1>10, <1>11, <1>12 DEF BinInv

\* Every step keeps BinInv, given what commands have done so far.
LEMMA BinNext ==
    ASSUME BinInv, DoneInv, [Next]_vars
    PROVE  BinInv'
BY BinStart, BinInstall, BinCopy, BinLink, BinRemove, BinSwitch, InterruptStep, BinFails, BinGone,
   BinSame DEF Next

-----------------------------------------------------------------------------
(* DoneInv: what a command that is alone has done.                         *)

\* Only a command that takes a step changes what is done, since it matters when it is alone.
LEMMA DoneFrame ==
    ASSUME BinInv, NEW p \in Procs, cmd[p].pc # "idle", Others(p), DoneOf(cmd[p])'
    PROVE  DoneInv'
<1>1. ASSUME NEW q \in Procs, q # p
      PROVE  DoneOf(cmd[q])'
    <2>1. cmd'[q] = cmd[q]
        BY <1>1 DEF Others
    <2>2. cmd[q].alone => cmd[q].pc = "idle"
        BY <1>1 DEF BinInv, Solo
    <2>3. QED
        BY <2>1, <2>2 DEF DoneOf, Second, Linking
<1>2. QED
    BY <1>1 DEF DoneInv

\* A command that is over has nothing done.
LEMMA DoneEnds ==
    ASSUME BinInv, NEW p \in Procs, cmd[p].pc # "idle", NEW t, Ended(p, t)
    PROVE  DoneInv'
<1>1. DoneOf(cmd[p])'
    BY DEF DoneOf, Second, Linking, Ended
<1>2. QED
    BY <1>1, DoneFrame DEF Ended

\* A command that has done nothing it could lose.
LEMMA DoneEasy ==
    ASSUME BinInv, NEW p \in Procs, cmd[p].pc # "idle", Moves(p), ~Second(cmd[p])',
           cmd'[p].pc # "headers",
           \/ cmd'[p].op # "uninstall"
           \/ cmd'[p].prog = "tarantool-dev"
           \/ cmd'[p].pc = "remove" /\ cmd'[p].dir = "bin"
    PROVE  DoneInv'
<1>1. DoneOf(cmd[p])'
    BY DEF DoneOf, Linking, Dirs
<1>2. QED
    BY <1>1, DoneFrame DEF Moves

\* A command that is about to set its first link has nothing done.
LEMMA DonePlans ==
    ASSUME BinInv, NEW p \in Procs, cmd[p].pc # "idle", NEW n \in Names, NEW t,
           Plans(p, t, LinksTo(n.prog, n)), cmd[p].op # "uninstall"
    PROVE  DoneInv'
<1>1. Head(LinksTo(n.prog, n)) = LinkFor("bin", n)
    BY LinksToIs DEF Targets
<1>2. cmd'[p].links = LinksTo(n.prog, n) /\ LinkFor("bin", n).dir # "inc"
    BY DEF Plans, Becomes, LinkFor
<1>3. ~Second(cmd[p])'
    BY <1>1, <1>2 DEF Second
<1>4. QED
    BY <1>3, DoneEasy DEF Plans, Becomes, Moves

\* The steps of an install up to its links.
LEMMA DoneInstall ==
    ASSUME BinInv, NEW p \in Procs,
           \/ Install(p) \/ ProbeTt(p) \/ ProbeTarantool(p) \/ ProbeTarantoolEE(p)
           \/ InstallInDocker(p) \/ BuildTt(p) \/ BuildTarantool(p) \/ GetTarantoolEE(p)
           \/ ClearTt(p) \/ ClearTarantool(p) \/ Open(p) \/ Fill(p)
    PROVE  DoneInv'
<1> DEFINE c == cmd[p]
<1>1. c.pc \in {"install", "probe", "docker", "build", "clear", "open", "fill"}
    BY InstallStep, ProbeStep, DockerStep, BuildStep, ClearTtStep, ClearTarantoolStep, OpenStep, FillStep
<1>2. c.op = "install" /\ c.pc # "idle" /\ (c.pc # "install" => c.name \in Names /\ c.name.prog = c.prog)
    BY <1>1 DEF BinInv, ShapeOf, Installing
<1>3. Fails(p) \/ Succeeds(p) => DoneInv'
    BY <1>2, DoneEnds DEF Fails, Succeeds
<1>4. ASSUME NEW k \in Installing \ {"headers"}, NEW f, NEW n, NEW d, NEW t,
             Becomes(p, k, f, n, d, c.names, c.links, c.unlinked, t)
      PROVE  DoneInv'
    <2>1. ~Second(cmd[p])' /\ cmd'[p].pc # "headers"
        BY <1>4 DEF Becomes, Second, Linking, Installing
    <2>2. QED
        BY <1>2, <1>4, <2>1, DoneEasy DEF Becomes, Moves
<1>5. CASE Install(p)
    <2>1. Plans(p, Dev, <<LinkFor("bin", Dev)>>) => DoneInv'
        <3>1. Head(<<LinkFor("bin", Dev)>>) = LinkFor("bin", Dev) /\ LinkFor("bin", Dev).dir # "inc"
            BY SMT DEF LinkFor
        <3>2. Plans(p, Dev, <<LinkFor("bin", Dev)>>) => cmd'[p].links = <<LinkFor("bin", Dev)>>
            BY DEF Plans, Becomes
        <3>3. Plans(p, Dev, <<LinkFor("bin", Dev)>>) => ~Second(cmd[p])'
            BY <3>1, <3>2 DEF Second
        <3>4. QED
            BY <1>2, <3>3, DoneEasy DEF Plans, Becomes, Moves
    <2>2. QED
        BY <1>3, <1>4, <1>5, <2>1, InstallStep DEF Installing
<1>6. CASE ProbeTt(p) \/ ProbeTarantool(p) \/ ProbeTarantoolEE(p)
    <2>1. Plans(p, c.name, LinksTo(c.prog, c.name)) => DoneInv'
        BY <1>2, <1>6, ProbeStep, DonePlans
    <2>2. QED
        BY <1>3, <1>4, <1>6, <2>1, ProbeStep DEF Installing
<1>7. CASE InstallInDocker(p)
    BY <1>3, <1>4, <1>7, DockerStep DEF Installing
<1>8. CASE BuildTt(p) \/ BuildTarantool(p) \/ GetTarantoolEE(p)
    BY <1>4, <1>8, BuildStep DEF Installing, Proceeds
<1>9. CASE ClearTt(p)
    BY <1>3, <1>4, <1>9, ClearTtStep DEF Installing
<1>10. CASE ClearTarantool(p)
    BY <1>4, <1>10, ClearTarantoolStep DEF Installing
<1>11. CASE Open(p)
    BY <1>4, <1>11, OpenStep DEF Installing
<1>12. CASE Fill(p)
    <2>1. Plans(p, c.name, LinksTo(c.prog, c.name)) => DoneInv'
        BY <1>2, <1>12, FillStep, DonePlans
    <2>2. QED
        BY <1>3, <1>4, <1>12, <2>1, FillStep DEF Installing
<1>13. QED
    BY <1>5, <1>6, <1>7, <1>8, <1>9, <1>10, <1>11, <1>12

\* What a removal leaves of a version.
LEMMA RemoveFileCleans ==
    ASSUME BinInv, DoneInv, NEW p \in Procs, RemoveFile(p), cmd[p].alone, NEW n, n = cmd[p].name
    PROVE  /\ cmd[p].dir # LastDir(cmd[p].prog) => Clean("bin", n)'
           /\ cmd[p].dir = LastDir(cmd[p].prog) => \A d \in Dirs : Clean(d, n)'
           /\ cmd[p].prog # "tarantool-dev"
<1> DEFINE c == cmd[p]
<1>1. /\ c.pc = "removeFile" /\ UNCHANGED link /\ FilePut(c.dir, c.name, "absent") /\ ShapeOf(c)
      /\ DoneOf(c) /\ Placed /\ c.dir \in Dirs
    BY RemoveFileStep DEF BinInv, BinTypeOK, Command, DoneInv
<1>2. /\ n \in Names /\ n.prog = c.prog /\ c.op = "uninstall" /\ FilePut(c.dir, n, "absent")
      /\ c.prog = "tt" => c.dir = "bin"
    BY <1>1 DEF ShapeOf, Removing
<1>3. c.prog \in Programs /\ c.prog # "tarantool-dev" /\ n # None
    BY <1>2, NameFacts DEF Programs
<1>4. link[c.dir][LinkOf(c.prog)] # n /\ (c.dir = "inc" => Clean("bin", n))
    BY <1>1, <1>2, <1>3 DEF DoneOf
<1>5. /\ file'[c.dir][n] = "absent" /\ \A l \in LinkNames : link[c.dir][l] # n
    <2>1. file'[c.dir][n] = "absent"
        BY <1>1, <1>2 DEF FilePut
    <2>2. \A l \in LinkNames : link[c.dir][l] # n
        BY <1>1, <1>2, <1>3, <1>4 DEF Placed
    <2>3. QED
        BY <2>1, <2>2
<1>6. c.dir = "bin" => Clean("bin", n)'
    BY <1>1, <1>5 DEF Clean
<1>7. c.dir = "inc" => Clean("bin", n)' /\ Clean("inc", n)'
    BY <1>1, <1>2, <1>4, <1>5 DEF Clean, FilePut, Dirs
<1>8. c.prog = "tt" => Clean("inc", n)'
    <2>1. c.prog = "tt" => file'["inc"][n] = "absent"
        BY <1>1, <1>2, ZenonT(60) DEF Placed, FilePut, Dirs
    <2>2. c.prog = "tt" => \A l \in LinkNames : link["inc"][l] # n
        BY <1>1, <1>2, <1>3 DEF Placed, LinkOf, LinkNames, Dirs
    <2>3. QED
        BY <1>1, <2>1, <2>2 DEF Clean
<1>9. QED
    BY <1>1, <1>2, <1>3, <1>6, <1>7, <1>8 DEF LastDir, Dirs

\* The steps of an uninstall up to the choice of the next version.
LEMMA DoneRemove ==
    ASSUME BinInv, DoneInv, NEW p \in Procs,
           Uninstall(p) \/ RemoveDev(p) \/ RemoveProgram(p) \/ RemoveLink(p) \/ RemoveFile(p)
    PROVE  DoneInv'
<1> DEFINE c == cmd[p]
<1>1. ShapeOf(c) /\ DoneOf(c) /\ c.dir \in Dirs
    BY DEF BinInv, BinTypeOK, Command, DoneInv
<1>2. c.pc \in {"uninstall", "undev", "remove", "removeLink", "removeFile"} /\ c.pc # "idle"
    BY UninstallStep, RemoveDevStep, RemoveProgramStep, RemoveLinkStep, RemoveFileStep
<1>3. Fails(p) \/ Succeeds(p) => DoneInv'
    BY <1>2, DoneEnds DEF Fails, Succeeds
<1>4. ASSUME NEW k \in {"undev", "latest"}, c.prog = "tarantool-dev", NEW n, NEW d, NEW t,
             Becomes(p, k, c.flags, n, d, c.names, c.links, c.unlinked, t)
      PROVE  DoneInv'
    <2>1. ~Second(cmd[p])' /\ cmd'[p].pc # "headers" /\ cmd'[p].prog = "tarantool-dev"
        BY <1>4 DEF Becomes, Moves, Second, Linking
    <2>2. QED
        BY <1>2, <1>4, <2>1, DoneEasy DEF Becomes
<1>5. ASSUME NEW s, c.dir = "bin",
             Becomes(p, "remove", c.flags, c.name, c.dir, s, c.links, c.unlinked, c.touched)
      PROVE  DoneInv'
    <2>1. ~Second(cmd[p])' /\ cmd'[p].pc # "headers"
        BY <1>5 DEF Becomes, Second, Linking
    <2>2. QED
        BY <1>2, <1>5, <2>1, DoneEasy DEF Becomes
<1>6. CASE Uninstall(p)
    <2>1. c.dir = "bin"
        BY <1>1, <1>6, UninstallStep DEF ShapeOf
    <2>2. QED
        BY <1>3, <1>4, <1>5, <1>6, <2>1, UninstallStep
<1>7. CASE RemoveDev(p)
    <2>1. c.prog = "tarantool-dev"
        BY <1>1, <1>7, RemoveDevStep DEF ShapeOf
    <2>2. QED
        BY <1>3, <1>4, <1>7, <2>1, RemoveDevStep
<1>8. CASE RemoveProgram(p)
    <2>1. /\ c.pc = "remove" /\ c.op = "uninstall" /\ UNCHANGED <<file, link>> /\ c.prog # "tarantool-dev"
        BY <1>1, <1>8, RemoveProgramStep DEF ShapeOf, Removing, Programs
    <2>2. ASSUME NEW n \in Names, c.dir = "inc" => n = c.name, NEW k \in {"removeLink", "removeFile"},
                 k = "removeLink" <=> <<n, link[c.dir][LinkOf(c.prog)]>> \in Within,
                 Becomes(p, k, c.flags, n, c.dir, c.names, c.links, c.unlinked, c.touched)
          PROVE  DoneInv'
        <3>1. k = "removeFile" => link[c.dir][LinkOf(c.prog)] # n
            BY <2>2, BinariesAssumption
        <3>2. c.alone /\ c.dir = "inc" => Clean("bin", n)
            BY <1>1, <2>1, <2>2 DEF DoneOf
        <3>3. /\ cmd'[p].alone = c.alone /\ cmd'[p].pc = k /\ cmd'[p].name = n /\ cmd'[p].dir = c.dir
              /\ cmd'[p].prog = c.prog /\ link' = link
            BY <2>1, <2>2 DEF Becomes, Moves
        <3>4. c.alone /\ c.dir = "inc" => Clean("bin", cmd[p].name)'
            BY <2>1, <3>2, <3>3 DEF Clean
        <3>5. DoneOf(cmd[p])'
            BY <2>2, <3>1, <3>3, <3>4 DEF DoneOf, Second, Linking
        <3>6. QED
            BY <1>2, <2>2, <3>5, DoneFrame DEF Becomes, Moves
    <2>3. QED
        BY <1>3, <1>5, <1>8, <2>2, RemoveProgramStep
<1>9. CASE RemoveLink(p)
    <2>1. /\ c.pc = "removeLink" /\ c.op = "uninstall" /\ UNCHANGED file
          /\ c.name \in Names /\ c.name.prog = c.prog
        BY <1>1, <1>9, RemoveLinkStep DEF ShapeOf, Removing
    <2>2. c.name # None /\ c.prog # "tarantool-dev" /\ LinkOf(c.prog) \in LinkNames
        BY <2>1, NameFacts, TargetFacts DEF Programs, Targets
    <2>3. ASSUME LinkPut(c.dir, LinkOf(c.prog), None), NEW u,
                 Becomes(p, "removeFile", c.flags, c.name, c.dir, c.names, c.links, u, TRUE)
          PROVE  DoneInv'
        <3>1. /\ cmd'[p].alone = c.alone /\ cmd'[p].pc = "removeFile" /\ cmd'[p].name = c.name
              /\ cmd'[p].dir = c.dir /\ cmd'[p].prog = c.prog
            BY <2>3 DEF Becomes, Moves
        <3>2. link'[c.dir][LinkOf(c.prog)] # c.name
            BY <1>1, <2>2, <2>3 DEF LinkPut
        <3>3. c.alone /\ c.dir = "inc" => Clean("bin", cmd[p].name)'
            <4>1. c.alone /\ c.dir = "inc" => Clean("bin", c.name)
                BY <1>1, <2>1, <2>2 DEF DoneOf
            <4>2. c.dir = "inc" => \A l \in LinkNames : link'["bin"][l] = link["bin"][l]
                BY <2>2, <2>3 DEF LinkPut, Dirs
            <4>3. QED
                BY <2>1, <3>1, <4>1, <4>2 DEF Clean
        <3>4. DoneOf(cmd[p])'
            BY <3>1, <3>2, <3>3 DEF DoneOf, Second, Linking
        <3>5. QED
            BY <1>2, <2>3, <3>4, DoneFrame DEF Becomes, Moves
    <2>4. QED
        BY <1>3, <1>9, <2>3, RemoveLinkStep
<1>10. CASE RemoveFile(p)
    <2>1. PICK n : n = c.name
        OBVIOUS
    <2>2. c.alone => /\ c.dir # LastDir(c.prog) => Clean("bin", n)'
                     /\ c.dir = LastDir(c.prog) => \A d \in Dirs : Clean(d, n)'
        BY <1>10, <2>1, RemoveFileCleans
    <2>3. ASSUME cmd'[p].name = n, NEW d, Clean(d, n)'
          PROVE  Clean(d, cmd[p].name)'
        BY <2>3 DEF Clean
    <2>4. CASE /\ c.dir # LastDir(c.prog)
               /\ Becomes(p, "remove", c.flags, c.name, "inc", <<c.name>>, c.links, c.unlinked, TRUE)
        <3>1. cmd'[p].alone = c.alone /\ cmd'[p].pc = "remove" /\ cmd'[p].name = n
            BY <2>1, <2>4 DEF Becomes, Moves
        <3>2. c.alone => Clean("bin", cmd[p].name)'
            BY <2>2, <2>3, <2>4, <3>1
        <3>3. DoneOf(cmd[p])'
            BY <3>1, <3>2 DEF DoneOf, Second, Linking
        <3>4. QED
            BY <1>2, <2>4, <3>3, DoneFrame DEF Becomes, Moves
    <2>5. CASE c.dir = LastDir(c.prog) /\ Proceeds(p, "latest")
        <3>1. cmd'[p].alone = c.alone /\ cmd'[p].pc = "latest" /\ cmd'[p].name = n
            BY <2>1, <2>5 DEF Proceeds, Becomes, Moves
        <3>2. c.alone => \A d \in Dirs : Clean(d, cmd[p].name)'
            BY <2>2, <2>3, <2>5, <3>1
        <3>3. DoneOf(cmd[p])'
            BY <3>1, <3>2 DEF DoneOf, Second, Linking
        <3>4. QED
            BY <1>2, <2>5, <3>3, DoneFrame DEF Proceeds, Becomes, Moves
    <2>6. QED
        BY <1>3, <1>10, <2>4, <2>5, RemoveFileStep
<1>11. QED
    BY <1>6, <1>7, <1>8, <1>9, <1>10

\* A link to something else leaves what is clean clean.
LEMMA CleanKept ==
    ASSUME NEW p \in Procs, cmd'[p].name = cmd[p].name, UNCHANGED file,
           \/ UNCHANGED link
           \/ \E d \in Dirs, l \in LinkNames, u \in Targets \cup {None} : LinkPut(d, l, u) /\ u # cmd[p].name,
           \A d \in Dirs : Clean(d, cmd[p].name)
    PROVE  \A d \in Dirs : Clean(d, cmd[p].name)'
<1>1. \A d \in Dirs, l \in LinkNames : link'[d][l] # cmd[p].name
    <2>1. CASE UNCHANGED link
        BY <2>1 DEF Clean
    <2>2. ASSUME NEW e \in Dirs, NEW k \in LinkNames, NEW u, LinkPut(e, k, u), u # cmd[p].name
          PROVE  \A d \in Dirs, l \in LinkNames : link'[d][l] # cmd[p].name
        <3>1. \A d \in Dirs, l \in LinkNames : link'[d][l] \in {u, link[d][l]}
            BY <2>2 DEF LinkPut
        <3>2. \A d \in Dirs, l \in LinkNames : link[d][l] # cmd[p].name
            BY DEF Clean
        <3>3. QED
            BY <2>2, <3>1, <3>2, ZenonT(60)
    <2>3. QED
        BY <2>1, <2>2
<1>2. QED
    BY <1>1 DEF Clean

\* The steps of CreateSymlink.
LEMMA DoneLink ==
    ASSUME BinInv, DoneInv, NEW p \in Procs, Stat(p) \/ Unlink(p) \/ Symlink(p)
    PROVE  DoneInv'
<1> DEFINE c == cmd[p]
           h == Head(c.links)
           t == h.to
           removing == c.op = "uninstall" /\ c.prog # "tarantool-dev"
<1>1. c.pc \in Linking /\ c.pc # "idle" /\ UNCHANGED file
    BY StatStep, UnlinkStep, SymlinkStep DEF Linking
<1>2. /\ t \in Targets /\ h.dir \in Dirs /\ h.name \in LinkNames /\ h.name = LinkOf(t.prog)
      /\ PlanOf(c.links, t)
      /\ removing => c.name \in Names /\ c.name # None /\ (c.alone => t # c.name)
    BY <1>1, LinkingFacts, NameFacts
<1>3. c.alone => /\ h.dir = "inc" => link["bin"]["tarantool"] = t
                 /\ removing => \A d \in Dirs : Clean(d, c.name)
    BY <1>1 DEF DoneInv, DoneOf, Second
<1>4. Fails(p) \/ Succeeds(p) => DoneInv'
    BY <1>1, DoneEnds DEF Fails, Succeeds
<1>5. ASSUME NEW k, NEW s, NEW b,
             Becomes(p, k, c.flags, c.name, c.dir, c.names, s, c.unlinked, b),
             UNCHANGED link \/ (\E u \in {None, t} : LinkPut(h.dir, h.name, u)),
             c.alone /\ k \in Linking /\ Head(s).dir = "inc" => link'["bin"]["tarantool"] = Head(s).to,
             k \in Linking \/ (k = "headers" /\ c.op = "install" /\ link'["bin"]["tarantool"] = Dev)
      PROVE  DoneInv'
    <2>1. /\ cmd'[p].alone = c.alone /\ cmd'[p].pc = k /\ cmd'[p].name = c.name /\ cmd'[p].op = c.op
          /\ cmd'[p].prog = c.prog /\ cmd'[p].links = s
        BY <1>5 DEF Becomes, Moves
    <2>2. c.alone /\ removing => \A d \in Dirs : Clean(d, cmd[p].name)'
        <3>1. ASSUME c.alone, removing
              PROVE  \/ UNCHANGED link
                     \/ \E d \in Dirs, l \in LinkNames, u \in Targets \cup {None} :
                           LinkPut(d, l, u) /\ u # c.name
            BY <1>2, <1>5, <3>1
        <3>2. QED
            BY <1>1, <1>3, <2>1, <3>1, CleanKept
    <2>3. c.alone /\ Second(cmd[p])' => link'["bin"]["tarantool"] = Head(cmd'[p].links).to
        BY <1>5, <2>1 DEF Second
    <2>4. DoneOf(cmd[p])'
        BY <1>5, <2>1, <2>2, <2>3 DEF DoneOf, Linking
    <2>5. QED
        BY <1>1, <1>5, <2>4, DoneFrame DEF Becomes, Moves
<1>6. CASE Stat(p)
    <2>1. UNCHANGED link /\ \E k \in Linking : Proceeds(p, k)
        BY <1>6, StatStep DEF Linking
    <2>2. QED
        BY <1>3, <1>5, <2>1 DEF Proceeds
<1>7. CASE Unlink(p)
    <2>1. ASSUME LinkPut(h.dir, h.name, None),
                 Becomes(p, "symlink", c.flags, c.name, c.dir, c.names, c.links, c.unlinked, TRUE)
          PROVE  DoneInv'
        <3>1. c.alone /\ h.dir = "inc" => link'["bin"]["tarantool"] = t
            BY <1>2, <1>3, <2>1 DEF LinkPut, Dirs, LinkNames
        <3>2. QED
            BY <1>5, <2>1, <3>1 DEF Linking
    <2>2. QED
        BY <1>4, <1>7, <2>1, UnlinkStep
<1>8. CASE Symlink(p)
    <2>1. ASSUME LinkPut(h.dir, h.name, t), Tail(c.links) # <<>>,
                 Becomes(p, "stat", c.flags, c.name, c.dir, c.names, Tail(c.links), c.unlinked, TRUE)
          PROVE  DoneInv'
        <3>1. h.dir # "inc" /\ t.prog # "tt" /\ t # Dev
            BY <1>2, <2>1, PlanFacts, ZenonT(60) DEF Dirs
        <3>2. h.dir = "bin" /\ t \in Names /\ h.name = "tarantool"
            BY <1>2, <3>1 DEF Dirs, Targets, LinkOf
        <3>3. Head(Tail(c.links)).to = t
            BY <1>2, <3>1, <3>2, PlanFacts
        <3>4. link'["bin"]["tarantool"] = t
            BY <1>2, <2>1, <3>2 DEF LinkPut
        <3>5. QED
            BY <1>5, <2>1, <3>3, <3>4 DEF Linking
    <2>2. ASSUME LinkPut(h.dir, h.name, t), t = Dev, h.dir = "bin",
                 Becomes(p, "headers", c.flags, c.name, c.dir, c.names, Tail(c.links), c.unlinked, TRUE)
          PROVE  DoneInv'
        <3>1. h.name = "tarantool" /\ c.op = "install"
            BY <1>1, <1>2, <2>2, LinkingFacts, NameFacts DEF LinkOf
        <3>2. link'["bin"]["tarantool"] = Dev
            BY <1>2, <2>2, <3>1 DEF LinkPut
        <3>3. QED
            BY <1>5, <2>2, <3>1, <3>2 DEF Linking
    <2>3. QED
        BY <1>4, <1>8, <2>1, <2>2, SymlinkStep
<1>9. QED
    BY <1>6, <1>7, <1>8

\* The headers of a development build, and the choice of a version to switch to.
LEMMA DoneRest ==
    ASSUME BinInv, DoneInv, NEW p \in Procs, Headers(p) \/ SwitchToLatest(p) \/ Switch(p)
    PROVE  DoneInv'
<1> DEFINE c == cmd[p]
<1>1. ShapeOf(c) /\ DoneOf(c)
    BY DEF BinInv, DoneInv
<1>2. c.pc \in {"headers", "latest", "switch"} /\ c.pc # "idle"
    BY HeadersStep, LatestStep, SwitchStep
<1>3. Fails(p) \/ Succeeds(p) => DoneInv'
    BY <1>2, DoneEnds DEF Fails, Succeeds
<1>4. CASE Headers(p)
    <2>1. c.pc = "headers" /\ c.op = "install" /\ UNCHANGED file
        BY <1>1, <1>4, HeadersStep DEF ShapeOf, Installing
    <2>2. ASSUME LinkPut("inc", "tarantool", None), Plans(p, c.name, <<LinkFor("inc", Dev)>>)
          PROVE  DoneInv'
        <3>1. Head(<<LinkFor("inc", Dev)>>) = LinkFor("inc", Dev) /\ LinkFor("inc", Dev).to = Dev
            BY SMT DEF LinkFor
        <3>2. c.alone => link'["bin"]["tarantool"] = Dev
            BY <1>1, <2>1, <2>2 DEF DoneOf, LinkPut, Dirs, LinkNames
        <3>3. cmd'[p].links = <<LinkFor("inc", Dev)>> /\ cmd'[p].pc = "stat" /\ cmd'[p].op = "install"
              /\ cmd'[p].alone = c.alone
            BY <2>1, <2>2 DEF Plans, Becomes, Moves
        <3>4. DoneOf(cmd[p])'
            BY <3>1, <3>2, <3>3 DEF DoneOf
        <3>5. QED
            BY <1>2, <2>2, <3>4, DoneFrame DEF Plans, Becomes, Moves
    <2>3. QED
        BY <1>3, <1>4, <2>2, HeadersStep
<1>5. CASE SwitchToLatest(p)
    <2>1. c.pc = "latest" /\ c.op = "uninstall" /\ UNCHANGED <<file, link>>
        BY <1>1, <1>5, LatestStep DEF ShapeOf, Removing
    <2>2. ASSUME NEW n \in Names, Plans(p, c.name, LinksTo(n.prog, n))
          PROVE  DoneInv'
        <3>1. Head(LinksTo(n.prog, n)) = LinkFor("bin", n) /\ LinkFor("bin", n).dir # "inc"
            BY LinksToIs DEF Targets, LinkFor
        <3>2. cmd'[p].links = LinksTo(n.prog, n) /\ cmd'[p].pc = "stat" /\ cmd'[p].name = c.name
              /\ cmd'[p].alone = c.alone /\ cmd'[p].prog = c.prog
            BY <2>2 DEF Plans, Becomes, Moves
        <3>3. c.alone /\ c.prog # "tarantool-dev" => \A d \in Dirs : Clean(d, cmd[p].name)'
            <4>1. c.alone /\ c.prog # "tarantool-dev" => \A d \in Dirs : Clean(d, c.name)
                BY <1>1, <2>1 DEF DoneOf
            <4>2. QED
                BY <2>1, <3>2, <4>1, CleanKept
        <3>4. DoneOf(cmd[p])'
            BY <3>1, <3>2, <3>3 DEF DoneOf, Second
        <3>5. QED
            BY <1>2, <2>2, <3>4, DoneFrame DEF Plans, Becomes, Moves
    <2>3. QED
        BY <1>3, <1>5, <2>2, LatestStep
<1>6. CASE Switch(p)
    <2>1. c.op = "switch"
        BY <1>1, <1>6, SwitchStep DEF ShapeOf
    <2>2. QED
        BY <1>2, <1>3, <1>6, <2>1, SwitchStep, DonePlans
<1>7. QED
    BY <1>4, <1>5, <1>6

\* Starting a command.
LEMMA DoneStart ==
    ASSUME BinInv, DoneInv, NEW p \in Procs, NEW r \in Requests, Start(p, r)
    PROVE  DoneInv'
<1>1. DoneOf(cmd[p])'
    <2>1. cmd'[p].pc \in {"install", "uninstall", "switch"}
        BY StartStep
    <2>2. QED
        BY <2>1 DEF DoneOf, Second, Linking
<1>2. ASSUME NEW q \in Procs, q # p
      PROVE  DoneOf(cmd[q])'
    <2>1. cmd'[q].alone => cmd'[q].pc = "idle"
        BY <1>2, StartStep
    <2>2. QED
        BY <2>1 DEF DoneOf, Second, Linking
<1>3. QED
    BY <1>1, <1>2 DEF DoneInv

\* A step that leaves files, links and commands alone.
LEMMA DoneSame ==
    ASSUME DoneInv, UNCHANGED <<file, link, cmd>>
    PROVE  DoneInv'
BY DEF DoneInv, DoneOf, Second, Clean

\* Every step keeps DoneInv.
LEMMA DoneNext ==
    ASSUME BinInv, DoneInv, [Next]_vars
    PROVE  DoneInv'
<1>1. \A p \in Procs : Interrupt(p) => DoneInv'
    BY InterruptStep, DoneEnds DEF Fails
<1>2. BuildDirGone \/ UNCHANGED vars => DoneInv'
    BY GoneStep, DoneSame DEF vars
<1>3. QED
    BY <1>1, <1>2, DoneStart, DoneInstall, DoneLink, DoneRest, DoneRemove DEF Next

\* DoneInv holds at first.
LEMMA DoneInit ==
    ASSUME Init
    PROVE  DoneInv
<1>1. \A p \in Procs : cmd[p].pc = "idle"
    BY DEF Init, Idle
<1>2. QED
    BY <1>1 DEF DoneInv, DoneOf, Second, Linking

\* The commands of a tt environment keep to their program points and, alone, have done what their
\* program point says.
THEOREM BinariesInvariance == Spec => [](BinInv /\ DoneInv)
<1>1. Init => BinInv /\ DoneInv
    BY BinInit, DoneInit
<1>2. BinInv /\ DoneInv /\ [Next]_vars => (BinInv /\ DoneInv)'
    BY BinNext, DoneNext
<1>3. QED
    BY <1>1, <1>2, PTL DEF Spec

-----------------------------------------------------------------------------
(* SuccessIsComplete.                                                      *)

\* The steps with which a command ends successfully, and all the others.
Concludes(p) ==
    InstallInDocker(p) \/ Symlink(p) \/ Headers(p) \/ RemoveFile(p) \/ SwitchToLatest(p)
GoesOn(p) ==
    \/ Install(p) \/ ProbeTt(p) \/ ProbeTarantool(p) \/ ProbeTarantoolEE(p)
    \/ BuildTt(p) \/ BuildTarantool(p) \/ GetTarantoolEE(p)
    \/ ClearTt(p) \/ ClearTarantool(p) \/ Open(p) \/ Fill(p) \/ Stat(p) \/ Unlink(p)
    \/ Uninstall(p) \/ RemoveDev(p) \/ RemoveProgram(p) \/ RemoveLink(p) \/ Switch(p) \/ Interrupt(p)

\* These steps end no command successfully.
LEMMA GoingOn ==
    ASSUME BinInv, NEW p \in Procs, GoesOn(p)
    PROVE  Others(p) /\ (cmd'[p].pc # "idle" \/ cmd'[p].res # "ok")
<1>1. Fails(p) => Others(p) /\ cmd'[p].res # "ok"
    BY DEF Fails, Ended
<1>2. ASSUME NEW k \in Points \ {"idle"}, NEW f, NEW n, NEW d, NEW s, NEW ls, NEW u, NEW t,
             Becomes(p, k, f, n, d, s, ls, u, t)
      PROVE  Others(p) /\ cmd'[p].pc # "idle"
    BY <1>2 DEF Becomes, Moves
<1>3. \A n, s : Plans(p, n, s) => Others(p) /\ cmd'[p].pc # "idle"
    BY <1>2 DEF Plans, Points, Linking
<1>4. {"probe", "build", "docker", "clear", "open", "fill", "unlink", "symlink", "undev", "latest",
       "remove", "removeLink", "removeFile"} \subseteq Points \ {"idle"}
    BY DEF Points, Linking, Installing, Removing
<1>5. CASE Install(p)
    BY <1>1, <1>2, <1>3, <1>4, <1>5, InstallStep
<1>6. CASE ProbeTt(p) \/ ProbeTarantool(p) \/ ProbeTarantoolEE(p)
    BY <1>1, <1>2, <1>3, <1>4, <1>6, ProbeStep
<1>7. CASE BuildTt(p) \/ BuildTarantool(p) \/ GetTarantoolEE(p)
    BY <1>2, <1>4, <1>7, BuildStep DEF Proceeds
<1>8. CASE ClearTt(p)
    BY <1>1, <1>2, <1>4, <1>8, ClearTtStep
<1>9. CASE ClearTarantool(p)
    BY <1>1, <1>2, <1>4, <1>9, ClearTarantoolStep
<1>10. CASE Open(p)
    BY <1>2, <1>4, <1>10, OpenStep
<1>11. CASE Fill(p)
    BY <1>1, <1>2, <1>3, <1>4, <1>11, FillStep
<1>12. CASE Stat(p)
    BY <1>2, <1>4, <1>12, StatStep DEF Proceeds
<1>13. CASE Unlink(p)
    BY <1>1, <1>2, <1>4, <1>13, UnlinkStep
<1>14. CASE Uninstall(p)
    BY <1>1, <1>2, <1>4, <1>14, UninstallStep
<1>15. CASE RemoveDev(p)
    BY <1>1, <1>2, <1>4, <1>15, RemoveDevStep
<1>16. CASE RemoveProgram(p)
    BY <1>1, <1>2, <1>4, <1>16, RemoveProgramStep
<1>17. CASE RemoveLink(p)
    BY <1>1, <1>2, <1>4, <1>17, RemoveLinkStep
<1>18. CASE Switch(p)
    BY <1>1, <1>3, <1>18, SwitchStep
<1>19. CASE Interrupt(p)
    BY <1>1, <1>19, InterruptStep
<1>20. QED
    BY <1>5, <1>6, <1>7, <1>8, <1>9, <1>10, <1>11, <1>12, <1>13, <1>14, <1>15, <1>16, <1>17, <1>18,
       <1>19 DEF GoesOn

\* These steps change the record of p only.
LEMMA Concluding ==
    ASSUME BinInv, NEW p \in Procs, Concludes(p)
    PROVE  Others(p)
<1>1. Fails(p) \/ Succeeds(p) => Others(p)
    BY DEF Fails, Succeeds, Ended
<1>2. CASE InstallInDocker(p)
    BY <1>1, <1>2, DockerStep DEF Becomes, Moves
<1>3. CASE Symlink(p)
    BY <1>1, <1>3, SymlinkStep DEF Becomes, Moves
<1>4. CASE Headers(p)
    BY <1>1, <1>4, HeadersStep DEF Plans, Becomes, Moves
<1>5. CASE RemoveFile(p)
    BY <1>1, <1>5, RemoveFileStep DEF Proceeds, Becomes, Moves
<1>6. CASE SwitchToLatest(p)
    BY <1>1, <1>6, LatestStep DEF Plans, Becomes, Moves
<1>7. QED
    BY <1>2, <1>3, <1>4, <1>5, <1>6 DEF Concludes

\* The steps of Next, those that may end a command successfully apart.
LEMMA StepsAre ==
    ASSUME [Next]_vars
    PROVE  \/ \E p \in Procs : (\E r \in Requests : Start(p, r)) \/ GoesOn(p) \/ Concludes(p)
           \/ BuildDirGone
           \/ UNCHANGED vars
BY DEF Next, GoesOn, Concludes

\* Which steps may end a command successfully.
LEMMA SuccessSteps ==
    ASSUME BinInv, [Next]_vars, NEW p \in Procs, cmd[p].pc # "idle", cmd'[p].pc = "idle",
           cmd'[p].res = "ok"
    PROVE  Concludes(p)
<1>1. ASSUME NEW q \in Procs, NEW r \in Requests, Start(q, r)
      PROVE  FALSE
    BY <1>1, StartStep DEF Same
<1>2. ASSUME NEW q \in Procs, Others(q)
      PROVE  q = p
    BY <1>2 DEF Others
<1>3. ~GoesOn(p)
    BY GoingOn
<1>4. ~BuildDirGone /\ ~UNCHANGED vars
    BY GoneStep DEF vars
<1>5. QED
    BY <1>1, <1>2, <1>3, <1>4, StepsAre, GoingOn, Concluding

\* The last link is set.
LEMMA SymlinkCompletes ==
    ASSUME BinInv, DoneInv, NEW p \in Procs, Symlink(p), cmd'[p].pc = "idle", cmd'[p].res = "ok",
           cmd[p].alone
    PROVE  /\ cmd[p].op = "uninstall" /\ cmd[p].prog # "tarantool-dev" =>
                 \A d \in Dirs : /\ cmd[p].name \in Names /\ file'[d][cmd[p].name] = "absent"
                                 /\ \A l \in LinkNames : link'[d][l] # cmd[p].name
           /\ cmd[p].op # "uninstall" =>
                 /\ link'["bin"][LinkOf(cmd[p].prog)] = cmd[p].name
                 /\ cmd[p].prog # "tt" => link'["inc"][LinkOf(cmd[p].prog)] = cmd[p].name
<1> DEFINE c == cmd[p]
           h == Head(c.links)
           t == h.to
<1>1. c.pc = "symlink" /\ UNCHANGED file
    BY SymlinkStep
<1>2. LinkPut(h.dir, h.name, t) /\ Tail(c.links) = <<>> /\ ~(t = Dev /\ h.dir = "bin")
    <2>1. ~Fails(p)
        BY DEF Fails
    <2>2. \A k \in {"stat", "headers"} : ~Becomes(p, k, c.flags, c.name, c.dir, c.names, Tail(c.links),
                                                  c.unlinked, TRUE)
        BY DEF Becomes
    <2>3. QED
        BY <2>1, <2>2, SymlinkStep
<1>3. /\ t \in Targets /\ h.dir \in Dirs /\ h.name \in LinkNames /\ h.name = LinkOf(t.prog)
      /\ PlanOf(c.links, t)
      /\ c.op # "uninstall" => t = c.name /\ t.prog = c.prog
      /\ c.op = "uninstall" /\ c.prog # "tarantool-dev" => c.name \in Names /\ t # c.name
    BY <1>1, LinkingFacts DEF Linking
<1>4. c.op = "uninstall" /\ c.prog # "tarantool-dev" => \A d \in Dirs : Clean(d, c.name)
    BY <1>1 DEF DoneInv, DoneOf, Linking
<1>5. h.dir = "inc" => link["bin"]["tarantool"] = t
    BY <1>1 DEF DoneInv, DoneOf, Second, Linking
<1>6. t.prog # "tt" => h.dir = "inc"
    BY <1>2, <1>3, PlanFacts DEF Dirs, Targets
<1>7. t.prog = "tt" => h.dir = "bin"
    BY <1>2, <1>3, PlanFacts DEF Dirs
<1>8. t.prog # "tt" => h.name = "tarantool"
    BY <1>3 DEF LinkOf
<1>9. link'[h.dir][h.name] = t /\ (h.dir = "inc" => link'["bin"]["tarantool"] = link["bin"]["tarantool"])
    BY <1>2, <1>3 DEF LinkPut, Dirs, LinkNames
<1>10. CASE c.op = "uninstall" /\ c.prog # "tarantool-dev"
    <2>1. \A d \in Dirs, l \in LinkNames : link'[d][l] \in {t, link[d][l]}
        BY <1>2 DEF LinkPut
    <2>2. \A d \in Dirs, l \in LinkNames : link[d][l] # c.name /\ t # c.name
        BY <1>3, <1>4, <1>10 DEF Clean
    <2>3. \A d \in Dirs, l \in LinkNames : link'[d][l] # c.name
        BY <2>1, <2>2
    <2>4. \A d \in Dirs : file'[d][c.name] = "absent"
        BY <1>1, <1>4, <1>10 DEF Clean
    <2>5. QED
        BY <1>3, <1>10, <2>3, <2>4
<1>11. CASE c.op # "uninstall"
    BY <1>3, <1>5, <1>6, <1>7, <1>8, <1>9, <1>11
<1>12. QED
    BY <1>10, <1>11

\* A successful tt install, uninstall or switch that ran alone has done what it was asked for
\* (SuccessIsComplete), for any sets of programs, versions, commands and processes.
THEOREM SuccessCompletes == Spec => SuccessIsComplete
<1> DEFINE Complete(p) ==
               /\ Ends(p, "uninstall") /\ cmd[p].prog # "tarantool-dev" =>
                    \A d \in Dirs : /\ cmd[p].name \in Names /\ file'[d][cmd[p].name] = "absent"
                                    /\ \A l \in LinkNames : link'[d][l] # cmd[p].name
               /\ \A op \in {"install", "switch"} : Ends(p, op) /\ "docker" \notin cmd[p].flags =>
                    \A i \in DOMAIN DirsOf(cmd[p].prog) :
                       \/ link'[DirsOf(cmd[p].prog)[i]][LinkOf(cmd[p].prog)] = cmd[p].name
                       \/ cmd[p].name = Dev /\ i = 2 /\ link'["inc"]["tarantool"] = None
<1>1. ASSUME BinInv, DoneInv, [Next]_vars, NEW p \in Procs
      PROVE  Complete(p)
    <2> DEFINE c == cmd[p]
               Active == /\ link'["bin"][LinkOf(c.prog)] = c.name
                         /\ c.prog # "tt" => \/ link'["inc"][LinkOf(c.prog)] = c.name
                                             \/ c.name = Dev /\ link'["inc"]["tarantool"] = None
               Gone == \A d \in Dirs : /\ c.name \in Names /\ file'[d][c.name] = "absent"
                                       /\ \A l \in LinkNames : link'[d][l] # c.name
    <2>1. ASSUME c.pc # "idle", cmd'[p].pc = "idle", cmd'[p].res = "ok", c.alone
          PROVE  /\ c.op = "uninstall" /\ c.prog # "tarantool-dev" => Gone
                 /\ c.op \in {"install", "switch"} /\ "docker" \notin c.flags => Active
        <3>1. ShapeOf(c) /\ DoneOf(c)
            BY <1>1 DEF BinInv, DoneInv
        <3>2. CASE InstallInDocker(p)
            BY <1>1, <3>1, <3>2, DockerStep DEF ShapeOf, Installing
        <3>3. CASE Symlink(p)
            BY <1>1, <2>1, <3>3, SymlinkCompletes
        <3>4. CASE Headers(p)
            <4>1. c.pc = "headers" /\ c.op = "install" /\ c.name = Dev /\ c.prog = "tarantool-dev"
                BY <1>1, <3>1, <3>4, HeadersStep DEF ShapeOf, Installing
            <4>2. LinkPut("inc", "tarantool", None)
                BY <1>1, <2>1, <3>4, HeadersStep DEF Fails
            <4>3. link'["bin"]["tarantool"] = Dev /\ link'["inc"]["tarantool"] = None
                BY <2>1, <3>1, <4>1, <4>2 DEF DoneOf, LinkPut, Dirs, LinkNames
            <4>4. QED
                BY <4>1, <4>3 DEF LinkOf
        <3>5. CASE RemoveFile(p)
            <4>1. PICK n : n = c.name
                OBVIOUS
            <4>2. c.op = "uninstall" /\ c.name \in Names
                BY <1>1, <3>1, <3>5, RemoveFileStep DEF ShapeOf, Removing
            <4>3. c.dir = LastDir(c.prog)
                BY <1>1, <2>1, <3>5, RemoveFileStep DEF Becomes
            <4>4. \A d \in Dirs : Clean(d, n)'
                BY <1>1, <2>1, <3>5, <4>1, <4>3, RemoveFileCleans
            <4>5. QED
                BY <4>1, <4>2, <4>4 DEF Clean
        <3>6. CASE SwitchToLatest(p)
            <4>1. c.pc = "latest" /\ c.op = "uninstall" /\ UNCHANGED <<file, link>>
                BY <1>1, <3>1, <3>6, LatestStep DEF ShapeOf, Removing
            <4>2. c.prog # "tarantool-dev" => c.name \in Names /\ \A d \in Dirs : Clean(d, c.name)
                BY <2>1, <3>1, <4>1 DEF ShapeOf, DoneOf
            <4>3. QED
                BY <4>1, <4>2 DEF Clean
        <3>7. QED
            BY <1>1, <2>1, <3>2, <3>3, <3>4, <3>5, <3>6, SuccessSteps DEF Concludes
    <2>2. ASSUME Active, NEW i \in DOMAIN DirsOf(c.prog)
          PROVE  \/ link'[DirsOf(c.prog)[i]][LinkOf(c.prog)] = c.name
                 \/ c.name = Dev /\ i = 2 /\ link'["inc"]["tarantool"] = None
        <3>1. \/ i = 1 /\ DirsOf(c.prog)[i] = "bin"
              \/ i = 2 /\ DirsOf(c.prog)[i] = "inc" /\ c.prog # "tt"
            BY SMT DEF DirsOf
        <3>2. QED
            BY <2>2, <3>1
    <2> HIDE DEF Active, Gone
    <2>3. QED
        BY <2>1, <2>2 DEF Ends, At, Gone
<1>2. BinInv /\ DoneInv /\ [Next]_vars => [\A p \in Procs : Complete(p)]_vars
    BY <1>1
<1>3. QED
    BY <1>2, BinariesInvariance, PTL DEF Spec, SuccessIsComplete
=============================================================================
