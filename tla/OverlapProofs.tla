--------------------------- MODULE OverlapProofs ----------------------------
(***************************************************************************)
(* Commands on bin_dir and include_dir that are disturbed: by one command   *)
(* that stopped half-way before them, and by other installs and switches    *)
(* that run at the same time.                                               *)
(***************************************************************************)
EXTENDS AgreementProofs

\* The steps are first-order unless they cite SMT.
USE Zenon

-----------------------------------------------------------------------------
(* The invariants.                                                         *)

\* A version that an install, unless it is told to, takes for installed when it is there.
Released(n) == n \in Names /\ n.prog # "tt" /\ n.ver # "master"

Both(n) == file["bin"][n] = "absent" <=> file["inc"][n] = "absent"

HealOf(c) ==
    Released(c.name) =>
        /\ c.pc \in {"open", "fill"} /\ c.dir = "inc" => file["bin"][c.name] = "whole"
        /\ c.op = "install" /\ c.pc \in Linking => file["bin"][c.name] = "whole"
        /\ c.pc = "fill" => file[c.dir][c.name] = "torn"
        /\ c.pc = "build" /\ "reinstall" \notin c.flags => ~Installed(c.name)
        /\ hurt = 0 =>
              /\ c.pc = "clear" /\ c.dir = "inc" => file["bin"][c.name] = "absent"
              /\ c.pc = "open" /\ c.dir = "bin" =>
                    file["bin"][c.name] = "absent" /\ file["inc"][c.name] = "absent"
              /\ c.pc = "fill" /\ c.dir = "bin" => file["inc"][c.name] = "absent"

\* Between two calls of p the files of n are not what they were.
Changing(p, n) ==
    cmd[p].name = n /\ cmd[p].touched
    /\ cmd[p].pc \in {"clear", "open", "fill", "remove", "removeLink", "removeFile"}

HealInv ==
    hurt < 2 =>
        /\ \A p \in Procs : HealOf(cmd[p])
        /\ \A n \in Names : Released(n) /\ file["bin"][n] = "torn" =>
              \/ file["inc"][n] = "absent"
              \/ \E p \in Procs : cmd[p].pc = "fill" /\ cmd[p].dir = "bin" /\ cmd[p].name = n
        /\ hurt = 0 => \A n \in Names : Released(n) =>
              Both(n) \/ \E p \in Procs : Changing(p, n)

\* Command p fills the binary of n, is about to copy it again after it removed it, is about to set
\* the link l of bin_dir, and fills the last file of n.
Fills(p, n) == cmd[p].pc = "fill" /\ cmd[p].dir = "bin" /\ cmd[p].name = n
Renews(p, n) ==
    /\ cmd[p].name = n
    /\ (cmd[p].pc = "clear" /\ cmd[p].dir = "inc") \/ (cmd[p].pc = "open" /\ cmd[p].dir = "bin")
Relinks(p, l) ==
    cmd[p].pc \in {"stat", "symlink"} /\ Head(cmd[p].links).dir = "bin" /\ Head(cmd[p].links).name = l
Completes(p, n) == cmd[p].pc = "fill" /\ cmd[p].dir = LastDir(n.prog) /\ cmd[p].name = n

\* A version that somebody counts on: it is being copied, about to be active, or active.
Wants(p, n) ==
    \/ cmd[p].pc \in Linking /\ Head(cmd[p].links) = LinkFor("bin", n)
    \/ (cmd[p].pc = "fill" \/ (cmd[p].pc = "open" /\ cmd[p].dir = "inc")) /\ cmd[p].name = n
Needed(n) == (\E l \in LinkNames : link["bin"][l] = n) \/ \E p \in Procs : Wants(p, n)

RaceInv ==
    faults = 0 /\ ~removals =>
        /\ \A p \in Procs : cmd[p].op # "uninstall"
        /\ \A n \in Names : file["bin"][n] = "torn" => \E p \in Procs : Fills(p, n)
        /\ \A n \in Names : Needed(n) /\ file["bin"][n] = "absent" => \E p \in Procs : Renews(p, n)
        /\ \A n \in Names : file[LastDir(n.prog)][n] # "absent" =>
              \/ link["bin"][LinkOf(n.prog)] # None
              \/ \E p \in Procs : Relinks(p, LinkOf(n.prog)) \/ Completes(p, n)

-----------------------------------------------------------------------------
(* HealInv: until commands overlap or two of them have stopped half-way.   *)

\* HealInv as the one command that runs sees it.
HealAt(p) ==
    /\ HealOf(cmd[p])
    /\ \A n \in Names : Released(n) =>
          /\ file["bin"][n] = "torn" =>
                \/ file["inc"][n] = "absent"
                \/ cmd[p].pc = "fill" /\ cmd[p].dir = "bin" /\ cmd[p].name = n
          /\ hurt = 0 => Both(n) \/ Changing(p, n)

\* Until commands overlap, the command that runs is the only one.
LEMMA HealFacts ==
    ASSUME BinInv, HealInv, NEW p \in Procs, cmd[p].pc # "idle", hurt < 2
    PROVE  HealAt(p) /\ cmd[p].alone /\ \A q \in Procs : q # p => cmd[q].pc = "idle"
<1>1. cmd[p].alone /\ \A q \in Procs : q # p => cmd[q].pc = "idle"
    BY DEF BinInv, Solo
<1>2. \A q \in Procs, n \in Names : Changing(q, n) => q = p
    BY <1>1 DEF Changing
<1>3. \A q \in Procs : cmd[q].pc = "fill" => q = p
    BY <1>1
<1>4. HealOf(cmd[p])
    BY DEF HealInv
<1>5. ASSUME NEW n \in Names, Released(n)
      PROVE  /\ file["bin"][n] = "torn" =>
                   \/ file["inc"][n] = "absent"
                   \/ cmd[p].pc = "fill" /\ cmd[p].dir = "bin" /\ cmd[p].name = n
             /\ hurt = 0 => Both(n) \/ Changing(p, n)
    BY <1>2, <1>3, <1>5 DEF HealInv
<1>6. QED
    BY <1>1, <1>4, <1>5 DEF HealAt

\* A command that takes a step sees to the whole of HealInv.
LEMMA HealFrame ==
    ASSUME BinInv, HealInv, NEW p \in Procs, cmd[p].pc # "idle", Others(p), hurt' < 2 => hurt < 2,
           hurt' < 2 => HealAt(p)'
    PROVE  HealInv'
<1>1. SUFFICES ASSUME hurt' < 2
               PROVE  HealInv'
    BY DEF HealInv
<1>2. HealAt(p)' /\ \A q \in Procs : q # p => cmd'[q].pc = "idle"
    BY <1>1, HealFacts DEF Others
<1>3. ASSUME NEW q \in Procs, q # p
      PROVE  HealOf(cmd[q])'
    BY <1>2, <1>3 DEF HealOf, Linking
<1>4. QED
    BY <1>2, <1>3 DEF HealInv, HealAt

\* A command that stops half-way is counted in hurt.
LEMMA HealFails ==
    ASSUME BinInv, HealInv, NEW p \in Procs, cmd[p].pc # "idle", Fails(p)
    PROVE  HealInv'
<1>1. Ended(p, cmd[p].touched) /\ cmd'[p].res # "ok" /\ UNCHANGED file /\ cmd'[p].pc = "idle"
    BY DEF Fails, Ended
<1>2. /\ hurt' < 2 => hurt < 2
      /\ hurt' < 2 /\ cmd[p].touched => hurt = 0
      /\ hurt' = 0 => hurt = 0 /\ ~cmd[p].touched
    BY <1>1, SMT DEF Ended, BinInv, BinTypeOK
<1>3. ASSUME hurt' < 2
      PROVE  HealAt(p)'
    <2>1. HealAt(p) /\ HealOf(cmd[p])'
        BY <1>1, <1>2, <1>3, HealFacts DEF HealOf, Linking
    <2>2. ASSUME NEW n \in Names, Released(n), file["bin"][n] = "torn"
          PROVE  file["inc"][n] = "absent"
        <3>1. CASE cmd[p].pc = "fill" /\ cmd[p].dir = "bin" /\ cmd[p].name = n
            <4>1. cmd[p].touched
                BY <3>1 DEF BinInv, ShapeOf
            <4>2. QED
                BY <1>2, <1>3, <2>1, <2>2, <3>1, <4>1 DEF HealAt, HealOf
        <3>2. QED
            BY <2>1, <2>2, <3>1 DEF HealAt
    <2>3. ASSUME NEW n \in Names, Released(n), hurt' = 0
          PROVE  Both(n)
        BY <1>2, <2>1, <2>3 DEF HealAt, Changing
    <2>4. \A n \in Names : Released(n) => (hurt' = 0 => Both(n)')
        BY <1>1, <2>3 DEF Both
    <2>5. QED
        BY <1>1, <2>1, <2>2, <2>4 DEF HealAt
<1>4. QED
    BY <1>1, <1>2, <1>3, HealFrame DEF Ended

\* A command that succeeds was not in the middle of changing files.
LEMMA HealSucceeds ==
    ASSUME BinInv, HealInv, NEW p \in Procs, cmd[p].pc # "idle", Succeeds(p), UNCHANGED file,
           cmd[p].pc \notin {"clear", "open", "fill", "remove", "removeLink", "removeFile"}
    PROVE  HealInv'
<1>1. hurt' = hurt /\ cmd'[p].pc = "idle" /\ Others(p)
    BY DEF Succeeds, Ended
<1>2. ASSUME hurt' < 2
      PROVE  HealAt(p)'
    <2>1. HealAt(p) /\ HealOf(cmd[p])'
        BY <1>1, <1>2, HealFacts DEF HealOf, Linking
    <2>2. \A n \in Names : Released(n) /\ hurt = 0 => Both(n)'
        BY <2>1 DEF HealAt, Changing, Both
    <2>3. QED
        BY <1>1, <2>1, <2>2 DEF HealAt
<1>3. QED
    BY <1>1, <1>2, HealFrame

\* Nothing is copied or removed, and nothing that was half-way is forgotten.
LEMMA HealQuiet ==
    ASSUME BinInv, HealInv, NEW p \in Procs, cmd[p].pc # "idle", Moves(p), UNCHANGED file,
           hurt < 2 => HealOf(cmd[p])',
           cmd[p].pc # "fill",
           \A n \in Names : Changing(p, n) => Changing(p, n)'
    PROVE  HealInv'
<1>1. hurt' = hurt /\ Others(p)
    BY DEF Moves
<1>2. ASSUME hurt < 2
      PROVE  HealAt(p)'
    <2>1. HealAt(p)
        BY <1>2, HealFacts
    <2>2. \A n \in Names : Released(n) /\ hurt = 0 => Both(n)' \/ Changing(p, n)'
        BY <2>1 DEF HealAt, Both
    <2>3. \A n \in Names : Released(n) /\ file'["bin"][n] = "torn" => file'["inc"][n] = "absent"
        BY <2>1 DEF HealAt
    <2>4. QED
        BY <1>1, <1>2, <2>2, <2>3 DEF HealAt
<1>3. QED
    BY <1>1, <1>2, HealFrame

\* The steps of an install before it touches anything.
LEMMA HealInstall ==
    ASSUME BinInv, HealInv, NEW p \in Procs,
           \/ Install(p) \/ ProbeTt(p) \/ ProbeTarantool(p) \/ ProbeTarantoolEE(p)
           \/ InstallInDocker(p) \/ BuildTt(p) \/ BuildTarantool(p) \/ GetTarantoolEE(p)
    PROVE  HealInv'
<1> DEFINE c == cmd[p]
<1>1. c.pc \in {"install", "probe", "docker", "build"} /\ UNCHANGED file
    BY InstallStep, ProbeStep, DockerStep, BuildStep DEF Fails
<1>2. /\ c.pc \notin {"clear", "open", "fill", "remove", "removeLink", "removeFile", "idle"}
      /\ c.op = "install" /\ c.dir = "bin" /\ c.pc # "idle" /\ ShapeOf(c) /\ c \in Command
    BY <1>1 DEF BinInv, BinTypeOK, ShapeOf, Installing
<1>3. Fails(p) => HealInv'
    BY <1>2, HealFails
<1>4. ~\E n \in Names : Changing(p, n)
    BY <1>2 DEF Changing
<1>5. ASSUME NEW k, NEW f, NEW n, NEW s, Becomes(p, k, f, n, c.dir, c.names, s, c.unlinked, c.touched),
             hurt < 2 => HealOf(cmd[p])'
      PROVE  HealInv'
    BY <1>1, <1>2, <1>4, <1>5, HealQuiet DEF Becomes
<1>6. CASE Install(p)
    <2>1. Plans(p, Dev, <<LinkFor("bin", Dev)>>) => HealOf(cmd[p])'
        BY NameFacts DEF Plans, Becomes, HealOf, Released
    <2>2. ASSUME NEW n \in Names,
                 Becomes(p, "probe", c.flags, n, c.dir, c.names, c.links, c.unlinked, c.touched)
          PROVE  HealOf(cmd[p])'
        BY <2>2 DEF Becomes, HealOf, Linking
    <2>3. QED
        BY <1>3, <1>5, <1>6, <2>1, <2>2, InstallStep DEF Plans
<1>7. CASE ProbeTt(p) \/ ProbeTarantool(p) \/ ProbeTarantoolEE(p)
    <2>1. c.pc = "probe" /\ c.name \in Names
        BY <1>2, <1>7, ProbeStep DEF ShapeOf, Installing
    <2>2. ASSUME Installed(c.name), Plans(p, c.name, LinksTo(c.prog, c.name)), hurt < 2
          PROVE  HealOf(cmd[p])'
        <3>1. HealAt(p)
            BY <1>2, <2>2, HealFacts
        <3>2. Released(c.name) => file["bin"][c.name] # "absent" /\ file["inc"][c.name] # "absent"
            BY <2>2, InstalledIs DEF Released, Present
        <3>3. Released(c.name) => file["bin"][c.name] # "torn"
            BY <2>1, <3>1, <3>2 DEF HealAt
        <3>4. file["bin"][c.name] \in Content
            BY <2>1 DEF BinInv, BinTypeOK, Dirs
        <3>5. Released(c.name) => file["bin"][c.name] = "whole"
            BY <3>2, <3>3, <3>4 DEF Content
        <3>6. cmd'[p].name = c.name /\ cmd'[p].pc = "stat"
            BY <2>2 DEF Plans, Becomes
        <3>7. QED
            BY <1>1, <3>5, <3>6 DEF HealOf
    <2>3. ASSUME NEW k \in {"build", "docker"}, NEW f,
                 Becomes(p, k, f, c.name, c.dir, c.names, c.links, c.unlinked, c.touched),
                 c.name.ver # "master" /\ "reinstall" \notin f => ~Installed(c.name)
          PROVE  HealOf(cmd[p])'
        <3>1. /\ cmd'[p].name = c.name /\ cmd'[p].pc = k /\ cmd'[p].flags = f
            BY <2>3 DEF Becomes
        <3>2. Installed(c.name) <=> Installed(cmd[p].name)'
            BY <1>1, <3>1, InstalledIs DEF Installed, Present
        <3>3. QED
            BY <2>3, <3>1, <3>2 DEF HealOf, Linking, Released
    <2>4. QED
        BY <1>3, <1>5, <1>7, <2>2, <2>3, ProbeStep DEF Plans
<1>8. CASE InstallInDocker(p)
    <2>1. ASSUME NEW f, Becomes(p, "probe", f, c.name, c.dir, c.names, c.links, c.unlinked, c.touched)
          PROVE  HealOf(cmd[p])'
        BY <2>1 DEF Becomes, HealOf, Linking
    <2>2. Succeeds(p) => HealInv'
        BY <1>1, <1>2, HealSucceeds
    <2>3. QED
        BY <1>5, <1>8, <2>1, <2>2, DockerStep
<1>9. CASE BuildTt(p) \/ BuildTarantool(p) \/ GetTarantoolEE(p)
    <2>1. c.pc = "build" /\ c.name \in Names /\ c.name.prog = c.prog
        BY <1>2, <1>9, BuildStep DEF ShapeOf, Installing
    <2>2. ASSUME NEW k \in {"clear", "open"}, Proceeds(p, k), hurt < 2,
                 k = "open" /\ c.prog # "tt" => "reinstall" \notin c.flags \/ ~Present("bin", c.name)
          PROVE  HealOf(cmd[p])'
        <3>1. cmd'[p].name = c.name /\ cmd'[p].pc = k /\ cmd'[p].dir = "bin" /\ hurt' = hurt
            BY <1>2, <2>2 DEF Proceeds, Becomes, Moves
        <3>2. HealAt(p)
            BY <1>2, <2>2, HealFacts
        <3>3. Released(c.name) /\ hurt = 0 => Both(c.name)
            BY <1>4, <2>1, <3>2 DEF HealAt
        <3>4. Released(c.name) /\ k = "open" => ~(Present("bin", c.name) /\ Present("inc", c.name))
            <4>1. Released(c.name) /\ "reinstall" \notin c.flags => ~Installed(c.name)
                BY <2>1, <3>2 DEF HealAt, HealOf
            <4>2. QED
                BY <2>1, <2>2, <4>1, InstalledIs DEF Released
        <3>5. Released(c.name) /\ hurt = 0 /\ k = "open" =>
                 file["bin"][c.name] = "absent" /\ file["inc"][c.name] = "absent"
            BY <2>1, <3>3, <3>4 DEF Both, Present
        <3>6. QED
            BY <1>1, <2>2, <3>1, <3>5 DEF HealOf, Linking
    <2>3. QED
        BY <1>5, <1>9, <2>2, BuildStep DEF Proceeds
<1>10. QED
    BY <1>6, <1>7, <1>8, <1>9

\* One file of the version at hand is copied or removed; those of the others stay.
LEMMA HealPut ==
    ASSUME BinInv, HealInv, NEW p \in Procs, cmd[p].pc # "idle", Others(p), hurt' = hurt,
           NEW n \in Names, n = cmd[p].name, NEW d \in Dirs, NEW x, FilePut(d, n, x),
           hurt < 2 => HealOf(cmd[p])',
           Released(n) /\ hurt < 2 =>
               /\ file'["bin"][n] = "torn" =>
                     \/ file'["inc"][n] = "absent"
                     \/ cmd'[p].pc = "fill" /\ cmd'[p].dir = "bin" /\ cmd'[p].name = n
               /\ hurt = 0 => Both(n)' \/ Changing(p, n)'
    PROVE  HealInv'
<1>1. ASSUME hurt < 2
      PROVE  HealAt(p)'
    <2>1. HealAt(p)
        BY <1>1, HealFacts
    <2>2. ASSUME NEW m \in Names, Released(m), m # n
          PROVE  /\ file'["bin"][m] = "torn" => file'["inc"][m] = "absent"
                 /\ hurt = 0 => Both(m)'
        <3>1. file'["bin"][m] = file["bin"][m] /\ file'["inc"][m] = file["inc"][m]
            BY <2>2 DEF FilePut, Dirs
        <3>2. /\ file["bin"][m] = "torn" => file["inc"][m] = "absent"
              /\ hurt = 0 => Both(m)
            BY <2>1, <2>2 DEF HealAt, Changing
        <3>3. QED
            BY <3>1, <3>2 DEF Both
    <2>3. QED
        BY <1>1, <2>2 DEF HealAt
<1>2. QED
    BY <1>1, HealFrame

\* The steps that remove and copy files.
LEMMA HealCopy ==
    ASSUME BinInv, HealInv, NEW p \in Procs, ClearTt(p) \/ ClearTarantool(p) \/ Open(p) \/ Fill(p)
    PROVE  HealInv'
<1> DEFINE c == cmd[p]
<1>1. c.pc \in {"clear", "open", "fill"}
    BY ClearTtStep, ClearTarantoolStep, OpenStep, FillStep
<1>2. /\ c.op = "install" /\ c.pc # "idle" /\ c.dir \in Dirs /\ c.name \in Names
      /\ c.name.prog = c.prog /\ ShapeOf(c)
    BY <1>1 DEF BinInv, BinTypeOK, ShapeOf, Installing, Command
<1>3. Fails(p) => HealInv'
    BY <1>2, HealFails
<1>4. hurt < 2 => HealAt(p)
    BY <1>2, HealFacts
<1>5. ASSUME NEW k, NEW f, NEW d, NEW s, NEW t, NEW e \in Dirs, NEW x,
             Becomes(p, k, f, c.name, d, c.names, s, c.unlinked, t), FilePut(e, c.name, x),
             hurt < 2 => HealOf(cmd[p])',
             Released(c.name) /\ hurt < 2 =>
               /\ file'["bin"][c.name] = "torn" => file'["inc"][c.name] = "absent" \/ (k = "fill" /\ d = "bin")
               /\ hurt = 0 => \/ file'["bin"][c.name] = "absent" <=> file'["inc"][c.name] = "absent"
                              \/ k \in {"clear", "open", "fill"} /\ t
      PROVE  HealInv'
    <2>1. /\ Others(p) /\ hurt' = hurt /\ cmd'[p].name = c.name /\ cmd'[p].pc = k /\ cmd'[p].dir = d
          /\ cmd'[p].touched = t
        BY <1>5 DEF Becomes, Moves
    <2>2. PICK n \in Names : n = c.name
        BY <1>2
    <2>3. Released(n) /\ hurt < 2 =>
               /\ file'["bin"][n] = "torn" =>
                     \/ file'["inc"][n] = "absent"
                     \/ cmd'[p].pc = "fill" /\ cmd'[p].dir = "bin" /\ cmd'[p].name = n
               /\ hurt = 0 => Both(n)' \/ Changing(p, n)'
        BY <1>5, <2>1, <2>2 DEF Both, Changing
    <2>4. FilePut(e, n, x)
        BY <1>5, <2>2
    <2>5. QED
        BY <1>2, <1>5, <2>1, <2>2, <2>3, <2>4, HealPut
<1>6. CASE ClearTt(p)
    <2>1. ~Released(c.name) /\ "bin" \in Dirs
        BY <1>2, <1>6, ClearTtStep DEF Released, Dirs
    <2>2. cmd'[p].name = c.name => HealOf(cmd[p])'
        BY <2>1 DEF HealOf, Released
    <2>3. QED
        BY <1>3, <1>5, <1>6, <2>1, <2>2, ClearTtStep DEF Becomes
<1>7. CASE ClearTarantool(p)
    <2>1. FilePut(c.dir, c.name, "absent")
        BY <1>7, ClearTarantoolStep
    <2>2. CASE c.dir = "bin"
        <3>1. file'["bin"][c.name] = "absent" /\ "torn" # "absent"
            BY <1>2, <2>1, <2>2 DEF FilePut
        <3>2. Becomes(p, "clear", c.flags, c.name, "inc", c.names, c.links, c.unlinked, TRUE)
            BY <1>7, <2>2, ClearTarantoolStep
        <3>3. HealOf(cmd[p])'
            BY <3>1, <3>2 DEF Becomes, HealOf, Linking
        <3>4. QED
            BY <1>2, <1>5, <2>1, <3>1, <3>2, <3>3
    <2>3. CASE c.dir = "inc"
        <3>1. file'["inc"][c.name] = "absent" /\ file'["bin"][c.name] = file["bin"][c.name]
            BY <1>2, <2>1, <2>3 DEF FilePut, Dirs
        <3>2. Becomes(p, "open", c.flags, c.name, "bin", c.names, c.links, c.unlinked, c.touched)
            BY <1>7, <2>3, ClearTarantoolStep
        <3>3. Released(c.name) /\ hurt = 0 => file["bin"][c.name] = "absent"
            <4>1. hurt = 0 => hurt < 2
                BY SMT
            <4>2. QED
                BY <1>4, <1>7, <2>3, <4>1, ClearTarantoolStep DEF HealAt, HealOf
        <3>4. HealOf(cmd[p])'
            BY <3>1, <3>2, <3>3 DEF Becomes, Moves, HealOf, Linking
        <3>5. QED
            BY <1>2, <1>5, <2>1, <3>1, <3>2, <3>3, <3>4
    <2>4. QED
        BY <1>2, <2>2, <2>3 DEF Dirs
<1>8. CASE Open(p)
    <2>1. /\ FilePut(c.dir, c.name, "torn") /\ c.pc = "open"
          /\ Becomes(p, "fill", c.flags, c.name, c.dir, c.names, c.links, c.unlinked, TRUE)
        BY <1>8, OpenStep
    <2>2. file'[c.dir][c.name] = "torn"
        BY <1>2, <2>1 DEF FilePut
    <2>3. Released(c.name) /\ hurt < 2 /\ c.dir = "inc" => file'["bin"][c.name] = "whole"
        BY <1>2, <1>4, <2>1 DEF HealAt, HealOf, FilePut, Dirs
    <2>4. Released(c.name) /\ hurt = 0 /\ c.dir = "bin" => file'["inc"][c.name] = "absent"
        <3>1. hurt = 0 => hurt < 2
            BY SMT
        <3>2. QED
            BY <1>2, <1>4, <2>1, <3>1 DEF HealAt, HealOf, FilePut, Dirs
    <2>5. hurt < 2 => HealOf(cmd[p])'
        BY <2>1, <2>2, <2>3, <2>4 DEF Becomes, Moves, HealOf, Linking
    <2>6. QED
        BY <1>2, <1>5, <2>1, <2>3, <2>5 DEF Dirs
<1>9. CASE Fill(p)
    <2>1. c.pc = "fill" /\ c.touched
        BY <1>2, <1>9, FillStep DEF ShapeOf
    <2>2. SUFFICES ASSUME ~Fails(p)
                   PROVE  HealInv'
        BY <1>3
    <2>3. PICK x \in Content :
             /\ FilePut(c.dir, c.name, x)
             /\ x = "absent" <=> file[c.dir][c.name] = "absent"
             /\ x = "torn" => \E q \in Procs \ {p} :
                   cmd[q].pc = "fill" /\ cmd[q].name = c.name /\ cmd[q].dir = c.dir
        BY <1>9, <2>2, FillStep
    <2>4. Released(c.name) /\ hurt < 2 => x = "whole"
        <3>1. hurt < 2 => x # "torn"
            BY <1>2, <2>3, HealFacts
        <3>2. Released(c.name) /\ hurt < 2 => file[c.dir][c.name] = "torn"
            BY <1>4, <2>1 DEF HealAt, HealOf
        <3>3. QED
            BY <2>3, <3>1, <3>2 DEF Content
    <2>5. file'[c.dir][c.name] = x /\ \A d \in Dirs : d # c.dir => file'[d][c.name] = file[d][c.name]
        BY <1>2, <2>3 DEF FilePut
    <2>6. CASE c.dir = LastDir(c.prog)
        <3>1. Plans(p, c.name, LinksTo(c.prog, c.name))
            BY <1>9, <2>2, <2>6, FillStep
        <3>2. Released(c.name) => c.dir = "inc"
            BY <1>2, <2>6 DEF Released, LastDir
        <3>3. Released(c.name) /\ hurt < 2 => file'["bin"][c.name] = "whole" /\ file'["inc"][c.name] = "whole"
            BY <1>4, <2>1, <2>4, <2>5, <3>2 DEF HealAt, HealOf, Dirs
        <3>4. hurt < 2 => HealOf(cmd[p])'
            BY <3>1, <3>3 DEF Plans, Becomes, HealOf, Linking
        <3>5. QED
            BY <1>2, <1>5, <2>3, <3>1, <3>3, <3>4 DEF Plans
    <2>7. CASE c.dir # LastDir(c.prog)
        <3>1. Becomes(p, "open", c.flags, c.name, "inc", c.names, c.links, c.unlinked, c.touched)
            BY <1>9, <2>2, <2>7, FillStep
        <3>2. c.dir = "bin"
            <4>1. c.prog = "tt" => c.dir = "bin"
                BY <1>2, <2>1 DEF ShapeOf
            <4>2. QED
                BY <1>2, <2>7, <4>1 DEF LastDir, Dirs
        <3>3. Released(c.name) /\ hurt < 2 => file'["bin"][c.name] = "whole"
            BY <2>4, <2>5, <3>2
        <3>4. hurt < 2 => HealOf(cmd[p])'
            BY <3>1, <3>3 DEF Becomes, HealOf, Linking
        <3>5. QED
            BY <1>2, <1>5, <2>1, <2>3, <3>1, <3>3, <3>4
    <2>8. QED
        BY <2>6, <2>7
<1>10. QED
    BY <1>6, <1>7, <1>8, <1>9

\* The links change, the files do not.
LEMMA HealLink ==
    ASSUME BinInv, HealInv, NEW p \in Procs,
           Stat(p) \/ Unlink(p) \/ Symlink(p) \/ Headers(p) \/ Switch(p) \/ SwitchToLatest(p)
           \/ Uninstall(p) \/ RemoveDev(p)
    PROVE  HealInv'
<1> DEFINE c == cmd[p]
<1>1. c.pc \in Linking \cup {"headers", "switch", "latest", "uninstall", "undev"} /\ UNCHANGED file
    BY StatStep, UnlinkStep, SymlinkStep, HeadersStep, SwitchStep, LatestStep, UninstallStep,
       RemoveDevStep DEF Linking
<1>2. /\ c.pc \notin {"clear", "open", "fill", "remove", "removeLink", "removeFile"}
      /\ c.pc # "idle" /\ c.pc # "fill" /\ ShapeOf(c)
    BY <1>1 DEF BinInv, Linking
<1>3. ~\E n \in Names : Changing(p, n)
    BY <1>2 DEF Changing
<1>4. Fails(p) \/ Succeeds(p) => HealInv'
    BY <1>1, <1>2, HealFails, HealSucceeds
<1>5. ASSUME NEW k, NEW f, NEW n, NEW d, NEW ns, NEW s, NEW u, NEW t,
             Becomes(p, k, f, n, d, ns, s, u, t), hurt < 2 => HealOf(cmd[p])'
      PROVE  HealInv'
    BY <1>1, <1>2, <1>3, <1>5, HealQuiet DEF Becomes
<1>6. CASE c.pc \in Linking
    <2>1. ASSUME NEW k \in Linking \cup {"headers"}, NEW s, NEW t, hurt < 2,
                 Becomes(p, k, c.flags, c.name, c.dir, c.names, s, c.unlinked, t)
          PROVE  HealOf(cmd[p])'
        <3>1. HealOf(c)
            BY <1>2, <2>1, HealFacts DEF HealAt
        <3>2. /\ cmd'[p].op = c.op /\ cmd'[p].name = c.name /\ cmd'[p].pc = k
              /\ k \notin {"open", "fill", "build", "clear"}
            BY <2>1 DEF Becomes, Moves, Linking
        <3>3. Released(c.name) /\ c.op = "install" => file'["bin"][c.name] = "whole"
            BY <1>1, <1>6, <3>1 DEF HealOf
        <3>4. QED
            BY <3>2, <3>3 DEF HealOf
    <2>2. CASE Stat(p)
        BY <1>5, <2>1, <2>2, StatStep DEF Proceeds, Linking
    <2>3. CASE Unlink(p)
        BY <1>4, <1>5, <2>1, <2>3, UnlinkStep DEF Linking
    <2>4. CASE Symlink(p)
        BY <1>4, <1>5, <2>1, <2>4, SymlinkStep DEF Linking
    <2>5. QED
        BY <1>6, <2>2, <2>3, <2>4, HeadersStep, SwitchStep, LatestStep, UninstallStep,
           RemoveDevStep DEF Linking
<1>7. CASE Headers(p)
    <2>1. c.name = Dev
        BY <1>2, <1>7, HeadersStep DEF ShapeOf
    <2>2. cmd'[p].name = Dev => HealOf(cmd[p])'
        BY NameFacts DEF HealOf, Released
    <2>3. QED
        BY <1>4, <1>5, <1>7, <2>1, <2>2, HeadersStep DEF Plans, Becomes
<1>8. CASE Switch(p) \/ SwitchToLatest(p) \/ Uninstall(p) \/ RemoveDev(p)
    <2>1. c.op # "install"
        BY <1>2, <1>8, SwitchStep, LatestStep, UninstallStep, RemoveDevStep DEF ShapeOf, Removing
    <2>2. ASSUME NEW k \in Linking \cup Removing, NEW f, NEW n, NEW d, NEW ns, NEW s, NEW u, NEW t,
                 Becomes(p, k, f, n, d, ns, s, u, t)
          PROVE  HealOf(cmd[p])'
        BY <2>1, <2>2 DEF Becomes, Moves, HealOf, Linking, Removing
    <2>3. "stat" \in Linking \cup Removing /\ {"undev", "remove", "latest"} \subseteq Linking \cup Removing
        BY DEF Linking, Removing
    <2>4. CASE Switch(p) \/ SwitchToLatest(p)
        BY <1>4, <1>5, <2>2, <2>3, <2>4, SwitchStep, LatestStep DEF Plans
    <2>5. CASE Uninstall(p) \/ RemoveDev(p)
        BY <1>4, <1>5, <2>2, <2>3, <2>5, UninstallStep, RemoveDevStep
    <2>6. QED
        BY <1>8, <2>4, <2>5
<1>9. QED
    BY <1>1, <1>6, <1>7, <1>8, StatStep, UnlinkStep, SymlinkStep DEF Linking

\* The steps of an uninstall that remove files and links.
LEMMA HealRemove ==
    ASSUME BinInv, DoneInv, HealInv, NEW p \in Procs, RemoveProgram(p) \/ RemoveLink(p) \/ RemoveFile(p)
    PROVE  HealInv'
<1> DEFINE c == cmd[p]
<1>1. c.pc \in {"remove", "removeLink", "removeFile"}
    BY RemoveProgramStep, RemoveLinkStep, RemoveFileStep
<1>2. c.op = "uninstall" /\ c.pc # "idle" /\ c.pc # "fill" /\ ShapeOf(c) /\ c.dir \in Dirs
    BY <1>1 DEF BinInv, BinTypeOK, ShapeOf, Removing, Command
<1>3. Fails(p) => HealInv'
    BY <1>2, HealFails
<1>4. ASSUME NEW k \in Removing, NEW f, NEW n, NEW d, NEW ns, NEW s, NEW u, NEW t,
             Becomes(p, k, f, n, d, ns, s, u, t)
      PROVE  HealOf(cmd[p])' /\ Moves(p)
    BY <1>2, <1>4 DEF Becomes, Moves, HealOf, Linking, Removing
<1>5. {"remove", "removeLink", "removeFile", "latest"} \subseteq Removing
    BY DEF Removing
<1>6. CASE RemoveProgram(p)
    <2>1. c.pc = "remove" /\ UNCHANGED file
        BY <1>6, RemoveProgramStep
    <2>2. c.touched => c.dir = "inc"
        BY <1>2, <2>1 DEF ShapeOf, Dirs
    <2>3. ASSUME NEW k \in {"remove", "removeLink", "removeFile"}, NEW n, NEW s,
                 Becomes(p, k, c.flags, n, c.dir, s, c.links, c.unlinked, c.touched),
                 c.dir = "inc" => n = c.name
          PROVE  HealInv'
        <3>1. \A m \in Names : Changing(p, m) => Changing(p, m)'
            BY <2>2, <2>3 DEF Changing, Becomes
        <3>2. QED
            BY <1>2, <1>4, <1>5, <2>1, <2>3, <3>1, HealQuiet
    <2>4. QED
        BY <1>3, <1>6, <2>3, RemoveProgramStep
<1>7. CASE RemoveLink(p)
    <2>1. ASSUME NEW u, Becomes(p, "removeFile", c.flags, c.name, c.dir, c.names, c.links, u, TRUE)
          PROVE  HealInv'
        <3>1. \A m \in Names : Changing(p, m) => Changing(p, m)'
            BY <2>1 DEF Changing, Becomes
        <3>2. QED
            BY <1>2, <1>4, <1>5, <1>7, <2>1, <3>1, HealQuiet, RemoveLinkStep
    <2>2. QED
        BY <1>3, <1>7, <2>1, RemoveLinkStep
<1>8. CASE RemoveFile(p)
    <2>1. c.pc = "removeFile" /\ FilePut(c.dir, c.name, "absent")
        BY <1>8, RemoveFileStep
    <2>2. PICK n \in Names : n = c.name /\ n.prog = c.prog
        BY <1>2, <2>1 DEF ShapeOf
    <2>3. FilePut(c.dir, n, "absent") /\ file'[c.dir][n] = "absent"
        BY <1>2, <2>1, <2>2 DEF FilePut
    <2>4. CASE c.dir # LastDir(c.prog)
        <3>1. Becomes(p, "remove", c.flags, c.name, "inc", <<c.name>>, c.links, c.unlinked, TRUE)
            BY <1>8, <2>4, RemoveFileStep
        <3>2. Released(n) => c.dir = "bin"
            BY <1>2, <2>2, <2>4 DEF Released, LastDir, Dirs
        <3>3. Changing(p, n)' /\ Others(p) /\ hurt' = hurt
            BY <2>2, <3>1 DEF Changing, Becomes, Moves
        <3>4. QED
            BY <1>2, <1>4, <1>5, <2>2, <2>3, <3>1, <3>2, <3>3, HealPut
    <2>5. CASE c.dir = LastDir(c.prog)
        <3>1. Others(p) /\ hurt' = hurt /\ HealOf(cmd[p])'
            <4>1. Succeeds(p) => Others(p) /\ hurt' = hurt /\ HealOf(cmd[p])'
                BY DEF Succeeds, Ended, HealOf, Linking
            <4>2. Proceeds(p, "latest") => Others(p) /\ hurt' = hurt /\ HealOf(cmd[p])'
                BY <1>4, <1>5 DEF Proceeds, Moves
            <4>3. QED
                BY <1>8, <2>5, <4>1, <4>2, RemoveFileStep
        <3>2. Released(n) /\ hurt < 2 => file'["bin"][n] = "absent" /\ file'["inc"][n] = "absent"
            <4>1. Released(n) => c.dir = "inc" /\ c.prog # "tarantool-dev"
                BY <2>2, <2>5, NameFacts DEF Released, LastDir, Programs
            <4>2. Released(n) /\ hurt < 2 => file["bin"][n] = "absent"
                BY <1>2, <2>1, <2>2, <4>1, HealFacts DEF DoneInv, DoneOf, Clean
            <4>3. QED
                BY <2>3, <4>1, <4>2 DEF FilePut, Dirs
        <3>3. Released(n) /\ hurt < 2 => file'["bin"][n] # "torn" /\ Both(n)'
            BY <3>2 DEF Both
        <3>4. QED
            BY <1>2, <2>2, <2>3, <3>1, <3>3, HealPut
    <2>6. QED
        BY <2>4, <2>5
<1>9. QED
    BY <1>6, <1>7, <1>8

\* HealInv holds at first.
LEMMA HealInit ==
    ASSUME Init
    PROVE  HealInv
<1>1. \A p \in Procs : HealOf(cmd[p])
    BY InitFacts DEF HealOf, Linking
<1>2. \A n \in Names : file["bin"][n] # "torn"
    BY InitFacts DEF Dirs
<1>3. \A n \in Names : Released(n) => Both(n)
    BY InitFacts DEF Released, Both
<1>4. QED
    BY <1>1, <1>2, <1>3 DEF HealInv

\* Starting a command.
LEMMA HealStart ==
    ASSUME BinInv, HealInv, NEW p \in Procs, NEW r \in Requests, Start(p, r)
    PROVE  HealInv'
<1>1. UNCHANGED file /\ cmd[p].pc = "idle"
    BY StartStep
<1>2. CASE Busy(p)
    <2>1. ~(hurt' < 2)
        BY <1>2, StartStep, SMT
    <2>2. QED
        BY <2>1 DEF HealInv
<1>3. CASE ~Busy(p)
    <2>1. hurt' = hurt /\ \A q \in Procs : cmd[q].pc = "idle"
        BY <1>1, <1>3, StartStep DEF Busy
    <2>2. \A q \in Procs : cmd'[q].pc \in {"idle", "install", "uninstall", "switch"}
        BY <1>1, <2>1, StartStep
    <2>3. \A q \in Procs : HealOf(cmd[q])'
        BY <2>2 DEF HealOf, Linking
    <2>4. ASSUME NEW n \in Names, Released(n), hurt < 2
          PROVE  /\ file["bin"][n] = "torn" => file["inc"][n] = "absent"
                 /\ hurt = 0 => Both(n)
        BY <2>1, <2>4 DEF HealInv, Changing
    <2>5. ASSUME NEW n \in Names, Released(n), hurt < 2
          PROVE  /\ file'["bin"][n] = "torn" => file'["inc"][n] = "absent"
                 /\ hurt = 0 => Both(n)'
        BY <1>1, <2>4, <2>5 DEF Both
    <2>6. QED
        BY <2>1, <2>3, <2>5 DEF HealInv
<1>4. QED
    BY <1>2, <1>3

\* A step that leaves files, links and commands alone.
LEMMA HealSame ==
    ASSUME HealInv, UNCHANGED <<file, cmd, hurt>>
    PROVE  HealInv'
BY SMT DEF HealInv, HealOf, Installed, Present, Both, Changing, Released

\* Every step keeps HealInv.
LEMMA HealNext ==
    ASSUME BinInv, DoneInv, HealInv, [Next]_vars
    PROVE  HealInv'
<1>1. \A p \in Procs : Interrupt(p) => HealInv'
    BY InterruptStep, HealFails
<1>2. BuildDirGone \/ UNCHANGED vars => HealInv'
    BY GoneStep, HealSame DEF vars
<1>3. QED
    BY <1>1, <1>2, HealStart, HealInstall, HealCopy, HealLink, HealRemove DEF Next

\* Until commands overlap or two of them have stopped half-way, a binary that was only begun to be
\* copied has no headers.
THEOREM TornHasNoHeaders == Spec => [](BinInv /\ DoneInv /\ HealInv)
<1>1. Init => HealInv
    BY HealInit
<1>2. BinInv /\ DoneInv /\ HealInv /\ [Next]_vars => HealInv'
    BY HealNext
<1>3. QED
    BY <1>1, <1>2, BinariesInvariance, PTL DEF Spec

\* After at most one command that stopped half-way, a successful install of a released tarantool
\* leaves a whole binary (HealsAfterOneFault), for any sets of programs, versions and commands.
THEOREM InstallHeals == Spec => HealsAfterOneFault
<1> DEFINE Heals(p) ==
               (Ends(p, "install") /\ hurt <= 1 /\ "docker" \notin cmd[p].flags
                  /\ cmd[p].prog \in {"tarantool", "tarantool-ee"} /\ cmd[p].name.ver # "master") =>
                      file'["bin"][cmd[p].name] = "whole"
<1>1. ASSUME BinInv, DoneInv, HealInv, [Next]_vars, NEW p \in Procs
      PROVE  Heals(p)
    <2> DEFINE c == cmd[p]
    <2>1. SUFFICES ASSUME Ends(p, "install"), hurt <= 1, "docker" \notin c.flags,
                          c.prog \in {"tarantool", "tarantool-ee"}, c.name.ver # "master"
                   PROVE  file'["bin"][c.name] = "whole"
        OBVIOUS
    <2>2. c.pc # "idle" /\ cmd'[p].pc = "idle" /\ cmd'[p].res = "ok" /\ c.op = "install"
        BY <2>1 DEF Ends, At
    <2>3. ShapeOf(c) /\ hurt < 2
        <3>1. hurt < 2
            BY <1>1, <2>1, SMTT(30) DEF BinInv, BinTypeOK
        <3>2. QED
            BY <1>1, <3>1 DEF BinInv
    <2>4. Symlink(p)
        <3>1. ~InstallInDocker(p)
            BY <1>1, <2>1, <2>3, DockerStep DEF ShapeOf
        <3>2. ~Headers(p)
            BY <1>1, <2>1, <2>3, HeadersStep DEF ShapeOf
        <3>3. ~RemoveFile(p) /\ ~SwitchToLatest(p)
            BY <1>1, <2>2, <2>3, RemoveFileStep, LatestStep DEF ShapeOf, Removing
        <3>4. QED
            BY <1>1, <2>2, <3>1, <3>2, <3>3, SuccessSteps DEF Concludes
    <2>5. c.pc = "symlink" /\ UNCHANGED file
        BY <1>1, <2>4, SymlinkStep
    <2>6. c.name \in Targets /\ c.name.prog = c.prog
        BY <1>1, <2>2, <2>5, LinkingFacts DEF Linking
    <2>7. Released(c.name)
        BY <2>1, <2>6, NameFacts, TargetFacts DEF Released
    <2>8. QED
        BY <1>1, <2>2, <2>3, <2>5, <2>7, HealFacts DEF HealAt, HealOf, Linking
<1>2. BinInv /\ DoneInv /\ HealInv /\ [Next]_vars => [\A p \in Procs : Heals(p)]_vars
    BY <1>1
<1>3. QED
    BY <1>2, TornHasNoHeaders, PTL DEF Spec, HealsAfterOneFault

-----------------------------------------------------------------------------
(* RaceInv: any number of installs and switches at once, none of them      *)
(* interrupted, and no uninstall.                                          *)

\* Nobody else's part changes when p takes a step.
LEMMA OthersKeep ==
    ASSUME NEW p \in Procs, Others(p), NEW q \in Procs, q # p, NEW n, NEW l
    PROVE  /\ Fills(q, n)' <=> Fills(q, n)
           /\ Renews(q, n)' <=> Renews(q, n)
           /\ Relinks(q, l)' <=> Relinks(q, l)
           /\ Completes(q, n)' <=> Completes(q, n)
           /\ Wants(q, n)' <=> Wants(q, n)
<1>1. cmd'[q] = cmd[q]
    BY DEF Others
<1>2. QED
    BY <1>1 DEF Fills, Renews, Relinks, Completes, Wants

\* No version is counted on that was not before, unless p or a new link counts on it.
LEMMA NeededKept ==
    ASSUME NEW p \in Procs, Others(p), NEW n, Wants(p, n)' => Needed(n),
           \A l \in LinkNames : link'["bin"][l] = n => Needed(n)
    PROVE  Needed(n)' => Needed(n)
BY OthersKeep DEF Needed

Racing == faults = 0 /\ ~removals

\* What p has to see to: RaceInv holds afterwards when what changes is p's doing.
LEMMA RaceFrame ==
    ASSUME BinInv, RaceInv, NEW p \in Procs, Others(p), faults' = 0 => faults = 0,
           cmd'[p].op \in {cmd[p].op, "none"},
           Racing => \A n \in Names : file'["bin"][n] = "torn" =>
               \/ Fills(p, n)'
               \/ \E q \in Procs : q # p /\ Fills(q, n)
               \/ file["bin"][n] = "torn" /\ ~Fills(p, n),
           Racing => \A n \in Names : Needed(n)' /\ file'["bin"][n] = "absent" =>
               \/ Renews(p, n)'
               \/ Needed(n) /\ file["bin"][n] = "absent" /\ ~Renews(p, n)
               \/ \E q \in Procs : q # p /\ Renews(q, n),
           Racing => \A n \in Names : file'[LastDir(n.prog)][n] # "absent" =>
               \/ link'["bin"][LinkOf(n.prog)] # None
               \/ Relinks(p, LinkOf(n.prog))' \/ Completes(p, n)'
               \/ /\ file[LastDir(n.prog)][n] # "absent" /\ link["bin"][LinkOf(n.prog)] = None
                  /\ ~Relinks(p, LinkOf(n.prog)) /\ ~Completes(p, n)
    PROVE  RaceInv'
<1>1. SUFFICES ASSUME faults' = 0, ~removals'
               PROVE  RaceInv'
    BY DEF RaceInv
<1>2. Racing
    BY <1>1 DEF Racing, Others
<1>3. ASSUME NEW q \in Procs
      PROVE  cmd'[q].op # "uninstall"
    BY <1>2 DEF Racing, RaceInv, Others
<1>4. ASSUME NEW n \in Names, file'["bin"][n] = "torn"
      PROVE  \E q \in Procs : Fills(q, n)'
    <2>1. (\E q \in Procs : q # p /\ Fills(q, n)) => \E q \in Procs : Fills(q, n)'
        BY OthersKeep
    <2>2. file["bin"][n] = "torn" => \E q \in Procs : Fills(q, n)
        BY <1>2 DEF Racing, RaceInv
    <2>3. QED
        BY <1>2, <1>4, <2>1, <2>2
<1>5. ASSUME NEW n \in Names, Needed(n)', file'["bin"][n] = "absent"
      PROVE  \E q \in Procs : Renews(q, n)'
    <2>1. (\E q \in Procs : q # p /\ Renews(q, n)) => \E q \in Procs : Renews(q, n)'
        BY OthersKeep
    <2>2. Needed(n) /\ file["bin"][n] = "absent" => \E q \in Procs : Renews(q, n)
        BY <1>2 DEF Racing, RaceInv
    <2>3. QED
        BY <1>2, <1>5, <2>1, <2>2
<1>6. ASSUME NEW n \in Names, file'[LastDir(n.prog)][n] # "absent"
      PROVE  \/ link'["bin"][LinkOf(n.prog)] # None
             \/ \E q \in Procs : Relinks(q, LinkOf(n.prog))' \/ Completes(q, n)'
    <2>1. PICK l : l = LinkOf(n.prog)
        OBVIOUS
    <2>2. (\E q \in Procs : q # p /\ (Relinks(q, l) \/ Completes(q, n))) =>
              \E q \in Procs : Relinks(q, l)' \/ Completes(q, n)'
        BY OthersKeep
    <2>3. file[LastDir(n.prog)][n] # "absent" /\ link["bin"][l] = None =>
              \E q \in Procs : Relinks(q, l) \/ Completes(q, n)
        BY <1>2, <2>1 DEF Racing, RaceInv
    <2>4. QED
        BY <1>2, <1>6, <2>1, <2>2, <2>3
<1>7. QED
    BY <1>3, <1>4, <1>5, <1>6 DEF RaceInv

\* The files and links stay as they are, and p gives up nothing that RaceInv relies on.
LEMMA RaceQuiet ==
    ASSUME BinInv, RaceInv, NEW p \in Procs, Others(p), faults' = 0 => faults = 0,
           UNCHANGED <<file, link>>, cmd'[p].op \in {cmd[p].op, "none"},
           \A n \in Names : ~Fills(p, n) /\ ~Renews(p, n),
           \A n \in Names : Completes(p, n) => file[LastDir(n.prog)][n] = "absent",
           \A l \in LinkNames : Relinks(p, l) => Relinks(p, l)' \/ link["bin"][l] # None,
           Racing => \A n \in Names : Wants(p, n)' => Wants(p, n) \/ file["bin"][n] # "absent"
    PROVE  RaceInv'
<1>1. ASSUME NEW n \in Names, file'["bin"][n] = "torn"
      PROVE  file["bin"][n] = "torn" /\ ~Fills(p, n)
    BY <1>1
<1>2. ASSUME NEW n \in Names, Needed(n)', file'["bin"][n] = "absent", Racing
      PROVE  Needed(n) /\ file["bin"][n] = "absent" /\ ~Renews(p, n)
    <2>1. Wants(p, n)' => Needed(n)
        BY <1>2 DEF Needed
    <2>2. \A l \in LinkNames : link'["bin"][l] = n => Needed(n)
        BY DEF Needed
    <2>3. QED
        BY <1>2, <2>1, <2>2, NeededKept
<1>3. ASSUME NEW n \in Names, file'[LastDir(n.prog)][n] # "absent", link'["bin"][LinkOf(n.prog)] = None
      PROVE  \/ Relinks(p, LinkOf(n.prog))'
             \/ /\ file[LastDir(n.prog)][n] # "absent" /\ link["bin"][LinkOf(n.prog)] = None
                /\ ~Relinks(p, LinkOf(n.prog)) /\ ~Completes(p, n)
    <2>1. LinkOf(n.prog) \in LinkNames
        BY DEF LinkOf, LinkNames
    <2>2. QED
        BY <1>3, <2>1
<1>4. QED
    BY <1>1, <1>2, <1>3, RaceFrame

\* A link tells its directory and its target.
LEMMA LinkForIs ==
    ASSUME NEW d, NEW e, NEW m, NEW n, LinkFor(d, m) = LinkFor(e, n)
    PROVE  d = e /\ m = n
<1>1. /\ LinkFor(d, m).dir = d /\ LinkFor(d, m).to = m
      /\ LinkFor(e, n).dir = e /\ LinkFor(e, n).to = n
    BY DEF LinkFor
<1>2. QED
    BY <1>1

\* A command that ends wants nothing.
LEMMA RaceEnds ==
    ASSUME BinInv, RaceInv, NEW p \in Procs, NEW t, Ended(p, t), UNCHANGED <<file, link>>,
           \A n \in Names : ~Fills(p, n) /\ ~Renews(p, n),
           \A n \in Names : Completes(p, n) => file[LastDir(n.prog)][n] = "absent",
           \A l \in LinkNames : Relinks(p, l) => link["bin"][l] # None
    PROVE  RaceInv'
<1>1. /\ Others(p) /\ (faults' = 0 => faults = 0) /\ cmd'[p].pc = "idle"
      /\ cmd'[p].op \in {cmd[p].op, "none"}
    BY DEF Ended
<1>2. \A n \in Names : ~Wants(p, n)'
    BY <1>1 DEF Wants, Linking
<1>3. QED
    BY <1>1, <1>2, RaceQuiet

\* The steps of an install or a switch before it touches anything: it counts on what it found
\* there.
LEMMA RaceInstall ==
    ASSUME BinInv, RaceInv, NEW p \in Procs,
           \/ Install(p) \/ ProbeTt(p) \/ ProbeTarantool(p) \/ ProbeTarantoolEE(p)
           \/ InstallInDocker(p) \/ BuildTt(p) \/ BuildTarantool(p) \/ GetTarantoolEE(p)
           \/ Switch(p)
    PROVE  RaceInv'
<1> DEFINE c == cmd[p]
<1>1. c.pc \in {"install", "probe", "docker", "build", "switch"} /\ UNCHANGED <<file, link>>
    BY InstallStep, ProbeStep, DockerStep, BuildStep, SwitchStep DEF Fails
<1>2. /\ \A n \in Names : ~Fills(p, n) /\ ~Renews(p, n) /\ ~Completes(p, n)
      /\ \A l \in LinkNames : ~Relinks(p, l)
    BY <1>1 DEF Fills, Renews, Completes, Relinks
<1>3. Fails(p) \/ Succeeds(p) => RaceInv'
    BY <1>1, <1>2, RaceEnds DEF Fails, Succeeds
<1>4. ASSUME Moves(p), \A n \in Names : Wants(p, n)' => file["bin"][n] # "absent"
      PROVE  RaceInv'
    <2>1. Others(p) /\ (faults' = 0 => faults = 0) /\ cmd'[p].op \in {cmd[p].op, "none"}
        BY <1>4 DEF Moves
    <2>2. QED
        BY <1>1, <1>2, <1>4, <2>1, RaceQuiet
<1>5. ASSUME NEW k \in {"probe", "docker", "build"}, NEW f, NEW n, NEW d, NEW ns, NEW s, NEW u, NEW t,
             Becomes(p, k, f, n, d, ns, s, u, t)
      PROVE  RaceInv'
    <2>1. Moves(p) /\ \A m \in Names : ~Wants(p, m)'
        BY <1>5 DEF Becomes, Wants, Linking
    <2>2. QED
        BY <1>4, <2>1
<1>6. ASSUME NEW t \in Targets, NEW m, NEW s, Plans(p, m, s), Head(s) = LinkFor("bin", t),
             t \in Names => Installed(t)
      PROVE  RaceInv'
    <2>1. Moves(p) /\ cmd'[p].pc = "stat" /\ Head(cmd'[p].links) = LinkFor("bin", t)
        BY <1>6 DEF Plans, Becomes
    <2>2. \A n \in Names : Wants(p, n)' => n = t
        BY <2>1, LinkForIs DEF Wants
    <2>3. t \in Names => file["bin"][t] # "absent"
        BY <1>6, InstalledIs DEF Present
    <2>4. QED
        BY <1>4, <2>1, <2>2, <2>3
<1>7. ASSUME NEW n \in Names, NEW m, Installed(n), Plans(p, m, LinksTo(n.prog, n))
      PROVE  RaceInv'
    BY <1>6, <1>7, LinksToIs DEF Targets
<1>8. CASE Install(p)
    <2>1. Head(<<LinkFor("bin", Dev)>>) = LinkFor("bin", Dev)
        BY SMT
    <2>2. Plans(p, Dev, <<LinkFor("bin", Dev)>>) => RaceInv'
        BY <1>6, <2>1, NameFacts DEF Targets
    <2>3. QED
        BY <1>3, <1>5, <1>8, <2>2, InstallStep
<1>9. CASE ProbeTt(p) \/ ProbeTarantool(p) \/ ProbeTarantoolEE(p)
    <2>1. c.name \in Names /\ c.name.prog = c.prog
        BY <1>9, ProbeStep DEF BinInv, ShapeOf, Installing
    <2>2. Installed(c.name) /\ Plans(p, c.name, LinksTo(c.prog, c.name)) => RaceInv'
        BY <1>7, <2>1
    <2>3. ASSUME NEW k \in {"build", "docker"}, NEW f,
                 Becomes(p, k, f, c.name, c.dir, c.names, c.links, c.unlinked, c.touched)
          PROVE  RaceInv'
        BY <1>5, <2>3
    <2>4. QED
        BY <1>3, <1>9, <2>2, <2>3, ProbeStep, ZenonT(60)
<1>10. CASE InstallInDocker(p)
    BY <1>3, <1>5, <1>10, DockerStep
<1>11. CASE BuildTt(p) \/ BuildTarantool(p) \/ GetTarantoolEE(p)
    <2>1. c.dir = "bin"
        BY <1>11, BuildStep DEF BinInv, ShapeOf
    <2>2. ASSUME NEW k \in {"clear", "open"}, Proceeds(p, k)
          PROVE  RaceInv'
        <3>1. Moves(p) /\ \A m \in Names : ~Wants(p, m)'
            BY <2>1, <2>2 DEF Proceeds, Becomes, Wants, Linking
        <3>2. QED
            BY <1>4, <3>1
    <2>3. QED
        BY <1>11, <2>2, BuildStep
<1>12. CASE Switch(p)
    BY <1>3, <1>7, <1>12, SwitchStep
<1>13. QED
    BY <1>8, <1>9, <1>10, <1>11, <1>12

\* A command that links: the link of bin_dir that it removes it sets again, or another one has.
LEMMA RaceLink ==
    ASSUME BinInv, RaceInv, NEW p \in Procs, Stat(p) \/ Unlink(p) \/ Symlink(p) \/ Headers(p)
    PROVE  RaceInv'
<1> DEFINE c == cmd[p]
           h == Head(c.links)
<1>1. c.pc \in {"stat", "unlink", "symlink", "headers"} /\ UNCHANGED file
    BY StatStep, UnlinkStep, SymlinkStep, HeadersStep
<1>2. \A n \in Names : ~Fills(p, n) /\ ~Renews(p, n) /\ ~Completes(p, n)
    BY <1>1 DEF Fills, Renews, Completes
<1>3. ASSUME Others(p), faults' = 0 => faults = 0, cmd'[p].op \in {cmd[p].op, "none"},
             \A n \in Names : Wants(p, n)' => Wants(p, n),
             \A l \in LinkNames : link'["bin"][l] # link["bin"][l] =>
                 \/ link'["bin"][l] # None /\ \A n \in Names : link'["bin"][l] = n => Wants(p, n)
                 \/ link'["bin"][l] = None /\ Relinks(p, l)',
             \A l \in LinkNames : link'["bin"][l] = None /\ Relinks(p, l) => Relinks(p, l)'
      PROVE  RaceInv'
    <2>1. \A n \in Names : file'["bin"][n] = "torn" => file["bin"][n] = "torn" /\ ~Fills(p, n)
        BY <1>1, <1>2
    <2>2. ASSUME NEW n \in Names, Needed(n)', file'["bin"][n] = "absent"
          PROVE  Needed(n) /\ file["bin"][n] = "absent" /\ ~Renews(p, n)
        <3>1. Wants(p, n)' => Needed(n)
            BY <1>3 DEF Needed
        <3>2. ASSUME NEW l \in LinkNames, link'["bin"][l] = n
              PROVE  Needed(n)
            <4>1. link["bin"][l] = n \/ Wants(p, n)
                BY <1>3, <3>2, NameFacts
            <4>2. QED
                BY <4>1 DEF Needed
        <3>3. QED
            BY <1>1, <1>2, <1>3, <2>2, <3>1, <3>2, NeededKept
    <2>3. ASSUME NEW n \in Names, file'[LastDir(n.prog)][n] # "absent"
          PROVE  \/ link'["bin"][LinkOf(n.prog)] # None
                 \/ Relinks(p, LinkOf(n.prog))'
                 \/ /\ file[LastDir(n.prog)][n] # "absent" /\ link["bin"][LinkOf(n.prog)] = None
                    /\ ~Relinks(p, LinkOf(n.prog)) /\ ~Completes(p, n)
        <3>1. LinkOf(n.prog) \in LinkNames
            BY DEF LinkOf, LinkNames
        <3>2. QED
            BY <1>1, <1>2, <1>3, <2>3, <3>1
    <2>4. QED
        BY <1>3, <2>1, <2>2, <2>3, RaceFrame
<1>4. ASSUME c.pc \in Linking
      PROVE  /\ h.to \in Targets /\ h.dir \in Dirs /\ h.name \in LinkNames /\ h = LinkFor(h.dir, h.to)
             /\ PlanOf(c.links, h.to) /\ h.to # None
    BY <1>4, LinkingFacts, NameFacts, BinariesAssumption DEF Targets
<1>5. ASSUME Fails(p), \A l \in LinkNames : Relinks(p, l) => link["bin"][l] # None
      PROVE  RaceInv'
    BY <1>2, <1>5, RaceEnds DEF Fails
<1>6. ASSUME Moves(p) \/ Succeeds(p)
      PROVE  Others(p) /\ (faults' = 0 => faults = 0) /\ cmd'[p].op \in {cmd[p].op, "none"}
    BY <1>6 DEF Moves, Succeeds, Ended
<1>7. CASE Stat(p)
    <2>1. ASSUME NEW k \in {"unlink", "symlink"}, Proceeds(p, k), k = "unlink" => Resolves(h.dir, h.name)
          PROVE  RaceInv'
        <3>1. Moves(p) /\ cmd'[p].pc = k /\ cmd'[p].links = c.links /\ UNCHANGED link /\ c.pc = "stat"
            BY <1>7, <2>1, StatStep DEF Proceeds, Becomes
        <3>2. \A n \in Names : Wants(p, n)' => Wants(p, n)
            BY <2>1, <3>1 DEF Wants, Linking
        <3>3. \A l \in LinkNames : link'["bin"][l] = None /\ Relinks(p, l) => Relinks(p, l)'
            BY <2>1, <3>1 DEF Relinks, Resolves
        <3>4. QED
            BY <1>3, <1>6, <3>1, <3>2, <3>3
    <2>2. QED
        BY <1>7, <2>1, StatStep
<1>8. CASE Unlink(p)
    <2>1. c.pc = "unlink" /\ \A l \in LinkNames : ~Relinks(p, l)
        BY <1>8, UnlinkStep DEF Relinks
    <2>2. ASSUME LinkPut(h.dir, h.name, None),
                 Becomes(p, "symlink", c.flags, c.name, c.dir, c.names, c.links, c.unlinked, TRUE)
          PROVE  RaceInv'
        <3>1. Moves(p) /\ cmd'[p].pc = "symlink" /\ cmd'[p].links = c.links
            BY <2>2 DEF Becomes
        <3>2. \A n \in Names : Wants(p, n)' => Wants(p, n)
            BY <2>1, <3>1 DEF Wants, Linking
        <3>3. ASSUME NEW l \in LinkNames, link'["bin"][l] # link["bin"][l]
              PROVE  link'["bin"][l] = None /\ Relinks(p, l)'
            <4>1. h.dir = "bin" /\ h.name = l /\ link'["bin"][l] = None
                BY <2>2, <3>3 DEF LinkPut, Dirs
            <4>2. QED
                BY <3>1, <4>1 DEF Relinks
        <3>4. QED
            BY <1>3, <1>6, <2>1, <3>1, <3>2, <3>3
    <2>3. QED
        BY <1>5, <1>8, <2>1, <2>2, UnlinkStep
<1>9. CASE Symlink(p)
    <2>1. c.pc = "symlink" /\ c.pc \in Linking
        BY <1>9, SymlinkStep DEF Linking
    <2>2. Fails(p) /\ link[h.dir][h.name] # None => RaceInv'
        BY <1>5, <2>1 DEF Relinks
    <2>3. ASSUME LinkPut(h.dir, h.name, h.to), Moves(p) \/ Succeeds(p), \A n \in Names : ~Wants(p, n)'
          PROVE  RaceInv'
        <3>1. ASSUME NEW l \in LinkNames, link'["bin"][l] # link["bin"][l]
              PROVE  link'["bin"][l] # None /\ \A n \in Names : link'["bin"][l] = n => Wants(p, n)
            <4>1. h.dir = "bin" /\ h.name = l /\ link'["bin"][l] = h.to
                BY <2>3, <3>1 DEF LinkPut, Dirs
            <4>2. \A n \in Names : n = h.to => Wants(p, n)
                BY <1>4, <2>1, <4>1 DEF Wants
            <4>3. QED
                BY <1>4, <2>1, <4>1, <4>2
        <3>2. ASSUME NEW l \in LinkNames, Relinks(p, l)
              PROVE  link'["bin"][l] # None
            <4>1. h.dir = "bin" /\ h.name = l
                BY <3>2 DEF Relinks
            <4>2. link'["bin"][l] = h.to
                BY <2>3, <4>1 DEF LinkPut, Dirs
            <4>3. QED
                BY <1>4, <2>1, <4>2
        <3>3. QED
            BY <1>3, <1>6, <2>3, <3>1, <3>2
    <2>4. Succeeds(p) => \A n \in Names : ~Wants(p, n)'
        BY DEF Succeeds, Ended, Wants, Linking
    <2>5. ASSUME Tail(c.links) # <<>>,
                 Becomes(p, "stat", c.flags, c.name, c.dir, c.names, Tail(c.links), c.unlinked, TRUE)
          PROVE  Moves(p) /\ \A n \in Names : ~Wants(p, n)'
        <3>1. Moves(p) /\ cmd'[p].pc = "stat" /\ cmd'[p].links = Tail(c.links)
            BY <2>5 DEF Becomes
        <3>2. h.dir = "bin" /\ h.to.prog # "tt" /\ h.to # Dev
            BY <1>4, <2>1, <2>5, PlanFacts, ZenonT(60) DEF Dirs
        <3>3. Head(Tail(c.links)).dir = "inc"
            BY <1>4, <2>1, <3>2, PlanFacts DEF Targets
        <3>4. \A n : LinkFor("bin", n).dir = "bin"
            BY DEF LinkFor
        <3>5. QED
            BY <3>1, <3>3, <3>4 DEF Wants
    <2>6. ASSUME Becomes(p, "headers", c.flags, c.name, c.dir, c.names, Tail(c.links), c.unlinked, TRUE)
          PROVE  Moves(p) /\ \A n \in Names : ~Wants(p, n)'
        BY <2>6 DEF Becomes, Wants, Linking
    <2>7. QED
        BY <1>9, <2>2, <2>3, <2>4, <2>5, <2>6, SymlinkStep
<1>10. CASE Headers(p)
    <2>1. c.pc = "headers" /\ \A l \in LinkNames : ~Relinks(p, l)
        BY <1>10, HeadersStep DEF Relinks
    <2>2. ASSUME LinkPut("inc", "tarantool", None), Moves(p) \/ Succeeds(p), \A n \in Names : ~Wants(p, n)'
          PROVE  RaceInv'
        <3>1. \A l \in LinkNames : link'["bin"][l] = link["bin"][l]
            BY <2>2 DEF LinkPut, Dirs
        <3>2. QED
            BY <1>3, <1>6, <2>1, <2>2, <3>1
    <2>3. Succeeds(p) => \A n \in Names : ~Wants(p, n)'
        BY DEF Succeeds, Ended, Wants, Linking
    <2>4. ASSUME Plans(p, c.name, <<LinkFor("inc", Dev)>>)
          PROVE  Moves(p) /\ \A n \in Names : ~Wants(p, n)'
        <3>1. Head(<<LinkFor("inc", Dev)>>) = LinkFor("inc", Dev)
            BY SMT
        <3>2. Moves(p) /\ cmd'[p].pc = "stat" /\ Head(cmd'[p].links) = LinkFor("inc", Dev)
            BY <2>4, <3>1 DEF Plans, Becomes
        <3>3. QED
            BY <3>2, LinkForIs, ZenonT(60) DEF Wants
    <2>5. QED
        BY <1>5, <1>10, <2>1, <2>2, <2>3, <2>4, HeadersStep
<1>11. QED
    BY <1>7, <1>8, <1>9, <1>10

\* A step that copies or clears a file of n disturbs nothing but what concerns n.
LEMMA RaceFile ==
    ASSUME BinInv, RaceInv, NEW p \in Procs, Moves(p), UNCHANGED link,
           NEW n \in Names, n = cmd[p].name, cmd[p].pc \in {"clear", "open", "fill"},
           NEW e \in Dirs, NEW x, FilePut(e, n, x),
           \A m \in Names : Wants(p, m)' => m = n,
           Racing /\ file'["bin"][n] = "torn" =>
               \/ Fills(p, n)'
               \/ \E q \in Procs : q # p /\ Fills(q, n)
               \/ file["bin"][n] = "torn" /\ ~Fills(p, n),
           Racing /\ file'["bin"][n] = "absent" =>
               \/ Renews(p, n)'
               \/ Wants(p, n) /\ file["bin"][n] = "absent" /\ ~Renews(p, n),
           Racing /\ file'[LastDir(n.prog)][n] # "absent" =>
               \/ Relinks(p, LinkOf(n.prog))' \/ Completes(p, n)'
               \/ file[LastDir(n.prog)][n] # "absent" /\ ~Completes(p, n)
    PROVE  RaceInv'
<1>1. Others(p) /\ (faults' = 0 => faults = 0) /\ cmd'[p].op \in {cmd[p].op, "none"}
    BY DEF Moves
<1>2. ASSUME NEW m \in Names, m # n
      PROVE  /\ \A d \in Dirs : file'[d][m] = file[d][m]
             /\ ~Fills(p, m) /\ ~Renews(p, m) /\ ~Completes(p, m)
             /\ Needed(m)' => Needed(m)
    <2>1. ~Wants(p, m)'
        BY <1>2
    <2>2. \A l \in LinkNames : link'["bin"][l] = m => Needed(m)
        BY DEF Needed
    <2>3. QED
        BY <1>1, <1>2, <2>1, <2>2, NeededKept DEF FilePut, Fills, Renews, Completes
<1>3. \A l : ~Relinks(p, l)
    BY DEF Relinks
<1>4. \A m \in Names : LastDir(m.prog) \in Dirs /\ "bin" \in Dirs
    BY DEF LastDir, Dirs
<1>5. ASSUME NEW m \in Names, Racing, file'["bin"][m] = "torn"
      PROVE  \/ Fills(p, m)'
             \/ \E q \in Procs : q # p /\ Fills(q, m)
             \/ file["bin"][m] = "torn" /\ ~Fills(p, m)
    <2>1. CASE m = n
        BY <1>5, <2>1 DEF Fills
    <2>2. CASE m # n
        BY <1>2, <1>4, <1>5, <2>2
    <2>3. QED
        BY <2>1, <2>2
<1>6. ASSUME NEW m \in Names, Racing, Needed(m)', file'["bin"][m] = "absent"
      PROVE  \/ Renews(p, m)'
             \/ Needed(m) /\ file["bin"][m] = "absent" /\ ~Renews(p, m)
    <2>1. CASE m = n
        BY <1>6, <2>1 DEF Renews, Needed
    <2>2. CASE m # n
        BY <1>2, <1>4, <1>6, <2>2
    <2>3. QED
        BY <2>1, <2>2
<1>7. ASSUME NEW m \in Names, Racing, file'[LastDir(m.prog)][m] # "absent", link'["bin"][LinkOf(m.prog)] = None
      PROVE  \/ Relinks(p, LinkOf(m.prog))' \/ Completes(p, m)'
             \/ file[LastDir(m.prog)][m] # "absent" /\ ~Completes(p, m)
    <2>1. CASE m = n
        BY <1>7, <2>1 DEF Relinks, Completes
    <2>2. CASE m # n
        BY <1>2, <1>4, <1>7, <2>2
    <2>3. QED
        BY <2>1, <2>2
<1>8. QED
    BY <1>1, <1>3, <1>5, <1>6, <1>7, RaceFrame

\* The steps that remove and copy files: who removes a binary copies it again, and who tears one
\* fills it.
LEMMA RaceCopies ==
    ASSUME BinInv, RaceInv, NEW p \in Procs, ClearTt(p) \/ ClearTarantool(p) \/ Open(p) \/ Fill(p)
    PROVE  RaceInv'
<1> DEFINE c == cmd[p]
<1>1. c.pc \in {"clear", "open", "fill"} /\ UNCHANGED link
    BY ClearTtStep, ClearTarantoolStep, OpenStep, FillStep, ZenonT(60)
<1>2. /\ c.dir \in Dirs /\ c.name \in Names /\ c.name.prog = c.prog /\ (c.prog = "tt" => c.dir = "bin")
    BY <1>1 DEF BinInv, BinTypeOK, ShapeOf, Installing, Command
<1>3. PICK n \in Names : n = c.name
    BY <1>2
<1>4. PICK d \in Dirs : d = c.dir
    BY <1>2
<1>5. PICK z \in Dirs : z = LastDir(n.prog)
    BY DEF LastDir, Dirs
<1>6. (n.prog = "tt" => z = "bin" /\ d = "bin") /\ (n.prog # "tt" => z = "inc")
    BY <1>2, <1>3, <1>4, <1>5 DEF LastDir
<1>7. ASSUME NEW k \in {"clear", "open", "fill"}, NEW f, NEW e \in Dirs, NEW u, NEW x, NEW g \in Dirs, NEW t,
             Becomes(p, k, f, n, e, c.names, c.links, u, t), FilePut(g, n, x),
             file'["bin"][n] = "torn" =>
               \/ k = "fill" /\ e = "bin"
               \/ \E q \in Procs : q # p /\ Fills(q, n)
               \/ file["bin"][n] = "torn" /\ ~Fills(p, n),
             file'["bin"][n] = "absent" =>
               \/ k = "clear" /\ e = "inc"
               \/ k = "open" /\ e = "bin"
               \/ Wants(p, n) /\ file["bin"][n] = "absent" /\ ~Renews(p, n),
             file'[z][n] # "absent" =>
               \/ k = "fill" /\ e = z
               \/ file[z][n] # "absent" /\ ~Completes(p, n)
      PROVE  RaceInv'
    <2>1. Moves(p) /\ cmd'[p].pc = k /\ cmd'[p].dir = e /\ cmd'[p].name = n
        BY <1>7 DEF Becomes
    <2>2. \A m \in Names : Wants(p, m)' => m = n
        BY <1>7, <2>1 DEF Wants, Linking
    <2>3. k = "fill" /\ e = "bin" => Fills(p, n)'
        BY <2>1 DEF Fills
    <2>4. (k = "clear" /\ e = "inc") \/ (k = "open" /\ e = "bin") => Renews(p, n)'
        BY <2>1 DEF Renews
    <2>5. k = "fill" /\ e = z => Completes(p, n)'
        BY <1>5, <2>1 DEF Completes
    <2>6. QED
        BY <1>1, <1>3, <1>5, <1>7, <2>1, <2>2, <2>3, <2>4, <2>5, RaceFile
<1>8. ASSUME Fails(p), \A m \in Names : ~Fills(p, m) /\ ~Renews(p, m),
             \A m \in Names : Completes(p, m) => file[LastDir(m.prog)][m] = "absent"
      PROVE  RaceInv'
    <2>1. \A l \in LinkNames : ~Relinks(p, l)
        BY <1>1 DEF Relinks
    <2>2. QED
        BY <1>8, <2>1, RaceEnds DEF Fails
<1>9. CASE ClearTt(p)
    <2>1. c.pc = "clear" /\ d = "bin" /\ z = "bin"
        BY <1>2, <1>3, <1>4, <1>6, <1>9, ClearTtStep
    <2>2. Fails(p) => RaceInv'
        BY <1>4, <1>8, <2>1 DEF Fills, Renews, Completes
    <2>3. ASSUME FilePut("bin", n, "absent"),
                 Becomes(p, "open", c.flags, n, "bin", c.names, c.links, c.unlinked, TRUE)
          PROVE  RaceInv'
        <3>1. file'["bin"][n] = "absent" /\ "bin" \in Dirs
            BY <2>3 DEF FilePut, Dirs
        <3>2. QED
            BY <1>7, <2>1, <2>3, <3>1
    <2>4. QED
        BY <1>3, <1>4, <1>9, <2>1, <2>2, <2>3, ClearTtStep
<1>10. CASE ClearTarantool(p)
    <2>1. /\ c.pc = "clear" /\ z = "inc" /\ FilePut(d, n, "absent") /\ "bin" \in Dirs /\ "inc" \in Dirs
          /\ \A m \in Names : ~Fills(p, m) /\ ~Completes(p, m)
        BY <1>2, <1>3, <1>4, <1>6, <1>10, ClearTarantoolStep DEF Dirs, Fills, Completes
    <2>2. CASE d = "bin"
        <3>1. file'["bin"][n] = "absent" /\ file'["inc"][n] = file["inc"][n]
            BY <2>1, <2>2 DEF FilePut
        <3>2. Becomes(p, "clear", c.flags, n, "inc", c.names, c.links, c.unlinked, TRUE)
            BY <1>3, <1>4, <1>10, <2>2, ClearTarantoolStep
        <3>3. QED
            BY <1>7, <2>1, <3>1, <3>2
    <2>3. CASE d = "inc"
        <3>1. file'["inc"][n] = "absent" /\ file'["bin"][n] = file["bin"][n]
            BY <2>1, <2>3 DEF FilePut
        <3>2. Becomes(p, "open", c.flags, n, "bin", c.names, c.links, c.unlinked, c.touched)
            BY <1>3, <1>4, <1>10, <2>3, ClearTarantoolStep
        <3>3. QED
            BY <1>7, <2>1, <3>1, <3>2
    <2>4. QED
        BY <2>2, <2>3 DEF Dirs
<1>11. CASE Open(p)
    <2>1. /\ c.pc = "open" /\ FilePut(d, n, "torn") /\ "bin" \in Dirs /\ "inc" \in Dirs
          /\ Becomes(p, "fill", c.flags, n, d, c.names, c.links, c.unlinked, TRUE)
          /\ \A m \in Names : ~Fills(p, m) /\ ~Completes(p, m)
        BY <1>3, <1>4, <1>11, OpenStep DEF Dirs, Fills, Completes
    <2>2. \A e \in Dirs : file'[e][n] = IF e = d THEN "torn" ELSE file[e][n]
        BY <2>1 DEF FilePut
    <2>3. d = "inc" => Wants(p, n) /\ ~Renews(p, n)
        BY <1>3, <1>4, <2>1 DEF Wants, Renews
    <2>4. d = "bin" \/ (d = "inc" /\ z = "inc")
        BY <1>6 DEF Dirs
    <2>5. QED
        BY <1>7, <2>1, <2>2, <2>3, <2>4
<1>12. CASE Fill(p)
    <2>1. c.pc = "fill" /\ Wants(p, n) /\ ~Renews(p, n) /\ (d # "bin" => \A m \in Names : ~Fills(p, m))
        BY <1>3, <1>4, <1>12, FillStep DEF Wants, Renews, Fills
    <2>2. ASSUME Fails(p), d = "inc", file["inc"][n] = "absent"
          PROVE  RaceInv'
        <3>1. \A m \in Names : ~Fills(p, m) /\ ~Renews(p, m)
            BY <1>4, <2>1, <2>2 DEF Renews
        <3>2. \A m \in Names : Completes(p, m) => file[LastDir(m.prog)][m] = "absent"
            BY <1>3, <1>4, <2>2 DEF Completes
        <3>3. QED
            BY <1>8, <2>2, <3>1, <3>2
    <2>3. ASSUME NEW x \in Content, FilePut(d, n, x), x = "absent" => file[d][n] = "absent",
                 x = "torn" => \E q \in Procs \ {p} :
                    cmd[q].pc = "fill" /\ cmd[q].name = n /\ cmd[q].dir = d
          PROVE  /\ file'["bin"][n] = "torn" =>
                      \/ \E q \in Procs : q # p /\ Fills(q, n)
                      \/ file["bin"][n] = "torn" /\ ~Fills(p, n)
                 /\ file'["bin"][n] = "absent" => file["bin"][n] = "absent"
                 /\ \A e \in Dirs : e # d => file'[e][n] = file[e][n]
        <3>1. \A e \in Dirs : file'[e][n] = IF e = d THEN x ELSE file[e][n]
            BY <2>3 DEF FilePut
        <3>2. x = "torn" /\ d = "bin" => \E q \in Procs : q # p /\ Fills(q, n)
            BY <2>3 DEF Fills
        <3>3. "bin" \in Dirs
            BY DEF Dirs
        <3>4. QED
            BY <2>1, <2>3, <3>1, <3>2, <3>3
    <2>4. ASSUME NEW x \in Content, FilePut(d, n, x), x = "absent" => file[d][n] = "absent",
                 x = "torn" => \E q \in Procs \ {p} :
                    cmd[q].pc = "fill" /\ cmd[q].name = n /\ cmd[q].dir = d,
                 d # z, Becomes(p, "open", c.flags, n, "inc", c.names, c.links, c.unlinked, c.touched)
          PROVE  RaceInv'
        <3>1. ~Completes(p, n)
            BY <1>4, <1>5, <2>4 DEF Completes
        <3>2. "inc" \in Dirs
            BY DEF Dirs
        <3>3. file'[z][n] = file[z][n]
            BY <2>3, <2>4
        <3>4. QED
            BY <1>7, <2>1, <2>3, <2>4, <3>1, <3>2, <3>3
    <2>5. ASSUME NEW x \in Content, FilePut(d, n, x), x = "absent" => file[d][n] = "absent",
                 x = "torn" => \E q \in Procs \ {p} :
                    cmd[q].pc = "fill" /\ cmd[q].name = n /\ cmd[q].dir = d,
                 Plans(p, n, LinksTo(n.prog, n))
          PROVE  RaceInv'
        <3>1. Moves(p) /\ cmd'[p].pc = "stat" /\ Head(cmd'[p].links) = LinkFor("bin", n)
            BY <2>5, LinksToIs DEF Plans, Becomes, Targets
        <3>2. \A m \in Names : Wants(p, m)' => m = n
            BY <3>1, LinkForIs DEF Wants
        <3>3. LinkFor("bin", n).dir = "bin" /\ LinkFor("bin", n).name = LinkOf(n.prog)
            BY DEF LinkFor
        <3>4. Relinks(p, LinkOf(n.prog))'
            BY <3>1, <3>3 DEF Relinks
        <3>5. QED
            BY <1>1, <1>3, <2>1, <2>3, <2>5, <3>1, <3>2, <3>4, RaceFile
    <2>6. QED
        <3>1. n.prog = c.prog
            BY <1>2, <1>3
        <3>2. QED
            BY <1>3, <1>4, <1>5, <1>12, <2>2, <2>4, <2>5, <3>1, FillStep, ZenonT(60)
<1>13. QED
    BY <1>9, <1>10, <1>11, <1>12

\* Uninstalls are not considered.
LEMMA RaceRemoves ==
    ASSUME BinInv, RaceInv, NEW p \in Procs,
           \/ Uninstall(p) \/ RemoveDev(p) \/ RemoveProgram(p) \/ RemoveLink(p) \/ RemoveFile(p)
           \/ SwitchToLatest(p)
    PROVE  RaceInv'
<1>1. cmd[p].pc \in Removing
    BY DEF Uninstall, RemoveDev, RemoveProgram, RemoveLink, RemoveFile, SwitchToLatest, At, Removing
<1>2. cmd[p].op = "uninstall"
    BY <1>1 DEF BinInv, ShapeOf
<1>3. ~Racing
    BY <1>2 DEF RaceInv, Racing
<1>4. removals' = removals /\ faults' = faults
    BY DEF Uninstall, RemoveDev, RemoveProgram, RemoveLink, RemoveFile, SwitchToLatest, Fail, Goto, Finish
<1>5. QED
    BY <1>3, <1>4 DEF RaceInv, Racing

\* Starting a command gives nobody anything new to see to.
LEMMA RaceStart ==
    ASSUME BinInv, RaceInv, NEW p \in Procs, NEW r \in Requests, Start(p, r)
    PROVE  RaceInv'
<1>1. SUFFICES ASSUME faults' = 0, ~removals'
               PROVE  RaceInv'
    BY DEF RaceInv
<1>2. UNCHANGED <<file, link>> /\ Racing /\ cmd'[p].op # "uninstall" /\ cmd[p].pc = "idle"
    BY <1>1, StartStep DEF Racing
<1>3. cmd'[p].pc \in {"install", "uninstall", "switch"}
    BY StartStep
<1>4. ASSUME NEW q \in Procs
      PROVE  /\ cmd'[q].op # "uninstall"
             /\ \A n : /\ Fills(q, n) => Fills(q, n)'
                       /\ Renews(q, n) => Renews(q, n)'
                       /\ Completes(q, n) => Completes(q, n)'
                       /\ Wants(q, n)' => Wants(q, n)
             /\ \A l : Relinks(q, l) => Relinks(q, l)'
    <2>1. CASE q = p
        BY <1>2, <1>3, <2>1 DEF Fills, Renews, Completes, Wants, Relinks, Linking
    <2>2. CASE q # p /\ cmd[q].pc = "idle"
        <3>1. cmd'[q].pc = "idle" /\ cmd'[q].op = "none"
            BY <2>2, StartStep
        <3>2. QED
            BY <2>2, <3>1 DEF Fills, Renews, Completes, Wants, Relinks, Linking
    <2>3. CASE q # p /\ cmd[q].pc # "idle"
        <3>1. /\ cmd'[q].pc = cmd[q].pc /\ cmd'[q].op = cmd[q].op /\ cmd'[q].name = cmd[q].name
              /\ cmd'[q].dir = cmd[q].dir /\ cmd'[q].links = cmd[q].links
            BY <2>3, StartStep DEF Same
        <3>2. cmd[q].op # "uninstall"
            BY <1>2 DEF RaceInv, Racing
        <3>3. QED
            BY <3>1, <3>2 DEF Fills, Renews, Completes, Wants, Relinks
    <2>4. QED
        BY <2>1, <2>2, <2>3
<1>5. \A n \in Names : file["bin"][n] = "torn" => \E q \in Procs : Fills(q, n)'
    BY <1>2, <1>4 DEF RaceInv, Racing
<1>6. ASSUME NEW n \in Names, Needed(n)', file["bin"][n] = "absent"
      PROVE  \E q \in Procs : Renews(q, n)'
    <2>1. Needed(n)
        BY <1>2, <1>4, <1>6 DEF Needed
    <2>2. \E q \in Procs : Renews(q, n)
        BY <1>2, <1>6, <2>1 DEF RaceInv, Racing
    <2>3. QED
        BY <1>4, <2>2
<1>7. ASSUME NEW n \in Names, file[LastDir(n.prog)][n] # "absent", link["bin"][LinkOf(n.prog)] = None
      PROVE  \E q \in Procs : Relinks(q, LinkOf(n.prog))' \/ Completes(q, n)'
    <2>1. \E q \in Procs : Relinks(q, LinkOf(n.prog)) \/ Completes(q, n)
        BY <1>2, <1>7 DEF RaceInv, Racing
    <2>2. PICK l : l = LinkOf(n.prog)
        OBVIOUS
    <2>3. \E q \in Procs : Relinks(q, l)' \/ Completes(q, n)'
        BY <1>4, <2>1, <2>2
    <2>4. QED
        BY <2>2, <2>3
<1>8. QED
    BY <1>2, <1>4, <1>5, <1>6, <1>7 DEF RaceInv

\* A stuttering step.
LEMMA RaceSame ==
    ASSUME RaceInv, UNCHANGED vars
    PROVE  RaceInv'
<1>1. /\ UNCHANGED <<file, link, cmd>> /\ faults' = faults /\ removals' = removals
    BY DEF vars
<1>2. \A p, n : /\ Fills(p, n)' <=> Fills(p, n)
                /\ Renews(p, n)' <=> Renews(p, n)
                /\ Relinks(p, n)' <=> Relinks(p, n)
                /\ Completes(p, n)' <=> Completes(p, n)
                /\ Wants(p, n)' <=> Wants(p, n)
    BY <1>1, ZenonT(60) DEF Fills, Renews, Relinks, Completes, Wants
<1>3. \A n : Needed(n)' <=> Needed(n)
    BY <1>1, <1>2 DEF Needed
<1>4. QED
    BY <1>1, <1>2, <1>3 DEF RaceInv

\* RaceInv holds at first.
LEMMA RaceInit ==
    ASSUME Init
    PROVE  RaceInv
<1>1. \A p \in Procs : cmd[p].pc = "idle" /\ cmd[p].op = "none"
    BY InitFacts
<1>2. \A n \in Names : file["bin"][n] # "torn"
    BY InitFacts DEF Dirs
<1>3. ASSUME NEW n \in Names, Needed(n)
      PROVE  file["bin"][n] # "absent"
    <2>1. \A p \in Procs : ~Wants(p, n)
        BY <1>1 DEF Wants, Linking
    <2>2. PICK l \in LinkNames : link["bin"][l] = n
        BY <1>3, <2>1 DEF Needed
    <2>3. file["bin"][n] = "whole"
        BY <2>2, InitFacts DEF Dirs
    <2>4. QED
        BY <2>3
<1>4. ASSUME NEW n \in Names, file[LastDir(n.prog)][n] # "absent"
      PROVE  link["bin"][LinkOf(n.prog)] # None
    <2>1. file["bin"][n] # "absent"
        BY <1>4, InitFacts DEF LastDir
    <2>2. QED
        BY <2>1, InitFacts
<1>5. QED
    BY <1>1, <1>2, <1>3, <1>4 DEF RaceInv

\* Every step keeps RaceInv.
LEMMA RaceNext ==
    ASSUME BinInv, RaceInv, [Next]_vars
    PROVE  RaceInv'
<1>1. \A p \in Procs : Interrupt(p) => RaceInv'
    BY InterruptStep DEF RaceInv
<1>2. BuildDirGone => RaceInv'
    BY GoneStep DEF RaceInv
<1>3. QED
    BY <1>1, <1>2, RaceStart, RaceInstall, RaceCopies, RaceLink, RaceRemoves, RaceSame DEF Next

\* As long as no command is interrupted and none uninstalls, whatever installs and switches overlap:
\* somebody fills every torn binary, somebody copies every missing binary that is counted on, and
\* somebody is about to set every link that is missing.
THEOREM RaceInvariance == Spec => [](BinInv /\ RaceInv)
<1>1. Init => RaceInv
    BY RaceInit
<1>2. BinInv /\ RaceInv /\ [Next]_vars => RaceInv'
    BY RaceNext
<1>3. QED
    BY <1>1, <1>2, BinariesInvariance, PTL DEF Spec

\* Installs and switches that race never lose the active version: CreateSymlink's stat, remove and
\* symlink and the copies of copyBuildedTT and copyBuildedTarantool take no lock, and yet when all
\* commands have ended every installed program has an active version, whose binary is whole
\* (RacesKeepAVersion): for any number of commands at once.
THEOREM RacesLoseNothing == Spec => []RacesKeepAVersion
<1>1. BinInv /\ RaceInv => RacesKeepAVersion
    <2>1. SUFFICES ASSUME BinInv, RaceInv, Quiet, faults = 0, ~removals, NEW n \in Names, Installed(n)
                   PROVE  LET active == link["bin"][LinkOf(n.prog)]
                          IN active = Dev \/ (active \in Names /\ file["bin"][active] = "whole")
        BY DEF RacesKeepAVersion
    <2> DEFINE active == link["bin"][LinkOf(n.prog)]
    <2>2. /\ \A p \in Procs : \A m : ~Fills(p, m) /\ ~Renews(p, m) /\ ~Completes(p, m)
          /\ \A p \in Procs : \A l : ~Relinks(p, l)
        BY <2>1 DEF Quiet, At, Fills, Renews, Completes, Relinks
    <2>3. file[LastDir(n.prog)][n] # "absent"
        BY <2>1, InstalledIs DEF LastDir, Present
    <2>4. active # None
        BY <2>1, <2>2, <2>3 DEF RaceInv
    <2>5. LinkOf(n.prog) \in LinkNames /\ active \in Names \cup {Dev}
        BY <2>1, <2>4 DEF LinkOf, LinkNames, BinInv, BinTypeOK, Targets, Dirs
    <2>6. ASSUME active \in Names
          PROVE  file["bin"][active] = "whole"
        <3>1. Needed(active)
            BY <2>5 DEF Needed
        <3>2. file["bin"][active] # "torn" /\ file["bin"][active] # "absent"
            BY <2>1, <2>2, <2>6, <3>1 DEF RaceInv
        <3>3. QED
            BY <2>1, <2>6, <3>2 DEF BinInv, BinTypeOK, Content, Dirs
    <2>7. QED
        BY <2>5, <2>6
<1>2. QED
    BY <1>1, RaceInvariance, PTL

\* The active version of a program is there and whole (ActiveIsSound): after commands that ran one
\* at a time and none of which stopped half-way, and after installs and switches that raced.
THEOREM ActiveStaysSound == Spec => []ActiveIsSound
<1>1. LinksAgree /\ RacesKeepAVersion => ActiveIsSound
    BY DEF ActiveIsSound
<1>2. QED
    BY <1>1, LinksStayInAgreement, RacesLoseNothing, PTL
=============================================================================
