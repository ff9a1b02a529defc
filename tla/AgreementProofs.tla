-------------------------- MODULE AgreementProofs ---------------------------
(***************************************************************************)
(* Commands on bin_dir and include_dir that run one at a time, none of      *)
(* which stops half-way: every command keeps the links of the programs it   *)
(* does not work on in agreement with the files, so that between commands   *)
(* all links agree.                                                        *)
(***************************************************************************)
EXTENDS EnvironmentProofs

\* The steps are first-order unless they cite SMT.
USE Zenon

-----------------------------------------------------------------------------
(* The invariant.                                                          *)

\* All files but those of m are whole, so are all the targets of links but m, and the
\* programs whose link is not l have an active version.
WholeBut(m) == \A d \in Dirs, n \in Names : n # m => file[d][n] # "torn"
LinkedBut(m) == \A d \in Dirs, l \in LinkNames :
    link[d][l] \in Names /\ link[d][l] # m => file[d][link[d][l]] = "whole"
ActiveBut(l, m) == \A n \in Names :
    n # m /\ n.ver # "master" /\ LinkOf(n.prog) # l /\ Installed(n) =>
        link["bin"][LinkOf(n.prog)] # None
Pair ==
    LET b == link["bin"]["tarantool"] i == link["inc"]["tarantool"]
    IN IF b = Dev THEN i \in {Dev, None} ELSE b = i
SoundBut(l, m) ==
    WholeBut(m) /\ LinkedBut(m) /\ ActiveBut(l, m) /\ (l # "tarantool" => Pair)

\* What is left of that while an install copies a version, while links are set, and while an
\* uninstall removes a version.
AgreeCopy(c) ==
    c.pc \in {"clear", "open", "fill"} =>
        /\ SoundBut("", c.name)
        /\ c.pc = "fill" => file[c.dir][c.name] = "torn"
        /\ c.pc # "clear" /\ c.dir = "inc" => file["bin"][c.name] = "whole"

Ready(t) ==
    /\ SoundBut(LinkOf(t.prog), None)
    /\ t \in Names => file["bin"][t] = "whole" /\ (t.prog # "tt" => file["inc"][t] = "whole")
AgreeLink(c) ==
    /\ c.pc \in Linking => Ready(Head(c.links).to)
    /\ c.pc = "headers" => c.touched /\ SoundBut("tarantool", None)

AgreeRemove(c) ==
    LET l == LinkOf(c.prog)
        b == link["bin"][l]
        i == link["inc"]["tarantool"]
    IN  /\ c.pc \in {"remove", "removeLink", "removeFile"} =>
              SoundBut(IF c.unlinked THEN l ELSE "", None) /\ (c.unlinked => b = None)
        /\ c.pc = "removeFile" \/ (c.pc = "remove" /\ c.dir = "inc") =>
              /\ ~c.unlinked => <<c.name, b>> \notin Within
              /\ c.unlinked /\ l = "tarantool" /\ i # None => <<c.name, i>> \in Within
        /\ c.pc = "removeLink" => /\ <<c.name, link[c.dir][l]>> \in Within
                                  /\ c.dir = "inc" => c.unlinked
        /\ c.pc = "removeFile" /\ c.dir = "inc" /\ c.unlinked => i = None
        /\ c.pc = "undev" /\ c.touched => c.dir = "inc"
        /\ c.pc = "undev" /\ c.dir = "inc" => SoundBut("tarantool", None) /\ b = None
        /\ c.pc = "latest" => SoundBut(l, None) /\ b = None /\ (l = "tarantool" => i = None)

AgreeOf(c) ==
    /\ ~c.touched => SoundBut("", None)
    /\ AgreeCopy(c) /\ AgreeLink(c) /\ AgreeRemove(c)

AgreeInv ==
    hurt = 0 =>
        /\ \A p \in Procs : cmd[p].pc # "idle" => AgreeOf(cmd[p])
        /\ Quiet => SoundBut("", None)

-----------------------------------------------------------------------------
(* AgreeInv: as long as commands ran one at a time and none stopped        *)
(* half-way.                                                               *)

\* At first all files are whole, a tarantool has its headers, and what is active is there.
LEMMA InitFacts ==
    ASSUME Init
    PROVE  /\ \A d \in Dirs, n \in Names : file[d][n] # "torn"
           /\ \A n \in Names : n.prog # "tt" => file["bin"][n] = file["inc"][n]
           /\ \A d \in Dirs, l \in LinkNames : link[d][l] \in Names => file[d][link[d][l]] = "whole"
           /\ Pair
           /\ \A n \in Names : file["bin"][n] # "absent" => link["bin"][LinkOf(n.prog)] # None
           /\ \A p \in Procs : cmd[p].pc = "idle" /\ cmd[p].op = "none"
           /\ hurt = 0
<1>1. PICK S \in SUBSET Names : \E active \in [LinkNames -> S \cup {None, Dev}], headers \in BOOLEAN :
          /\ \A l \in LinkNames : /\ active[l] \in S => LinkOf(active[l].prog) = l
                                  /\ active[l] = None => \A n \in S : LinkOf(n.prog) # l
          /\ file = [d \in Dirs |-> [n \in Names |->
                        IF n \in S /\ d \in Range(DirsOf(n.prog)) THEN "whole" ELSE "absent"]]
          /\ headers \/ active["tarantool"] = Dev
          /\ link = [d \in Dirs |-> [l \in LinkNames |->
                        IF d = "inc" /\ (l = "tt" \/ ~headers) THEN None ELSE active[l]]]
    BY ZenonT(60) DEF Init
<1>2. PICK active \in [LinkNames -> S \cup {None, Dev}], headers \in BOOLEAN :
          /\ \A l \in LinkNames : /\ active[l] \in S => LinkOf(active[l].prog) = l
                                  /\ active[l] = None => \A n \in S : LinkOf(n.prog) # l
          /\ file = [d \in Dirs |-> [n \in Names |->
                        IF n \in S /\ d \in Range(DirsOf(n.prog)) THEN "whole" ELSE "absent"]]
          /\ headers \/ active["tarantool"] = Dev
          /\ link = [d \in Dirs |-> [l \in LinkNames |->
                        IF d = "inc" /\ (l = "tt" \/ ~headers) THEN None ELSE active[l]]]
    BY <1>1
<1>3. \A d \in Dirs, n \in Names :
          file[d][n] = IF n \in S /\ d \in Range(DirsOf(n.prog)) THEN "whole" ELSE "absent"
    BY <1>2
<1>4. \A d \in Dirs, l \in LinkNames :
          link[d][l] = IF d = "inc" /\ (l = "tt" \/ ~headers) THEN None ELSE active[l]
    BY <1>2
<1>5. \A n \in Names : Range(DirsOf(n.prog)) = IF n.prog = "tt" THEN {"bin"} ELSE {"bin", "inc"}
    BY SMT DEF DirsOf, Range
<1>6. \A n \in Names : file["bin"][n] = IF n \in S THEN "whole" ELSE "absent"
    BY <1>3, <1>5 DEF Dirs
<1>7. \A n \in Names : n.prog # "tt" => file["inc"][n] = IF n \in S THEN "whole" ELSE "absent"
    BY <1>3, <1>5 DEF Dirs
<1>8. \A l \in LinkNames : link["bin"][l] = active[l]
    BY <1>4 DEF Dirs
<1>9. link["inc"]["tt"] = None /\ link["inc"]["tarantool"] = IF headers THEN active["tarantool"] ELSE None
    BY <1>4 DEF Dirs, LinkNames
<1>10. \A l \in LinkNames : active[l] \in S \cup {None, Dev}
    BY <1>2
<1>11. ASSUME NEW d \in Dirs, NEW l \in LinkNames, link[d][l] \in Names
       PROVE  file[d][link[d][l]] = "whole"
    <2>1. link[d][l] \in S
        BY <1>8, <1>9, <1>10, <1>11, NameFacts DEF Dirs, LinkNames
    <2>2. CASE d = "bin"
        BY <1>6, <1>11, <2>1, <2>2
    <2>3. CASE d = "inc"
        <3>1. l = "tarantool" /\ link[d][l] = active[l]
            BY <1>9, <1>11, <2>3, NameFacts DEF LinkNames
        <3>2. LinkOf(link[d][l].prog) = "tarantool"
            BY <1>2, <2>1, <3>1
        <3>3. QED
            BY <1>7, <1>11, <2>1, <2>3, <3>2 DEF LinkOf
    <2>4. QED
        BY <2>2, <2>3 DEF Dirs
<1>12. Pair
    BY <1>2, <1>8, <1>9 DEF Pair, LinkNames
<1>13. ASSUME NEW n \in Names, file["bin"][n] # "absent"
       PROVE  link["bin"][LinkOf(n.prog)] # None
    <2>1. n \in S /\ LinkOf(n.prog) \in LinkNames
        BY <1>6, <1>13 DEF LinkOf, LinkNames
    <2>2. QED
        BY <1>2, <1>8, <2>1
<1>14. \A p \in Procs : cmd[p].pc = "idle" /\ cmd[p].op = "none"
    BY DEF Init, Idle
<1>15. \A d \in Dirs, n \in Names : file[d][n] # "torn"
    BY <1>3
<1>16. \A n \in Names : n.prog # "tt" => file["bin"][n] = file["inc"][n]
    BY <1>6, <1>7
<1>17. hurt = 0
    BY DEF Init
<1>18. QED
    BY <1>11, <1>12, <1>13, <1>14, <1>15, <1>16, <1>17

\* What SoundBut says is less when more is left out.
LEMMA SoundWeaker ==
    ASSUME SoundBut("", None)
    PROVE  (\A l : SoundBut(l, None)) /\ \A m : SoundBut("", m)
<1>1. \A n \in Names : n # None /\ LinkOf(n.prog) # ""
    BY NameFacts DEF LinkOf
<1>2. WholeBut(None) /\ LinkedBut(None) /\ ActiveBut("", None) /\ Pair
    BY DEF SoundBut
<1>3. \A m : WholeBut(m) /\ LinkedBut(m)
    BY <1>1, <1>2 DEF WholeBut, LinkedBut
<1>4. \A l, m : ActiveBut(l, m)
    BY <1>1, <1>2 DEF ActiveBut
<1>5. QED
    BY <1>2, <1>3, <1>4 DEF SoundBut

\* When the program has an active version nothing is left out.
LEMMA SoundEnough ==
    ASSUME NEW l, SoundBut(l, None), l = "tarantool" => Pair,
           \A n \in Names : LinkOf(n.prog) = l /\ n.ver # "master" /\ Installed(n) =>
               link["bin"][l] # None
    PROVE  SoundBut("", None)
<1>1. WholeBut(None) /\ LinkedBut(None) /\ ActiveBut(l, None) /\ Pair
    BY DEF SoundBut
<1>2. ActiveBut("", None)
    BY <1>1 DEF ActiveBut
<1>3. QED
    BY <1>1, <1>2 DEF SoundBut

\* SoundEnough for the state after a step.
LEMMA SoundEnoughNext ==
    ASSUME NEW l, SoundBut(l, None)', l = "tarantool" => Pair', link'["bin"][l] # None
    PROVE  SoundBut("", None)'
<1>1. WholeBut(None)' /\ LinkedBut(None)' /\ ActiveBut(l, None)' /\ Pair'
    BY DEF SoundBut
<1>2. ActiveBut("", None)'
    BY <1>1 DEF ActiveBut
<1>3. QED
    BY <1>1, <1>2 DEF SoundBut

\* SoundBut depends on the files and links only.
LEMMA SoundSame ==
    ASSUME NEW l, NEW m, SoundBut(l, m), UNCHANGED <<file, link>>
    PROVE  SoundBut(l, m)'
BY SMT DEF SoundBut, WholeBut, LinkedBut, ActiveBut, Pair, Installed, Present

\* A version with no new files is not installed by that.
LEMMA InstalledKept ==
    ASSUME NEW m \in Names, \A d \in Dirs : file'[d][m] # "absent" => file[d][m] # "absent"
    PROVE  Installed(m)' => Installed(m)
<1>1. Range(DirsOf(m.prog)) \subseteq Dirs
    BY SMT DEF DirsOf, Range, Dirs
<1>2. QED
    BY <1>1 DEF Installed, Present

\* A file of the version that is left out changes.
LEMMA SoundFile ==
    ASSUME NEW l, NEW n \in Names, SoundBut(l, n), NEW d \in Dirs, NEW x, FilePut(d, n, x), UNCHANGED link
    PROVE  SoundBut(l, n)'
<1>1. \A e \in Dirs, m \in Names : m # n => file'[e][m] = file[e][m]
    BY DEF FilePut
<1>2. WholeBut(n)'
    BY <1>1 DEF SoundBut, WholeBut
<1>3. LinkedBut(n)'
    BY <1>1, ZenonT(60) DEF SoundBut, LinkedBut
<1>4. ASSUME NEW m \in Names, m # n
      PROVE  Installed(m)' => Installed(m)
    BY <1>1, <1>4, InstalledKept
<1>5. ActiveBut(l, n)'
    BY <1>4 DEF SoundBut, ActiveBut
<1>6. QED
    BY <1>2, <1>3, <1>5 DEF SoundBut, Pair

\* A file that no link names is removed.
LEMMA SoundGone ==
    ASSUME NEW l, SoundBut(l, None), NEW n \in Names, NEW d \in Dirs, FilePut(d, n, "absent"),
           UNCHANGED link, \A k \in LinkNames : link[d][k] # n
    PROVE  SoundBut(l, None)'
<1>1. \A e \in Dirs, m \in Names : file'[e][m] \in {"absent", file[e][m]}
    BY DEF FilePut
<1>2. \A e \in Dirs, m \in Names : file'[e][m] # "absent" => file[e][m] # "absent"
    BY <1>1
<1>3. WholeBut(None)'
    BY <1>1 DEF SoundBut, WholeBut
<1>4. ASSUME NEW e \in Dirs, NEW k \in LinkNames, link[e][k] \in Names
      PROVE  file'[e][link[e][k]] = "whole"
    <2>1. file[e][link[e][k]] = "whole"
        BY <1>4, NameFacts DEF SoundBut, LinkedBut
    <2>2. QED
        BY <1>4, <2>1 DEF FilePut
<1>5. LinkedBut(None)'
    BY <1>4 DEF LinkedBut
<1>6. ASSUME NEW m \in Names
      PROVE  Installed(m)' => Installed(m)
    BY <1>2, InstalledKept
<1>7. ActiveBut(l, None)'
    BY <1>6 DEF SoundBut, ActiveBut
<1>8. QED
    BY <1>3, <1>5, <1>7 DEF SoundBut, Pair

\* A link of the program that is left out changes.
LEMMA SoundLink ==
    ASSUME NEW l \in LinkNames, SoundBut(l, None), NEW d \in Dirs, NEW u, LinkPut(d, l, u),
           UNCHANGED file, u \in Names => file[d][u] = "whole"
    PROVE  SoundBut(l, None)'
<1>1. \A e \in Dirs, k \in LinkNames :
          link'[e][k] = link[e][k] \/ (e = d /\ link'[e][k] = u)
    BY DEF LinkPut
<1>2. \A e \in Dirs, k \in LinkNames : k # l => link'[e][k] = link[e][k]
    BY DEF LinkPut
<1>3. WholeBut(None)'
    BY DEF SoundBut, WholeBut
<1>4. LinkedBut(None)'
    BY <1>1, ZenonT(60) DEF SoundBut, LinkedBut
<1>5. ASSUME NEW m \in Names
      PROVE  (Installed(m)' => Installed(m)) /\ LinkOf(m.prog) \in LinkNames
    BY InstalledKept DEF LinkOf, LinkNames
<1>6. ActiveBut(l, None)'
    BY <1>2, <1>5 DEF SoundBut, ActiveBut, Dirs
<1>7. l # "tarantool" => (Pair' <=> Pair)
    BY <1>2 DEF Pair, Dirs, LinkNames
<1>8. QED
    BY <1>3, <1>4, <1>6, <1>7 DEF SoundBut

\* Until a command is hurt, the command that runs is the only one.
LEMMA AgreeFacts ==
    ASSUME BinInv, AgreeInv, NEW p \in Procs, cmd[p].pc # "idle", hurt = 0
    PROVE  AgreeOf(cmd[p]) /\ cmd[p].alone /\ \A q \in Procs : q # p => cmd[q].pc = "idle"
<1>1. hurt < 2
    BY SMT
<1>2. QED
    BY <1>1 DEF BinInv, Solo, AgreeInv

\* A command that takes a step sees to the whole of AgreeInv.
LEMMA AgreeFrame ==
    ASSUME BinInv, AgreeInv, NEW p \in Procs, cmd[p].pc # "idle", Others(p), hurt' = 0 => hurt = 0,
           hurt' = 0 /\ cmd'[p].pc # "idle" => AgreeOf(cmd[p])',
           hurt' = 0 /\ cmd'[p].pc = "idle" => SoundBut("", None)'
    PROVE  AgreeInv'
<1>1. SUFFICES ASSUME hurt' = 0
               PROVE  AgreeInv'
    BY DEF AgreeInv
<1>2. \A q \in Procs : q # p => cmd'[q].pc = "idle"
    BY <1>1, AgreeFacts DEF Others
<1>3. \A q \in Procs : cmd'[q].pc # "idle" => AgreeOf(cmd[q])'
    BY <1>1, <1>2
<1>4. Quiet' => SoundBut("", None)'
    BY <1>1 DEF Quiet, At
<1>5. QED
    BY <1>3, <1>4 DEF AgreeInv

\* A command that fails had changed nothing, or is counted in hurt.
LEMMA AgreeFails ==
    ASSUME BinInv, AgreeInv, NEW p \in Procs, cmd[p].pc # "idle", Fails(p)
    PROVE  AgreeInv'
<1>1. /\ Ended(p, cmd[p].touched) /\ cmd'[p].res # "ok" /\ UNCHANGED <<file, link>>
      /\ cmd'[p].pc = "idle" /\ Others(p)
    BY DEF Fails, Ended
<1>2. hurt' = 0 => hurt = 0 /\ ~cmd[p].touched
    BY <1>1, SMT DEF Ended, BinInv, BinTypeOK
<1>3. hurt' = 0 => SoundBut("", None)
    BY <1>2, AgreeFacts DEF AgreeOf
<1>4. hurt' = 0 => SoundBut("", None)'
    BY <1>1, <1>3, SoundSame
<1>5. QED
    BY <1>1, <1>2, <1>4, AgreeFrame

\* A command that succeeds leaves a sound environment.
LEMMA AgreeSucceeds ==
    ASSUME BinInv, AgreeInv, NEW p \in Procs, cmd[p].pc # "idle", Succeeds(p),
           hurt = 0 => SoundBut("", None)'
    PROVE  AgreeInv'
BY AgreeFrame DEF Succeeds, Ended

\* A command that goes on leaves what its next program point needs.
LEMMA AgreeMoves ==
    ASSUME BinInv, AgreeInv, NEW p \in Procs, cmd[p].pc # "idle", Moves(p), cmd'[p].pc # "idle",
           hurt = 0 => AgreeOf(cmd[p])'
    PROVE  AgreeInv'
BY AgreeFrame DEF Moves

\* What AgreeOf asks for at the program points that have something in common.
Beginning == {"install", "probe", "docker", "build", "uninstall", "switch"}
Copying == {"clear", "open", "fill"}

\* Before a command touches anything the environment is sound.
LEMMA AgreeBefore ==
    ASSUME NEW p, cmd'[p].pc \in Beginning, SoundBut("", None)'
    PROVE  AgreeOf(cmd[p])'
BY DEF AgreeOf, AgreeCopy, AgreeLink, AgreeRemove, Linking, Beginning

\* What is needed while a file is copied.
LEMMA AgreeCopying ==
    ASSUME NEW p, cmd'[p].pc \in Copying, AgreeCopy(cmd[p])',
           cmd'[p].touched \/ SoundBut("", None)'
    PROVE  AgreeOf(cmd[p])'
BY DEF AgreeOf, AgreeLink, AgreeRemove, Linking, Copying

\* What is needed while links are set.
LEMMA AgreeLinking ==
    ASSUME NEW p, NEW t, cmd'[p].pc \in Linking, Head(cmd'[p].links).to = t, Ready(t)',
           cmd'[p].touched \/ SoundBut("", None)'
    PROVE  AgreeOf(cmd[p])'
BY DEF AgreeOf, AgreeCopy, AgreeLink, AgreeRemove, Linking

\* What is needed while a version is removed.
LEMMA AgreeRemoving ==
    ASSUME NEW p, cmd'[p].pc \in Removing \ {"uninstall"}, AgreeRemove(cmd[p])',
           cmd'[p].touched \/ SoundBut("", None)'
    PROVE  AgreeOf(cmd[p])'
BY DEF AgreeOf, AgreeCopy, AgreeLink, Linking, Removing

\* An installed version, no file of which is torn, is whole.
LEMMA ReadyIs ==
    ASSUME BinInv, NEW n \in Names, Installed(n), SoundBut(LinkOf(n.prog), None)
    PROVE  Ready(n)
<1>1. \A d \in Dirs : file[d][n] # "torn" /\ file[d][n] \in Content
    BY NameFacts DEF SoundBut, WholeBut, BinInv, BinTypeOK
<1>2. file["bin"][n] # "absent" /\ (n.prog # "tt" => file["inc"][n] # "absent")
    BY InstalledIs DEF Present
<1>3. QED
    BY <1>1, <1>2 DEF Ready, Content, Dirs

\* Ready depends on the files and links only.
LEMMA ReadySame ==
    ASSUME NEW t, Ready(t), UNCHANGED <<file, link>>
    PROVE  Ready(t)'
<1>1. SoundBut(LinkOf(t.prog), None)'
    BY SoundSame DEF Ready
<1>2. QED
    BY <1>1 DEF Ready

\* The steps of an install or a switch before it touches anything.
LEMMA AgreeInstall ==
    ASSUME BinInv, AgreeInv, NEW p \in Procs,
           \/ Install(p) \/ ProbeTt(p) \/ ProbeTarantool(p) \/ ProbeTarantoolEE(p)
           \/ InstallInDocker(p) \/ BuildTt(p) \/ BuildTarantool(p) \/ GetTarantoolEE(p)
           \/ Switch(p)
    PROVE  AgreeInv'
<1> DEFINE c == cmd[p]
<1>1. c.pc \in {"install", "probe", "docker", "build", "switch"} /\ UNCHANGED <<file, link>>
    BY InstallStep, ProbeStep, DockerStep, BuildStep, SwitchStep DEF Fails
<1>2. ShapeOf(c) /\ c.pc # "idle" /\ ~c.touched
    BY <1>1 DEF BinInv, ShapeOf
<1>3. hurt = 0 => SoundBut("", None)
    BY <1>2, AgreeFacts DEF AgreeOf
<1>4. hurt = 0 => SoundBut("", None)'
    BY <1>1, <1>3, SoundSame
<1>5. Fails(p) \/ Succeeds(p) => AgreeInv'
    BY <1>2, <1>4, AgreeFails, AgreeSucceeds
<1>6. ASSUME NEW k \in {"probe", "docker", "build"}, NEW f, NEW n, NEW d, NEW ns, NEW s, NEW u, NEW t,
             Becomes(p, k, f, n, d, ns, s, u, t)
      PROVE  AgreeInv'
    <2>1. Moves(p) /\ cmd'[p].pc # "idle" /\ cmd'[p].pc \in Beginning
        BY <1>6 DEF Becomes, Beginning
    <2>2. hurt = 0 => AgreeOf(cmd[p])'
        BY <1>4, <2>1, AgreeBefore
    <2>3. QED
        BY <1>2, <2>1, <2>2, AgreeMoves
<1>7. ASSUME NEW n, NEW s, NEW t, Plans(p, n, s), Head(s).to = t, hurt = 0 => Ready(t)
      PROVE  AgreeInv'
    <2>1. Moves(p) /\ cmd'[p].pc \in Linking /\ cmd'[p].pc # "idle" /\ Head(cmd'[p].links).to = t
        BY <1>7 DEF Plans, Becomes, Linking
    <2>2. hurt = 0 => Ready(t)'
        BY <1>1, <1>7, ReadySame
    <2>3. hurt = 0 => AgreeOf(cmd[p])'
        BY <1>4, <2>1, <2>2, AgreeLinking
    <2>4. QED
        BY <1>2, <2>1, <2>3, AgreeMoves
<1>8. ASSUME NEW n \in Names, NEW m, Installed(n), Plans(p, m, LinksTo(n.prog, n))
      PROVE  AgreeInv'
    <2>1. Head(LinksTo(n.prog, n)).to = n
        <3>1. Head(LinksTo(n.prog, n)) = LinkFor("bin", n)
            BY LinksToIs DEF Targets
        <3>2. LinkFor("bin", n).to = n
            BY DEF LinkFor
        <3>3. QED
            BY <3>1, <3>2
    <2>2. hurt = 0 => Ready(n)
        BY <1>3, <1>8, ReadyIs, SoundWeaker
    <2>3. QED
        BY <1>7, <1>8, <2>1, <2>2
<1>9. CASE Install(p)
    <2>1. hurt = 0 => Ready(Dev)
        BY <1>3, SoundWeaker, NameFacts DEF Ready
    <2>2. Head(<<LinkFor("bin", Dev)>>).to = Dev
        BY SMT DEF LinkFor
    <2>3. QED
        BY <1>5, <1>6, <1>7, <1>9, <2>1, <2>2, InstallStep
<1>10. CASE ProbeTt(p) \/ ProbeTarantool(p) \/ ProbeTarantoolEE(p)
    <2>1. c.name \in Names /\ c.name.prog = c.prog
        BY <1>2, <1>10, ProbeStep DEF ShapeOf, Installing
    <2>2. Installed(c.name) /\ Plans(p, c.name, LinksTo(c.prog, c.name)) => AgreeInv'
        BY <1>8, <2>1
    <2>3. ASSUME NEW k \in {"build", "docker"}, NEW f,
                 Becomes(p, k, f, c.name, c.dir, c.names, c.links, c.unlinked, c.touched)
          PROVE  AgreeInv'
        BY <1>6, <2>3
    <2>4. QED
        BY <1>5, <1>10, <2>2, <2>3, ProbeStep
<1>11. CASE InstallInDocker(p)
    BY <1>5, <1>6, <1>11, DockerStep
<1>12. CASE BuildTt(p) \/ BuildTarantool(p) \/ GetTarantoolEE(p)
    <2>1. c.pc = "build" /\ c.name \in Names /\ c.dir = "bin"
        BY <1>2, <1>12, BuildStep DEF ShapeOf, Installing
    <2>2. ASSUME NEW k \in {"clear", "open"}, Proceeds(p, k)
          PROVE  AgreeInv'
        <3>1. /\ Moves(p) /\ cmd'[p].pc = k /\ cmd'[p].dir = "bin" /\ cmd'[p].name = c.name
              /\ k # "idle"
            BY <2>1, <2>2 DEF Proceeds, Becomes
        <3>2. hurt = 0 => \A m : SoundBut("", m)
            BY <1>3, SoundWeaker
        <3>3. PICK n : n = c.name
            OBVIOUS
        <3>4. hurt = 0 => SoundBut("", n)'
            BY <1>1, <3>2, SoundSame
        <3>5. hurt = 0 => AgreeCopy(cmd[p])'
            BY <2>2, <3>1, <3>3, <3>4 DEF AgreeCopy, SoundBut, WholeBut, LinkedBut, ActiveBut
        <3>6. hurt = 0 => AgreeOf(cmd[p])'
            <4>1. cmd'[p].pc \in Copying
                BY <2>2, <3>1 DEF Copying
            <4>2. QED
                BY <1>4, <3>5, <4>1, AgreeCopying
        <3>7. QED
            BY <1>2, <3>1, <3>6, AgreeMoves
    <2>3. QED
        BY <1>12, <2>2, BuildStep
<1>13. CASE Switch(p)
    BY <1>5, <1>8, <1>13, SwitchStep
<1>14. QED
    BY <1>9, <1>10, <1>11, <1>12, <1>13

\* The steps that remove and copy files.
LEMMA AgreeCopies ==
    ASSUME BinInv, AgreeInv, NEW p \in Procs, ClearTt(p) \/ ClearTarantool(p) \/ Open(p) \/ Fill(p)
    PROVE  AgreeInv'
<1> DEFINE c == cmd[p]
<1>1. c.pc \in {"clear", "open", "fill"} /\ UNCHANGED link
    BY ClearTtStep, ClearTarantoolStep, OpenStep, FillStep
<1>2. /\ c.pc # "idle" /\ c.dir \in Dirs /\ c.name \in Names /\ c.name.prog = c.prog
      /\ (c.prog = "tt" => c.dir = "bin") /\ (c.pc = "fill" => c.touched)
    BY <1>1 DEF BinInv, BinTypeOK, ShapeOf, Installing, Command
<1>3. Fails(p) => AgreeInv'
    BY <1>2, AgreeFails
<1>4. PICK n \in Names : n = c.name
    BY <1>2
<1>5. hurt = 0 => AgreeCopy(c) /\ SoundBut("", n)
    BY <1>1, <1>2, <1>4, AgreeFacts DEF AgreeOf, AgreeCopy
<1>6. ASSUME NEW k \in Copying, NEW f, NEW d, NEW s, NEW e \in Dirs, NEW x,
             Becomes(p, k, f, c.name, d, c.names, s, c.unlinked, TRUE), FilePut(e, c.name, x),
             hurt = 0 => /\ k = "fill" => file'[d][n] = "torn"
                         /\ k # "clear" /\ d = "inc" => file'["bin"][n] = "whole"
      PROVE  AgreeInv'
    <2>1. /\ Moves(p) /\ cmd'[p].pc = k /\ cmd'[p].dir = d /\ cmd'[p].name = n /\ cmd'[p].touched
        BY <1>4, <1>6 DEF Becomes
    <2>2. hurt = 0 => SoundBut("", n)'
        BY <1>1, <1>4, <1>5, <1>6, SoundFile
    <2>3. hurt = 0 => AgreeCopy(cmd[p])'
        BY <1>6, <2>1, <2>2 DEF AgreeCopy, SoundBut, WholeBut, LinkedBut, ActiveBut
    <2>4. hurt = 0 => AgreeOf(cmd[p])'
        BY <1>6, <2>1, <2>3, AgreeCopying
    <2>5. cmd'[p].pc # "idle"
        BY <1>6, <2>1 DEF Copying
    <2>6. QED
        BY <1>2, <2>1, <2>4, <2>5, AgreeMoves
<1>7. {"clear", "open", "fill"} \subseteq Copying /\ "bin" \in Dirs
    BY DEF Copying, Dirs
<1>8. CASE ClearTt(p)
    <2>1. c.dir = "bin"
        BY <1>2, <1>8, ClearTtStep
    <2>2. QED
        BY <1>3, <1>6, <1>7, <1>8, <2>1, ClearTtStep
<1>9. CASE ClearTarantool(p)
    <2>1. c.dir = "inc" => c.touched = TRUE
        <3>1. c.pc = "clear" /\ c.touched \in BOOLEAN
            BY <1>9, ClearTarantoolStep DEF BinInv, BinTypeOK, Command
        <3>2. QED
            BY <3>1 DEF BinInv, ShapeOf
    <2>2. FilePut(c.dir, c.name, "absent")
        BY <1>9, ClearTarantoolStep
    <2>3. Becomes(p, "clear", c.flags, c.name, "inc", c.names, c.links, c.unlinked, TRUE) => AgreeInv'
        BY <1>2, <1>6, <1>7, <2>2
    <2>4. Becomes(p, "open", c.flags, c.name, "bin", c.names, c.links, c.unlinked, TRUE) => AgreeInv'
        BY <1>2, <1>6, <1>7, <2>2
    <2>5. QED
        BY <1>9, <2>1, <2>3, <2>4, ClearTarantoolStep, ZenonT(60)
<1>10. CASE Open(p)
    <2>1. /\ FilePut(c.dir, c.name, "torn") /\ c.pc = "open"
          /\ Becomes(p, "fill", c.flags, c.name, c.dir, c.names, c.links, c.unlinked, TRUE)
        BY <1>10, OpenStep
    <2>2. file'[c.dir][n] = "torn"
        BY <1>2, <1>4, <2>1 DEF FilePut
    <2>3. hurt = 0 /\ c.dir = "inc" => file'["bin"][n] = "whole"
        BY <1>4, <1>5, <2>1 DEF AgreeCopy, FilePut, Dirs
    <2>4. QED
        BY <1>2, <1>6, <1>7, <2>1, <2>2, <2>3
<1>11. CASE Fill(p)
    <2>1. c.pc = "fill" /\ c.touched = TRUE
        <3>1. c.pc = "fill" /\ c.touched \in BOOLEAN
            BY <1>11, FillStep DEF BinInv, BinTypeOK, Command
        <3>2. QED
            BY <1>2, <3>1
    <2>2. SUFFICES ASSUME ~Fails(p)
                   PROVE  AgreeInv'
        BY <1>3
    <2>3. PICK x \in Content :
             /\ FilePut(c.dir, c.name, x)
             /\ x = "absent" <=> file[c.dir][c.name] = "absent"
             /\ x = "torn" => \E q \in Procs \ {p} :
                   cmd[q].pc = "fill" /\ cmd[q].name = c.name /\ cmd[q].dir = c.dir
        BY <1>11, <2>2, FillStep
    <2>4. hurt = 0 => x = "whole"
        <3>1. hurt = 0 => x # "torn"
            BY <1>2, <2>3, AgreeFacts
        <3>2. hurt = 0 => file[c.dir][c.name] = "torn"
            BY <1>5, <2>1 DEF AgreeCopy
        <3>3. QED
            BY <2>3, <3>1, <3>2 DEF Content
    <2>5. file'[c.dir][n] = x /\ \A d \in Dirs : d # c.dir => file'[d][n] = file[d][n]
        BY <1>2, <1>4, <2>3 DEF FilePut
    <2>6. CASE c.dir # LastDir(c.prog)
        <3>1. Becomes(p, "open", c.flags, c.name, "inc", c.names, c.links, c.unlinked, TRUE)
            BY <1>11, <2>1, <2>2, <2>6, FillStep
        <3>2. c.dir = "bin"
            BY <1>2, <2>6 DEF LastDir, Dirs
        <3>3. hurt = 0 => file'["bin"][n] = "whole"
            BY <2>4, <2>5, <3>2
        <3>4. QED
            BY <1>2, <1>6, <1>7, <2>3, <3>1, <3>3
    <2>7. CASE c.dir = LastDir(c.prog)
        <3>1. Plans(p, c.name, LinksTo(c.prog, c.name))
            BY <1>11, <2>2, <2>7, FillStep
        <3>2. /\ Moves(p) /\ cmd'[p].pc \in Linking /\ cmd'[p].pc # "idle" /\ cmd'[p].touched
              /\ Head(cmd'[p].links).to = n
            <4>1. Head(LinksTo(n.prog, n)) = LinkFor("bin", n)
                BY LinksToIs DEF Targets
            <4>2. LinkFor("bin", n).to = n
                BY DEF LinkFor
            <4>3. LinksTo(c.prog, c.name) = LinksTo(n.prog, n)
                BY <1>2, <1>4
            <4>4. QED
                BY <2>1, <3>1, <4>1, <4>2, <4>3 DEF Plans, Becomes, Linking
        <3>3. n.prog # "tt" => c.dir = "inc"
            BY <1>2, <1>4, <2>7 DEF LastDir
        <3>4. n.prog = "tt" => c.dir = "bin" /\ file'["inc"][n] = "absent"
            BY <1>2, <1>4, <2>5 DEF BinInv, Placed, Dirs
        <3>5. hurt = 0 => file'["bin"][n] = "whole" /\ (n.prog # "tt" => file'["inc"][n] = "whole")
            BY <1>4, <1>5, <2>1, <2>4, <2>5, <3>3, <3>4 DEF AgreeCopy, Dirs
        <3>6. hurt = 0 => SoundBut(LinkOf(n.prog), None)'
            <4>1. SUFFICES ASSUME hurt = 0
                           PROVE  SoundBut(LinkOf(n.prog), None)'
                OBVIOUS
            <4>2. SoundBut("", n)'
                BY <1>1, <1>2, <1>4, <1>5, <2>3, <4>1, SoundFile
            <4>3. \A d \in Dirs : file'[d][n] # "torn"
                BY <3>4, <3>5, <4>1 DEF Dirs
            <4>4. WholeBut(None)'
                BY <4>2, <4>3 DEF SoundBut, WholeBut
            <4>5. ASSUME NEW d \in Dirs, NEW l \in LinkNames, link[d][l] = n
                  PROVE  file'[d][n] = "whole"
                <5>1. d = "inc" => n.prog # "tt"
                    <6>1. LinkOf(n.prog) = l /\ (d = "inc" => l # "tt")
                        BY <4>5, NameFacts DEF BinInv, Placed
                    <6>2. QED
                        BY <6>1 DEF LinkOf
                <5>2. QED
                    BY <3>5, <4>1, <5>1 DEF Dirs
            <4>6. LinkedBut(None)'
                BY <1>1, <4>2, <4>5 DEF SoundBut, LinkedBut
            <4>7. ActiveBut(LinkOf(n.prog), None)'
                BY <4>2, TargetFacts DEF SoundBut, ActiveBut, LinkOf
            <4>8. QED
                BY <4>2, <4>4, <4>6, <4>7 DEF SoundBut
        <3>7. hurt = 0 => Ready(n)'
            BY <3>5, <3>6 DEF Ready
        <3>8. hurt = 0 => AgreeOf(cmd[p])'
            BY <3>2, <3>7, AgreeLinking
        <3>9. QED
            BY <1>2, <3>2, <3>8, AgreeMoves
    <2>8. QED
        BY <2>6, <2>7
<1>12. QED
    BY <1>8, <1>9, <1>10, <1>11

\* The steps of CreateSymlink.
LEMMA AgreeLinks ==
    ASSUME BinInv, DoneInv, AgreeInv, NEW p \in Procs, Stat(p) \/ Unlink(p) \/ Symlink(p)
    PROVE  AgreeInv'
<1> DEFINE c == cmd[p]
           h == Head(c.links)
<1>1. c.pc \in Linking /\ UNCHANGED file
    BY StatStep, UnlinkStep, SymlinkStep DEF Linking
<1>2. c.pc # "idle"
    BY <1>1 DEF Linking
<1>3. Fails(p) => AgreeInv'
    BY <1>2, AgreeFails
<1>4. PICK t \in Targets : t = h.to
    BY <1>1, LinkingFacts
<1>5. /\ h.dir \in Dirs /\ h.name \in LinkNames /\ h.name = LinkOf(t.prog) /\ PlanOf(c.links, t)
    BY <1>1, <1>4, LinkingFacts
<1>6. hurt = 0 => Ready(t) /\ c.alone
    BY <1>1, <1>2, <1>4, AgreeFacts DEF AgreeOf, AgreeLink
<1>7. ASSUME NEW u \in {t, None}, LinkPut(h.dir, h.name, u)
      PROVE  hurt = 0 => Ready(t)'
    <2>1. SUFFICES ASSUME hurt = 0
                   PROVE  Ready(t)'
        OBVIOUS
    <2>2. u \in Names => file[h.dir][u] = "whole"
        <3>1. h.dir = "inc" => t.prog # "tt"
            BY <1>4, <1>5, PlanFacts
        <3>2. QED
            BY <1>5, <1>6, <2>1, <1>7, <3>1, NameFacts, BinariesAssumption DEF Ready, Dirs
    <2>3. SoundBut(LinkOf(t.prog), None)'
        <3>1. SoundBut(h.name, None)
            BY <1>5, <1>6, <2>1 DEF Ready
        <3>2. PICK l \in LinkNames : l = LinkOf(t.prog)
            BY <1>5
        <3>3. SoundBut(l, None)'
            BY <1>1, <1>5, <1>7, <2>2, <3>1, <3>2, SoundLink
        <3>4. QED
            BY <3>2, <3>3
    <2>4. QED
        BY <1>1, <1>6, <2>1, <2>3 DEF Ready
<1>8. ASSUME NEW k \in Linking, NEW s, Becomes(p, k, c.flags, c.name, c.dir, c.names, s, c.unlinked, TRUE),
             Head(s).to = t, hurt = 0 => Ready(t)'
      PROVE  AgreeInv'
    <2>1. /\ Moves(p) /\ cmd'[p].pc \in Linking /\ cmd'[p].pc # "idle" /\ cmd'[p].touched
          /\ Head(cmd'[p].links).to = t
        BY <1>8 DEF Becomes, Linking
    <2>2. hurt = 0 => AgreeOf(cmd[p])'
        BY <1>8, <2>1, AgreeLinking
    <2>3. QED
        BY <1>2, <2>1, <2>2, AgreeMoves
<1>9. CASE Stat(p)
    <2>1. ASSUME NEW k \in Linking, Proceeds(p, k)
          PROVE  AgreeInv'
        <3>1. /\ Moves(p) /\ cmd'[p].pc \in Linking /\ cmd'[p].pc # "idle"
              /\ cmd'[p].touched = c.touched /\ Head(cmd'[p].links).to = t
            BY <1>4, <2>1 DEF Proceeds, Becomes, Linking
        <3>2. UNCHANGED <<file, link>>
            BY <1>9, StatStep
        <3>3. hurt = 0 => Ready(t)'
            BY <1>6, <3>2, ReadySame
        <3>4. hurt = 0 /\ ~c.touched => SoundBut("", None)
            BY <1>2, AgreeFacts DEF AgreeOf
        <3>5. hurt = 0 /\ ~c.touched => SoundBut("", None)'
            BY <3>2, <3>4, SoundSame
        <3>6. hurt = 0 => AgreeOf(cmd[p])'
            BY <3>1, <3>3, <3>5, AgreeLinking
        <3>7. QED
            BY <1>2, <3>1, <3>6, AgreeMoves
    <2>2. QED
        BY <1>9, <2>1, StatStep DEF Linking
<1>10. CASE Unlink(p)
    <2>1. LinkPut(h.dir, h.name, None) => (hurt = 0 => Ready(t)')
        BY <1>7
    <2>2. QED
        BY <1>3, <1>4, <1>8, <1>10, <2>1, UnlinkStep DEF Linking
<1>11. CASE Symlink(p)
    <2>1. SUFFICES ASSUME ~Fails(p)
                   PROVE  AgreeInv'
        BY <1>3
    <2>2. LinkPut(h.dir, h.name, t) /\ c.pc = "symlink"
        BY <1>4, <1>11, <2>1, SymlinkStep
    <2>3. hurt = 0 => Ready(t)'
        BY <1>7, <2>2
    <2>4. CASE Succeeds(p) /\ Tail(c.links) = <<>> /\ ~(t = Dev /\ h.dir = "bin")
        <3>1. SUFFICES ASSUME hurt = 0
                       PROVE  SoundBut("", None)'
            BY <1>2, <2>4, AgreeSucceeds
        <3>2. h.dir = "inc" => link["bin"]["tarantool"] = t /\ t.prog # "tt"
            <4>1. h.dir = "inc" => link["bin"]["tarantool"] = t
                BY <1>1, <1>4, <1>6, <3>1 DEF DoneInv, DoneOf, Second
            <4>2. QED
                BY <1>4, <1>5, <4>1, PlanFacts
        <3>3. h.dir = "bin" => t.prog = "tt"
            BY <1>4, <1>5, <2>4, PlanFacts DEF Targets
        <3>4. link'["bin"][LinkOf(t.prog)] = t
            BY <1>5, <2>2, <3>2 DEF LinkPut, Dirs, LinkOf, LinkNames
        <3>5. t # None
            BY <1>4, NameFacts DEF Targets
        <3>6. LinkOf(t.prog) = "tarantool" => Pair'
            <4>1. LinkOf(t.prog) = "tarantool" => h.dir = "inc" /\ h.name = "tarantool"
                BY <1>5, <3>3 DEF LinkOf, Dirs
            <4>2. LinkOf(t.prog) = "tarantool" =>
                     link'["inc"]["tarantool"] = t /\ link'["bin"]["tarantool"] = t
                BY <1>5, <2>2, <3>4, <4>1 DEF LinkPut
            <4>3. QED
                BY <4>2 DEF Pair
        <3>7. PICK l : l = LinkOf(t.prog)
            OBVIOUS
        <3>8. SoundBut(l, None)' /\ (l = "tarantool" => Pair') /\ link'["bin"][l] # None
            BY <2>3, <3>1, <3>4, <3>5, <3>6, <3>7 DEF Ready
        <3>9. QED
            BY <3>8, SoundEnoughNext
    <2>5. CASE /\ Tail(c.links) # <<>>
               /\ Becomes(p, "stat", c.flags, c.name, c.dir, c.names, Tail(c.links), c.unlinked, TRUE)
        <3>1. Head(Tail(c.links)).to = t
            <4>1. h.dir = "bin" /\ t.prog # "tt" /\ t # Dev
                BY <1>4, <1>5, <2>5, PlanFacts, ZenonT(60) DEF Dirs
            <4>2. QED
                BY <1>4, <1>5, <4>1, PlanFacts DEF Targets
        <3>2. QED
            BY <1>8, <2>3, <2>5, <3>1 DEF Linking
    <2>6. CASE /\ t = Dev
               /\ Becomes(p, "headers", c.flags, c.name, c.dir, c.names, Tail(c.links), c.unlinked, TRUE)
        <3>1. Moves(p) /\ cmd'[p].pc = "headers" /\ cmd'[p].touched
            BY <2>6 DEF Becomes
        <3>2. LinkOf(t.prog) = "tarantool"
            BY <2>6, NameFacts DEF LinkOf
        <3>3. hurt = 0 => SoundBut("tarantool", None)'
            BY <2>3, <3>2 DEF Ready
        <3>4. hurt = 0 => AgreeOf(cmd[p])'
            BY <3>1, <3>3 DEF AgreeOf, AgreeCopy, AgreeLink, AgreeRemove, Linking
        <3>5. QED
            BY <1>2, <3>1, <3>4, AgreeMoves
    <2>7. QED
        BY <1>4, <1>11, <2>1, <2>4, <2>5, <2>6, SymlinkStep
<1>12. QED
    BY <1>9, <1>10, <1>11

\* The headers of a development build.
LEMMA AgreeHeaders ==
    ASSUME BinInv, DoneInv, AgreeInv, NEW p \in Procs, Headers(p)
    PROVE  AgreeInv'
<1> DEFINE c == cmd[p]
<1>1. c.pc = "headers" /\ UNCHANGED file /\ c.pc # "idle"
    BY HeadersStep
<1>2. SUFFICES ASSUME ~Fails(p)
               PROVE  AgreeInv'
    BY <1>1, AgreeFails
<1>3. LinkPut("inc", "tarantool", None)
    BY <1>2, HeadersStep
<1>4. hurt = 0 => c.touched /\ c.alone /\ SoundBut("tarantool", None)
    BY <1>1, AgreeFacts DEF AgreeOf, AgreeLink
<1>5. hurt = 0 => SoundBut("tarantool", None)'
    BY <1>1, <1>3, <1>4, SoundLink, BinariesAssumption DEF Dirs, LinkNames
<1>6. CASE Succeeds(p)
    <2>1. hurt = 0 => link["bin"]["tarantool"] = Dev
        BY <1>1, <1>4 DEF DoneInv, DoneOf
    <2>2. hurt = 0 => link'["bin"]["tarantool"] = Dev /\ link'["inc"]["tarantool"] = None
        BY <1>3, <2>1 DEF LinkPut, Dirs, LinkNames
    <2>3. hurt = 0 => SoundBut("", None)'
        BY <1>5, <2>2, SoundEnoughNext, NameFacts DEF Pair
    <2>4. QED
        BY <1>1, <1>6, <2>3, AgreeSucceeds
<1>7. CASE Plans(p, c.name, <<LinkFor("inc", Dev)>>)
    <2>1. Head(<<LinkFor("inc", Dev)>>).to = Dev
        BY SMT DEF LinkFor
    <2>2. /\ Moves(p) /\ cmd'[p].pc \in Linking /\ cmd'[p].pc # "idle" /\ cmd'[p].touched = c.touched
          /\ Head(cmd'[p].links).to = Dev
        BY <1>7, <2>1 DEF Plans, Becomes, Linking
    <2>3. LinkOf(Dev.prog) = "tarantool" /\ Dev \notin Names
        BY NameFacts DEF LinkOf
    <2>4. hurt = 0 => Ready(Dev)'
        BY <1>5, <2>3 DEF Ready
    <2>5. hurt = 0 => AgreeOf(cmd[p])'
        BY <1>4, <2>2, <2>4, AgreeLinking
    <2>6. QED
        BY <1>1, <2>2, <2>5, AgreeMoves
<1>8. QED
    BY <1>2, <1>6, <1>7, HeadersStep

\* tt uninstall up to its first change, the removal of a development build, and the choice of
\* another version when the active one was removed.
LEMMA AgreeOver ==
    ASSUME BinInv, AgreeInv, NEW p \in Procs, Uninstall(p) \/ RemoveDev(p) \/ SwitchToLatest(p)
    PROVE  AgreeInv'
<1> DEFINE c == cmd[p]
<1>1. c.pc \in {"uninstall", "undev", "latest"} /\ c.pc # "idle" /\ UNCHANGED file
    BY UninstallStep, RemoveDevStep, LatestStep
<1>2. ShapeOf(c) /\ c.dir \in Dirs
    BY DEF BinInv, BinTypeOK, Command
<1>3. Fails(p) => AgreeInv'
    BY <1>1, AgreeFails
<1>4. hurt = 0 => (~c.touched => SoundBut("", None)) /\ AgreeRemove(c)
    BY <1>1, AgreeFacts DEF AgreeOf
<1>5. ASSUME Moves(p), cmd'[p].pc \in Removing \ {"uninstall"}, hurt = 0 => AgreeRemove(cmd[p])',
             hurt = 0 => cmd'[p].touched \/ SoundBut("", None)'
      PROVE  AgreeInv'
    <2>1. hurt = 0 => AgreeOf(cmd[p])'
        BY <1>5, AgreeRemoving
    <2>2. cmd'[p].pc # "idle"
        BY <1>5 DEF Removing
    <2>3. QED
        BY <1>1, <1>5, <2>1, <2>2, AgreeMoves
<1>6. CASE Uninstall(p)
    <2>1. ~c.touched /\ ~c.unlinked /\ c.dir = "bin" /\ UNCHANGED <<file, link>>
        BY <1>2, <1>6, UninstallStep DEF ShapeOf
    <2>2. hurt = 0 => SoundBut("", None)'
        BY <1>4, <2>1, SoundSame
    <2>3. ASSUME NEW k \in {"undev", "remove"}, NEW n, NEW s,
                 Becomes(p, k, c.flags, n, c.dir, s, c.links, c.unlinked, c.touched)
          PROVE  AgreeInv'
        <3>1. /\ Moves(p) /\ cmd'[p].pc = k /\ cmd'[p].dir = "bin" /\ ~cmd'[p].unlinked
              /\ ~cmd'[p].touched
            BY <2>1, <2>3 DEF Becomes
        <3>2. hurt = 0 => AgreeRemove(cmd[p])'
            BY <2>2, <2>3, <3>1 DEF AgreeRemove, SoundBut, ActiveBut
        <3>3. cmd'[p].pc \in Removing \ {"uninstall"}
            BY <2>3, <3>1 DEF Removing
        <3>4. QED
            BY <1>5, <2>2, <3>1, <3>2, <3>3
    <2>4. QED
        BY <1>3, <1>6, <2>3, UninstallStep
<1>7. CASE RemoveDev(p)
    <2>1. SUFFICES ASSUME ~Fails(p)
                   PROVE  AgreeInv'
        BY <1>3
    <2>2. c.pc = "undev" /\ LinkPut(c.dir, "tarantool", None)
        BY <1>7, <2>1, RemoveDevStep
    <2>3. c.prog = "tarantool-dev" /\ LinkOf(c.prog) = "tarantool"
        BY <1>2, <2>2 DEF ShapeOf, LinkOf
    <2>4. hurt = 0 => SoundBut("tarantool", None)
        <3>1. c.dir = "inc" /\ hurt = 0 => SoundBut("tarantool", None)
            BY <1>4, <2>2 DEF AgreeRemove
        <3>2. c.dir = "bin" /\ hurt = 0 => ~c.touched
            BY <1>4, <2>2 DEF AgreeRemove
        <3>3. QED
            BY <1>2, <1>4, <3>1, <3>2, SoundWeaker DEF Dirs
    <2>5. hurt = 0 => SoundBut("tarantool", None)'
        BY <1>1, <1>2, <2>2, <2>4, SoundLink, BinariesAssumption DEF LinkNames
    <2>6. hurt = 0 => link'["bin"]["tarantool"] = None
        BY <1>2, <1>4, <2>2, <2>3 DEF AgreeRemove, LinkPut, Dirs, LinkNames
    <2>7. c.dir = "inc" => link'["inc"]["tarantool"] = None
        BY <2>2 DEF LinkPut, Dirs, LinkNames
    <2>8. ASSUME NEW k \in {"undev", "latest"}, c.dir = "bin" => k = "undev",
                 Becomes(p, k, c.flags, c.name, "inc", c.names, c.links, c.unlinked, TRUE)
          PROVE  AgreeInv'
        <3>1. /\ Moves(p) /\ cmd'[p].pc = k /\ cmd'[p].dir = "inc" /\ cmd'[p].touched
              /\ cmd'[p].prog = c.prog
            BY <2>8 DEF Becomes, Moves
        <3>2. hurt = 0 => AgreeRemove(cmd[p])'
            BY <1>2, <2>3, <2>5, <2>6, <2>7, <2>8, <3>1 DEF AgreeRemove, Dirs
        <3>3. cmd'[p].pc \in Removing \ {"uninstall"}
            BY <2>8, <3>1 DEF Removing
        <3>4. QED
            BY <1>5, <3>1, <3>2, <3>3
    <2>9. QED
        BY <1>7, <2>1, <2>8, RemoveDevStep
<1>8. CASE SwitchToLatest(p)
    <2>1. c.pc = "latest" /\ UNCHANGED <<file, link>> /\ c.touched
        BY <1>2, <1>8, LatestStep DEF ShapeOf
    <2>2. PICK l : l = LinkOf(c.prog)
        OBVIOUS
    <2>3. hurt = 0 => SoundBut(l, None) /\ link["bin"][l] = None
                      /\ (l = "tarantool" => link["inc"]["tarantool"] = None)
        BY <1>4, <2>1, <2>2 DEF AgreeRemove
    <2>4. ASSUME Succeeds(p), \A m \in Names : m.ver # "master" /\ LinkOf(m.prog) = l => ~Installed(m)
          PROVE  AgreeInv'
        <3>1. hurt = 0 => SoundBut("", None)
            BY <2>3, <2>4, SoundEnough, BinariesAssumption DEF Pair
        <3>2. hurt = 0 => SoundBut("", None)'
            BY <2>1, <3>1, SoundSame
        <3>3. QED
            BY <1>1, <2>4, <3>2, AgreeSucceeds
    <2>5. ASSUME NEW n \in Names, Installed(n), LinkOf(n.prog) = l, Plans(p, c.name, LinksTo(n.prog, n))
          PROVE  AgreeInv'
        <3>1. Head(LinksTo(n.prog, n)) = LinkFor("bin", n)
            BY LinksToIs DEF Targets
        <3>2. LinkFor("bin", n).to = n
            BY DEF LinkFor
        <3>3. /\ Moves(p) /\ cmd'[p].pc \in Linking /\ cmd'[p].pc # "idle" /\ cmd'[p].touched
              /\ Head(cmd'[p].links).to = n
            BY <2>1, <2>5, <3>1, <3>2 DEF Plans, Becomes, Linking
        <3>4. hurt = 0 => Ready(n)
            BY <2>3, <2>5, ReadyIs
        <3>5. hurt = 0 => Ready(n)'
            BY <2>1, <3>4, ReadySame
        <3>6. hurt = 0 => AgreeOf(cmd[p])'
            BY <3>3, <3>5, AgreeLinking
        <3>7. QED
            BY <1>1, <3>3, <3>6, AgreeMoves
    <2>6. QED
        BY <1>8, <2>2, <2>4, <2>5, LatestStep
<1>9. QED
    BY <1>6, <1>7, <1>8

\* tt uninstall of a program: a version whose link is not removed is not the active one, and the
\* headers of one whose link is removed lose theirs too.
LEMMA AgreeRemoves ==
    ASSUME BinInv, DoneInv, AgreeInv, NEW p \in Procs, RemoveProgram(p) \/ RemoveLink(p) \/ RemoveFile(p)
    PROVE  AgreeInv'
<1> DEFINE c == cmd[p]
           l == LinkOf(c.prog)
           b == link["bin"][l]
           i == link["inc"]["tarantool"]
<1>1. c.pc \in {"remove", "removeLink", "removeFile"} /\ c.pc # "idle"
    BY RemoveProgramStep, RemoveLinkStep, RemoveFileStep
<1>2. /\ c.op = "uninstall" /\ c.dir \in Dirs /\ l \in LinkNames /\ c.prog # "tarantool-dev"
      /\ c.dir = "inc" => c.touched /\ c.prog # "tt" /\ l = "tarantool"
      /\ c.unlinked => c.touched
      /\ c.pc \in {"remove", "removeLink"} /\ c.dir = "bin" => ~c.touched
      /\ c.pc \in {"removeLink", "removeFile"} => c.name \in Names /\ c.name.prog = c.prog
    <2>1. ShapeOf(c) /\ c.dir \in Dirs
        BY DEF BinInv, BinTypeOK, Command
    <2>2. c.op = "uninstall" /\ (c.unlinked => c.touched)
        BY <1>1, <2>1 DEF ShapeOf, Removing
    <2>3. /\ c.pc \in {"remove", "removeLink"} /\ c.dir = "bin" => ~c.touched
          /\ c.pc \in {"removeLink", "removeFile"} => c.name \in Names /\ c.name.prog = c.prog
          /\ c.pc = "remove" => c.prog \in Programs
        BY <1>1, <2>1 DEF ShapeOf
    <2>4. c.dir = "inc" => c.touched /\ c.prog # "tt"
        BY <1>1, <2>1 DEF ShapeOf
    <2>5. c.prog \in Programs
        BY <1>1, <2>3, NameFacts
    <2>6. QED
        BY <2>1, <2>2, <2>3, <2>4, <2>5 DEF LinkOf, LinkNames, Programs
<1>3. Fails(p) => AgreeInv'
    BY <1>1, AgreeFails
<1>4. hurt = 0 => (~c.touched => SoundBut("", None)) /\ AgreeRemove(c) /\ c.alone
    BY <1>1, AgreeFacts DEF AgreeOf
<1>5. ASSUME Moves(p), cmd'[p].pc \in {"remove", "removeLink", "removeFile", "latest"},
             hurt = 0 => AgreeRemove(cmd[p])',
             hurt = 0 => cmd'[p].touched \/ SoundBut("", None)'
      PROVE  AgreeInv'
    <2>1. cmd'[p].pc \in Removing \ {"uninstall"} /\ cmd'[p].pc # "idle"
        BY <1>5 DEF Removing
    <2>2. hurt = 0 => AgreeOf(cmd[p])'
        BY <1>5, <2>1, AgreeRemoving
    <2>3. QED
        BY <1>1, <1>5, <2>1, <2>2, AgreeMoves
<1>6. hurt = 0 => SoundBut(IF c.unlinked THEN l ELSE "", None) /\ (c.unlinked => b = None)
    BY <1>1, <1>4 DEF AgreeRemove
<1>7. PICK o : o = IF c.unlinked THEN l ELSE ""
    OBVIOUS
<1>8. CASE RemoveProgram(p)
    <2>1. c.pc = "remove" /\ UNCHANGED <<file, link>>
        BY <1>8, RemoveProgramStep
    <2>2. hurt = 0 => SoundBut(o, None)'
        BY <1>7, <1>6, <2>1, SoundSame
    <2>3. hurt = 0 /\ ~c.touched => SoundBut("", None)'
        BY <1>4, <2>1, SoundSame
    <2>4. ASSUME NEW s, c.dir = "bin",
                 Becomes(p, "remove", c.flags, c.name, c.dir, s, c.links, c.unlinked, c.touched)
          PROVE  AgreeInv'
        <3>1. /\ Moves(p) /\ cmd'[p].pc = "remove" /\ cmd'[p].dir = "bin" /\ cmd'[p].unlinked = c.unlinked
              /\ cmd'[p].touched = c.touched /\ cmd'[p].prog = c.prog
            BY <2>4 DEF Becomes, Moves
        <3>2. hurt = 0 => AgreeRemove(cmd[p])'
            <4>1. ~c.unlinked
                BY <1>2, <2>1, <2>4
            <4>2. o = ""
                BY <1>7, <4>1
            <4>3. QED
                BY <2>2, <3>1, <4>1, <4>2 DEF AgreeRemove, SoundBut, ActiveBut
        <3>3. QED
            BY <1>5, <2>3, <3>1, <3>2
    <2>5. ASSUME NEW k \in {"removeLink", "removeFile"}, NEW n \in Names, Resolves(c.dir, l),
                 c.dir = "inc" => n = c.name,
                 k = "removeLink" <=> <<n, link[c.dir][l]>> \in Within,
                 Becomes(p, k, c.flags, n, c.dir, c.names, c.links, c.unlinked, c.touched)
          PROVE  AgreeInv'
        <3>1. /\ Moves(p) /\ cmd'[p].pc = k /\ cmd'[p].dir = c.dir /\ cmd'[p].unlinked = c.unlinked
              /\ cmd'[p].touched = c.touched /\ cmd'[p].prog = c.prog /\ cmd'[p].name = n
            BY <2>5 DEF Becomes, Moves
        <3>2. hurt = 0 /\ c.dir = "inc" =>
                 /\ ~c.unlinked => <<n, b>> \notin Within
                 /\ c.unlinked /\ i # None => <<n, i>> \in Within
            BY <1>2, <1>4, <2>1, <2>5 DEF AgreeRemove
        <3>3. c.dir = "bin" => ~c.unlinked /\ (k = "removeFile" => <<n, b>> \notin Within)
            BY <1>2, <2>1, <2>5
        <3>4. hurt = 0 /\ c.dir = "inc" /\ k = "removeLink" => c.unlinked
            <4>1. c.dir = "inc" => link[c.dir][l] = i /\ i # None
                BY <1>2, <2>5 DEF Resolves
            <4>2. hurt = 0 /\ c.dir = "inc" /\ ~c.unlinked => Pair /\ l = "tarantool"
                BY <1>2, <1>6 DEF SoundBut
            <4>3. hurt = 0 /\ c.dir = "inc" /\ ~c.unlinked => b = i
                BY <4>1, <4>2 DEF Pair
            <4>4. QED
                BY <2>5, <3>2, <4>1, <4>3
        <3>5. hurt = 0 /\ c.dir = "inc" /\ k = "removeFile" /\ c.unlinked => i = None
            BY <1>2, <2>5, <3>2
        <3>6. hurt = 0 =>
                 /\ SoundBut(IF cmd[p].unlinked THEN LinkOf(cmd[p].prog) ELSE "", None)'
                 /\ c.unlinked => link'["bin"][l] = None
            BY <1>7, <1>6, <2>1, <2>2, <3>1 DEF SoundBut, ActiveBut
        <3>7. hurt = 0 => AgreeRemove(cmd[p])'
            BY <1>2, <2>1, <2>5, <3>1, <3>2, <3>3, <3>4, <3>5, <3>6 DEF AgreeRemove, Dirs
        <3>8. QED
            BY <1>5, <2>3, <2>5, <3>1, <3>7
    <2>6. QED
        BY <1>3, <1>8, <2>4, <2>5, RemoveProgramStep
<1>9. CASE RemoveLink(p)
    <2>1. SUFFICES ASSUME ~Fails(p)
                   PROVE  AgreeInv'
        BY <1>3
    <2>2. /\ c.pc = "removeLink" /\ UNCHANGED file /\ LinkPut(c.dir, l, None)
          /\ Becomes(p, "removeFile", c.flags, c.name, c.dir, c.names, c.links,
                     c.unlinked \/ c.dir = "bin", TRUE)
        BY <1>9, <2>1, RemoveLinkStep
    <2>3. hurt = 0 => <<c.name, link[c.dir][l]>> \in Within /\ (c.dir = "inc" => c.unlinked)
        BY <1>4, <2>2 DEF AgreeRemove
    <2>4. /\ Moves(p) /\ cmd'[p].pc = "removeFile" /\ cmd'[p].dir = c.dir /\ cmd'[p].touched
          /\ cmd'[p].prog = c.prog /\ cmd'[p].name = c.name /\ (hurt = 0 => cmd'[p].unlinked)
        BY <1>2, <2>2, <2>3 DEF Becomes, Moves, Dirs
    <2>5. hurt = 0 => SoundBut(l, None)
        BY <1>6, SoundWeaker
    <2>6. PICK k \in LinkNames : k = l
        BY <1>2
    <2>7. hurt = 0 => SoundBut(k, None)'
        BY <1>2, <2>2, <2>5, <2>6, SoundLink, BinariesAssumption
    <2>8. hurt = 0 => link'["bin"][k] = None
        BY <1>2, <1>6, <2>2, <2>3, <2>6 DEF LinkPut, Dirs
    <2>9. hurt = 0 /\ k = "tarantool" /\ link'["inc"]["tarantool"] # None =>
             <<c.name, link'["inc"]["tarantool"]>> \in Within /\ c.dir = "bin"
        <3>1. CASE c.dir = "inc"
            BY <1>2, <2>2, <2>6, <3>1 DEF LinkPut
        <3>2. CASE c.dir = "bin"
            <4>1. link'["inc"]["tarantool"] = i
                BY <2>2, <3>2 DEF LinkPut, Dirs, LinkNames
            <4>2. hurt = 0 => Pair
                BY <1>2, <1>4, <2>2, <3>2 DEF SoundBut
            <4>3. hurt = 0 /\ k = "tarantool" /\ i # None => b = i
                BY <2>6, <4>2 DEF Pair
            <4>4. QED
                BY <2>3, <2>6, <3>2, <4>1, <4>3
        <3>3. QED
            BY <1>2, <3>1, <3>2 DEF Dirs
    <2>10. hurt = 0 => AgreeRemove(cmd[p])'
        <3>1. LinkOf(cmd'[p].prog) = k
            BY <2>4, <2>6
        <3>2. hurt = 0 /\ c.dir = "inc" => link'["inc"]["tarantool"] = None
            BY <1>2, <2>2, <2>6 DEF LinkPut
        <3>3. QED
            BY <2>4, <2>7, <2>8, <2>9, <3>1, <3>2 DEF AgreeRemove, SoundBut, ActiveBut
    <2>11. QED
        BY <1>5, <2>4, <2>10
<1>10. CASE RemoveFile(p)
    <2>1. c.pc = "removeFile" /\ FilePut(c.dir, c.name, "absent") /\ UNCHANGED link
        BY <1>10, RemoveFileStep
    <2>2. PICK n \in Names : n = c.name /\ n.prog = c.prog
        BY <1>2, <2>1
    <2>3. hurt = 0 => \A k \in LinkNames : link[c.dir][k] # n
        <3>1. hurt = 0 => link[c.dir][l] # n
            BY <1>2, <1>4, <2>1, <2>2 DEF DoneInv, DoneOf
        <3>2. ASSUME NEW k \in LinkNames, link[c.dir][k] = n
              PROVE  k = l
            <4>1. n # None /\ LinkOf(n.prog) = l
                BY <2>2, NameFacts
            <4>2. LinkOf(link[c.dir][k].prog) = k
                BY <1>2, <3>2, <4>1 DEF BinInv, Placed
            <4>3. QED
                BY <3>2, <4>1, <4>2
        <3>3. QED
            BY <3>1, <3>2
    <2>4. hurt = 0 => SoundBut(o, None)'
        BY <1>7, <1>2, <1>6, <2>1, <2>2, <2>3, SoundGone
    <2>5. hurt = 0 => /\ ~c.unlinked => <<c.name, b>> \notin Within
                      /\ c.unlinked /\ l = "tarantool" /\ i # None => <<c.name, i>> \in Within
                      /\ c.dir = "inc" /\ c.unlinked => i = None
        BY <1>4, <2>1 DEF AgreeRemove
    <2>6. CASE Becomes(p, "remove", c.flags, c.name, "inc", <<c.name>>, c.links, c.unlinked, TRUE)
        <3>1. /\ Moves(p) /\ cmd'[p].pc = "remove" /\ cmd'[p].dir = "inc" /\ cmd'[p].touched
              /\ cmd'[p].prog = c.prog /\ cmd'[p].name = c.name /\ cmd'[p].unlinked = c.unlinked
            BY <2>6 DEF Becomes, Moves
        <3>2. hurt = 0 =>
                 /\ SoundBut(IF cmd[p].unlinked THEN LinkOf(cmd[p].prog) ELSE "", None)'
                 /\ c.unlinked => link'["bin"][l] = None
            BY <1>7, <1>6, <2>1, <2>4, <3>1 DEF SoundBut, ActiveBut
        <3>3. hurt = 0 => AgreeRemove(cmd[p])'
            BY <2>1, <2>5, <3>1, <3>2 DEF AgreeRemove
        <3>4. QED
            BY <1>5, <3>1, <3>3
    <2>7. CASE c.dir = LastDir(c.prog) /\ c.unlinked /\ Proceeds(p, "latest")
        <3>1. /\ Moves(p) /\ cmd'[p].pc = "latest" /\ cmd'[p].touched /\ cmd'[p].prog = c.prog
            BY <1>2, <2>7 DEF Proceeds, Becomes, Moves
        <3>2. l = "tarantool" => c.dir = "inc"
            BY <2>7 DEF LinkOf, LastDir
        <3>3. hurt = 0 => SoundBut(LinkOf(cmd[p].prog), None)'
            BY <1>7, <2>4, <2>7, <3>1 DEF SoundBut, ActiveBut
        <3>4. hurt = 0 => AgreeRemove(cmd[p])'
            BY <1>6, <2>1, <2>5, <2>7, <3>1, <3>2, <3>3 DEF AgreeRemove
        <3>5. QED
            BY <1>5, <3>1, <3>4
    <2>8. CASE ~c.unlinked /\ Succeeds(p)
        <3>1. hurt = 0 => SoundBut("", None)'
            BY <1>7, <2>4, <2>8
        <3>2. QED
            BY <1>1, <2>8, <3>1, AgreeSucceeds
    <2>9. QED
        BY <1>10, <2>6, <2>7, <2>8, RemoveFileStep
<1>11. QED
    BY <1>8, <1>9, <1>10

\* Starting a command: one that overlaps with another counts in hurt.
LEMMA AgreeStart ==
    ASSUME BinInv, AgreeInv, NEW p \in Procs, NEW r \in Requests, Start(p, r)
    PROVE  AgreeInv'
<1>1. UNCHANGED <<file, link>> /\ cmd[p].pc = "idle" /\ cmd'[p].pc \in Beginning /\ cmd'[p].pc # "idle"
    BY StartStep DEF Beginning
<1>2. CASE Busy(p)
    <2>1. hurt' # 0
        BY <1>2, StartStep, SMT
    <2>2. QED
        BY <2>1 DEF AgreeInv
<1>3. CASE ~Busy(p)
    <2>1. hurt' = hurt /\ \A q \in Procs : cmd[q].pc = "idle"
        BY <1>1, <1>3, StartStep DEF Busy
    <2>2. \A q \in Procs : q # p => cmd'[q].pc = "idle"
        BY <2>1, StartStep
    <2>3. hurt = 0 => SoundBut("", None)
        BY <2>1 DEF AgreeInv, Quiet, At
    <2>4. hurt = 0 => SoundBut("", None)'
        BY <1>1, <2>3, SoundSame
    <2>5. hurt = 0 => AgreeOf(cmd[p])'
        BY <1>1, <2>4, AgreeBefore
    <2>6. hurt = 0 => \A q \in Procs : cmd'[q].pc # "idle" => AgreeOf(cmd[q])'
        BY <2>2, <2>5
    <2>7. QED
        BY <2>1, <2>4, <2>6 DEF AgreeInv
<1>4. QED
    BY <1>2, <1>3

\* A step that leaves files, links and commands alone.
LEMMA AgreeSame ==
    ASSUME AgreeInv, UNCHANGED <<file, link, cmd, hurt>>
    PROVE  AgreeInv'
<1>1. \A l, m : SoundBut(l, m)' <=> SoundBut(l, m)
    BY SMT DEF SoundBut, WholeBut, LinkedBut, ActiveBut, Pair, Installed, Present
<1>2. ASSUME NEW p \in Procs, AgreeOf(cmd[p])
      PROVE  AgreeOf(cmd[p])'
    <2>1. PICK c : c = cmd[p]
        OBVIOUS
    <2>2. cmd'[p] = c
        BY <2>1
    <2>3. AgreeCopy(c)' /\ AgreeLink(c)' /\ AgreeRemove(c)' /\ (~c.touched => SoundBut("", None)')
        <3>1. AgreeCopy(c)' <=> AgreeCopy(c)
            BY <1>1 DEF AgreeCopy
        <3>2. AgreeLink(c)' <=> AgreeLink(c)
            BY <1>1 DEF AgreeLink, Ready
        <3>3. AgreeRemove(c)' <=> AgreeRemove(c)
            BY <1>1 DEF AgreeRemove
        <3>4. QED
            BY <1>1, <1>2, <2>1, <3>1, <3>2, <3>3 DEF AgreeOf
    <2>4. AgreeCopy(cmd[p])'
        BY <2>2, <2>3 DEF AgreeCopy, SoundBut, WholeBut, LinkedBut, ActiveBut
    <2>5. AgreeLink(cmd[p])'
        BY <2>2, <2>3 DEF AgreeLink, Ready, SoundBut, ActiveBut
    <2>6. AgreeRemove(cmd[p])'
        BY <2>2, <2>3 DEF AgreeRemove, SoundBut, ActiveBut
    <2>7. QED
        BY <2>2, <2>3, <2>4, <2>5, <2>6 DEF AgreeOf
<1>3. Quiet' <=> Quiet
    BY DEF Quiet, At
<1>4. QED
    BY <1>1, <1>2, <1>3 DEF AgreeInv

\* AgreeInv holds at first.
LEMMA AgreeInit ==
    ASSUME Init
    PROVE  AgreeInv
<1>1. WholeBut(None) /\ LinkedBut(None) /\ Pair
    BY InitFacts DEF WholeBut, LinkedBut
<1>2. ActiveBut("", None)
    BY InitFacts, InstalledIs DEF ActiveBut, Present
<1>3. SoundBut("", None)
    BY <1>1, <1>2 DEF SoundBut
<1>4. \A p \in Procs : cmd[p].pc = "idle"
    BY InitFacts
<1>5. QED
    BY <1>3, <1>4 DEF AgreeInv

\* Every step keeps AgreeInv.
LEMMA AgreeNext ==
    ASSUME BinInv, DoneInv, AgreeInv, [Next]_vars
    PROVE  AgreeInv'
<1>1. \A p \in Procs : Interrupt(p) => AgreeInv'
    BY InterruptStep, AgreeFails
<1>2. BuildDirGone \/ UNCHANGED vars => AgreeInv'
    BY GoneStep, AgreeSame DEF vars
<1>3. QED
    BY <1>1, <1>2, AgreeStart, AgreeInstall, AgreeCopies, AgreeLinks, AgreeHeaders, AgreeOver,
       AgreeRemoves DEF Next

\* As long as commands run one at a time and none stops half-way, every command keeps all versions but
\* the one it works on whole, and all links but those of the program it works on in agreement.
THEOREM AgreeInvariance == Spec => [](BinInv /\ DoneInv /\ AgreeInv)
<1>1. Init => AgreeInv
    BY AgreeInit
<1>2. BinInv /\ DoneInv /\ AgreeInv /\ [Next]_vars => AgreeInv'
    BY AgreeNext
<1>3. QED
    BY <1>1, <1>2, BinariesInvariance, PTL DEF Spec

\* Between commands that ran one at a time and none of which stopped half-way, the active tarantool
\* and its headers are of one version and whole, and every program that has a version has an active
\* one (LinksAgree): for any sets of programs, versions and commands.
THEOREM LinksStayInAgreement == Spec => []LinksAgree
<1>1. AgreeInv => LinksAgree
    <2>1. SUFFICES ASSUME AgreeInv, Quiet, hurt = 0
                   PROVE  LinksAgree
        BY DEF LinksAgree
    <2>2. WholeBut(None) /\ LinkedBut(None) /\ ActiveBut("", None) /\ Pair
        BY <2>1 DEF AgreeInv, SoundBut
    <2>3. \A d \in Dirs, l \in LinkNames : link[d][l] \in Names => file[d][link[d][l]] = "whole"
        BY <2>2, NameFacts DEF LinkedBut
    <2>4. \A n \in Names : n.ver # "master" /\ Installed(n) => link["bin"][LinkOf(n.prog)] # None
        BY <2>2, NameFacts DEF ActiveBut, LinkOf
    <2>5. QED
        BY <2>2, <2>3, <2>4 DEF LinksAgree, Pair
<1>2. QED
    BY <1>1, AgreeInvariance, PTL
=============================================================================
