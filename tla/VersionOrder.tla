---------------------------- MODULE VersionOrder -----------------------------
(***************************************************************************)
(* Versions of programs and their order (cli/version/version_tools.go),    *)
(* and the loop over bin_dir that looks for the newest installed version   *)
(* of a program after the active one has been removed                      *)
(* (cli/uninstall/uninstall.go, searchLatestVersion).                      *)
(***************************************************************************)
EXTENDS Naturals, Sequences

CONSTANTS
    Listings      \* what os.ReadDir may return: sequences of entries

\* What IsLess compares, in its order: major, minor, patch, type and number of the release,
\* additional commits, revision.
Fields == 1 .. 7
Version == [Fields -> Nat]

\* An entry of bin_dir: a directory, a name of another form, an unknown version (master), the
\* hash of a commit or a version; whether its program is one of those looked for, and whether
\* its headers are there or not needed.
Entry == [kind : {"dir", "other", "unknown", "hash", "version"}, suitable : BOOLEAN,
          headers : BOOLEAN, ver : Version]

ASSUME ListingsAssumption == Listings \subseteq Seq(Entry)

VARIABLES
    binaries,           \* the entries of bin_dir
    at,                 \* the entry the loop looks at
    latestVersion,      \* the newest version so far: its entry, 0 for none
    latestVersionInfo,  \* its parsed version
    latestHash          \* the entry of the first commit build so far, 0 for none

latestVars == <<binaries, at, latestVersion, latestVersionInfo, latestHash>>

-----------------------------------------------------------------------------
(* Versions. *)

\* newRelease: a version without a release type is a release.
ReleaseType(release) ==
    CASE release = "entrypoint" -> 0
      [] release = "alpha" -> 1
      [] release = "beta" -> 2
      [] release = "rc" -> 3
      [] release = "" -> 4

\* Parse: the numbers of a text, the optional ones being 0 when they are missing.
Parse(text) ==
    [f \in Fields |-> IF f <= 3 THEN text.numbers[f]
                      ELSE IF f = 4 THEN ReleaseType(text.release)
                      ELSE text.optional[f - 4]]

\* Faulty variant: the first smaller field decides, whatever comes before it.
IsLessAnywhere(left, right) == \E i \in Fields : left[i] < right[i]

\* The first field that differs decides.
IsLess(left, right) ==
    \E i \in Fields : left[i] < right[i] /\ \A j \in 1 .. (i - 1) : left[j] = right[j]

-----------------------------------------------------------------------------
(* searchLatestVersion. *)

LatestInit ==
    /\ binaries \in Listings
    /\ at = 1 /\ latestVersion = 0 /\ latestHash = 0
    /\ latestVersionInfo = [f \in Fields |-> 0]

Usable(k) ==
    /\ binaries[k].kind \in {"hash", "version"}
    /\ binaries[k].suitable /\ binaries[k].headers

Skip ==
    /\ at <= Len(binaries) /\ at' = at + 1
    /\ ~Usable(at)
    /\ UNCHANGED <<binaries, latestVersion, latestVersionInfo, latestHash>>

\* Of commit builds the first one counts.
LookAtHash ==
    /\ at <= Len(binaries) /\ at' = at + 1
    /\ Usable(at) /\ binaries[at].kind = "hash"
    /\ latestHash' = IF latestHash = 0 THEN at ELSE latestHash
    /\ UNCHANGED <<binaries, latestVersion, latestVersionInfo>>

\* Faulty variant: the version compared with is not the one found last.
LookAtVersionKeepsInfo ==
    /\ at <= Len(binaries) /\ at' = at + 1
    /\ Usable(at) /\ binaries[at].kind = "version"
    /\ latestVersion' = IF latestVersion = 0 \/ IsLess(latestVersionInfo, binaries[at].ver)
                        THEN at ELSE latestVersion
    /\ UNCHANGED <<binaries, latestVersionInfo, latestHash>>

LookAtVersion ==
    /\ at <= Len(binaries) /\ at' = at + 1
    /\ Usable(at) /\ binaries[at].kind = "version"
    /\ IF latestVersion = 0 \/ IsLess(latestVersionInfo, binaries[at].ver)
       THEN latestVersion' = at /\ latestVersionInfo' = binaries[at].ver
       ELSE UNCHANGED <<latestVersion, latestVersionInfo>>
    /\ UNCHANGED <<binaries, latestHash>>

\* What the function returns after the loop.
Latest == IF latestVersion # 0 THEN latestVersion ELSE latestHash

LatestNext == Skip \/ LookAtHash \/ LookAtVersion
LatestSpec == LatestInit /\ [][LatestNext]_latestVars

-----------------------------------------------------------------------------
(* Properties. *)

\* The usable entries of a kind before n.
UsableBefore(kind, n) == {k \in 1 .. (n - 1) : Usable(k) /\ binaries[k].kind = kind}

\* When the loop is over, the version found is not older than any other, and the first of its
\* equals; only if there is no version it is the first commit build, and only if there is
\* none of these either, nothing is found: uninstall does not leave a program without an
\* active version, nor with an old one.
LatestIsNewest ==
    at = Len(binaries) + 1 =>
        LET versions == UsableBefore("version", at)
            hashes == UsableBefore("hash", at)
        IN  /\ versions # {} =>
                  /\ Latest \in versions
                  /\ \A k \in versions :
                        /\ ~IsLess(binaries[Latest].ver, binaries[k].ver)
                        /\ k < Latest => IsLess(binaries[k].ver, binaries[Latest].ver)
            /\ versions = {} /\ hashes # {} => Latest \in hashes /\ \A k \in hashes : Latest <= k
            /\ versions = {} /\ hashes = {} => Latest = 0
=============================================================================
