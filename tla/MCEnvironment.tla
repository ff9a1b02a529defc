--------------------------- MODULE MCEnvironment ---------------------------
(***************************************************************************)
(* An environment in two machines that share no state: the commands on its *)
(* programs (Binaries), and the search for the newest version in a bin_dir *)
(* of any content (VersionOrder).                                          *)
(***************************************************************************)
EXTENDS Binaries, VersionOrder, TLC

VARIABLE machine  \* what a behaviour follows: "commands" or "search"

Symmetry == Permutations(Procs)

MCTags == [tt |-> {"v1.0.0", "v1.1.0"}] @@ ("tarantool" :> {"1.10.1", "1.10.11"})
          @@ ("tarantool-ee" :> {"2.11.0"})
MCPrefixed == ("1.0.0" :> "v1.0.0") @@ ("1.1.0" :> "v1.1.0")
MCRank == ("v1.0.0" :> 1) @@ ("v1.1.0" :> 2) @@ ("1.10.1" :> 1) @@ ("1.10.11" :> 2)
          @@ ("2.11.0" :> 3)
MCStable == {"v1.0.0", "v1.1.0", "1.10.1", "1.10.11", "2.11.0"}
Bin(g, v) == [prog |-> g, ver |-> v]
MCListing == <<Bin("tarantool", "link"), Bin("tarantool-ee", "2.11.0"),
               Bin("tarantool", "1.10.1"), Bin("tarantool", "1.10.11"),
               Bin("tarantool", "abcdef0"), Bin("tarantool", "master"), Bin("tt", "link"),
               Bin("tt", "abcdef0"), Bin("tt", "master"), Bin("tt", "v1.0.0"), Bin("tt", "v1.1.0")>>
MCWithin == {<<e, e>> : e \in Range(MCListing)}
            \cup {<<Bin("tarantool", "1.10.1"), Bin("tarantool", "1.10.11")>>}
Ask(op, g, v, f) == [op |-> op, prog |-> g, ver |-> v, flags |-> f]
MCRequests ==
    {Ask("install", "tt", v, {}) : v \in {"", "master", "pr/1"}}
    \cup {Ask("install", "tt", "1.0.0", {"reinstall"})}
    \cup {Ask("install", "tarantool", v, {}) : v \in {"", "1.10.1", "master"}}
    \cup {Ask("install", "tarantool", "1.10.11", {"reinstall", "docker"})}
    \cup {Ask("install", "tarantool-ee", v, {}) : v \in {"", "2.11.0"}}
    \cup {Ask("uninstall", "tt", v, {}) : v \in {"", "1.0.0"}}
    \cup {Ask("uninstall", "tarantool", v, {}) : v \in {"", "1.10.1", "abcdef0"}}
    \cup {Ask("uninstall", "tarantool-ee", "2.11.0", {})}
    \cup {Ask("switch", "tt", "", {})}
    \cup {Ask("switch", "tarantool", "1.10.11", {}), Ask("switch", "tarantool-ee", "", {})}
    \cup {Ask(op, "tarantool-dev", "", {}) : op \in {"install", "uninstall"}}

-----------------------------------------------------------------------------
(* The search. *)

\* 1.10.0, 1.9.3, 1.10.0-2, 1.10.0-r1, 1.10.0-rc2, 1.10.0-rc1 and 1.10.0-entrypoint.
Text(minor, patch, release, optional) ==
    [numbers |-> <<1, minor, patch>>, release |-> release, optional |-> optional]
Texts == {Text(10, 0, "", <<0, 0, 0>>), Text(9, 3, "", <<0, 0, 0>>), Text(10, 0, "", <<0, 2, 0>>),
          Text(10, 0, "", <<0, 0, 1>>), Text(10, 0, "rc", <<2, 0, 0>>), Text(10, 0, "rc", <<1, 0, 0>>),
          Text(10, 0, "entrypoint", <<0, 0, 0>>)}
InDir(kind, suitable, headers, text) ==
    [kind |-> kind, suitable |-> suitable, headers |-> headers, ver |-> Parse(text)]
SomeText == CHOOSE t \in Texts : TRUE
MCEntries ==
    {InDir("version", TRUE, TRUE, t) : t \in Texts}
    \cup {InDir(k, TRUE, TRUE, SomeText) : k \in {"hash", "unknown"}}
    \cup {InDir("version", s, FALSE, SomeText) : s \in BOOLEAN}
MCListings == UNION {[1 .. n -> MCEntries] : n \in 0 .. 3}

-----------------------------------------------------------------------------
(* The machines together: the one that a behaviour does not follow rests.  *)

SearchRests ==
    /\ binaries = << >> /\ at = 1 /\ latestVersion = 0 /\ latestHash = 0
    /\ latestVersionInfo = [f \in Fields |-> 0]

\* Nothing is installed.
CommandsRest ==
    /\ Init
    /\ \A d \in Dirs : /\ \A n \in Names : file[d][n] = "absent"
                      /\ \A l \in LinkNames : link[d][l] = None

SumInit ==
    \/ machine = "commands" /\ Init /\ SearchRests
    \/ machine = "search" /\ CommandsRest /\ LatestInit

SumNext ==
    \/ machine = "commands" /\ Next /\ UNCHANGED <<machine, latestVars>>
    \/ machine = "search" /\ LatestNext /\ UNCHANGED <<machine, vars>>

SumSpec == SumInit /\ [][SumNext]_<<machine, vars, latestVars>>
=============================================================================
