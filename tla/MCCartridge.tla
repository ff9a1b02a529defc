---------------------------- MODULE MCCartridge ----------------------------
EXTENDS Cartridge, TLC

MCInstances == <<"s1", "s2", "s3">>
MCReplicasetsCfg == ("r1" :> <<"s1", "s2">>) @@ ("r2" :> <<"s3">>)
MCInstancesYml == {<<"app", "s1">>, <<"app", "s2">>, <<"app", "s3">>, <<"other", "s1">>}
Ask(op, i, r, v) == [op |-> op, inst |-> i, rs |-> r, vshard |-> v]
MCRequests ==
    {Ask("bootstrap", Nothing, Nothing, v) : v \in BOOLEAN}
    \cup {Ask("join", "s2", "r1", FALSE), Ask("join", "s2", "r2", FALSE), Ask("join", "s3", Nothing, FALSE)}
    \cup {Ask("expel", i, Nothing, FALSE) : i \in {"s1", "s3"}}
    \cup {Ask("promote", i, Nothing, FALSE) : i \in {"s2", "s3"}}
    \cup {Ask("vshard", Nothing, Nothing, FALSE)}
Symmetry == Permutations(Procs)
=============================================================================
