----------------------------- MODULE ConfigMerge ----------------------------
(***************************************************************************)
(* Config.Merge of lib/cluster/config.go as the loop it is: ForEach visits  *)
(* the leaves of the low priority configuration in the order in which Go    *)
(* happens to walk its maps, and the configuration grows under the visits.  *)
(***************************************************************************)
EXTENDS Config, Naturals

CONSTANTS
    Paths,     \* the paths of the configurations that are merged
    High, Low  \* the plain values in the two of them

ASSUME MergeAssumption == Paths \subseteq Seq(UNION {{p[n] : n \in DOMAIN p} : p \in Paths})

VARIABLES
    high,     \* the receiver of the call, as it was
    low,      \* the argument
    merging,  \* the receiver
    todo      \* the leaves of low that ForEach has not visited

mergeVars == <<high, low, merging, todo>>

\* The configurations over Paths; the root is null in the empty one only.
Configs(values) ==
    {c \in UNION {[d -> values \cup {Nil, EmptyMap}] : d \in SUBSET Paths} :
        IsConfig(c) /\ (<< >> \in DOMAIN c => c[<< >>] # Nil)}

MergeInit ==
    /\ high \in Configs(High)
    /\ low \in Configs(Low)
    /\ merging = high
    /\ todo = ForEach(low)

Visit(p) ==
    /\ p \in todo
    /\ merging' = MergeLeaf(merging, low, p)
    /\ todo' = todo \ {p}
    /\ UNCHANGED <<high, low>>

MergeNext == \E p \in todo : Visit(p)

MergeSpec == MergeInit /\ [][MergeNext]_mergeVars

-----------------------------------------------------------------------------
\* What a merge should give, leaf by leaf: the receiver decides a path when it has a
\* plain value at or above it, or a map at it.
Decides(c, p) ==
    \/ \E q \in ForEach(c) : IsPrefix(q, p) /\ c[q] # EmptyMap
    \/ IsMap(c, p)

Overlay(c, l) ==
    LET taken == {p \in ForEach(l) : ~Decides(c, p)}
        kept  == {q \in DOMAIN c : \A p \in taken : ~IsPrefix(q, p)}
    IN  [p \in kept \cup taken |-> IF p \in taken THEN l[p] ELSE c[p]]

\* "The outside configuration has a low priority" (config.go): whatever the order of
\* the visits, the result is the receiver overlaid on the argument; and on the way no leaf
\* ever lies below another one.
MergeIsOverlay == IsConfig(merging) /\ (todo = {} => merging = Overlay(high, low))
=============================================================================
