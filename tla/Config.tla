------------------------------- MODULE Config -------------------------------
(***************************************************************************)
(* The configuration container of lib/cluster/config.go.  A Config is a    *)
(* tree of maps; it is modelled by its leaves: a function from the paths of *)
(* the leaves to their values.  No leaf lies below another one, an empty    *)
(* map and a YAML null are leaves, and the configuration without any data   *)
(* has no leaf at all.                                                     *)
(***************************************************************************)
EXTENDS Sequences, SequencesExt

CONSTANTS
    Nil,        \* the null value
    EmptyMap    \* a map without keys

ASSUME ConfigAssumption == Nil # EmptyMap

\* What every Config satisfies by construction.
IsConfig(c) == \A p, q \in DOMAIN c : IsPrefix(p, q) => p = q

NewConfig == [p \in {} |-> Nil]

\* Something is stored at the path: a leaf, or a map with keys.
Present(c, path) == \E q \in DOMAIN c : IsPrefix(path, q)

\* The value at the path is a map.
IsMap(c, path) ==
    \/ \E q \in DOMAIN c : IsStrictPrefix(path, q)
    \/ path \in DOMAIN c /\ c[path] = EmptyMap

\* A value on the way to the path is not a map, so that getMap fails.  The configuration
\* without data is such a value, a null too.
NotMapBelow(c, path) ==
    \/ DOMAIN c = {}
    \/ \E q \in DOMAIN c : IsStrictPrefix(q, path) /\ c[q] # EmptyMap

\* Get: "ok", or the error it returns.
GetStatus(c, path) ==
    IF path = << >> THEN IF DOMAIN c = {} THEN "NotExist" ELSE "ok"
    ELSE IF NotMapBelow(c, path) THEN "NotMap"
    ELSE IF ~Present(c, path) \/ (path \in DOMAIN c /\ c[path] = Nil) THEN "NotExist"
    ELSE "ok"

\* The value Get returns: the leaves below the path, relative to it.
GetConfig(c, path) ==
    LET below == {q \in DOMAIN c : IsPrefix(path, q)}
    IN  [r \in {SubSeq(q, Len(path) + 1, Len(q)) : q \in below} |-> c[path \o r]]

\* The keys of the map at the path.
Elems(c, path) ==
    {q[Len(path) + 1] : q \in {q \in DOMAIN c : IsStrictPrefix(path, q)}}

\* createMaps: a value that is neither a map nor null is in the way.
Settable(c, path) ==
    \A q \in DOMAIN c : IsStrictPrefix(q, path) => c[q] \in {Nil, EmptyMap}

\* The Config that is a plain value.
Leaf(v) == [p \in {<< >>} |-> v]

\* Set with a value that is itself a Config: what was at the path, below it, and the
\* empty maps and nulls on the way to it are replaced.  A Config without data is null.
SetConfig(c, path, sub) ==
    IF ~Settable(c, path) THEN c
    ELSE LET value == IF sub = NewConfig THEN Leaf(Nil) ELSE sub
             kept  == {q \in DOMAIN c : ~IsPrefix(q, path) /\ ~IsPrefix(path, q)}
             new   == {path \o r : r \in DOMAIN value}
         IN  [q \in kept \cup new |->
                 IF q \in new THEN value[SubSeq(q, Len(path) + 1, Len(q))] ELSE c[q]]

Set(c, path, v) == SetConfig(c, path, Leaf(v))

\* ForEach visits the leaves that are not null.
ForEach(c) == {p \in DOMAIN c : c[p] # Nil}

\* Faulty variant: the low priority value is set whatever is there.
MergeLeafAlways(c, low, p) == Set(c, p, low[p])

\* One iteration of Merge; an error of Set is ignored.
MergeLeaf(c, low, p) == IF GetStatus(c, p) # "ok" THEN Set(c, p, low[p]) ELSE c

\* Merge.  Go visits the keys of a map in any order; this is one of them (see
\* ConfigMerge).
Merge(c, low) == FoldSet(LAMBDA p, m : MergeLeaf(m, low, p), c, ForEach(low))

\* mergeExclude: nothing below the excluded path is merged.
MergeExclude(high, low, path) == Merge(high, Set(Merge(NewConfig, low), path, Nil))
=============================================================================
