\* A wrong revision goes unnoticed on a Tarantool config storage.
SPECIFICATION Spec
CONSTANTS
    Clients = {c1, c2}
    c1 = c1
    c2 = c2
    All = All
    a = a
    Named = {a}
INVARIANTS
    OkMeansPublished
