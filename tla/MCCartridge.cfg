CONSTANTS
    p1 = p1
    p2 = p2
    Procs = {p1, p2}
    InstanceSeq <- MCInstances
    ReplicasetsCfg <- MCReplicasetsCfg
    AppName = "app"
    InstancesYml <- MCInstancesYml
    Requests <- MCRequests
    MaxSets = 3
    MaxCommands = 2
    MaxStops = 1
    Nothing = Nothing
SYMMETRY Symmetry
SPECIFICATION CartSpec
INVARIANTS
    NoSplitReplicaset
PROPERTIES
    ReportsAreTrue
    PromoteLeads
CHECK_DEADLOCK FALSE
