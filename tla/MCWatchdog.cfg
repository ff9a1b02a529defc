SPECIFICATION FairSpec
CONSTANTS
    MaxSignals = 3
    MaxRestarts = 2
    WithIntegrity = TRUE
INVARIANTS
    NeverAbandonsInstance
PROPERTIES
    NoLaunchAfterStop
    AcceptedStopEnds
    BarrierPasses
    ImplementsSupervisor
