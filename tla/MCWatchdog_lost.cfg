\* A stop signal that arrives between two rounds.
SPECIFICATION FairSpec
CONSTANTS
    MaxSignals = 1
    MaxRestarts = 1
    WithIntegrity = FALSE
PROPERTIES
    StopSignalEnds
