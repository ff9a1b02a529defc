\* Commands on a configuration in two keys, a role added to one scope at a time; two commands
\* on three keys of a storage; a coordinator that writes up to three answers.
SPECIFICATION SumFairSpec
CONSTANTS
    Nil = Nil
    EmptyMap = EmptyMap
    Clients = {c1, c2}
    c1 = c1
    c2 = c2
    All = All
    a = a
    b = b
    Named = {a, b}
    Paths <- MergePaths
    High = {"h"}
    Low = {"l"}
    Instances <- MCInstances
    Scopes <- MCScopes
    MaxScopes = 1
    Role = "r2"
    IConfigs <- MCIConfigs
    MaxAnswers = 2
    MaxCommands = 2
    InitialData <- MCInitialData
INVARIANTS
    MergeIsOverlay
    SignedStoreVerifies
PROPERTIES
    PatchTakesEffect
    PublishSparesOthers
    PatchKeepsEdits
    AllSparesUnseen
    EveryCommandEnds
    SwitchCompletes
CHECK_DEADLOCK FALSE
