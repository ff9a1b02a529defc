\* A role is added to two scopes at once.
SPECIFICATION SumSpec
CONSTANTS
    Nil = Nil
    EmptyMap = EmptyMap
    Clients = {c1, c2}
    c1 = c1
    c2 = c2
    All = All
    a = a
    b = b
    Named = {a, b}
    Paths <- MergePaths
    High = {"h"}
    Low = {"l"}
    Instances <- MCInstances
    Scopes <- MCScopes
    MaxScopes = 2
    Role = "r2"
    IConfigs <- MCIConfigs
    MaxAnswers = 0
    MaxCommands = 1
    InitialData <- RoleData
PROPERTIES
    RoleIsAdded
CHECK_DEADLOCK FALSE
