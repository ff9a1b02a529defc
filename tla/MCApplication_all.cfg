CONSTANTS
    Procs = {p1, p2}
    Templates <- MCTemplates
    Foreign <- MCForeign
    Instances <- MCInstances
    Jobs <- MCJobs
    MaxJobs = 2
    MaxHurts = 1
    None = None
    Worlds <- MCWorlds
    Requests <- MCRequests
    LongerNames <- MCLongerNames
    MaxPacks = 2
    TagSets <- MCTagSets
    RpmInputs <- MCRpmInputs
    LeadNameSize = 66
SYMMETRY Symmetry
SPECIFICATION Spec
INVARIANTS
    AllFlagIgnored
CHECK_DEADLOCK FALSE
