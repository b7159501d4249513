SPECIFICATION Operations
CONSTANTS
    Namespaces <- ThreeNs
    SchedulePeriod = 1
    RotatePeriod = 1
    PerRun = 2
    MaxBacklog = 2
    Names <- TwoNames
    Addresses = {"p", "q"}
    Notes = {"none", "note"}
    None = "none"
    EntryLists <- TwoLists
    MaxChanges = 2
    Rotations = {1, 2}
    Nodes = {"one", "two"}
    Items <- SixItems
    Nowhere = "nowhere"
    Tags = {"t1", "t2"}
    Branch = "main"
    Marker = "marker"
    Groups <- Inventory
    Limits <- LimitsOfRuns
    Absences <- AbsencesDeclared
    MaxFlips = 2
    ToolPins = {"v1", "v2", "v3"}
    Unusable = {"v3"}
    MaxCacheChanges = 2
CHECK_DEADLOCK FALSE
INVARIANTS
    RotationIsUsable
    BrokenIsReported
    LibraryIsOneTag
    SiteRunsAreHonest
    FetcherIsSound
PROPERTIES
    NoNamespaceStarves
    DnsWritesRight
    Converges
