SPECIFICATION Spec
CONSTANTS
    Names = {1, 2, 3}
    JobNames = {2}
    ExecNames = {2, 3}
    Labelled = {1, 2}
    Namespaces <- OneNs
    NsOf <- NsOfOne
    MaxAge = 1
    MaxSecretAge = 2
    RotatePeriod = 1
    Budget = 0
    CallCosts = {0, 1}
    PageSize = 2
    MaxPrep = 1
    MaxSkew = 0
    MaxClock = 3
    MaxGen = 2
    ElapsedCap = 1
INVARIANTS
    InFlightKeepsSecret
    CleanSweepLeavesNoLeak
PROPERTIES
    ReapsOnlyStalePods
    CollectsOnlyLeaks
CHECK_DEADLOCK FALSE
