SPECIFICATION Spec
CONSTANTS
    Names = {1, 2, 3}
    JobNames = {1}
    ExecNames = {1, 3}
    Labelled = {1, 2}
    Namespaces <- TwoNs
    NsOf <- NsOfTwo
    MaxAge = 1
    MaxSecretAge = 1
    RotatePeriod = 2
    Budget = 1
    CallCosts = {0, 1}
    PageSize = 1
    MaxPrep = 0
    MaxSkew = 0
    MaxClock = 1
    MaxGen = 1
    ElapsedCap = 20
INVARIANTS
    SoftStopBound
CHECK_DEADLOCK FALSE
