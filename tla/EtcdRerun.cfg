SPECIFICATION Spec
CONSTANTS
    s1 = s1
    s2 = s2
    s3 = s3
    Order <- ThreeServers
    None = None
    Plays = {"upgrade"}
    MaxTries = 1
    MaxPlays = 2
    MaxFlags = 0
INVARIANTS
    UpgradedWhenOk
CHECK_DEADLOCK FALSE
