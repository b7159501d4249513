SPECIFICATION FairAll
CONSTANTS
    s1 = s1
    s2 = s2
    s3 = s3
    Order <- ThreeServers
    None = None
    Plays = {"upgrade", "hosts"}
    MaxTries = 2
    MaxPlays = 1
    MaxFlags = 2
INVARIANTS
    DownIsAccountedFor
    NothingHalfDone
PROPERTIES
    HostRebootSeesKured
    PlayEnds
    FlaggedReboots
CHECK_DEADLOCK FALSE
