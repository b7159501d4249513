SPECIFICATION Spec
CONSTANTS
    Order <- MCOrder
    Held = {"held"}
    Digest = {"digest"}
    Computed = {"chart"}
    Hashed = {"chart"}
    Max = 2
    MaxFaults = 1
    Discards = TRUE
INVARIANTS
    MainMatches
PROPERTIES
    PinsOnlyRise
    NothingStaysOutdated
