SPECIFICATION Spec
CONSTANTS
    Jobs = {1, 2}
    InitialVersion <- SomeVersion
    MajorOnZero = FALSE
    MaxCommits = 3
PROPERTIES
    RerunRepairs
