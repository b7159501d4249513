SPECIFICATION Spec
CONSTANTS
    Width = 3
    NameLabel = "kubernetes.io/metadata.name"
    Observability = "observability"
    VersionKeys = {"a_version", "b_version"}
    VersionLike = {"a_version", "b_version", "a_version_url"}
CHECK_DEADLOCK FALSE
INVARIANTS
    TheLanIsFenced
    DeniedByDefault
    ScrapesArrive
    AutoscalersAgree
    AlertsArrive
    GreenIsGrounded
    LatestIsLatest
    PinsAreWatched
    FilesAreInOrder
    VerdictsStand
