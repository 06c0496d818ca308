CONSTANTS
    A = A
    B = B
    C = C
    p = p
    q = q
    Peers = {p, q}
    Self = Self
    Nobody = Nobody
    Films = {A, B, C}
    FilesOf <- MCFilesOf
    NoFilm = NoFilm
    DefaultPaginationLimit = 2
    HeartbeatEvery = 2
    Announced <- MCAnnounced
    MaxCommands = 2
    Carriers = {1, 2}
    Plans <- AllPlans
SPECIFICATION Spec
CHECK_DEADLOCK FALSE
INVARIANTS
    StopFollowsReports
    AdoptedAsNamed
PROPERTIES
    FollowerConverges
    FilmStarts
