CONSTANTS
    Peer = {1, 2, 3, 4}
    Creator = 3
    Version <- Mixed
    Plans <- AllPlans
SPECIFICATION FairSpec
CHECK_DEADLOCK FALSE
INVARIANTS
    TypeOK
    NoGhostMember
    NoGhostHost
    HostAgreementInOneRoom
    FilmReachesNewcomers
    MeshGrows
PROPERTIES
    RefusalSticks
    OneHostEventually
