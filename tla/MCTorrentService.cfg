CONSTANTS
    User = {u1, u2}
    NoUser = NoUser
    Torrent = {t1, t2, t3, t4}
    Call = {c1, c2, c3}
    MaxTorrents = 1
    Plans <- AllPlans
SYMMETRY Symmetry
SPECIFICATION Spec
CHECK_DEADLOCK FALSE
INVARIANTS
    KeptOverOneRestart
    RemovedStaysRemoved
    FilesAreCurrent
    OwnedUnlessRemoved
    LimitOverrun
    StreamOfOneAddIsServed
