CONSTANTS
    User = {u1, u2}
    NoUser = NoUser
    Torrent = {t1, t2}
    Call = {c1}
    MaxTorrents = 2
    Plans <- TwoEnds
SYMMETRY Symmetry
SPECIFICATION Spec
CHECK_DEADLOCK FALSE
INVARIANT
    KeptSurvives
