CONSTANTS
    Node = {1, 2}
    Plans <- AllPlans
    MaxStreams = 2
    AdmittedCap = 1
    IncomingCap = 1
SPECIFICATION FairSpec
CHECK_DEADLOCK FALSE
INVARIANTS
    EntriesAgree
    NoForgottenStream
    NoGhost
    DuelOfTwoHasAWinner
PROPERTIES
    GuestMeetsHost
