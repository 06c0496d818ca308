SPECIFICATION Spec
CONSTANTS
    Choices <- MCChoices
    Envs <- MCEnvs
    MaxLaunches = 2
INVARIANTS
    OrderlyEndLeavesNoChild
    ChoiceReachesBackend
    RefusedOnlyOverGateway
PROPERTIES
    WindowFollowsBackend
    QuitFinishes
CHECK_DEADLOCK FALSE
