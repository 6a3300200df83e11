SPECIFICATION Spec
CONSTANTS
    Order <- MCOrder
    Sources <- MCSources
    Targets <- MCTargets
    Configs <- MCConfigs
    PortLike <- MCPortLike
    MaxEntries = 1
INVARIANTS
    OnlyTheOperatorFuses
    DecisionsStand
    CompletedIsRight
CHECK_DEADLOCK FALSE
