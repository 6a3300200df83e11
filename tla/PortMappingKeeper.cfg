SPECIFICATION Spec
CONSTANTS
    Order <- MCOrder
    Sources <- MCSources
    Targets <- MCTargets
    Configs <- MCConfigs
    PortLike <- MCPortLike
    MaxEntries = 0
PROPERTY
    OneKeepsTheName
CHECK_DEADLOCK FALSE
