SPECIFICATION FairSpec
CONSTANTS
    j1 = j1
    j2 = j2
    Jobs = {j1, j2}
    N = 2
    MaxWorkers <- OneSerialOnePool
    Permits = 1
    Unknown <- OneUnknown
    MayEscape = TRUE
    MayLackThreads = TRUE
INVARIANTS
    PermitsAreExact
    NoFalseVerdict
    EndedJobIsWhole
    ReasonBeforeFailure
PROPERTIES
    KeepsThePromise
    EveryJobEnds
