SPECIFICATION FairSpec
CONSTANTS
    Requests = {r1, r2, r3}
    AtOnce = 1
    MostWaiting = 2
    Seconds = 2
INVARIANTS
    TypeOK
    CountersAreExact
    NoLostWakeUp
    NobodyOversleeps
    NothingLeftBehind
PROPERTIES
    ImplementsQueue
    EveryWaiterLeaves
    EveryPlaceComesBack
