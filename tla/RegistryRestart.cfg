SPECIFICATION Spec
CONSTANTS
    Jobs = {j1}
    Scheduled = {}
    Polls = {p1}
    Routes = 1
    MaxMemory = 1
    MaxPending = 1
    MaxCrashes = 1
    DiskMayFail = FALSE
INVARIANT
    CountIsExact
