SPECIFICATION Spec
CONSTANTS
    Jobs = {j1, j2, j3, s}
    Scheduled = {s}
    Polls = {p1}
    Routes = 2
    MaxMemory = 1
    MaxPending = 1
    MaxCrashes = 1
    DiskMayFail = TRUE
SYMMETRY Symmetry
INVARIANTS
    LiveJobsAreResident
    PollsAreTrue
    CountIsExactUntilRestart
    AnsweredJobsAreKnown
    IntakeIsBounded
