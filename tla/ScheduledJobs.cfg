SPECIFICATION MCSpec
CONSTANTS
    Ids = {s1, s2}
    MaxSchedules = 2
    MaxFaults = 2
    MaxRestarts = 1
    Jobs = {j1, j2, s}
    Scheduled = {s}
    Slots = 1
    MaxPools = 2
    MaxShort = 1
CHECK_DEADLOCK FALSE
INVARIANTS
    ToldIsKept
    ThreeCopiesAgree
    RunsOnceGivenThreads
PROPERTIES
    EnabledSchedulesRun
    EveryJobIsRun
