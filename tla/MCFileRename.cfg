SPECIFICATION AllSpec
CONSTANTS
    v1 = v1
    v2 = v2
    a = a
    b = b
    c = c
    x1 = x1
    x2 = x2
    NoName = NoName
    Videos = {v1, v2}
    d = d
    Names = {a, b, c, d}
    ViaName <- Via
    FoldKey <- CaseOfA
    First <- Start
    Concurrency = 1
    MaxWaits = 2
    MaxJobs = 2
    MaxFaults = 1
    MaxForeign = 1
    MaxCrashes = 1
    Absent = Absent
    Partial = Partial
    MaxSwapJobs = 3
    MaxSwapCrashes = 2
INVARIANTS NoOverwrite WholeAtRest NeverWithoutFile
PROPERTIES DoneIsTrue ImplementsHeldOriginal
\* A folder nobody asks anything of is done.
CHECK_DEADLOCK FALSE
