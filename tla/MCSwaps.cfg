SPECIFICATION AllSpec
CONSTANTS
    Absent = Absent
    Partial = Partial
    MaxJobs = 3
    MaxFaults = 1
    MaxCrashes = 2
    v1 = v1
    v2 = v2
    Nothing = Nothing
PROPERTIES JournalSettles MontageSettles
CHECK_DEADLOCK FALSE
