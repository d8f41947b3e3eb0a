SPECIFICATION FairBoth
CONSTANTS
    v1 = v1
    v2 = v2
    a = a
    b = b
    c = c
    x1 = x1
    x2 = x2
    NoName = NoName
    Videos = {v1, v2}
    NoVideo = NoVideo
    Writers = {w1}
    Maint = Maint
    MaxJobs = 2
    MaxWaits = 1
    MaxRetries = 1
    MaxCrashes = 1
PROPERTIES EveryJobSettles RenameSettles
CHECK_DEADLOCK FALSE
