SPECIFICATION Spec
CONSTANTS
    Videos = {v1, v2}
    NoVideo = NoVideo
    Writers = {w1, w2}
    Maint = Maint
    MaxJobs = 2
    MaxWaits = 1
    MaxRetries = 1
    MaxCrashes = 2
SYMMETRY Symmetric
INVARIANTS ExclusiveFile NeverOvertaken AuditTrail
CHECK_DEADLOCK FALSE
