SPECIFICATION FairSpec
CONSTANTS
    p1 = p1
    c1 = c1
    Provider = {p1}
    Entities = 3
    Click = {c1}
    Burst = 1
    MaxPause = 2
    FailLimit = 2
    PauseLimit = 2
    Stored <- OneOfEach
    MaxAct = 2
INVARIANTS OneTokenEach
PROPERTIES ProvidersSpared SweepEnds
CHECK_DEADLOCK FALSE
