SPECIFICATION AllSpec
CONSTANTS
    x = x
    y = y
    t1 = t1
    t2 = t2
    ra = ra
    rb = rb
    rc = rc
    e1 = e1
    e2 = e2
    o1 = o1
    Image = {x, y}
    Art = Art
    Frame = Frame
    None = None
    Thread = {t1, t2}
    Worker = Worker
    MaxEvent = 2
    Person = {1, 2}
    Pass = {e1, e2}
    Asker = {o1}
    Bypass = {e1}
    Record = {ra, rb, rc}
    Offered <- MCOffered
    From <- MCFrom
    Assets <- MCAssets
    Keys <- MCKeys
    Url <- MCUrl
    Bytes <- MCBytes
    Picked = {2}
    GalleryCap = 2
    Images <- MCStart
    Deleted <- MCDeleted
    MaxId = 11
    MaxRequest = 2
INVARIANTS InSyncTrue NeverPosterless
PROPERTIES ImagesAsChosen
CHECK_DEADLOCK FALSE
