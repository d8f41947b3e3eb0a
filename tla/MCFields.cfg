SPECIFICATION AllSpec
CONSTANTS
    v1 = v1
    v2 = v2
    t1 = t1
    t2 = t2
    s1 = s1
    p1 = p1
    actor = actor
    director = director
    r1 = r1
    r2 = r2
    Video = {v1, v2}
    Mapping = {1, 2}
    MaxStoreStep = 4
    Title = {t1, t2}
    Studio = {s1}
    Person = {p1}
    Role = {actor, director}
    Slot = {r1, r2}
    MaxLinkStep = 2
    Tag = {t1}
    Scanned <- Tagged
    MaxJob = 3
    MaxEvent = 4
    Listing <- Keys
    Known = {"bio"}
    Base <- Fields
    ProviderRows <- Values
    FileKeys <- Files
    Reader = {r1}
    None = none
    MaxWrite = 3
INVARIANTS CachesTrue OffersHold StoreTruth LinksFollow
PROPERTIES WinnersStand WritesAccounted
CHECK_DEADLOCK FALSE
