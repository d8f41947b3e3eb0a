SPECIFICATION AllSpec
CONSTANTS
    pair = pair
    dashed = dashed
    Term = {solo, pair, dashed}
    TermDash <- MCTermDash
    NoTerm = None
    MaxTag = 3
    MaxTagStep = 5
    Kinds = {"tag", "studio"}
    Video = {v1}
    Name = {"spaced", "dashed", "other"}
    Loose <- MCLoose
    Dash <- MCDash
    Ext = {x1}
    MaxId = 3
    MaxNames = 2
    MaxEvent = 4
INVARIANTS RegistryKept NamesTheLiving  TagsApart
PROPERTIES DismissedStays
CHECK_DEADLOCK FALSE
