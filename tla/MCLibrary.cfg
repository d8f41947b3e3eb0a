SPECIFICATION Spec
CONSTANTS
    p = p
    q = q
    r = r
    a = a
    b = b
    Path = {p, q, r}
    Content = {a, b}
    Nothing = Nothing
    Size <- MCSize
    Start <- MCStart
    RemoveFiles = TRUE
    MaxRow = 7
    MaxEvent = 3
INVARIANTS LibraryKept
PROPERTIES OnlyRestored EditsFollow
