SPECIFICATION Spec
CONSTANTS
    MaxDepth = 2
    MaxConditions = 3
    MaxNumber = 1000000
    Alphabet <- Hours
    Numeral <- Numerals
    Spaced = {"a b"}
    Named <- Names
    Parent <- Parents
    Fields <- Mapped
    Provider = {"tmdb"}
    Video <- Videos
INVARIANTS RoundTrip
CHECK_DEADLOCK FALSE
