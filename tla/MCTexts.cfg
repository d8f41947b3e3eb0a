SPECIFICATION AllSpec
CONSTANTS
    MaxDepth = 2
    MaxConditions = 3
    MaxNumber = 1000000
    Alphabet <- Alphabets
    Numeral <- Numerals
    Spaced = {"a b"}
    Named <- Names
    Parent <- Parents
    Fields <- Mapped
    Provider = {"tmdb"}
    Video <- Videos
    nofit = nofit
    none = none
INVARIANTS QueriesMean PlansRest
PROPERTIES DatesHold NamesJudged
CHECK_DEADLOCK FALSE
