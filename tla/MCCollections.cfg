SPECIFICATION AllSpec
CONSTANTS
    c1 = c1
    c2 = c2
    x1 = x1
    x2 = x2
    e1 = e1
    e2 = e2
    nobody = nobody
    Title = {t1, t2}
    Video = {v1, v2}
    Scene = {1, 2}
    Year = {1, 2}
    MaxFilm = 3
    MaxStep = 5
    Copy = {1, 2}
    Provider = {"tmdb"}
    Playlist = {"p"}
    Feature = {"f"}
    Genre = {"g"}
    Field = {"genres", "edition", "part"}
    Item = {1, 2}
    Value = {"x"}
    Started <- Matched
    MaxMemo = 2
    MaxAnswer = 4
SYMMETRY TitlesAndVideos
INVARIANTS KeysUnique  ListsHold
PROPERTIES KeepingIsAdditive
CHECK_DEADLOCK FALSE
