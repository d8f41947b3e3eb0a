---------------------------- MODULE MCCollections ----------------------------
(***************************************************************************)
(* What videos are gathered in, on small instances: films (Films), saved   *)
(* lists (Playlists), pairs of duplicates (VideoPairs) and what a client   *)
(* is shown (Browse).  "part" says which one runs and the others rest in   *)
(* their first state, so a property of one is a property of every          *)
(* behaviour.                                                              *)
(***************************************************************************)
EXTENDS Films, TLC

CONSTANTS
    c1, c2, x1, x2, e1, e2, nobody,
    Copy, Provider, Playlist, Feature, Genre, Field, Item, Value, Started, MaxMemo, MaxAnswer  \* VideoPairs'

VARIABLES
    part,
    lists, members, of, merged, asked, listSteps, want, loose, revived,
    memo, exists, active, trashed, places, scenes, tags, edits, apart, answers, kept, answered,
    present, binned, links, attached, whole, filmTrash, client, replies, changes

filmVars == <<name, year, top, trash, alias, link, shown, bytes, review, keep, video, req, fill, purge,
              steps, owed, ownYear, doomed, unasked>>
listVars == <<lists, members, of, merged, asked, listSteps, want, loose, revived>>
pairVars == <<memo, exists, active, trashed, places, scenes, tags, edits, apart, answers, kept, answered>>
browseVars == <<present, binned, links, attached, whole, filmTrash, client, replies, changes>>

Asks(refs, ent, own) == [refs |-> refs, ent |-> ent, own |-> own]
Queries ==
    {Asks({}, e1, FALSE), Asks({}, nobody, TRUE), Asks({1, 2}, nobody, FALSE)}
    \cup {Asks({r}, nobody, FALSE) : r \in 1 .. 3}

Lists == INSTANCE Playlists WITH
    Client <- {c1, c2}, Video <- {x1, x2}, Entity <- {e1, e2}, Query <- Queries, None <- nobody,
    MaxList <- 3, MaxDepth <- 2, MaxReach <- 2, MaxGiven <- 1, MaxStep <- 3,
    row <- lists, req <- asked, steps <- listSteps

Pairs == INSTANCE VideoPairs WITH
    Video <- Copy, Film <- Feature, Tag <- Genre, MaxStep <- MaxAnswer, trash <- trashed, steps <- answers

\* Two copies of one item of a provider.
Matched == {<<[tmdb |-> <<1>>], [tmdb |-> <<1>>]>>}

-----------------------------------------------------------------------------
(* Three videos, people 11-13, studio 21, tags 31 above 32, film 41.  Two  *)
(* videos share a title and a length; an alias, a shown spelling and a     *)
(* name are found by the same text; 13 is shown under another letter.      *)

Words == <<"1x", "ab an", "an", "ann", "anna", "bo", "zed">>
Spellings == [
    title |-> 1 :> "an" @@ 2 :> "bo" @@ 3 :> "bo",
    name |-> 11 :> "an" @@ 12 :> "ab an" @@ 13 :> "1x" @@ 21 :> "bo" @@ 31 :> "anna" @@ 32 :> "zed" @@ 41 :> "bo",
    alias |-> 11 :> {"ab an", "ann"} @@ 12 :> {"anna"} @@ 13 :> {} @@ 21 :> {} @@ 31 :> {"zed"} @@ 32 :> {"an"} @@ 41 :> {},
    shown |-> 11 :> nobody @@ 12 :> nobody @@ 13 :> "zed" @@ 21 :> "an" @@ 31 :> nobody @@ 32 :> nobody @@ 41 :> "an"]
Places == [s \in {Words[i] : i \in DOMAIN Words} |-> CHOOSE i \in DOMAIN Words : Words[i] = s]
Letters == "1x" :> "#" @@ "ab an" :> "A" @@ "an" :> "A" @@ "ann" :> "A" @@ "anna" :> "A" @@ "bo" :> "B" @@ "zed" :> "Z"
Found == "an" :> {"an", "ann", "anna", "ab an"} @@ "zed" :> {"zed"}
Shared == {[
    links |-> {<<1, 11, "">>, <<2, 11, "">>, <<2, 12, "">>, <<3, 12, "d">>, <<3, 13, "">>, <<1, 21, "">>, <<1, 31, "">>, <<2, 32, "">>, <<3, 32, "">>},
    whole |-> {<<41, 3>>}]}
All(sort, cap, hide) ==
    [title |-> nobody, all |-> {}, any |-> {}, where |-> {1, 2, 3}, free |-> FALSE, notOf |-> nobody, hide |-> hide,
     sort |-> sort, seed |-> 1, cap |-> cap]
Opened == {
    All("title_desc", 0, TRUE), All("random", 2, FALSE), All("duration_desc", 3, FALSE), All("title_asc", 0, FALSE), All("duration_asc", 1, FALSE),
    [All("completeness_asc", 0, FALSE) EXCEPT !.all = {31}, !.free = TRUE],
    [All("added_asc", 1, TRUE) EXCEPT !.any = {{11, 12}, {31, 32}}, !.notOf = 41, !.where = {1, 2}],
    [All("added_desc", 0, FALSE) EXCEPT !.title = "an"] }

Shop == INSTANCE Browse WITH
    Video <- {1, 2, 3}, Film <- {41}, Person <- {11, 12, 13}, Studio <- {21}, Tag <- {31, 32}, Role <- {"", "d"},
    Under <- 31 :> {31, 32} @@ 32 :> {32}, Spelling <- Spellings, Place <- Places, Letter <- Letters,
    Asked <- DOMAIN Found, Finds <- Found, Within <- Found, Length <- 1 :> 5 @@ 2 :> 5 @@ 3 :> 7, Score <- 1 :> 5 @@ 2 :> 5 @@ 3 :> 7,
    Shuffle <- 1 :> (1 :> 2 @@ 2 :> 1 @@ 3 :> 2), None <- nobody, Filters <- Opened,
    DefaultLimit <- 2, MaxLimit <- 3, FilmLimit <- 2, FilmDefault <- 1, ToolLimit <- 2, ToolDefault <- 2, Library <- Shared, MaxEdit <- 2, MaxMet <- 1, MaxGen <- 2,
    active <- present, trash <- binned, edits <- changes

-----------------------------------------------------------------------------
ASSUME PartsAssumption == Lists!PlaylistsAssumption /\ Shop!BrowseAssumption

AllInit == part \in {"films", "lists", "pairs", "browse"} /\ Init /\ Lists!Init /\ Pairs!Init /\ Shop!Init

AllNext ==
    /\ UNCHANGED part
    /\ \/ part = "films" /\ Next /\ UNCHANGED <<listVars, pairVars, browseVars>>
       \/ part = "lists" /\ Lists!Next /\ UNCHANGED <<filmVars, pairVars, browseVars>>
       \/ part = "pairs" /\ Pairs!Next /\ UNCHANGED <<filmVars, listVars, browseVars>>
       \/ part = "browse" /\ Shop!Next /\ UNCHANGED <<filmVars, listVars, pairVars>>

AllSpec == AllInit /\ [][AllNext]_<<part, filmVars, listVars, pairVars, browseVars>>

\* Films tells videos and titles apart by nothing but their being different.
TitlesAndVideos == Permutations(Title) \cup Permutations(Video)

\* What a public list shows never depends on what its owner watched, however lists that
\* refer to one another are edited, published and frozen at once; none comes to contain
\* itself; a frozen list is asked only once; and a merged list follows its parts
\* (api/playlists.go, repo/playlist_refs.go).  The pages of a list are the list, a letter
\* leads to its rows, a shelf is filled when it can be, and a search shows the name that
\* was typed and the videos of what it found, and the MCP tools page through the same lists
\* (repo/repo.go, mcp/mcp.go).
ListsHold ==
    /\ Lists!PublicStaysPublic /\ Lists!NoLoop /\ Lists!FrozenOnce /\ Lists!MergeFollowed
    /\ part = "browse" => Shop!PagesTile
    /\ part = "browse" /\ client = nobody => Shop!BriefsWhole /\ Shop!LettersLand /\ Shop!ShelvesFilled /\ Shop!SearchWhole /\ Shop!ToolsAgree

\* Keeping one of two copies adds to it and takes nothing of what the owner decided on it
\* (repo/video_pairs.go KeepOneVideo); what a merge pinned resolves to an item the kept
\* copy has; and a pair the owner answered is not asked again.
KeepingIsAdditive == Pairs!KeepingIsAdditive /\ Pairs!PinsResolve /\ []Pairs!AnsweredStays
==============================================================================
