------------------------------ MODULE VideoPairs ------------------------------
(***************************************************************************)
(* Duplicate videos (internal/repo/video_pairs.go, api/duplicates_video.go,*)
(* repo/delete.go): two live files matched to one item of one provider are *)
(* listed as a pair, computed from the files each time.  The owner keeps   *)
(* one (the other goes to Trash and the work done on it is carried over),  *)
(* keeps both, or labels them as editions or parts.                        *)
(*                                                                         *)
(* An edit of a field is its decision, its curated values and its not-     *)
(* applicable mark.  The field "genres" is the tags: a curated value of it *)
(* is a tag the owner took off the video, which a scan then leaves off.    *)
(* What a field resolves to is Resolver's, what else a film's membership   *)
(* brings is Films's, and edition and part are taken to be settable.       *)
(***************************************************************************)
EXTENDS Naturals, FiniteSets, SequencesExt

CONSTANTS
    Video, Provider, Playlist, Film, Tag, Field,
    Item,       \* positive numbers, in the order of the ids they stand for
    Value,      \* of fields other than the genres
    Started,    \* the memos the videos start with
    MaxMemo, MaxStep    \* bounds

None == [kind |-> "none"]
Pinned(p) == [kind |-> "provider", of |-> p]
OfFilm(f) == [kind |-> "film", of |-> f]
Manual(x) == [kind |-> "manual", value |-> x]
Source == {None, Manual("a")} \cup {Pinned(p) : p \in Provider} \cup {OfFilm(f) : f \in Film}
NoEdit == [source |-> None, curated |-> {}, na |-> FALSE]
Excluded == {"edition", "part"}

VARIABLES
    memo,       \* entity_enrichment: [Video -> [Provider -> the items its rows name, current last]]
    exists, active, trash,
    places,     \* playlist_videos
    scenes,     \* film_videos: [film, video, number], number 0 for none
    tags,       \* video_tags.source: [Video -> [Tag -> "none", "file", "provider" or "manual"]]
    edits,      \* [Video -> [Field -> edit]]
    apart,      \* entity_keep_separate
    steps,
    kept,       \* history: <<kept, trashed>> of the last step, if it kept one
    answered    \* history: pairs the owner said to keep

work == <<places, scenes, tags, edits>>
vars == <<memo, exists, active, trash, work, apart, steps, kept, answered>>

-----------------------------------------------------------------------------
Live(v) == v \in (exists \cap active) \ trash
winner(v, p) == IF memo[v][p] = <<>> THEN 0 ELSE Last(memo[v][p])
SharedMatch(a, b) == \E p \in Provider : winner(a, p) # 0 /\ winner(a, p) = winner(b, p)
ListVideoPairs ==
    {ab \in SUBSET Video : /\ Cardinality(ab) = 2 /\ ab \notin apart
                           /\ \A a \in ab : Live(a)
                           /\ \A a, b \in ab : SharedMatch(a, b)}

-----------------------------------------------------------------------------
(* What keeping k carries over from t.                                     *)

InFilm(f, v, rows) == \E s \in rows : s.film = f /\ s.video = v
carryPlaylist(k, t) == {p \in Playlist : <<p, t>> \in places /\ <<p, k>> \notin places}
carryFilm(k, t) == {s \in scenes : s.video = t /\ ~InFilm(s.film, k, scenes)}
carryTag(k, t) == {g \in Tag : tags[t][g] = "manual" /\ tags[k][g] \in {"none", "file"}}

(* A film's link counts on either copy, for it moves; a provider's match   *)
(* only on the one kept.                                                   *)
(* Mutant: a decision is carried whatever it is pinned to.                 *)
AlwaysCarries(src, k, t) == TRUE
carryDecisionOK(src, k, t) ==
    /\ src.kind = "film" => \E v \in {k, t} : InFilm(src.of, v, scenes)
    /\ src.kind = "provider" => memo[k][src.of] # <<>>
(* Mutant: the carried fields replace the kept copy's whatever it has.     *)
Overwrites(k, t) == {f \in Field \ Excluded : edits[t][f] # NoEdit}
carryFields(k, t) ==
    {f \in Field \ Excluded :
        /\ edits[k][f] = NoEdit
        /\ \/ edits[t][f].source # None /\ carryDecisionOK(edits[t][f].source, k, t)
           \/ edits[t][f].curated # {} \/ edits[t][f].na}

carried(k, t, e) == [e EXCEPT !.source = IF carryDecisionOK(@, k, t) THEN @ ELSE None]
applyCarry(k, t) ==
    /\ places' = (places \ {<<p, t>> : p \in carryPlaylist(k, t)}) \cup {<<p, k>> : p \in carryPlaylist(k, t)}
    /\ scenes' = (scenes \ carryFilm(k, t)) \cup {[s EXCEPT !.video = k] : s \in carryFilm(k, t)}
    /\ tags' = [tags EXCEPT ![k] = [g \in Tag |-> IF g \in carryTag(k, t) THEN "manual" ELSE @[g]]]
    /\ edits' = [edits EXCEPT ![k] = [f \in Field |->
                    IF f \in carryFields(k, t) THEN carried(k, t, edits[t][f]) ELSE @[f]]]

-----------------------------------------------------------------------------
(* The owner's answers.                                                    *)

Counted == steps < MaxStep /\ steps' = steps + 1
Plainly == Counted /\ kept' = <<>> /\ UNCHANGED answered

KeepOneVideo(k, t) ==
    /\ Counted /\ {k, t} \in ListVideoPairs
    /\ applyCarry(k, t)
    /\ trash' = trash \cup {t}
    /\ kept' = <<k, t>>
    /\ UNCHANGED <<memo, exists, active, apart, answered>>

KeepApart(ab) == apart' = apart \cup {ab} /\ answered' = answered \cup {ab} /\ kept' = <<>>
(* Not checked for liveness.                                               *)
DismissVideoPair(ab) ==
    /\ Counted /\ KeepApart(ab)
    /\ UNCHANGED <<memo, exists, active, trash, work>>

(* Parts: a number each, not the same.  Editions: a label for one at least;*)
(* a side left blank is cleared if it showed an edition (as read before    *)
(* the transaction, so either may be) and left alone if not.               *)
labels(f) == IF f = "part" THEN {<<Manual("a"), Manual("b")>>}
             ELSE {Manual("a")} \X {Manual("a"), Manual("b"), Manual(""), None}
LabelVideoPair(f, a, b, la, lb) ==
    /\ Counted /\ {a, b} \in ListVideoPairs
    /\ edits' = [edits EXCEPT ![a][f].source = IF la = None THEN @ ELSE la, ![b][f].source = IF lb = None THEN @ ELSE lb]
    /\ KeepApart({a, b})
    /\ UNCHANGED <<memo, exists, active, trash, places, scenes, tags>>

-----------------------------------------------------------------------------
(* What else happens to the files.  A purge works off a list it read, so   *)
(* it may delete a video restored since.                                   *)

SoftDelete(v) ==
    /\ Plainly /\ v \in exists \ trash /\ trash' = trash \cup {v}
    /\ UNCHANGED <<memo, exists, active, work, apart>>
Restore(v) ==
    /\ Plainly /\ v \in trash /\ trash' = trash \ {v}
    /\ UNCHANGED <<memo, exists, active, work, apart>>
(* Every link and edit of the row goes with it, and so do its kept pairs.  *)
HardDelete(v) ==
    /\ Counted /\ kept' = <<>> /\ v \in exists
    /\ exists' = exists \ {v} /\ trash' = trash \ {v} /\ active' = active \ {v}
    /\ memo' = [memo EXCEPT ![v] = [p \in Provider |-> <<>>]]
    /\ places' = {pv \in places : pv[2] # v}
    /\ scenes' = {s \in scenes : s.video # v}
    /\ tags' = [tags EXCEPT ![v] = [g \in Tag |-> "none"]]
    /\ edits' = [edits EXCEPT ![v] = [f \in Field |-> NoEdit]]
    /\ apart' = {ab \in apart : v \notin ab}
    /\ answered' = {ab \in answered : v \notin ab}
DeactivateExcept(seen) ==
    /\ Plainly /\ ~ active \subseteq seen /\ active' = active \cap seen
    /\ UNCHANGED <<memo, exists, trash, work, apart>>
Reactivate(v) ==
    /\ Plainly /\ v \in exists \ active /\ active' = active \cup {v}
    /\ UNCHANGED <<memo, exists, trash, work, apart>>
(* A file read again: the links it made are made anew.                     *)
Suppressed(v) == IF "genres" \in Field THEN edits[v]["genres"].curated ELSE {}
UpsertVideo(v, found) ==
    /\ Plainly /\ v \in exists /\ active' = active \cup {v}
    /\ tags' = [tags EXCEPT ![v] = [g \in Tag |->
                    IF @[g] \notin {"none", "file"} THEN @[g]
                    ELSE IF g \in found \ Suppressed(v) THEN "file" ELSE "none"]]
    /\ UNCHANGED <<memo, exists, trash, places, scenes, edits, apart>>

(* A match writes the rows of the fields it brought; of the rows of older  *)
(* matches those of other fields are left.  Two in one second stand in the *)
(* order of their ids, the first of them current.                          *)
Enrich(v, p, i, left, sameSecond) ==
    /\ Plainly /\ v \in exists /\ Len(left) < MaxMemo
    /\ \E kpt \in SUBSET DOMAIN memo[v][p] : left = SelectSeq(memo[v][p], LAMBDA x : x # i /\ \E n \in kpt : memo[v][p][n] = x)
    /\ sameSecond => left # <<>> /\ Last(left) = winner(v, p) /\ Last(left) < i
    /\ memo' = [memo EXCEPT ![v][p] = IF sameSecond THEN Append(Front(left), i) \o <<Last(left)>> ELSE Append(left, i)]
    /\ UNCHANGED <<exists, active, trash, work, apart>>
DeleteEnrichment(v, p) ==
    /\ Plainly /\ memo[v][p] # <<>> /\ memo' = [memo EXCEPT ![v][p] = <<>>]
    /\ UNCHANGED <<exists, active, trash, work, apart>>

-----------------------------------------------------------------------------
(* The owner's work on a file.                                             *)

Others == <<memo, exists, active, trash, apart>>
(* A link by hand or of a provider is never taken over by the other.       *)
attachTag(v, g, source) == tags' = [tags EXCEPT ![v][g] = IF @ \in {"none", "file"} THEN source ELSE @]
AttachTagToVideo(v, g) ==
    /\ Plainly /\ v \in exists \ trash /\ attachTag(v, g, "manual")
    /\ edits' = [edits EXCEPT ![v]["genres"].curated = @ \ {g}]
    /\ UNCHANGED <<Others, places, scenes>>
(* Of the genres the video shows after a match.                            *)
AttachMaterializedTags(v, g) ==
    /\ Plainly /\ v \in exists \ trash /\ g \notin Suppressed(v) /\ attachTag(v, g, "provider")
    /\ UNCHANGED <<Others, places, scenes, edits>>
DetachTagFromVideo(v, g) ==
    /\ Plainly /\ tags[v][g] # "none" /\ tags' = [tags EXCEPT ![v][g] = "none"]
    /\ edits' = [edits EXCEPT ![v]["genres"].curated = @ \cup {g}]
    /\ UNCHANGED <<Others, places, scenes>>

Decide(v, f, src) ==
    /\ Plainly /\ v \in exists /\ edits' = [edits EXCEPT ![v][f].source = src]
    /\ UNCHANGED <<Others, places, scenes, tags>>
SetCuration(v, f, x) ==
    /\ Plainly /\ v \in exists /\ edits' = [edits EXCEPT ![v][f].curated = @ \cup {x}]
    /\ UNCHANGED <<Others, places, scenes, tags>>
ClearCuration(v, f, x) ==
    /\ Plainly /\ v \in exists /\ edits' = [edits EXCEPT ![v][f].curated = @ \ {x}]
    /\ UNCHANGED <<Others, places, scenes, tags>>
SetFacetNotApplicable(v, f, na) ==
    /\ Plainly /\ v \in exists /\ edits' = [edits EXCEPT ![v][f].na = na]
    /\ UNCHANGED <<Others, places, scenes, tags>>

AddPlaylistVideo(p, v) ==
    /\ Plainly /\ v \in exists /\ places' = places \cup {<<p, v>>}
    /\ UNCHANGED <<Others, scenes, tags, edits>>
AttachFilmVideo(f, v, n) ==
    /\ Plainly /\ v \in exists /\ ~InFilm(f, v, scenes)
    /\ n # 0 => \A s \in scenes : s.film = f => s.number # n
    /\ scenes' = scenes \cup {[film |-> f, video |-> v, number |-> n]}
    /\ UNCHANGED <<Others, places, tags, edits>>
DetachFilmVideo(f, v) ==
    /\ Plainly /\ InFilm(f, v, scenes) /\ scenes' = {s \in scenes : s.film # f \/ s.video # v}
    /\ UNCHANGED <<Others, places, tags, edits>>

-----------------------------------------------------------------------------
Init ==
    /\ memo \in Started
    /\ exists = Video /\ active = Video /\ trash = {}
    /\ places = {} /\ scenes = {} /\ apart = {} /\ steps = 0 /\ kept = <<>> /\ answered = {}
    /\ tags = [v \in Video |-> [g \in Tag |-> "none"]]
    /\ edits = [v \in Video |-> [f \in Field |-> NoEdit]]

(* What the file is, is only ever said by hand.                            *)
Decisions(f) == IF f \in Excluded THEN {None, Manual("a")} ELSE Source
Curatable(f) == IF f = "genres" THEN Tag ELSE IF f \in Excluded THEN {} ELSE Value

Next ==
    \/ \E a \in Video : \E b \in Video \ {a} :
        \/ KeepOneVideo(a, b) \/ DismissVideoPair({a, b})
        \/ \E f \in Field \cap Excluded : \E l \in labels(f) : LabelVideoPair(f, a, b, l[1], l[2])
    \/ \E seen \in SUBSET Video : DeactivateExcept(seen)
    \/ \E v \in Video :
        \/ SoftDelete(v) \/ Restore(v) \/ HardDelete(v) \/ Reactivate(v)
        \/ \E found \in SUBSET Tag : UpsertVideo(v, found)
        \/ \E p \in Provider, i \in Item, left \in BoundedSeq(Item, MaxMemo), same \in BOOLEAN : Enrich(v, p, i, left, same)
        \/ \E p \in Provider : DeleteEnrichment(v, p)
        \/ \E g \in Tag : AttachTagToVideo(v, g) \/ AttachMaterializedTags(v, g) \/ DetachTagFromVideo(v, g)
        \/ \E f \in Field : \/ \E src \in Decisions(f) : Decide(v, f, src)
                          \/ \E x \in Curatable(f) : SetCuration(v, f, x) \/ ClearCuration(v, f, x)
                          \/ \E na \in BOOLEAN : SetFacetNotApplicable(v, f, na)
        \/ \E p \in Playlist : AddPlaylistVideo(p, v)
        \/ \E f \in Film : DetachFilmVideo(f, v) \/ \E n \in {0, 1} : AttachFilmVideo(f, v, n)

Spec == Init /\ [][Next]_vars

-----------------------------------------------------------------------------
Durable(v, g) == tags[v][g] \in {"provider", "manual"}

(***************************************************************************)
(* Keeping one copy is additive: everything the kept copy had stays as it  *)
(* was, everything the owner did to the trashed copy is on the kept one    *)
(* (its playlists, its films, its manual tags, and its edits of the fields *)
(* the kept copy had none for, but its edition and part and a decision the *)
(* kept copy has no source for), the trashed copy keeps its tags and edits *)
(* and no third video is touched (docs/specs/duplicate-videos.md P0-5).    *)
(***************************************************************************)
Additive(k, t) ==
    /\ \A p \in Playlist : {<<p, k>>, <<p, t>>} \cap places # {} => <<p, k>> \in places'
    /\ \A s \in scenes : s.video = t => InFilm(s.film, k, scenes) \/ [s EXCEPT !.video = k] \in scenes'
    /\ \A g \in Tag : Durable(k, g) \/ tags[t][g] = "manual" => Durable(k, g)'
    /\ \A f \in Field : edits[k][f] # NoEdit \/ f \in Excluded => edits'[k][f] = edits[k][f]
    /\ \A f \in Field \ Excluded : edits[k][f] = NoEdit =>
         /\ edits'[k][f].curated = edits[t][f].curated /\ edits'[k][f].na = edits[t][f].na
         /\ \/ edits'[k][f].source = edits[t][f].source
            \/ edits[t][f].source.kind = "provider" /\ memo[k][edits[t][f].source.of] = <<>>
            \/ edits[t][f].source.kind = "film" /\ ~InFilm(edits[t][f].source.of, k, scenes')
    /\ {s \in scenes : s.video # t} \subseteq scenes' /\ {pv \in places : pv[2] # t} \subseteq places'
    /\ \A v \in Video \ {k} : tags'[v] = tags[v] /\ edits'[v] = edits[v]
KeepingIsAdditive ==
    [][\A k, t \in Video : steps' # steps /\ kept' = <<k, t>> => Additive(k, t)]_vars

(***************************************************************************)
(* No decision is carried to a copy that has nothing for it to pick: the   *)
(* field would resolve to nothing (carryDecisionOK).                       *)
(***************************************************************************)
Resolves(src, v) == /\ src.kind = "film" => InFilm(src.of, v, scenes)
                    /\ src.kind = "provider" => memo[v][src.of] # <<>>
PinsResolve ==
    [][\A k, t \in Video, f \in Field :
        steps' # steps /\ kept' = <<k, t>> /\ edits'[k][f] # edits[k][f] => Resolves(edits[k][f].source, k)']_vars

(***************************************************************************)
(* A pair the owner answered with keep both or a label is never listed     *)
(* again, through trash, restore, purges of others and re-matching.        *)
(***************************************************************************)
AnsweredStays == ListVideoPairs \cap answered = {}
==============================================================================
