-------------------------------- MODULE Films --------------------------------
(***************************************************************************)
(* Films: a film's key is its title and its year, its videos are what the  *)
(* owner attached, and a film in Trash keeps all it has until the purge    *)
(* (internal/repo/films.go, film_delete.go, identity_ops.go,               *)
(* internal/api/films.go, film_videos.go, film_year.go, film_delete.go,    *)
(* internal/purge/purge.go).                                               *)
(*                                                                         *)
(* A repository call is one step under writeMu.  A request reads the film  *)
(* and the video, or resolves the release year, before that step, and any  *)
(* other call may come between; so may a restore between the purge's list, *)
(* its removal of the images and its removal of the row.                   *)
(***************************************************************************)
EXTENDS Naturals, FiniteSets

CONSTANTS
    Title,
    Video,
    Scene,      \* scene numbers
    Year,       \* positive years
    MaxFilm,    \* bound: film ids, never used again
    MaxStep     \* bound: operations

None == 0       \* no film, no year, an unnumbered scene
Unlinked == 99
Film == 1 .. MaxFilm
NoReq == [op |-> "none"]
Pair == {p \in SUBSET Film : Cardinality(p) = 2}

ASSUME FilmsAssumption ==
    /\ None \notin Title \cup Year \cup Scene /\ Unlinked \notin Scene
    /\ Scene \subseteq Nat /\ MaxFilm \in Nat

VARIABLES
    name, year,     \* films; name None: no such row
    top,            \* the largest id ever given
    trash,          \* films with a deleted_at
    alias,          \* [Title -> the film it is an alias of]
    link,           \* film_videos: [Film -> [Video -> scene, None or Unlinked]]
    shown, bytes,   \* films with an image row; with its file
    review, keep,   \* same-title pairs queued; pairs kept separate
    video,          \* [Video -> "live", "trash" or "gone"]
    req,            \* a request between its checks and its write
    fill,           \* a release year resolved for a film found without one
    purge,          \* the purge: its films still to do, the one whose images are gone
    steps,
    owed,           \* history: [Film -> the videos attached and not detached]
    ownYear,        \* history: the year the owner gave a film
    doomed,         \* history: films restored, or merged into, from under the purge
    unasked         \* history: pairs that came to share a title another way

row == <<name, year, top, trash, alias>>
hist == <<owed, ownYear, doomed, unasked>>
vars == <<row, link, shown, bytes, review, keep, video, req, fill, purge, steps, hist>>

Row == {f \in Film : name[f] # None}
Live == Row \ trash
Answers(f, t) == name[f] = t \/ alias[t] = f
SameTitle(f, t) == {g \in Live \ {f} : Answers(g, t)}
Holders(t, y, f) == {g \in Row \ {f} : name[g] = t /\ year[g] = y}
Shares == {p \in Pair : p \subseteq Live /\ \E t \in Title : \A f \in p : Answers(f, t)}
Counted == steps < MaxStep /\ steps' = steps + 1
Touching(f) == {p \in Pair : f \in p}

TypeOK ==
    /\ name \in [Film -> Title \cup {None}] /\ year \in [Film -> Year \cup {None}]
    /\ trash \subseteq Row /\ alias \in [Title -> Film \cup {None}]
    /\ link \in [Film -> [Video -> Scene \cup {None, Unlinked}]]
    /\ shown \subseteq Row /\ bytes \subseteq Film /\ review \cup keep \subseteq Pair

Init ==
    /\ name = [f \in Film |-> None] /\ year = [f \in Film |-> None]
    /\ top = 0 /\ trash = {} /\ alias = [t \in Title |-> None]
    /\ link = [f \in Film |-> [v \in Video |-> Unlinked]]
    /\ shown = {} /\ bytes = {} /\ review = {} /\ keep = {}
    /\ video = [v \in Video |-> "live"]
    /\ req = NoReq /\ fill = NoReq /\ purge = [todo |-> {}, at |-> None]
    /\ steps = 0
    /\ owed = [f \in Film |-> {}] /\ ownYear = [f \in Film |-> None]
    /\ doomed = {} /\ unasked = {}

-----------------------------------------------------------------------------
(* Titles and years.                                                       *)

queueFilmSameTitle(f, t) ==
    review' = review \cup ({{f, g} : g \in SameTitle(f, t)} \ keep)

(* The films of one title and year: none but in Trash or live.             *)
(* Mutant: a film in Trash does not hold its key.                          *)
HoldersAlive(t, y, f) == {g \in Live \ {f} : name[g] = t /\ year[g] = y}
KeyHolders(t, y, f) == Holders(t, y, f)

(* Under its year a film is found by its aliases too; without a year, a    *)
(* title leads to the one film that answers to it.                         *)
Routed(t, y) ==
    \/ \E g \in SameTitle(None, t) : y # None /\ year[g] = y
    \/ y = None /\ Cardinality(SameTitle(None, t)) = 1

CreateFilm(t, y) ==
    /\ Counted /\ top < MaxFilm
    /\ KeyHolders(t, y, None) = {} /\ ~Routed(t, y)
    /\ top' = top + 1
    /\ name' = [name EXCEPT ![top'] = t] /\ year' = [year EXCEPT ![top'] = y]
    /\ ownYear' = [ownYear EXCEPT ![top'] = y]
    /\ queueFilmSameTitle(top', t)
    /\ UNCHANGED <<trash, alias, link, shown, bytes, keep, video, req, fill, purge, owed, doomed, unasked>>

(* A request about a film finds it live first; what it will write may have *)
(* changed by then.                                                        *)
Ask(r) ==
    /\ Counted /\ req = NoReq /\ r.f \in Live
    /\ r.op = "attach" => \A i \in DOMAIN r.vs : video[r.vs[i]] = "live"
    /\ r.op = "merge" => r.g \in Live \ {r.f}
    /\ r.op = "alias" => ~\E g \in Row \ {r.f} : Answers(g, r.t)
    /\ req' = r
    /\ UNCHANGED <<row, link, shown, bytes, review, keep, video, fill, purge, hist>>

Request ==
    [op : {"year"}, f : Film, y : Year]
        \cup [op : {"rename", "alias"}, f : Film, t : Title]
        \cup [op : {"merge"}, f : Film, g : Film]
        \cup [op : {"attach"}, f : Film, s : Scene \cup {None},
              vs : {<<v>> : v \in Video} \cup {<<v, w>> : v, w \in Video}]

Serving(op) == req.op = op /\ req' = NoReq /\ req.f \in Row

Unset(f) == year[f] = None

SetYear(f, y) ==
    /\ year' = IF KeyHolders(name[f], y, f) = {} THEN [year EXCEPT ![f] = y] ELSE year
    /\ UNCHANGED <<name, top, trash, alias, link, shown, bytes, review, keep, video, purge, steps, owed, doomed, unasked>>

(* After an enrichment, a decision or a clear.                             *)
ResolveYear(f, y) ==
    /\ Counted /\ fill = NoReq /\ f \in Live /\ year[f] = None
    /\ fill' = [op |-> "fill", f |-> f, y |-> y]
    /\ UNCHANGED <<row, link, shown, bytes, review, keep, video, req, purge, hist>>

FillFilmYear ==
    /\ fill # NoReq /\ fill' = NoReq
    /\ IF fill.f \in Row /\ Unset(fill.f) THEN SetYear(fill.f, fill.y)
       ELSE UNCHANGED <<row, link, shown, bytes, review, keep, video, purge, steps, owed, doomed, unasked>>
    /\ UNCHANGED <<req, ownYear>>

SetFilmYear ==
    /\ Serving("year") /\ UNCHANGED fill
    /\ SetYear(req.f, req.y)
    /\ ownYear' = IF year'[req.f] = req.y THEN [ownYear EXCEPT ![req.f] = req.y] ELSE ownYear

(* A rename keeps the year, and the old title as an alias where no other   *)
(* film has it for one.                                                    *)
RenameFilm ==
    /\ Serving("rename")
    /\ LET f == req.f  t == req.t
           old == IF alias[name[f]] = None THEN f ELSE alias[name[f]]
       IN  /\ t # name[f] /\ KeyHolders(t, year[f], f) = {}
           /\ name' = [name EXCEPT ![f] = t]
           /\ alias' = [alias EXCEPT ![name[f]] = old, ![t] = IF @ = f THEN None ELSE @]
           /\ queueFilmSameTitle(f, t)
    /\ UNCHANGED <<year, top, trash, link, shown, bytes, keep, video, fill, purge, steps, hist>>

(* A title taken in a way that asks nothing of the owner.                  *)
Unasked == unasked' = unasked \cup (Shares' \ Shares)

AddAlias ==
    /\ Serving("alias") /\ alias[req.t] = None
    /\ alias' = [alias EXCEPT ![req.t] = req.f]
    /\ UNCHANGED <<name, year, top, trash, link, shown, bytes, review, keep, video, fill, purge, steps, owed, ownYear, doomed>>
    /\ Unasked

DeleteAlias(t) ==
    /\ Counted /\ alias[t] \in Live
    /\ alias' = [alias EXCEPT ![t] = None]
    /\ UNCHANGED <<name, year, top, trash, link, shown, bytes, review, keep, video, req, fill, purge, hist>>

-----------------------------------------------------------------------------
(* Videos.                                                                 *)

(* Whose scene n of film f is, another video's than v.                     *)
Taken(f, n, v) == n # None /\ \E w \in Video \ {v} : link[f][w] = n

(* Mutant: the loser's scene keeps its number, and the unique index drops  *)
(* the link.                                                               *)
MovedDropped(c, m, v) ==
    IF link[c][v] # Unlinked \/ link[m][v] = Unlinked THEN link[c][v]
    ELSE IF Taken(c, link[m][v], v) THEN Unlinked ELSE link[m][v]
(* The survivor's link to v after a merge: its own, or the loser's without *)
(* a number that is taken.                                                 *)
Moved(c, m, v) ==
    IF link[c][v] # Unlinked \/ link[m][v] = Unlinked THEN link[c][v]
    ELSE IF Taken(c, link[m][v], v) THEN None ELSE link[m][v]

Drop(f) ==
    /\ trash' = trash \ {f}
    /\ review' = review \ Touching(f) /\ keep' = keep \ Touching(f)

MergeFilms ==
    /\ Serving("merge") /\ req.g \in Row
    /\ LET c == req.f  m == req.g IN
        /\ name' = [name EXCEPT ![m] = None] /\ year' = [year EXCEPT ![m] = None]
        /\ alias' = [t \in Title |->
                IF t = name[c] /\ alias[t] \in {c, m, None} THEN None
                ELSE IF alias[t] = m \/ (t = name[m] /\ alias[t] = None) THEN c
                ELSE alias[t]]
        /\ link' = [link EXCEPT ![c] = [v \in Video |-> Moved(c, m, v)],
                                ![m] = [v \in Video |-> Unlinked]]
        /\ shown' = (shown \ {m}) \cup (IF m \in shown THEN {c} ELSE {})
        /\ bytes' = (bytes \ {m}) \cup (IF m \in bytes THEN {c} ELSE {})
        /\ Drop(m)
        /\ owed' = [owed EXCEPT ![c] = @ \cup owed[m], ![m] = {}]
        /\ ownYear' = [ownYear EXCEPT ![m] = None]
        /\ doomed' = (doomed \ {m}) \cup (IF m \in purge.todo \cup doomed THEN {c} ELSE {})
    /\ UNCHANGED <<top, video, fill, purge, steps>>
    /\ Unasked

Numbered(s, i) == IF s = None THEN None ELSE s + i - 1

(* One video, or several numbered from s: all or none.                     *)
AttachFilmVideos ==
    /\ Serving("attach")
    /\ LET f == req.f  vs == req.vs  s == req.s IN
        /\ \A i \in DOMAIN vs :
            /\ video[vs[i]] # "gone" /\ link[f][vs[i]] = Unlinked
            /\ Numbered(s, i) \in Scene \cup {None} /\ ~Taken(f, Numbered(s, i), vs[i])
        /\ Cardinality({vs[i] : i \in DOMAIN vs}) = Cardinality(DOMAIN vs)
        /\ link' = [link EXCEPT ![f] = [v \in Video |->
                        IF \E i \in DOMAIN vs : vs[i] = v
                        THEN Numbered(s, CHOOSE i \in DOMAIN vs : vs[i] = v) ELSE link[f][v]]]
        /\ owed' = [owed EXCEPT ![f] = @ \cup {vs[i] : i \in DOMAIN vs}]
    /\ UNCHANGED <<row, shown, bytes, review, keep, video, fill, purge, steps, ownYear, doomed, unasked>>

(* Renumbering and detaching ask for no live film.                         *)
UpdateScene(f, v, n) ==
    /\ Counted /\ link[f][v] # Unlinked /\ ~Taken(f, n, v)
    /\ link' = [link EXCEPT ![f][v] = n]
    /\ UNCHANGED <<row, shown, bytes, review, keep, video, req, fill, purge, hist>>

DetachFilmVideo(f, v) ==
    /\ Counted /\ link[f][v] # Unlinked
    /\ link' = [link EXCEPT ![f][v] = Unlinked]
    /\ owed' = [owed EXCEPT ![f] = @ \ {v}]
    /\ UNCHANGED <<row, shown, bytes, review, keep, video, req, fill, purge, ownYear, doomed, unasked>>

TrashVideo(v) ==
    /\ Counted /\ video[v] = "live"
    /\ video' = [video EXCEPT ![v] = "trash"]
    /\ UNCHANGED <<row, link, shown, bytes, review, keep, req, fill, purge, hist>>

PurgeVideo(v) ==
    /\ Counted /\ video[v] = "trash"
    /\ video' = [video EXCEPT ![v] = "gone"]
    /\ link' = [f \in Film |-> [link[f] EXCEPT ![v] = Unlinked]]
    /\ owed' = [f \in Film |-> owed[f] \ {v}]
    /\ UNCHANGED <<row, shown, bytes, review, keep, req, fill, purge, ownYear, doomed, unasked>>

-----------------------------------------------------------------------------
(* Images, Trash and the purge.                                            *)

AddImage(f) ==
    /\ Counted /\ f \in Live \ shown
    /\ shown' = shown \cup {f} /\ bytes' = bytes \cup {f}
    /\ UNCHANGED <<row, link, review, keep, video, req, fill, purge, hist>>

KeepSeparate(p) ==
    /\ Counted /\ p \in review
    /\ review' = review \ {p} /\ keep' = keep \cup {p}
    /\ UNCHANGED <<row, link, shown, bytes, video, req, fill, purge, hist>>

SoftDeleteFilm(f) ==
    /\ Counted /\ f \in Live
    /\ trash' = trash \cup {f}
    /\ UNCHANGED <<name, year, top, alias, link, shown, bytes, review, keep, video, req, fill, purge, hist>>

RestoreFilm(f) ==
    /\ Counted /\ f \in trash
    /\ trash' = trash \ {f}
    /\ doomed' = IF f \in purge.todo THEN doomed \cup {f} ELSE doomed
    /\ UNCHANGED <<name, year, top, alias, link, shown, bytes, review, keep, video, req, fill, purge, owed, ownYear>>
    /\ Unasked

(* The sweep lists those long enough in Trash.                             *)
SweepFilms(S) ==
    /\ Counted /\ purge.todo = {} /\ S # {} /\ S \subseteq trash
    /\ purge' = [purge EXCEPT !.todo = S]
    /\ UNCHANGED <<row, link, shown, bytes, review, keep, video, req, fill, hist>>

(* Mutant: a purge at once does not move the film to Trash first.          *)
TrashNotFirst(f) == trash
TrashFirst(f) == trash \cup {f}

PurgeFilmNow(f) ==
    /\ Counted /\ purge.todo = {} /\ f \in Row
    /\ trash' = TrashFirst(f)
    /\ purge' = [purge EXCEPT !.todo = {f}]
    /\ UNCHANGED <<name, year, top, alias, link, shown, bytes, review, keep, video, req, fill, hist>>

RemoveImages(f) ==
    /\ purge.at = None /\ f \in purge.todo
    /\ bytes' = bytes \ {f}
    /\ purge' = [purge EXCEPT !.at = f]
    /\ UNCHANGED <<row, link, shown, review, keep, video, req, fill, steps, hist>>

(* The files stay, and the film stays in Trash.                            *)
RemoveFails(f) ==
    /\ purge.at = None /\ f \in purge.todo
    /\ purge' = [purge EXCEPT !.todo = @ \ {f}]
    /\ UNCHANGED <<row, link, shown, bytes, review, keep, video, req, fill, steps, hist>>

HardDeleteFilm ==
    /\ purge.at # None
    /\ LET f == purge.at IN
        /\ purge' = [todo |-> purge.todo \ {f}, at |-> None]
        /\ name' = [name EXCEPT ![f] = None] /\ year' = [year EXCEPT ![f] = None]
        /\ alias' = [t \in Title |-> IF alias[t] = f THEN None ELSE alias[t]]
        /\ link' = [link EXCEPT ![f] = [v \in Video |-> Unlinked]]
        /\ shown' = shown \ {f}
        /\ Drop(f)
        /\ owed' = [owed EXCEPT ![f] = {}] /\ ownYear' = [ownYear EXCEPT ![f] = None]
        /\ doomed' = doomed \ {f}
    /\ UNCHANGED <<top, bytes, video, req, fill, steps, unasked>>

(* What a request finds has ended it.                                      *)
Refused ==
    /\ req # NoReq /\ req' = NoReq
    /\ UNCHANGED <<row, link, shown, bytes, review, keep, video, fill, purge, steps, hist>>

Next ==
    \/ \E t \in Title, y \in Year \cup {None} : CreateFilm(t, y)
    \/ \E r \in Request : Ask(r)
    \/ \E f \in Film, y \in Year : ResolveYear(f, y)
    \/ FillFilmYear \/ SetFilmYear \/ RenameFilm \/ AddAlias \/ MergeFilms \/ AttachFilmVideos \/ Refused
    \/ \E t \in Title : DeleteAlias(t)
    \/ \E f \in Film, v \in Video :
        DetachFilmVideo(f, v) \/ \E n \in Scene \cup {None} : UpdateScene(f, v, n)
    \/ \E v \in Video : TrashVideo(v) \/ PurgeVideo(v)
    \/ \E p \in Pair : KeepSeparate(p)
    \/ \E f \in Film :
        \/ AddImage(f) \/ SoftDeleteFilm(f) \/ RestoreFilm(f)
        \/ PurgeFilmNow(f) \/ RemoveImages(f) \/ RemoveFails(f)
    \/ \E S \in SUBSET Film : SweepFilms(S)
    \/ HardDeleteFilm

Spec == Init /\ [][Next]_vars

-----------------------------------------------------------------------------
(* No two films, in Trash or not, have one title and one year, nor one     *)
(* title and no year: a restore always finds its key free.                 *)
KeysUnique == \A f, g \in Row : f # g => <<name[f], year[f]>> # <<name[g], year[g]>>

(* A film has exactly the videos the owner attached to it or to a film     *)
(* merged into it and has not detached, each numbered scene once.          *)
MembersAsserted ==
    \A f \in Film :
        /\ {v \in Video : link[f][v] # Unlinked} = owed[f]
        /\ \A v \in Video : ~(link[f][v] # Unlinked /\ Taken(f, link[f][v], v))

(* The year the owner gave a film is never replaced by a provider's.       *)
OwnersYearStays == \A f \in Film : ownYear[f] # None => year[f] = ownYear[f]

(* A live film's image rows have their files, unless it was restored under *)
(* a purge that had listed it.                                             *)
LiveFilmWhole == \A f \in Live \cap shown : f \in bytes \cup doomed

(* Two live films that answer to one title are queued for the owner or     *)
(* kept separate, unless an alias, a merge or a restore brought them to it.*)
SameTitleQueued == Shares \subseteq review \cup keep \cup unasked

(* A film has exactly the videos the owner attached and has not detached,  *)
(* keeps the year the owner gave it and its images while it is live, and   *)
(* one that answers to another's title is asked about: whatever is merged, *)
(* renamed, trashed, restored, purged or refreshed meanwhile               *)
(* (repo/films.go, identity_ops.go, purge.go).                             *)
FilmsKept == TypeOK /\ MembersAsserted /\ OwnersYearStays /\ LiveFilmWhole /\ SameTitleQueued
==============================================================================
