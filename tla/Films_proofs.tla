---------------------------- MODULE Films_proofs ----------------------------
(***************************************************************************)
(* What the films keep to, for any number of titles, videos, scenes, years *)
(* and films; and, after them, what keeping one of two copies of a video   *)
(* keeps to, for any copies, fields, tags and values.                      *)
(***************************************************************************)
EXTENDS MCCollections, FiniteSetTheorems, TLAPS

Fill == [op : {"fill"}, f : Film, y : Year]

\* Ids are given in order and never again, so that what still names a film that is gone
\* (an alias under way, a year to fill, the purge) never means a later one.
Typed ==
    /\ TypeOK
    /\ top \in 0 .. MaxFilm
    /\ \A f \in Row : f <= top
    /\ \A t \in Title : alias[t] <= top
    /\ req \in Request \cup {NoReq} /\ (req.op = "merge" => req.f # req.g)
    /\ fill \in Fill \cup {NoReq}
    /\ purge.todo \subseteq Film /\ (\A f \in purge.todo : f <= top)
    /\ purge.at \in purge.todo \cup {None}
    /\ purge = [todo |-> purge.todo, at |-> purge.at]
    /\ owed \in [Film -> SUBSET Video] /\ ownYear \in [Film -> Year \cup {None}]

\* The images of a film that the purge took are gone with its row, unless it was restored
\* or merged under the purge.
Imaged ==
    /\ \A f \in shown : f \in bytes \cup doomed \/ f = purge.at
    /\ purge.todo \cap Live \subseteq doomed

LEMMA PairOf == ASSUME NEW p \in Pair, NEW f \in p
                PROVE  \E g \in Film : f \in Film /\ f # g /\ p = {f, g}
<1>1. IsFiniteSet(p) /\ Cardinality(p) = 2 /\ p \subseteq Film
  <2>1. IsFiniteSet(Film)
    BY FilmsAssumption, FS_Interval DEF Film
  <2> QED
    BY <2>1, FS_Subset DEF Pair
<1>2. IsFiniteSet(p \ {f}) /\ Cardinality(p \ {f}) = 1
  BY <1>1, FS_RemoveElement
<1>3. PICK g : p \ {f} = {g}
  BY <1>2, FS_Singleton
<1> QED
  BY <1>1, <1>3

LEMMA PairMade == ASSUME NEW f \in Film, NEW g \in Film, f # g PROVE {f, g} \in Pair
<1>1. IsFiniteSet({f}) /\ Cardinality({f}) = 1
  BY FS_Singleton
<1>2. Cardinality({f} \cup {g}) = 2
  BY <1>1, FS_AddElement
<1>3. {f} \cup {g} = {f, g}
  OBVIOUS
<1> QED
  BY <1>2, <1>3 DEF Pair

LEMMA QueueTyped == ASSUME TypeOK, NEW f \in Film, NEW t, queueFilmSameTitle(f, t)
                    PROVE  review' \subseteq Pair
<1>1. \A g \in SameTitle(f, t) : {f, g} \in Pair
  BY PairMade DEF SameTitle, Live, Row
<1> QED
  BY <1>1 DEF queueFilmSameTitle, TypeOK

LEMMA TypedInit == Init => Typed
<1> SUFFICES ASSUME Init PROVE Typed
  OBVIOUS
<1>1. TypeOK
  BY DEF Init, TypeOK, Row
<1> QED
  BY <1>1, FilmsAssumption DEF Init, Typed, Row, Film, None, NoReq

\* The films that are gone leave no row, and no film's id grows past top.
LEMMA TypedNext == Typed /\ [Next]_vars => Typed'
<1> SUFFICES ASSUME Typed, [Next]_vars PROVE Typed'
  OBVIOUS
<1> USE FilmsAssumption DEF Typed, TypeOK
<1>0. \A f \in Film : f \in Nat /\ f # None
  BY DEF Film, None
<1>1. CASE UNCHANGED vars
  BY <1>1 DEF vars, row, hist, Row, Request
<1>2. ASSUME NEW t \in Title, NEW y \in Year \cup {None}, CreateFilm(t, y) PROVE Typed'
  <2>1. top' = top + 1 /\ top' \in Film /\ top' \in 0 .. MaxFilm
    BY <1>2 DEF CreateFilm, Film
  <2>2. name' = [name EXCEPT ![top'] = t] /\ year' = [year EXCEPT ![top'] = y]
        /\ ownYear' = [ownYear EXCEPT ![top'] = y]
    BY <1>2 DEF CreateFilm
  <2>3. Row' = Row \cup {top'}
    BY <2>1, <2>2 DEF Row
  <2>4. review' \subseteq Pair
    BY <1>2, <2>1, QueueTyped DEF CreateFilm
  <2>5. \A f \in Film : f <= top => f <= top'
    BY <1>0, <2>1
  <2>7. name' \in [Film -> Title \cup {None}] /\ year' \in [Film -> Year \cup {None}]
        /\ ownYear' \in [Film -> Year \cup {None}]
    BY <2>1, <2>2
  <2>8. \A f \in Row' : f <= top'
    BY <2>1, <2>3, <2>5 DEF Row
  <2>9. UNCHANGED <<trash, alias, link, shown, bytes, keep, video, req, fill, purge, owed>>
    BY <1>2 DEF CreateFilm
  <2>6. \A u \in Title : alias[u] <= top'
    BY <1>0, <2>1 DEF None
  <2> QED
    BY <2>1, <2>3, <2>4, <2>5, <2>6, <2>7, <2>8, <2>9
<1>3. ASSUME NEW r \in Request, Ask(r) PROVE Typed'
  <2>1. r.op = "merge" => r.f # r.g
    BY <1>3 DEF Ask
  <2> QED
    BY <1>3, <2>1 DEF Ask, row, hist, Row
<1>4. ASSUME NEW f \in Film, NEW y \in Year, ResolveYear(f, y) PROVE Typed'
  BY <1>4 DEF ResolveYear, row, hist, Row, Fill
<1>5. ASSUME NEW f \in Film, NEW y \in Year, SetYear(f, y), req' \in {req, NoReq}, fill' \in {fill, NoReq},
             ownYear' \in [Film -> Year \cup {None}]
      PROVE  Typed'
  <2>1. year' \in [Film -> Year \cup {None}] /\ UNCHANGED <<name, top, trash, alias, link, shown, bytes, review, keep, purge, owed>>
    BY <1>5 DEF SetYear
  <2> QED
    BY <1>5, <2>1 DEF Row, NoReq, Request
<1>6. CASE FillFilmYear
  <2>1. CASE fill.f \in Row /\ Unset(fill.f)
    BY <1>5, <1>6, <2>1 DEF FillFilmYear, Fill
  <2>2. CASE ~(fill.f \in Row /\ Unset(fill.f))
    BY <1>6, <2>2 DEF FillFilmYear, row, Row
  <2> QED
    BY <2>1, <2>2
<1>7. CASE SetFilmYear
  BY <1>5, <1>7 DEF SetFilmYear, Serving, Request, NoReq
<1>8. CASE RenameFilm
  <2> DEFINE f == req.f
             t == req.t
             old == IF alias[name[f]] = None THEN f ELSE alias[name[f]]
  <2>1. f \in Row /\ t \in Title /\ f <= top /\ f \in Film
    BY <1>8 DEF RenameFilm, Serving, Request, NoReq, Row
  <2>2. /\ name' = [name EXCEPT ![f] = t]
        /\ alias' = [alias EXCEPT ![name[f]] = old, ![t] = IF @ = f THEN None ELSE @]
        /\ queueFilmSameTitle(f, t) /\ req' = NoReq
        /\ UNCHANGED <<year, top, trash, link, shown, bytes, keep, video, fill, purge, steps, hist>>
    BY <1>8 DEF RenameFilm, Serving
  <2> HIDE DEF f, t
  <2>3. name[f] \in Title
    BY <2>1 DEF Row
  <2>4. old \in Film \cup {None} /\ old <= top
    BY <1>0, <2>1, <2>3
  <2> HIDE DEF old
  <2>5. Row' = Row /\ name' \in [Film -> Title \cup {None}]
    BY <2>1, <2>2 DEF Row
  <2>6. alias' \in [Title -> Film \cup {None}] /\ \A u \in Title : alias'[u] \in {alias[u], old, None}
    BY <2>2, <2>3, <2>4
  <2>7. \A u \in Title : alias'[u] <= top
    BY <2>4, <2>6 DEF None
  <2>8. review' \subseteq Pair
    BY <2>1, <2>2, QueueTyped
  <2> QED
    BY <2>2, <2>5, <2>6, <2>7, <2>8 DEF hist, NoReq
<1>9. CASE AddAlias
  <2>1. req.f \in Row /\ req.t \in Title /\ req.f <= top
    BY <1>9 DEF AddAlias, Serving, Request, NoReq
  <2>2. Row' = Row
    BY <1>9 DEF AddAlias, Row
  <2> QED
    BY <1>9, <2>1, <2>2 DEF AddAlias, Serving, Row, NoReq
<1>10. ASSUME NEW t \in Title, DeleteAlias(t) PROVE Typed'
  <2>1. Row' = Row
    BY <1>10 DEF DeleteAlias, Row
  <2> QED
    BY <1>10, <2>1 DEF DeleteAlias, hist, None
<1>11. ASSUME NEW m \in Film, Drop(m) PROVE
         trash' = trash \ {m} /\ review' \subseteq Pair /\ keep' \subseteq Pair
  BY <1>11 DEF Drop
<1>12. CASE MergeFilms
  <2> DEFINE c == req.f
             m == req.g
  <2>1. c \in Row /\ m \in Row /\ c \in Film /\ m \in Film /\ c # m /\ c <= top /\ m <= top
    BY <1>12 DEF MergeFilms, Serving, Request, NoReq, Row
  <2>2. /\ name' = [name EXCEPT ![m] = None] /\ year' = [year EXCEPT ![m] = None]
        /\ alias' = [t \in Title |->
                IF t = name[c] /\ alias[t] \in {c, m, None} THEN None
                ELSE IF alias[t] = m \/ (t = name[m] /\ alias[t] = None) THEN c
                ELSE alias[t]]
        /\ link' = [link EXCEPT ![c] = [v \in Video |-> Moved(c, m, v)],
                                ![m] = [v \in Video |-> Unlinked]]
        /\ shown' = (shown \ {m}) \cup (IF m \in shown THEN {c} ELSE {})
        /\ bytes' = (bytes \ {m}) \cup (IF m \in bytes THEN {c} ELSE {})
        /\ Drop(m) /\ req' = NoReq
        /\ owed' = [owed EXCEPT ![c] = @ \cup owed[m], ![m] = {}]
        /\ ownYear' = [ownYear EXCEPT ![m] = None]
        /\ UNCHANGED <<top, video, fill, purge, steps>>
    BY <1>12 DEF MergeFilms, Serving
  <2> HIDE DEF c, m
  <2>3. Row' = Row \ {m}
    BY <2>1, <2>2 DEF Row
  <2>4. \A t \in Title : alias'[t] \in {alias[t], c, None}
    BY <2>2
  <2>5. alias' \in [Title -> Film \cup {None}] /\ \A t \in Title : alias'[t] <= top
    BY <2>1, <2>2, <2>4 DEF None
  <2>6. \A v \in Video : Moved(c, m, v) \in Scene \cup {None, Unlinked}
    BY <2>1 DEF Moved
  <2>7. link' \in [Film -> [Video -> Scene \cup {None, Unlinked}]]
    BY <2>1, <2>2, <2>6
  <2>8. owed' \in [Film -> SUBSET Video] /\ ownYear' \in [Film -> Year \cup {None}]
    BY <2>1, <2>2
  <2>9. name' \in [Film -> Title \cup {None}] /\ year' \in [Film -> Year \cup {None}]
    BY <2>2
  <2>10. shown' \subseteq Row' /\ bytes' \subseteq Film
    BY <2>1, <2>2, <2>3
  <2>11. trash' \subseteq Row' /\ review' \subseteq Pair /\ keep' \subseteq Pair
    BY <1>11, <2>1, <2>2, <2>3
  <2>12. (\A f \in Row' : f <= top') /\ req' = NoReq /\ UNCHANGED <<top, video, fill, purge, steps>>
    BY <2>2, <2>3
  <2> QED
    BY <2>5, <2>7, <2>8, <2>9, <2>10, <2>11, <2>12 DEF NoReq
<1>13. CASE AttachFilmVideos
  <2> DEFINE f == req.f
             vs == req.vs
             s == req.s
  <2>1. /\ f \in Film
        /\ \A i \in DOMAIN vs : vs[i] \in Video /\ Numbered(s, i) \in Scene \cup {None}
        /\ link' = [link EXCEPT ![f] = [v \in Video |->
                        IF \E i \in DOMAIN vs : vs[i] = v
                        THEN Numbered(s, CHOOSE i \in DOMAIN vs : vs[i] = v) ELSE link[f][v]]]
        /\ owed' = [owed EXCEPT ![f] = @ \cup {vs[i] : i \in DOMAIN vs}]
        /\ req' = NoReq
        /\ UNCHANGED <<row, shown, bytes, review, keep, video, fill, purge, steps, ownYear, doomed, unasked>>
    BY <1>13 DEF AttachFilmVideos, Serving, Request, NoReq
  <2> HIDE DEF f, vs, s
  <2>2. \A v \in Video : (\E i \in DOMAIN vs : vs[i] = v) =>
           Numbered(s, CHOOSE i \in DOMAIN vs : vs[i] = v) \in Scene \cup {None}
    BY <2>1
  <2>3. link' \in [Film -> [Video -> Scene \cup {None, Unlinked}]]
    BY <2>1, <2>2
  <2>4. owed' \in [Film -> SUBSET Video]
    BY <2>1
  <2> QED
    BY <2>1, <2>3, <2>4 DEF row, Row, NoReq
<1>14. CASE Refused
  BY <1>14 DEF Refused, row, hist, Row, NoReq
<1>15. ASSUME NEW f \in Film, NEW v \in Video, NEW n \in Scene \cup {None}, UpdateScene(f, v, n) PROVE Typed'
  BY <1>15 DEF UpdateScene, row, hist, Row
<1>16. ASSUME NEW f \in Film, NEW v \in Video, DetachFilmVideo(f, v) PROVE Typed'
  BY <1>16 DEF DetachFilmVideo, row, Row
<1>17. ASSUME NEW v \in Video, TrashVideo(v) \/ PurgeVideo(v) PROVE Typed'
  <2>1. CASE PurgeVideo(v)
    <3>1. \A f \in Film : [link[f] EXCEPT ![v] = Unlinked] \in [Video -> Scene \cup {None, Unlinked}]
      OBVIOUS
    <3>2. link' \in [Film -> [Video -> Scene \cup {None, Unlinked}]] /\ owed' \in [Film -> SUBSET Video]
      BY <2>1, <3>1 DEF PurgeVideo
    <3> QED
      BY <2>1, <3>2 DEF PurgeVideo, row, Row
  <2> QED
    BY <1>17, <2>1 DEF TrashVideo, row, hist, Row
<1>18. ASSUME NEW p \in Pair, KeepSeparate(p) PROVE Typed'
  BY <1>18 DEF KeepSeparate, row, hist, Row
<1>19. ASSUME NEW f \in Film, AddImage(f) \/ SoftDeleteFilm(f) \/ RestoreFilm(f) PROVE Typed'
  BY <1>19 DEF AddImage, SoftDeleteFilm, RestoreFilm, row, hist, Row, Live
<1>20. ASSUME NEW S \in SUBSET Film,
              SweepFilms(S) \/ (\E f \in Film : S = {f} /\ PurgeFilmNow(f)) PROVE Typed'
  <2>1. /\ purge.todo = {} /\ purge' = [purge EXCEPT !.todo = S] /\ trash' \subseteq Row /\ S \subseteq Row
        /\ UNCHANGED <<name, year, top, alias, link, shown, bytes, review, keep, video, req, fill, hist>>
    BY <1>20 DEF SweepFilms, PurgeFilmNow, TrashFirst, row
  <2>2. purge'.todo = S /\ purge'.at = None /\ purge' = [todo |-> purge'.todo, at |-> purge'.at]
    BY <2>1
  <2> QED
    BY <2>1, <2>2 DEF hist, Row
<1>21. ASSUME NEW f \in Film, RemoveImages(f) \/ RemoveFails(f) PROVE Typed'
  <2>1. /\ purge'.todo \subseteq purge.todo /\ purge'.at \in purge'.todo \cup {None}
        /\ purge' = [todo |-> purge'.todo, at |-> purge'.at]
    BY <1>21 DEF RemoveImages, RemoveFails
  <2> QED
    BY <1>21, <2>1 DEF RemoveImages, RemoveFails, row, hist, Row
<1>22. CASE HardDeleteFilm
  <2> DEFINE f == purge.at
  <2>1. f \in Film
    BY <1>22 DEF HardDeleteFilm
  <2>2. /\ purge' = [todo |-> purge.todo \ {f}, at |-> None]
        /\ name' = [name EXCEPT ![f] = None] /\ year' = [year EXCEPT ![f] = None]
        /\ alias' = [t \in Title |-> IF alias[t] = f THEN None ELSE alias[t]]
        /\ link' = [link EXCEPT ![f] = [v \in Video |-> Unlinked]]
        /\ shown' = shown \ {f} /\ Drop(f)
        /\ owed' = [owed EXCEPT ![f] = {}] /\ ownYear' = [ownYear EXCEPT ![f] = None]
        /\ UNCHANGED <<top, bytes, video, req, fill, steps, unasked>>
    BY <1>22 DEF HardDeleteFilm
  <2> HIDE DEF f
  <2>3. Row' = Row \ {f}
    BY <2>1, <2>2 DEF Row
  <2>4. trash' \subseteq Row' /\ review' \subseteq Pair /\ keep' \subseteq Pair
    BY <1>11, <2>1, <2>2, <2>3
  <2>5. link' \in [Film -> [Video -> Scene \cup {None, Unlinked}]] /\ owed' \in [Film -> SUBSET Video]
        /\ ownYear' \in [Film -> Year \cup {None}]
    BY <2>2
  <2>6. alias' \in [Title -> Film \cup {None}] /\ \A t \in Title : alias'[t] <= top
    BY <2>2 DEF None
  <2>7. name' \in [Film -> Title \cup {None}] /\ year' \in [Film -> Year \cup {None}]
    BY <2>2
  <2> QED
    BY <2>2, <2>3, <2>4, <2>5, <2>6, <2>7
<1> HIDE DEF Typed, TypeOK
<1> QED
  BY <1>1, <1>2, <1>3, <1>4, <1>6, <1>7, <1>8, <1>9, <1>10, <1>12, <1>13, <1>14, <1>15, <1>16, <1>17,
     <1>18, <1>19, <1>20, <1>21, <1>22 DEF Next

(***************************************************************************)
(* A key is checked under the same lock that writes it, against films in    *)
(* Trash too.                                                              *)
(***************************************************************************)
LEMMA KeysNext == ASSUME Typed, KeysUnique, [Next]_vars PROVE KeysUnique'
<1> USE DEF KeysUnique
<1>0. name \in [Film -> Title \cup {None}] /\ year \in [Film -> Year \cup {None}]
  BY DEF Typed, TypeOK
<1>1. CASE UNCHANGED <<name, year>>
  BY <1>1 DEF Row
<1>2. ASSUME NEW t \in Title, NEW y \in Year \cup {None}, CreateFilm(t, y) PROVE KeysUnique'
  <2>1. /\ top' \in Film
        /\ \A g \in Row \ {None} : ~(name[g] = t /\ year[g] = y)
        /\ name' = [name EXCEPT ![top'] = t] /\ year' = [year EXCEPT ![top'] = y]
    <3>1. top' = top + 1 /\ top < MaxFilm /\ top \in 0 .. MaxFilm /\ MaxFilm \in Nat
      BY <1>2, FilmsAssumption DEF CreateFilm, Typed
    <3>2. top' \in Film
      BY <3>1 DEF Film
    <3> QED
      BY <1>2, <3>2 DEF CreateFilm, KeyHolders, Holders
  <2>2. \A g \in Row : g # None
    BY DEF Row, Film, None
  <2>3. \A g \in Row' : g = top' \/ (g \in Row /\ name'[g] = name[g] /\ year'[g] = year[g])
    BY <1>0, <2>1 DEF Row
  <2>4. name'[top'] = t /\ year'[top'] = y
    BY <1>0, <2>1
  <2> QED
    BY <2>1, <2>2, <2>3, <2>4
<1>3. ASSUME NEW f \in Row, NEW y \in Year, SetYear(f, y) PROVE KeysUnique'
  <2>1. CASE UNCHANGED year
    BY <1>1, <1>3, <2>1 DEF SetYear
  <2>2. CASE KeyHolders(name[f], y, f) = {} /\ year' = [year EXCEPT ![f] = y]
    <3>1. \A g \in Row \ {f} : ~(name[g] = name[f] /\ year[g] = y)
      BY <2>2 DEF KeyHolders, Holders
    <3>2. Row' = Row /\ UNCHANGED name
      BY <1>3 DEF SetYear, Row
    <3>3. \A g \in Row : year'[g] = IF g = f THEN y ELSE year[g]
      BY <1>0, <2>2 DEF Row
    <3> QED
      BY <3>1, <3>2, <3>3
  <2> QED
    BY <1>3, <2>1, <2>2 DEF SetYear
<1>4. CASE FillFilmYear \/ SetFilmYear
  BY <1>1, <1>3, <1>4 DEF FillFilmYear, SetFilmYear, Serving, row, Typed, Fill, Request, NoReq
<1>5. CASE RenameFilm
  <2> DEFINE f == req.f
             t == req.t
  <2>1. /\ f \in Row /\ t \in Title
        /\ \A g \in Row \ {f} : ~(name[g] = t /\ year[g] = year[f])
        /\ name' = [name EXCEPT ![f] = t] /\ UNCHANGED year
    BY <1>5 DEF RenameFilm, Serving, KeyHolders, Holders, Typed, Request, NoReq
  <2> HIDE DEF f, t
  <2>2. Row' \subseteq Row /\ \A g \in Row : name'[g] = IF g = f THEN t ELSE name[g]
    BY <1>0, <2>1 DEF Row
  <2> QED
    BY <2>1, <2>2
<1>6. ASSUME NEW m \in Film, name' = [name EXCEPT ![m] = None], year' = [year EXCEPT ![m] = None]
      PROVE  KeysUnique'
  <2>1. \A g \in Row' : g \in Row /\ name'[g] = name[g] /\ year'[g] = year[g]
    BY <1>0, <1>6 DEF Row
  <2> QED
    BY <2>1
<1>7. CASE MergeFilms \/ HardDeleteFilm
  <2>1. req.g \in Film \/ ~MergeFilms
    BY DEF MergeFilms, Row
  <2>2. purge.at \in Film \/ ~HardDeleteFilm
    BY DEF HardDeleteFilm, Typed
  <2> QED
    BY <1>6, <1>7, <2>1, <2>2 DEF MergeFilms, HardDeleteFilm
<1> QED
  BY <1>1, <1>2, <1>4, <1>5, <1>7 DEF Next, vars, row, Ask, ResolveYear, AddAlias, DeleteAlias,
     AttachFilmVideos, Refused, UpdateScene, DetachFilmVideo, TrashVideo, PurgeVideo, KeepSeparate,
     AddImage, SoftDeleteFilm, RestoreFilm, PurgeFilmNow, RemoveImages, RemoveFails, SweepFilms

\* The owner's year: a provider fills only a year that is not set when it is written.
LEMMA YearsNext == ASSUME Typed, OwnersYearStays, [Next]_vars PROVE OwnersYearStays'
<1> USE DEF OwnersYearStays
<1>0. /\ year \in [Film -> Year \cup {None}] /\ ownYear \in [Film -> Year \cup {None}]
  BY DEF Typed, TypeOK
<1>1. CASE UNCHANGED <<year, ownYear>>
  BY <1>1
<1>2. ASSUME NEW t \in Title, NEW y \in Year \cup {None}, CreateFilm(t, y) PROVE OwnersYearStays'
  BY <1>0, <1>2 DEF CreateFilm
<1>3. ASSUME NEW m \in Film, year' = [year EXCEPT ![m] = None], ownYear' = [ownYear EXCEPT ![m] = None]
      PROVE  OwnersYearStays'
  BY <1>0, <1>3
<1>4. CASE FillFilmYear
  BY <1>0, <1>4 DEF FillFilmYear, SetYear, Unset, row, Row
<1>5. CASE SetFilmYear
  BY <1>0, <1>5, FilmsAssumption DEF SetFilmYear, SetYear, Serving, Typed, Request, NoReq, Row
<1>6. CASE MergeFilms \/ HardDeleteFilm
  <2>1. req.g \in Film \/ ~MergeFilms
    BY DEF MergeFilms, Row
  <2>2. purge.at \in Film \/ ~HardDeleteFilm
    BY DEF HardDeleteFilm, Typed
  <2> QED
    BY <1>3, <1>6, <2>1, <2>2 DEF MergeFilms, HardDeleteFilm
<1> QED
  BY <1>1, <1>2, <1>4, <1>5, <1>6 DEF Next, vars, row, hist, Ask, ResolveYear, AddAlias, DeleteAlias,
     AttachFilmVideos, Refused, UpdateScene, DetachFilmVideo, TrashVideo, PurgeVideo, KeepSeparate,
     AddImage, SoftDeleteFilm, RestoreFilm, PurgeFilmNow, RemoveImages, RemoveFails, SweepFilms,
     RenameFilm

\* The purge takes a film's images, then its row; a restore or a merge in between is known.
LEMMA ImagedNext == ASSUME Typed, Imaged, [Next]_vars PROVE Imaged'
<1> USE DEF Imaged
<1>0. /\ name \in [Film -> Title \cup {None}] /\ trash \subseteq Row /\ shown \subseteq Row
      /\ purge.todo \subseteq Film /\ purge.at \in purge.todo \cup {None} /\ Row \subseteq Film
      /\ purge = [todo |-> purge.todo, at |-> purge.at] /\ None \notin Film
  BY DEF Typed, TypeOK, Row, Film, None
<1>1. ASSUME UNCHANGED <<shown, bytes, purge, doomed>>, Live' \subseteq Live PROVE Imaged'
  BY <1>1
<1>2. ASSUME NEW t \in Title, NEW y \in Year \cup {None}, CreateFilm(t, y) PROVE Imaged'
  <2>1. /\ name' = [name EXCEPT ![top'] = t] /\ top' = top + 1
        /\ UNCHANGED <<trash, shown, bytes, purge, doomed>>
    BY <1>2 DEF CreateFilm
  <2>2. top' \notin purge.todo
    BY <2>1 DEF Typed, Film
  <2>3. purge.todo \cap Live' \subseteq Live
    BY <1>0, <2>1, <2>2 DEF Live, Row
  <2> QED
    BY <2>1, <2>3
<1>3. CASE UNCHANGED <<name, trash, shown, bytes, purge, doomed>>
  BY <1>1, <1>3 DEF Live, Row
<1>4. CASE RenameFilm
  <2>1. req.f \in Row /\ name' = [name EXCEPT ![req.f] = req.t] /\ UNCHANGED <<trash, shown, bytes, purge, doomed>>
    BY <1>4 DEF RenameFilm, Serving, hist
  <2> QED
    BY <1>0, <1>1, <2>1 DEF Live, Row
<1>5. CASE MergeFilms
  <2> DEFINE c == req.f
             m == req.g
  <2>1. /\ c \in Row /\ m \in Row /\ c # m
        /\ name' = [name EXCEPT ![m] = None] /\ trash' = trash \ {m}
        /\ shown' = (shown \ {m}) \cup (IF m \in shown THEN {c} ELSE {})
        /\ bytes' = (bytes \ {m}) \cup (IF m \in bytes THEN {c} ELSE {})
        /\ doomed' = (doomed \ {m}) \cup (IF m \in purge.todo \cup doomed THEN {c} ELSE {})
        /\ UNCHANGED purge
    BY <1>5 DEF MergeFilms, Serving, Drop, Typed, Request, NoReq
  <2> HIDE DEF c, m
  <2>2. Live' \subseteq Live \ {m}
    BY <1>0, <2>1 DEF Live, Row
  <2>3. purge.todo \cap Live' \subseteq doomed'
    BY <2>1, <2>2
  <2>4. ASSUME NEW f \in shown' PROVE f \in bytes' \cup doomed' \/ f = purge.at
    <3>1. CASE f \in shown \ {m}
      BY <2>1, <3>1
    <3>2. CASE f = c /\ m \in shown
      BY <1>0, <2>1, <3>2
    <3> QED
      BY <2>1, <3>1, <3>2
  <2> QED
    BY <2>1, <2>3, <2>4
<1>6. ASSUME NEW f \in Film, AddImage(f) PROVE Imaged'
  BY <1>6 DEF AddImage, row, hist, Live, Row
<1>7. ASSUME NEW f \in Film, SoftDeleteFilm(f) PROVE Imaged'
  BY <1>7 DEF SoftDeleteFilm, hist, Live, Row
<1>8. ASSUME NEW f \in Film, RestoreFilm(f) PROVE Imaged'
  BY <1>8 DEF RestoreFilm, Live, Row
<1>9. ASSUME NEW S \in SUBSET Film, SweepFilms(S) PROVE Imaged'
  <2>1. purge'.todo = S /\ S \subseteq trash /\ purge'.at = purge.at /\ UNCHANGED <<name, trash, shown, bytes, doomed>>
    BY <1>0, <1>9 DEF SweepFilms, row, hist
  <2> QED
    BY <2>1 DEF Live, Row
<1>10. ASSUME NEW f \in Film, PurgeFilmNow(f) PROVE Imaged'
  <2>1. purge'.todo = {f} /\ trash' = trash \cup {f} /\ purge'.at = purge.at /\ UNCHANGED <<name, shown, bytes, doomed>>
    BY <1>0, <1>10 DEF PurgeFilmNow, TrashFirst, hist
  <2> QED
    BY <2>1 DEF Live, Row
<1>11. ASSUME NEW f \in Film, RemoveImages(f) PROVE Imaged'
  <2>1. purge'.todo = purge.todo /\ purge'.at = f /\ purge.at = None /\ bytes' = bytes \ {f}
        /\ UNCHANGED <<name, trash, shown, doomed>>
    BY <1>0, <1>11 DEF RemoveImages, row, hist
  <2> QED
    BY <1>0, <2>1 DEF Live, Row
<1>12. ASSUME NEW f \in Film, RemoveFails(f) PROVE Imaged'
  <2>1. purge'.todo \subseteq purge.todo /\ purge'.at = purge.at
        /\ UNCHANGED <<name, trash, shown, bytes, doomed>>
    BY <1>0, <1>12 DEF RemoveFails, row, hist
  <2> QED
    BY <2>1 DEF Live, Row
<1>13. CASE HardDeleteFilm
  <2> DEFINE f == purge.at
  <2>1. /\ purge'.todo = purge.todo \ {f} /\ purge'.at = None /\ f \in Film
        /\ name' = [name EXCEPT ![f] = None] /\ trash' = trash \ {f}
        /\ shown' = shown \ {f} /\ doomed' = doomed \ {f} /\ UNCHANGED bytes
    BY <1>0, <1>13 DEF HardDeleteFilm, Drop
  <2> HIDE DEF f
  <2>2. Live' \subseteq Live \ {f}
    BY <1>0, <2>1 DEF Live, Row
  <2> QED
    BY <1>13, <2>1, <2>2 DEF f
<1> QED
  BY <1>2, <1>3, <1>4, <1>5, <1>6, <1>7, <1>8, <1>9, <1>10, <1>11, <1>12, <1>13
     DEF Next, vars, row, hist, Ask, ResolveYear, FillFilmYear, SetFilmYear, SetYear, AddAlias, DeleteAlias,
     AttachFilmVideos, Refused, UpdateScene, DetachFilmVideo, TrashVideo, PurgeVideo, KeepSeparate

(***************************************************************************)
(* A film's links.                                                         *)
(***************************************************************************)
\* Film f has the videos it should, each numbered scene once.
Members(f) ==
    /\ {v \in Video : link[f][v] # Unlinked} = owed[f]
    /\ \A v \in Video : ~(link[f][v] # Unlinked /\ Taken(f, link[f][v], v))

LEMMA MembersNext == ASSUME Typed, MembersAsserted, [Next]_vars PROVE MembersAsserted'
<1>0. /\ link \in [Film -> [Video -> Scene \cup {None, Unlinked}]] /\ owed \in [Film -> SUBSET Video]
      /\ \A f \in Film : Members(f)
  BY DEF Typed, TypeOK, MembersAsserted, Members
<1>1. SUFFICES ASSUME NEW f \in Film PROVE Members(f)'
  BY DEF MembersAsserted, Members
<1>2. CASE UNCHANGED <<link, owed>>
  BY <1>0, <1>2 DEF Members, Taken
<1>3. ASSUME link'[f] = link[f], owed'[f] = owed[f] PROVE Members(f)'
  BY <1>0, <1>3 DEF Members, Taken
<1>4. ASSUME link'[f] = [v \in Video |-> Unlinked], owed'[f] = {} PROVE Members(f)'
  BY <1>4 DEF Members
<1>5. CASE MergeFilms
  <2> DEFINE c == req.f
             m == req.g
  <2>1. /\ c \in Film /\ m \in Film /\ c # m
        /\ link' = [link EXCEPT ![c] = [v \in Video |-> Moved(c, m, v)],
                                ![m] = [v \in Video |-> Unlinked]]
        /\ owed' = [owed EXCEPT ![c] = @ \cup owed[m], ![m] = {}]
    BY <1>5 DEF MergeFilms, Serving, Typed, Request, NoReq, Row
  <2> HIDE DEF c, m
  <2>2. CASE f = m
    BY <1>0, <1>4, <2>1, <2>2
  <2>3. CASE f # c /\ f # m
    BY <1>0, <1>3, <2>1, <2>3
  <2>4. CASE f = c
    <3>1. link'[c] = [v \in Video |-> Moved(c, m, v)] /\ owed'[c] = owed[c] \cup owed[m]
      BY <1>0, <2>1
    <3>2. \A v \in Video :
             \/ (link[c][v] # Unlinked \/ link[m][v] = Unlinked) /\ Moved(c, m, v) = link[c][v]
             \/ link[c][v] = Unlinked /\ link[m][v] # Unlinked /\ Moved(c, m, v) = None
             \/ /\ link[c][v] = Unlinked /\ link[m][v] # Unlinked /\ Moved(c, m, v) = link[m][v]
                /\ ~Taken(c, link[m][v], v)
      BY DEF Moved
    <3>3. None # Unlinked
      BY DEF None, Unlinked
    <3>4. {v \in Video : link'[c][v] # Unlinked} = owed'[c]
      BY <1>0, <2>1, <3>1, <3>2, <3>3 DEF Members
    <3>5. \A v, w \in Video : v # w /\ link'[c][v] # Unlinked /\ link'[c][v] # None
                              => link'[c][w] # link'[c][v]
      <4>1. \A v, w \in Video : v # w /\ link[c][v] # Unlinked /\ link[c][v] # None => link[c][w] # link[c][v]
        BY <1>0, <2>1 DEF Members, Taken
      <4>2. \A v, w \in Video : v # w /\ link[m][v] # Unlinked /\ link[m][v] # None => link[m][w] # link[m][v]
        BY <1>0, <2>1 DEF Members, Taken
      <4>3. \A v, w \in Video : ~Taken(c, link[m][v], v) /\ v # w /\ link[m][v] # None => link[c][w] # link[m][v]
        BY DEF Taken
      <4> QED
        BY <3>1, <3>2, <3>3, <4>1, <4>2, <4>3
    <3> QED
      BY <2>4, <3>4, <3>5 DEF Members, Taken
  <2> QED
    BY <2>2, <2>3, <2>4
<1>6. CASE AttachFilmVideos
  <2> DEFINE g == req.f
             vs == req.vs
             s == req.s
             at(v) == CHOOSE i \in DOMAIN vs : vs[i] = v
             In(v) == \E i \in DOMAIN vs : vs[i] = v
  <2>1. /\ g \in Film /\ s \in Scene \cup {None} /\ DOMAIN vs \subseteq Nat
        /\ \A i \in DOMAIN vs : /\ vs[i] \in Video
                                /\ link[g][vs[i]] = Unlinked /\ ~Taken(g, Numbered(s, i), vs[i])
                                /\ Numbered(s, i) \in Scene \cup {None}
        /\ link' = [link EXCEPT ![g] = [v \in Video |-> IF In(v) THEN Numbered(s, at(v)) ELSE link[g][v]]]
        /\ owed' = [owed EXCEPT ![g] = @ \cup {vs[i] : i \in DOMAIN vs}]
    BY <1>6 DEF AttachFilmVideos, Serving, Typed, Request, NoReq
  <2>2. \A v : In(v) => at(v) \in DOMAIN vs /\ vs[at(v)] = v
    OBVIOUS
  <2> HIDE DEF g, vs, s, at, In
  <2>3. CASE f # g
    BY <1>0, <1>3, <2>1, <2>3
  <2>4. CASE f = g
    <3>1. \A v \in Video : link'[g][v] = IF In(v) THEN Numbered(s, at(v)) ELSE link[g][v]
      BY <1>0, <2>1
    <3>2. \A v \in Video : In(v) => /\ link[g][v] = Unlinked /\ ~Taken(g, Numbered(s, at(v)), v)
                                    /\ Numbered(s, at(v)) \in Scene \cup {None}
                                    /\ Numbered(s, at(v)) # Unlinked
      BY <2>1, <2>2, FilmsAssumption DEF None, Unlinked
    <3>3. owed'[g] = owed[g] \cup {v \in Video : In(v)}
      <4>1. \A v \in Video : In(v) <=> v \in {vs[i] : i \in DOMAIN vs}
        BY DEF In
      <4> QED
        BY <1>0, <2>1, <4>1
    <3>4. {v \in Video : link'[g][v] # Unlinked} = owed'[g]
      BY <1>0, <2>1, <3>1, <3>2, <3>3 DEF Members
    <3>5. \A v, w \in Video : v # w /\ In(v) /\ In(w) /\ Numbered(s, at(v)) # None
                              => Numbered(s, at(v)) # Numbered(s, at(w))
      <4>1. SUFFICES ASSUME NEW v \in Video, NEW w \in Video, v # w, In(v), In(w), Numbered(s, at(v)) # None
                     PROVE  Numbered(s, at(v)) # Numbered(s, at(w))
        OBVIOUS
      <4>2. at(v) # at(w) /\ at(v) \in Nat /\ at(w) \in Nat
        BY <2>1, <2>2, <4>1
      <4>3. s # None /\ s \in Nat
        BY <2>1, <4>1, FilmsAssumption DEF Numbered
      <4> QED
        BY <4>2, <4>3 DEF Numbered
    <3>6. \A v, w \in Video : v # w /\ link'[g][v] # Unlinked /\ link'[g][v] # None
                              => link'[g][w] # link'[g][v]
      <4>1. \A v, w \in Video : v # w /\ link[g][v] # Unlinked /\ link[g][v] # None => link[g][w] # link[g][v]
        BY <1>0, <2>1 DEF Members, Taken
      <4>2. \A v, w \in Video : In(v) /\ v # w /\ Numbered(s, at(v)) # None
                                => link[g][w] # Numbered(s, at(v))
        BY <3>2 DEF Taken
      <4> QED
        BY <3>1, <3>2, <3>5, <4>1, <4>2
    <3> QED
      BY <2>4, <3>4, <3>6 DEF Members, Taken
  <2> QED
    BY <2>3, <2>4
<1>7. ASSUME NEW g \in Film, NEW v \in Video, NEW n \in Scene \cup {None}, UpdateScene(g, v, n)
      PROVE  Members(f)'
  <2>1. link' = [link EXCEPT ![g][v] = n] /\ link[g][v] # Unlinked /\ ~Taken(g, n, v) /\ UNCHANGED owed
        /\ n # Unlinked
    BY <1>7, FilmsAssumption DEF UpdateScene, hist, None, Unlinked
  <2>2. \A w \in Video : link'[f][w] = IF f = g /\ w = v THEN n ELSE link[f][w]
    BY <1>0, <2>1
  <2>3. {w \in Video : link'[f][w] # Unlinked} = owed'[f]
    BY <1>0, <2>1, <2>2 DEF Members
  <2>4. \A u, w \in Video : u # w /\ link'[f][u] # Unlinked /\ link'[f][u] # None => link'[f][w] # link'[f][u]
    BY <1>0, <2>1, <2>2 DEF Members, Taken
  <2> QED
    BY <2>3, <2>4 DEF Members, Taken
\* A detached video, or a video purged from every film, leaves its number free.
<1>8. ASSUME NEW v \in Video, link'[f] = [link[f] EXCEPT ![v] = Unlinked], owed'[f] = owed[f] \ {v}
      PROVE  Members(f)'
  <2>1. \A w \in Video : link'[f][w] = IF w = v THEN Unlinked ELSE link[f][w]
    BY <1>0, <1>8
  <2> QED
    BY <1>0, <1>8, <2>1 DEF Members, Taken
<1>9. ASSUME NEW g \in Film, NEW v \in Video, DetachFilmVideo(g, v) PROVE Members(f)'
  <2>1. link' = [link EXCEPT ![g][v] = Unlinked] /\ owed' = [owed EXCEPT ![g] = @ \ {v}]
    BY <1>9 DEF DetachFilmVideo
  <2>2. CASE f = g
    BY <1>0, <1>8, <2>1, <2>2
  <2> QED
    BY <1>0, <1>3, <2>1, <2>2
<1>10. ASSUME NEW v \in Video, PurgeVideo(v) PROVE Members(f)'
  BY <1>8, <1>10 DEF PurgeVideo
<1>11. CASE HardDeleteFilm
  <2> DEFINE g == purge.at
  <2>1. link' = [link EXCEPT ![g] = [v \in Video |-> Unlinked]] /\ owed' = [owed EXCEPT ![g] = {}]
    BY <1>11 DEF HardDeleteFilm
  <2> HIDE DEF g
  <2>2. CASE f = g
    BY <1>0, <1>4, <2>1, <2>2
  <2> QED
    BY <1>0, <1>3, <2>1, <2>2
<1> QED
  BY <1>2, <1>5, <1>6, <1>7, <1>9, <1>10, <1>11
     DEF Next, vars, row, hist, Ask, ResolveYear, FillFilmYear, SetFilmYear, SetYear, AddAlias, DeleteAlias,
     CreateFilm, RenameFilm, Refused, TrashVideo, KeepSeparate, AddImage, SoftDeleteFilm, RestoreFilm,
     PurgeFilmNow, RemoveImages, RemoveFails, SweepFilms

(***************************************************************************)
(* Who shares a title is asked about.                                      *)
(***************************************************************************)
LEMMA SharesOf ==
    ASSUME NEW p \in Shares, NEW f \in p
    PROVE  \E g \in Live \ {f} : f \in Live /\ p = {f, g} /\ \E t \in Title : Answers(f, t) /\ Answers(g, t)
<1>1. p \in Pair /\ p \subseteq Live /\ \E t \in Title : \A g \in p : Answers(g, t)
  BY DEF Shares
<1>2. PICK g \in Film : f # g /\ p = {f, g}
  BY <1>1, PairOf
<1> QED
  BY <1>1, <1>2

\* A film that takes a title is queued with every live film that answers to it.
LEMMA QueuedWith ==
    ASSUME Typed, SameTitleQueued, NEW f \in Film, NEW t \in Title, queueFilmSameTitle(f, t),
           UNCHANGED <<keep, unasked>>,
           \A p \in Shares' : p \in Shares \/ \E g \in SameTitle(f, t) : p = {f, g}
    PROVE  SameTitleQueued'
BY DEF SameTitleQueued, queueFilmSameTitle

LEMMA SharesFew ==
    ASSUME Live' \subseteq Live, \A f \in Live', t \in Title : Answers(f, t)' => Answers(f, t)
    PROVE  Shares' \subseteq Shares
BY DEF Shares

LEMMA TitlesNext == ASSUME Typed, SameTitleQueued, [Next]_vars PROVE SameTitleQueued'
<1>0. /\ name \in [Film -> Title \cup {None}] /\ trash \subseteq Row /\ Row \subseteq Film
      /\ alias \in [Title -> Film \cup {None}] /\ None \notin Film /\ None \notin Title
  BY FilmsAssumption DEF Typed, TypeOK, Row, Film, None
<1>1. ASSUME UNCHANGED <<review, keep, unasked>>, Shares' \subseteq Shares PROVE SameTitleQueued'
  BY <1>1 DEF SameTitleQueued
<1>2. CASE UNCHANGED <<name, trash, alias>> /\ UNCHANGED <<review, keep, unasked>>
  BY <1>1, <1>2, SharesFew DEF Live, Row, Answers
<1>3. ASSUME NEW t \in Title, NEW y \in Year \cup {None}, CreateFilm(t, y) PROVE SameTitleQueued'
  <2>0. top' = top + 1 /\ top < MaxFilm
    BY <1>3 DEF CreateFilm
  <2>2. PICK n \in Film : n = top' /\ n \notin Row /\ \A u \in Title : alias[u] # n
    BY <2>0, FilmsAssumption DEF Typed, Film
  <2>1. /\ name' = [name EXCEPT ![n] = t] /\ queueFilmSameTitle(n, t)
        /\ UNCHANGED <<trash, alias, keep, unasked>>
    BY <1>3, <2>2 DEF CreateFilm
  <2>3. Live' \subseteq Live \cup {n} /\ \A g \in Live, u \in Title : Answers(g, u)' => Answers(g, u)
    BY <1>0, <2>1, <2>2 DEF Live, Row, Answers
  <2>4. \A u \in Title : Answers(n, u)' => u = t
    BY <1>0, <2>1, <2>2 DEF Answers
  <2>5. ASSUME NEW p \in Shares' PROVE p \in Shares \/ \E g \in SameTitle(n, t) : p = {n, g}
    <3>1. p \in Pair /\ p \subseteq Live' /\ \E u \in Title : \A g \in p : Answers(g, u)'
      BY <2>5 DEF Shares
    <3>2. CASE n \notin p
      BY <2>3, <3>1, <3>2 DEF Shares
    <3>3. CASE n \in p
      <4>1. PICK g \in Film : n # g /\ p = {n, g}
        BY <3>1, <3>3, PairOf
      <4>2. g \in Live /\ Answers(g, t)
        BY <2>3, <2>4, <3>1, <4>1
      <4> QED
        BY <4>1, <4>2 DEF SameTitle
    <3> QED
      BY <3>2, <3>3
  <2> QED
    BY <2>1, <2>2, <2>5, QueuedWith
<1>4. CASE RenameFilm
  <2>0. req.f \in Row /\ req.t \in Title
    BY <1>4 DEF RenameFilm, Serving, Typed, Request, NoReq
  <2>1. PICK f \in Row, t \in Title :
        /\ name' = [name EXCEPT ![f] = t]
        /\ alias' = [alias EXCEPT ![name[f]] = IF alias[name[f]] = None THEN f ELSE alias[name[f]],
                                  ![t] = IF @ = f THEN None ELSE @]
        /\ queueFilmSameTitle(f, t) /\ UNCHANGED <<trash, keep, unasked>>
    BY <1>4, <2>0 DEF RenameFilm, hist
  <2>2. name[f] \in Title /\ f \in Film
    BY <1>0, <2>1 DEF Row
  <2>3. Live' \subseteq Live
    BY <1>0, <2>1, <2>2 DEF Live, Row
  <2>4. \A u \in Title : alias'[u] \in {alias[u], None} \/ (u = name[f] /\ alias'[u] = f)
    BY <1>0, <2>1, <2>2
  <2>5. \A g \in Live', u \in Title : g # f /\ Answers(g, u)' => Answers(g, u)
    BY <1>0, <2>1, <2>2, <2>3, <2>4 DEF Answers, Live, Row
  <2>6. \A u \in Title : Answers(f, u)' => u = t \/ Answers(f, u)
    BY <1>0, <2>1, <2>2, <2>4 DEF Answers
  <2>7. ASSUME NEW p \in Shares' PROVE p \in Shares \/ \E g \in SameTitle(f, t) : p = {f, g}
    <3>1. p \in Pair /\ p \subseteq Live' /\ \E u \in Title : \A g \in p : Answers(g, u)'
      BY <2>7 DEF Shares
    <3>2. CASE f \notin p
      BY <2>3, <2>5, <3>1, <3>2 DEF Shares
    <3>3. CASE f \in p
      <4>1. PICK g \in Film : f # g /\ p = {f, g}
        BY <3>1, <3>3, PairOf
      <4>2. PICK u \in Title : Answers(f, u)' /\ Answers(g, u)'
        BY <3>1, <4>1
      <4>3. g \in Live /\ f \in Live /\ Answers(g, u)
        BY <2>3, <2>5, <3>1, <4>1, <4>2
      <4>4. CASE u = t
        BY <4>1, <4>3, <4>4 DEF SameTitle
      <4>5. CASE Answers(f, u)
        BY <3>1, <4>1, <4>3, <4>5 DEF Shares
      <4> QED
        BY <2>6, <4>2, <4>4, <4>5
    <3> QED
      BY <3>2, <3>3
  <2> QED
    BY <2>1, <2>2, <2>7, QueuedWith
<1>5. ASSUME Unasked, UNCHANGED <<review, keep>> PROVE SameTitleQueued'
  BY <1>5 DEF SameTitleQueued, Unasked
<1>6. CASE AddAlias
  BY <1>5, <1>6 DEF AddAlias
<1>7. ASSUME NEW f \in Film, RestoreFilm(f) PROVE SameTitleQueued'
  BY <1>5, <1>7 DEF RestoreFilm
\* A film that goes takes its pairs with it.
<1>8. ASSUME NEW m \in Film, name' = [name EXCEPT ![m] = None], Drop(m), NEW p \in Shares', p \in Shares
      PROVE  p \in review' \cup keep' \cup unasked
  <2>1. m \notin p
    BY <1>0, <1>8 DEF Shares, Live, Row
  <2> QED
    BY <1>8, <2>1 DEF Drop, Touching, SameTitleQueued
<1>9. CASE MergeFilms
  <2>1. req.g \in Film /\ name' = [name EXCEPT ![req.g] = None] /\ Drop(req.g) /\ Unasked
    BY <1>9 DEF MergeFilms, Row
  <2> QED
    BY <1>8, <2>1 DEF Unasked, SameTitleQueued
<1>10. CASE HardDeleteFilm
  <2>0. purge.at \in Film
    BY <1>10 DEF HardDeleteFilm, Typed
  <2>1. PICK f \in Film :
        /\ name' = [name EXCEPT ![f] = None] /\ Drop(f) /\ UNCHANGED unasked
        /\ alias' = [u \in Title |-> IF alias[u] = f THEN None ELSE alias[u]]
    BY <1>10, <2>0 DEF HardDeleteFilm
  <2>2. Live' \subseteq Live
    BY <1>0, <2>1 DEF Live, Row, Drop
  <2>3. \A g \in Live', u \in Title : Answers(g, u)' => Answers(g, u)
    BY <1>0, <2>1 DEF Answers, Live, Row
  <2>4. Shares' \subseteq Shares
    BY <2>2, <2>3, SharesFew
  <2> QED
    BY <1>8, <2>1, <2>4 DEF SameTitleQueued
<1>11. ASSUME NEW t \in Title, DeleteAlias(t) PROVE SameTitleQueued'
  <2>1. /\ alias' = [alias EXCEPT ![t] = None] /\ UNCHANGED <<name, trash, review, keep, unasked>>
    BY <1>11 DEF DeleteAlias, hist
  <2>2. Live' \subseteq Live /\ \A g \in Live', u \in Title : Answers(g, u)' => Answers(g, u)
    BY <1>0, <2>1 DEF Live, Row, Answers
  <2> QED
    BY <1>1, <2>1, <2>2, SharesFew
<1>12. ASSUME NEW p \in Pair, KeepSeparate(p) PROVE SameTitleQueued'
  <2>1. Shares' \subseteq Shares
    BY <1>12, SharesFew DEF KeepSeparate, row, Live, Row, Answers
  <2> QED
    BY <1>12, <2>1 DEF KeepSeparate, hist, SameTitleQueued
<1>13. ASSUME NEW f \in Film, SoftDeleteFilm(f) \/ PurgeFilmNow(f) PROVE SameTitleQueued'
  <2>1. trash \subseteq trash' /\ UNCHANGED <<name, alias, review, keep, unasked>>
    BY <1>13 DEF SoftDeleteFilm, PurgeFilmNow, TrashFirst, hist
  <2>2. Shares' \subseteq Shares
    BY <2>1, SharesFew DEF Live, Row, Answers
  <2> QED
    BY <1>1, <2>1, <2>2
<1> QED
  BY <1>2, <1>3, <1>4, <1>6, <1>7, <1>9, <1>10, <1>11, <1>12, <1>13
     DEF Next, vars, row, hist, Ask, ResolveYear, FillFilmYear, SetFilmYear, SetYear,
     AttachFilmVideos, Refused, UpdateScene, DetachFilmVideo, TrashVideo, PurgeVideo,
     AddImage, RemoveImages, RemoveFails, SweepFilms

-----------------------------------------------------------------------------
FilmInv == Typed /\ KeysUnique /\ MembersAsserted /\ OwnersYearStays /\ Imaged /\ SameTitleQueued

LEMMA FilmsInit == Init => FilmInv
<1> SUFFICES ASSUME Init PROVE FilmInv
  OBVIOUS
<1>1. Row = {}
  BY DEF Init, Row
<1>2. KeysUnique /\ Imaged /\ SameTitleQueued
  <2>1. Shares = {}
    <3>1. \A p \in Shares : p = {} /\ p \in Pair
      BY <1>1 DEF Shares, Live
    <3>2. Cardinality({}) # 2
      BY FS_EmptySet
    <3> QED
      BY <3>1, <3>2 DEF Pair
  <2> QED
    BY <1>1, <2>1 DEF Init, KeysUnique, Imaged, SameTitleQueued, Live
<1>3. MembersAsserted /\ OwnersYearStays
  BY DEF Init, MembersAsserted, OwnersYearStays
<1> QED
  BY <1>2, <1>3, TypedInit DEF FilmInv

LEMMA ImagesWhole == FilmInv => LiveFilmWhole
<1>1. SUFFICES ASSUME FilmInv, NEW f \in Live \cap shown PROVE f \in bytes \cup doomed
  BY DEF LiveFilmWhole
<1>2. f # None
  BY <1>1 DEF Live, Row, Film, None
<1> QED
  BY <1>1, <1>2 DEF FilmInv, Imaged, Typed

LEMMA FilmsNext == FilmInv /\ [Next]_vars => FilmInv'
BY TypedNext, KeysNext, MembersNext, YearsNext, ImagedNext, TitlesNext DEF FilmInv

\* Whatever is created, renamed, merged, purged and refreshed at once, the tables keep to
\* their types and no row refers past the last id.
THEOREM TypeCorrect == Spec => []Typed
<1>1. FilmInv => Typed
  BY DEF FilmInv
<1> QED
  BY FilmsInit, FilmsNext, <1>1, PTL DEF Spec

\* No two films, in Trash or not, share a title and a year, however late a year comes
\* (CreateFilm, RenameFilm, SetFilmYear, FillFilmYear).
THEOREM KeysStayUnique == Spec => []KeysUnique
<1>1. FilmInv => KeysUnique
  BY DEF FilmInv
<1> QED
  BY FilmsInit, FilmsNext, <1>1, PTL DEF Spec

\* A film has exactly the videos the owner attached to it or to a film merged into it,
\* each numbered scene once (MergeFilms, AttachFilmVideos).
THEOREM MembersKept == Spec => []MembersAsserted
<1>1. FilmInv => MembersAsserted
  BY DEF FilmInv
<1> QED
  BY FilmsInit, FilmsNext, <1>1, PTL DEF Spec

\* No provider's year replaces the owner's (FillFilmYear).
THEOREM YearsKept == Spec => []OwnersYearStays
<1>1. FilmInv => OwnersYearStays
  BY DEF FilmInv
<1> QED
  BY FilmsInit, FilmsNext, <1>1, PTL DEF Spec

\* A live film's image rows have their files, unless it was restored, or merged into,
\* under a purge that had listed it (purgeFilm).
THEOREM ImagesKept == Spec => []LiveFilmWhole
BY FilmsInit, FilmsNext, ImagesWhole, PTL DEF Spec

\* Two live films that come to answer to one title by a creation or a rename are put to
\* the owner (queueFilmSameTitle).
THEOREM TitlesAsked == Spec => []SameTitleQueued
<1>1. FilmInv => SameTitleQueued
  BY DEF FilmInv
<1> QED
  BY FilmsInit, FilmsNext, <1>1, PTL DEF Spec

\* All that the owner decided on films stands: their videos, their years, their images
\* and the questions on shared titles, through merges, Trash, the purge and refreshes.
THEOREM FilmsHold == Spec => []FilmsKept
<1>1. FilmInv => FilmsKept
  BY ImagesWhole DEF FilmInv, Typed, FilmsKept
<1> QED
  BY FilmsInit, FilmsNext, <1>1, PTL DEF Spec

-----------------------------------------------------------------------------
(* Copies of a video.                                                      *)

Said == Pairs!Source \cup {Pairs!Manual("b"), Pairs!Manual("")}
Edited == [source : Said, curated : SUBSET (Genre \cup Value), na : BOOLEAN]
\* What is carried over when a copy is kept has its shape, and what the owner answered
\* stands among the pairs kept apart.  The memos' sequences need none of it.
Worked ==
    /\ scenes \subseteq [film : Feature, video : Copy, number : {0, 1}]
    /\ tags \in [Copy -> [Genre -> {"none", "file", "provider", "manual"}]]
    /\ edits \in [Copy -> [Field -> Edited]]
    /\ answered \subseteq apart

LEMMA NoEditTyped == Pairs!NoEdit \in Edited
BY DEF Pairs!NoEdit, Edited, Said, Pairs!Source, Pairs!None

LEMMA OneEdit ==
    ASSUME edits \in [Copy -> [Field -> Edited]], NEW v, NEW f, NEW e,
           v \in Copy /\ f \in Field => e \in Edited,
           edits' = [edits EXCEPT ![v][f] = e]
    PROVE  edits' \in [Copy -> [Field -> Edited]]
<1>1. CASE v \in Copy /\ f \in Field
  BY <1>1
<1>2. CASE ~(v \in Copy /\ f \in Field)
  <2>1. CASE v \notin Copy
    BY <2>1
  <2>2. CASE v \in Copy /\ f \notin Field
    <3>1. [edits[v] EXCEPT ![f] = e] = edits[v]
      BY <2>2
    <3> QED BY <2>2, <3>1
  <2> QED BY <1>2, <2>1, <2>2
<1> QED BY <1>1, <1>2

LEMMA EditParts ==
    ASSUME NEW e \in Edited, NEW s \in Said, NEW c \in SUBSET (Genre \cup Value), NEW n \in BOOLEAN
    PROVE  /\ [e EXCEPT !.source = s] \in Edited
           /\ [e EXCEPT !.curated = c] \in Edited
           /\ [e EXCEPT !.na = n] \in Edited
BY DEF Edited

LEMMA CarryTyped ==
    ASSUME NEW k \in Copy, NEW t \in Copy, NEW e \in Edited
    PROVE  Pairs!carried(k, t, e) \in Edited
BY DEF Edited, Pairs!carried, Said, Pairs!Source, Pairs!None

LEMMA KeepTyped ==
    ASSUME Worked, NEW k \in Copy, NEW t \in Copy, Pairs!applyCarry(k, t)
    PROVE  /\ scenes' \subseteq [film : Feature, video : Copy, number : {0, 1}]
           /\ tags' \in [Copy -> [Genre -> {"none", "file", "provider", "manual"}]]
           /\ edits' \in [Copy -> [Field -> Edited]]
<1>1. scenes' \subseteq [film : Feature, video : Copy, number : {0, 1}]
  <2>1. ASSUME NEW s \in scenes PROVE [s EXCEPT !.video = k] \in [film : Feature, video : Copy, number : {0, 1}]
    BY DEF Worked
  <2>2. Pairs!carryFilm(k, t) \subseteq scenes
    BY DEF Pairs!carryFilm
  <2>3. scenes' = (scenes \ Pairs!carryFilm(k, t)) \cup {[s EXCEPT !.video = k] : s \in Pairs!carryFilm(k, t)}
    BY DEF Pairs!applyCarry
  <2> QED BY <2>1, <2>2, <2>3 DEF Worked
<1>2. tags' \in [Copy -> [Genre -> {"none", "file", "provider", "manual"}]]
  BY DEF Worked, Pairs!applyCarry
<1>3. edits' \in [Copy -> [Field -> Edited]]
  <2>1. \A f \in Field : Pairs!carried(k, t, edits[t][f]) \in Edited
    BY CarryTyped DEF Worked
  <2> QED BY <2>1 DEF Worked, Pairs!applyCarry
<1> QED BY <1>1, <1>2, <1>3

\* Where the kept copy had a scene of a film it has it still, and a film of the other copy
\* is the kept copy's too.
LEMMA FilmsMove ==
    ASSUME Worked, NEW k \in Copy, NEW t \in Copy, Pairs!applyCarry(k, t), NEW f
    PROVE  (\E v \in {k, t} : Pairs!InFilm(f, v, scenes)) <=> Pairs!InFilm(f, k, scenes')
<1> DEFINE moved == Pairs!carryFilm(k, t)
<1>1. scenes' = (scenes \ moved) \cup {[s EXCEPT !.video = k] : s \in moved}
  BY DEF Pairs!applyCarry
<1>2. ASSUME NEW s \in scenes
      PROVE  [s EXCEPT !.video = k].video = k /\ [s EXCEPT !.video = k].film = s.film
  BY DEF Worked
<1>3. \A s : s \in moved <=> s \in scenes /\ s.video = t /\ ~Pairs!InFilm(s.film, k, scenes)
  BY DEF Pairs!carryFilm
<1> HIDE DEF moved
<1>4. ASSUME Pairs!InFilm(f, k, scenes) PROVE Pairs!InFilm(f, k, scenes')
  <2>1. PICK s \in scenes : s.film = f /\ s.video = k
    BY <1>4 DEF Pairs!InFilm
  <2>2. s \notin moved
    BY <2>1, <1>3, <1>4
  <2> QED BY <2>1, <2>2, <1>1 DEF Pairs!InFilm
<1>5. ASSUME Pairs!InFilm(f, t, scenes), ~Pairs!InFilm(f, k, scenes) PROVE Pairs!InFilm(f, k, scenes')
  <2>1. PICK s \in scenes : s.film = f /\ s.video = t
    BY <1>5 DEF Pairs!InFilm
  <2>2. s \in moved
    BY <2>1, <1>3, <1>5
  <2>3. [s EXCEPT !.video = k] \in scenes'
    BY <2>2, <1>1
  <2> QED BY <2>1, <2>3, <1>2 DEF Pairs!InFilm
<1>6. ASSUME Pairs!InFilm(f, k, scenes')
      PROVE  \E v \in {k, t} : Pairs!InFilm(f, v, scenes)
  <2>1. PICK r \in scenes' : r.film = f /\ r.video = k
    BY <1>6 DEF Pairs!InFilm
  <2>2. CASE r \in scenes
    BY <2>1, <2>2 DEF Pairs!InFilm
  <2>3. CASE r \notin scenes
    <3>1. PICK s \in moved : r = [s EXCEPT !.video = k]
      BY <2>3, <1>1
    <3> QED BY <2>1, <3>1, <1>2, <1>3 DEF Pairs!InFilm
  <2> QED BY <2>2, <2>3
<1> QED BY <1>4, <1>5, <1>6

LEMMA KeepCarries ==
    ASSUME NEW k \in Copy, NEW t \in Copy, Pairs!KeepOneVideo(k, t)
    PROVE  Pairs!applyCarry(k, t) /\ memo' = memo
BY DEF Pairs!KeepOneVideo

\* What keeping k carries over from t adds to what k has.
LEMMA CarryAdds ==
    ASSUME Worked, NEW k \in Copy, NEW t \in Copy, k # t, Pairs!applyCarry(k, t), memo' = memo
    PROVE  Pairs!Additive(k, t)
<1>1. \A p \in Playlist : {<<p, k>>, <<p, t>>} \cap places # {} => <<p, k>> \in places'
  <2> TAKE p \in Playlist
  <2>1. CASE <<p, k>> \in places
    <3>1. \A q \in Pairs!carryPlaylist(k, t) : <<p, k>> # <<q, t>>
      OBVIOUS
    <3> QED BY <2>1, <3>1 DEF Pairs!applyCarry
  <2>2. CASE <<p, k>> \notin places /\ <<p, t>> \in places
    <3>1. p \in Pairs!carryPlaylist(k, t)
      BY <2>2 DEF Pairs!carryPlaylist
    <3> QED BY <3>1 DEF Pairs!applyCarry
  <2> QED BY <2>1, <2>2
<1>2. \A s \in scenes : s.video = t => Pairs!InFilm(s.film, k, scenes) \/ [s EXCEPT !.video = k] \in scenes'
  BY DEF Pairs!applyCarry, Pairs!carryFilm
<1>3. \A g \in Genre : Pairs!Durable(k, g) \/ tags[t][g] = "manual" => Pairs!Durable(k, g)'
  <2> TAKE g \in Genre
  <2>1. tags'[k][g] = IF g \in Pairs!carryTag(k, t) THEN "manual" ELSE tags[k][g]
    BY DEF Worked, Pairs!applyCarry
  <2>2. tags[k][g] \in {"none", "file", "provider", "manual"}
    BY DEF Worked
  <2> QED BY <2>1, <2>2 DEF Pairs!Durable, Pairs!carryTag
<1>4. ASSUME NEW f \in Field
      PROVE  edits'[k][f] = IF f \in Pairs!carryFields(k, t) THEN Pairs!carried(k, t, edits[t][f]) ELSE edits[k][f]
  BY DEF Worked, Pairs!applyCarry
<1>5. \A f \in Field : edits[k][f] # Pairs!NoEdit \/ f \in Pairs!Excluded => edits'[k][f] = edits[k][f]
  BY <1>4 DEF Pairs!carryFields
<1>6. ASSUME NEW f \in Field \ Pairs!Excluded, edits[k][f] = Pairs!NoEdit
      PROVE  /\ edits'[k][f].curated = edits[t][f].curated /\ edits'[k][f].na = edits[t][f].na
             /\ \/ edits'[k][f].source = edits[t][f].source
                \/ edits[t][f].source.kind = "provider" /\ memo[k][edits[t][f].source.of] = <<>>
                \/ edits[t][f].source.kind = "film" /\ ~Pairs!InFilm(edits[t][f].source.of, k, scenes')
  <2> DEFINE e == edits[t][f]
  <2>1. e \in Edited
    BY DEF Worked
  <2>2. ~Pairs!carryDecisionOK(e.source, k, t)
        => \/ e.source.kind = "provider" /\ memo[k][e.source.of] = <<>>
           \/ e.source.kind = "film" /\ ~Pairs!InFilm(e.source.of, k, scenes')
    BY FilmsMove DEF Pairs!carryDecisionOK
  <2>3. CASE f \in Pairs!carryFields(k, t)
    <3>1. edits'[k][f] = Pairs!carried(k, t, e)
      BY <1>4, <2>3
    <3>2. /\ Pairs!carried(k, t, e).curated = e.curated
          /\ Pairs!carried(k, t, e).na = e.na
          /\ Pairs!carryDecisionOK(e.source, k, t) => Pairs!carried(k, t, e).source = e.source
      BY <2>1 DEF Pairs!carried, Edited
    <3> QED BY <3>1, <3>2, <2>2
  <2>4. CASE f \notin Pairs!carryFields(k, t)
    <3>1. edits'[k][f] = Pairs!NoEdit
      BY <1>4, <1>6, <2>4
    <3>2. e.curated = {} /\ e.na = FALSE
      BY <2>1, <2>4, <1>6 DEF Pairs!carryFields, Edited
    <3>3. e.source = Pairs!None \/ ~Pairs!carryDecisionOK(e.source, k, t)
      BY <2>4, <1>6 DEF Pairs!carryFields
    <3>4. /\ edits'[k][f].curated = {} /\ edits'[k][f].na = FALSE
          /\ edits'[k][f].source = Pairs!None
      BY <3>1 DEF Pairs!NoEdit
    <3> QED BY <3>2, <3>3, <3>4, <2>2
  <2> QED BY <2>3, <2>4
<1>7. {s \in scenes : s.video # t} \subseteq scenes'
  BY DEF Pairs!applyCarry, Pairs!carryFilm
<1>8. {pv \in places : pv[2] # t} \subseteq places'
  <2>1. \A pv \in {<<p, t>> : p \in Pairs!carryPlaylist(k, t)} : pv[2] = t
    OBVIOUS
  <2> QED BY <2>1 DEF Pairs!applyCarry
<1>9. \A v \in Copy \ {k} : tags'[v] = tags[v] /\ edits'[v] = edits[v]
  BY DEF Worked, Pairs!applyCarry
<1> QED BY <1>1, <1>2, <1>3, <1>5, <1>6, <1>7, <1>8, <1>9 DEF Pairs!Additive

\* A decision carried over has something to pick on the kept copy.
LEMMA CarriedResolves ==
    ASSUME Worked, NEW k \in Copy, NEW t \in Copy, Pairs!applyCarry(k, t), memo' = memo,
           NEW f \in Field, edits'[k][f] # edits[k][f]
    PROVE  Pairs!Resolves(edits[k][f].source, k)'
<1> DEFINE e == edits[t][f]
<1>1. e \in Edited
  BY DEF Worked
<1>2. edits'[k][f] = Pairs!carried(k, t, e)
  BY DEF Worked, Pairs!applyCarry
<1>3. CASE Pairs!carryDecisionOK(e.source, k, t)
  <2>1. edits'[k][f].source = e.source
    BY <1>1, <1>2, <1>3 DEF Pairs!carried, Edited
  <2> QED BY <2>1, <1>3, FilmsMove DEF Pairs!Resolves, Pairs!carryDecisionOK
<1>4. CASE ~Pairs!carryDecisionOK(e.source, k, t)
  <2>1. edits'[k][f].source = Pairs!None
    BY <1>1, <1>2, <1>4 DEF Pairs!carried, Edited
  <2> QED BY <2>1 DEF Pairs!Resolves, Pairs!None
<1> QED BY <1>3, <1>4

LEMMA WorkedInit == Pairs!Init => Worked
<1> SUFFICES ASSUME Pairs!Init PROVE Worked
  OBVIOUS
<1>1. edits \in [Copy -> [Field -> Edited]]
  BY NoEditTyped DEF Pairs!Init
<1> QED BY <1>1 DEF Pairs!Init, Worked

\* Only keeping a copy says that one was kept.
LEMMA OnlyKeepKeeps ==
    ASSUME Pairs!Next, NEW k \in Copy, NEW t \in Copy, kept' = <<k, t>>
    PROVE  k # t /\ Pairs!KeepOneVideo(k, t)
<1> USE DEF Pairs!Plainly
<1>1. ASSUME NEW a \in Copy, NEW b \in Copy \ {a}
      PROVE  /\ Pairs!KeepOneVideo(a, b) => kept' = <<a, b>>
             /\ ~Pairs!DismissVideoPair({a, b})
             /\ \A f \in Field \cap Pairs!Excluded : \A l \in Pairs!labels(f) : ~Pairs!LabelVideoPair(f, a, b, l[1], l[2])
  BY DEF Pairs!KeepOneVideo, Pairs!DismissVideoPair, Pairs!LabelVideoPair, Pairs!KeepApart
<1>2. \A seen \in SUBSET Copy : ~Pairs!DeactivateExcept(seen)
  BY DEF Pairs!DeactivateExcept
<1>3. ASSUME NEW v \in Copy
      PROVE  /\ ~Pairs!SoftDelete(v) /\ ~Pairs!Restore(v) /\ ~Pairs!HardDelete(v) /\ ~Pairs!Reactivate(v)
             /\ \A found \in SUBSET Genre : ~Pairs!UpsertVideo(v, found)
             /\ \A p \in Provider, i \in Item, left \in Pairs!BoundedSeq(Item, MaxMemo), same \in BOOLEAN : ~Pairs!Enrich(v, p, i, left, same)
             /\ \A p \in Provider : ~Pairs!DeleteEnrichment(v, p)
             /\ \A g \in Genre : ~Pairs!AttachTagToVideo(v, g) /\ ~Pairs!AttachMaterializedTags(v, g) /\ ~Pairs!DetachTagFromVideo(v, g)
             /\ \A f \in Field : /\ \A src \in Pairs!Decisions(f) : ~Pairs!Decide(v, f, src)
                                 /\ \A x \in Pairs!Curatable(f) : ~Pairs!SetCuration(v, f, x) /\ ~Pairs!ClearCuration(v, f, x)
                                 /\ \A na \in BOOLEAN : ~Pairs!SetFacetNotApplicable(v, f, na)
             /\ \A p \in Playlist : ~Pairs!AddPlaylistVideo(p, v)
             /\ \A f \in Feature : ~Pairs!DetachFilmVideo(f, v) /\ \A n \in {0, 1} : ~Pairs!AttachFilmVideo(f, v, n)
  BY DEF Pairs!SoftDelete, Pairs!Restore, Pairs!HardDelete, Pairs!Reactivate, Pairs!UpsertVideo, Pairs!Enrich,
         Pairs!DeleteEnrichment, Pairs!AttachTagToVideo, Pairs!AttachMaterializedTags, Pairs!DetachTagFromVideo,
         Pairs!Decide, Pairs!SetCuration, Pairs!ClearCuration, Pairs!SetFacetNotApplicable, Pairs!AddPlaylistVideo,
         Pairs!DetachFilmVideo, Pairs!AttachFilmVideo
<1>4. \E a \in Copy : \E b \in Copy \ {a} : Pairs!KeepOneVideo(a, b)
  BY <1>1, <1>2, <1>3 DEF Pairs!Next
<1> QED BY <1>1, <1>4

LEMMA EditsStep ==
    ASSUME Worked, NEW v \in Copy,
           \/ \E f \in Field : \/ \E src \in Pairs!Decisions(f) : Pairs!Decide(v, f, src)
                               \/ \E x \in Pairs!Curatable(f) : Pairs!SetCuration(v, f, x) \/ Pairs!ClearCuration(v, f, x)
                               \/ \E na \in BOOLEAN : Pairs!SetFacetNotApplicable(v, f, na)
           \/ \E g \in Genre : Pairs!AttachTagToVideo(v, g) \/ Pairs!DetachTagFromVideo(v, g)
    PROVE  edits' \in [Copy -> [Field -> Edited]]
<1> USE DEF Worked
<1>1. \A f \in Field : edits[v][f] \in Edited /\ edits[v][f].curated \subseteq Genre \cup Value
  BY DEF Edited
<1>2. ASSUME NEW f \in Field, NEW src \in Pairs!Decisions(f), Pairs!Decide(v, f, src)
      PROVE  edits' \in [Copy -> [Field -> Edited]]
  <2>1. src \in Said
    BY DEF Pairs!Decisions, Said, Pairs!Source
  <2>2. [edits[v][f] EXCEPT !.source = src] \in Edited
    BY <1>1, <2>1 DEF Edited
  <2>3. edits' = [edits EXCEPT ![v][f] = [edits[v][f] EXCEPT !.source = src]]
    BY <1>2 DEF Pairs!Decide
  <2> QED BY <2>2, <2>3, OneEdit
<1>3. ASSUME NEW f \in Field, NEW c \in SUBSET (Genre \cup Value),
             edits' = [edits EXCEPT ![v][f] = [edits[v][f] EXCEPT !.curated = c]]
      PROVE  edits' \in [Copy -> [Field -> Edited]]
  <2>1. [edits[v][f] EXCEPT !.curated = c] \in Edited
    BY <1>1 DEF Edited
  <2> QED BY <1>3, <2>1, OneEdit
<1>4. ASSUME NEW f \in Field, NEW x \in Pairs!Curatable(f), Pairs!SetCuration(v, f, x) \/ Pairs!ClearCuration(v, f, x)
      PROVE  edits' \in [Copy -> [Field -> Edited]]
  <2>1. x \in Genre \cup Value
    BY DEF Pairs!Curatable
  <2>2. \E c \in SUBSET (Genre \cup Value) : edits' = [edits EXCEPT ![v][f] = [edits[v][f] EXCEPT !.curated = c]]
    <3>1. CASE Pairs!SetCuration(v, f, x)
      <4>1. edits' = [edits EXCEPT ![v][f] = [edits[v][f] EXCEPT !.curated = edits[v][f].curated \cup {x}]]
        BY <3>1 DEF Pairs!SetCuration
      <4> QED BY <1>1, <2>1, <4>1
    <3>2. CASE Pairs!ClearCuration(v, f, x)
      <4>1. edits' = [edits EXCEPT ![v][f] = [edits[v][f] EXCEPT !.curated = edits[v][f].curated \ {x}]]
        BY <3>2 DEF Pairs!ClearCuration
      <4> QED BY <1>1, <4>1
    <3> QED BY <1>4, <3>1, <3>2
  <2> QED BY <1>3, <2>2
<1>5. ASSUME NEW f \in Field, NEW na \in BOOLEAN, Pairs!SetFacetNotApplicable(v, f, na)
      PROVE  edits' \in [Copy -> [Field -> Edited]]
  <2>1. [edits[v][f] EXCEPT !.na = na] \in Edited
    BY <1>1 DEF Edited
  <2>2. edits' = [edits EXCEPT ![v][f] = [edits[v][f] EXCEPT !.na = na]]
    BY <1>5 DEF Pairs!SetFacetNotApplicable
  <2> QED BY <2>1, <2>2, OneEdit
<1>6. ASSUME NEW g \in Genre, Pairs!AttachTagToVideo(v, g) \/ Pairs!DetachTagFromVideo(v, g)
      PROVE  edits' \in [Copy -> [Field -> Edited]]
  <2> DEFINE cut == [edits[v]["genres"] EXCEPT !.curated = edits[v]["genres"].curated \ {g}]
             grown == [edits[v]["genres"] EXCEPT !.curated = edits[v]["genres"].curated \cup {g}]
  <2>1. "genres" \in Field => cut \in Edited /\ grown \in Edited
    BY <1>1 DEF Edited
  <2>2. \/ edits' = [edits EXCEPT ![v]["genres"] = cut]
        \/ edits' = [edits EXCEPT ![v]["genres"] = grown]
    BY <1>6 DEF Pairs!AttachTagToVideo, Pairs!DetachTagFromVideo
  <2> HIDE DEF cut, grown
  <2>3. CASE edits' = [edits EXCEPT ![v]["genres"] = cut]
    BY <2>1, <2>3, OneEdit
  <2>4. CASE edits' = [edits EXCEPT ![v]["genres"] = grown]
    BY <2>1, <2>4, OneEdit
  <2> QED BY <2>2, <2>3, <2>4
<1> QED BY <1>2, <1>4, <1>5, <1>6

LEMMA LabelStep ==
    ASSUME Worked, NEW a \in Copy, NEW b \in Copy \ {a}, NEW f \in Field, NEW l \in Pairs!labels(f),
           Pairs!LabelVideoPair(f, a, b, l[1], l[2])
    PROVE  edits' \in [Copy -> [Field -> Edited]]
<1>1. \A v \in Copy : edits[v] \in [Field -> Edited]
  BY DEF Worked
<1>2. \A la \in Said : [edits[a][f] EXCEPT !.source = la] \in Edited /\ [edits[b][f] EXCEPT !.source = la] \in Edited
  BY <1>1 DEF Edited
<1>3. l[1] \in Said /\ l[2] \in Said
  <2>1. \A x \in {"a", "b", ""} : Pairs!Manual(x) \in Said
    BY DEF Said, Pairs!Source
  <2>2. Pairs!None \in Said
    BY DEF Said, Pairs!Source
  <2>3. CASE f = "part"
    <3>1. l = <<Pairs!Manual("a"), Pairs!Manual("b")>>
      BY <2>3 DEF Pairs!labels
    <3> QED BY <2>1, <3>1
  <2>4. CASE f # "part"
    <3>1. l \in {Pairs!Manual("a")} \X {Pairs!Manual("a"), Pairs!Manual("b"), Pairs!Manual(""), Pairs!None}
      BY <2>4 DEF Pairs!labels
    <3> QED BY <2>1, <2>2, <3>1
  <2> QED BY <2>3, <2>4
<1> DEFINE ea == [edits[a][f] EXCEPT !.source = IF l[1] = Pairs!None THEN @ ELSE l[1]]
           eb == [edits[b][f] EXCEPT !.source = IF l[2] = Pairs!None THEN @ ELSE l[2]]
           mid == [edits EXCEPT ![a][f] = ea]
<1>4. ea \in Edited /\ eb \in Edited
  BY <1>1, <1>3 DEF Edited
<1>5. mid \in [Copy -> [Field -> Edited]] /\ mid[b] = edits[b]
  BY <1>4 DEF Worked
<1>6. edits' = [mid EXCEPT ![b][f] = eb]
  BY <1>5 DEF Pairs!LabelVideoPair
<1> HIDE DEF ea, eb, mid
<1> QED BY <1>4, <1>5, <1>6

LEMMA WorkedNext == Worked /\ Pairs!Next => Worked'
<1> SUFFICES ASSUME Worked, Pairs!Next PROVE Worked'
  OBVIOUS
<1> DEFINE Rest == scenes' = scenes /\ tags' = tags /\ answered' = answered /\ apart' = apart
<1>1. ASSUME NEW k \in Copy, NEW t \in Copy, Pairs!KeepOneVideo(k, t) PROVE Worked'
  <2>1. Pairs!applyCarry(k, t) /\ apart' = apart /\ answered' = answered
    BY <1>1 DEF Pairs!KeepOneVideo
  <2> QED BY <2>1, KeepTyped DEF Worked
<1>2. ASSUME NEW ab, Pairs!DismissVideoPair(ab) PROVE Worked'
  BY <1>2 DEF Worked, Pairs!DismissVideoPair, Pairs!KeepApart, Pairs!work
<1>3. ASSUME NEW a \in Copy, NEW b \in Copy \ {a}, NEW f \in Field, NEW l \in Pairs!labels(f),
             Pairs!LabelVideoPair(f, a, b, l[1], l[2])
      PROVE  Worked'
  <2>1. edits' \in [Copy -> [Field -> Edited]]
    BY <1>3, LabelStep
  <2>2. scenes' = scenes /\ tags' = tags /\ apart' = apart \cup {{a, b}} /\ answered' = answered \cup {{a, b}}
    BY <1>3 DEF Pairs!LabelVideoPair, Pairs!KeepApart
  <2> QED BY <2>1, <2>2 DEF Worked
<1>4. ASSUME NEW v \in Copy, Pairs!HardDelete(v) PROVE Worked'
  <2>1. edits' \in [Copy -> [Field -> Edited]]
    BY <1>4, NoEditTyped DEF Worked, Pairs!HardDelete
  <2> QED BY <1>4, <2>1 DEF Worked, Pairs!HardDelete
<1>5. ASSUME NEW v \in Copy, NEW found \in SUBSET Genre, Pairs!UpsertVideo(v, found) PROVE Worked'
  BY <1>5 DEF Worked, Pairs!UpsertVideo, Pairs!Plainly
<1>6. ASSUME NEW v \in Copy,
             \/ Pairs!SoftDelete(v) \/ Pairs!Restore(v) \/ Pairs!Reactivate(v)
             \/ \E seen \in SUBSET Copy : Pairs!DeactivateExcept(seen)
             \/ \E p \in Provider, i \in Item, left \in Pairs!BoundedSeq(Item, MaxMemo), same \in BOOLEAN : Pairs!Enrich(v, p, i, left, same)
             \/ \E p \in Provider : Pairs!DeleteEnrichment(v, p)
             \/ \E p \in Playlist : Pairs!AddPlaylistVideo(p, v)
      PROVE  Worked'
  <2>1. Rest /\ edits' = edits
    BY <1>6 DEF Pairs!SoftDelete, Pairs!Restore, Pairs!Reactivate, Pairs!DeactivateExcept, Pairs!Enrich,
         Pairs!DeleteEnrichment, Pairs!AddPlaylistVideo, Pairs!Plainly, Pairs!work, Pairs!Others
  <2> QED BY <2>1 DEF Worked
<1>7. ASSUME NEW v \in Copy, NEW g \in Genre,
             Pairs!AttachTagToVideo(v, g) \/ Pairs!AttachMaterializedTags(v, g) \/ Pairs!DetachTagFromVideo(v, g)
      PROVE  Worked'
  <2>1. edits' \in [Copy -> [Field -> Edited]]
    <3>1. CASE Pairs!AttachMaterializedTags(v, g)
      BY <3>1 DEF Worked, Pairs!AttachMaterializedTags
    <3> QED BY <1>7, <3>1, EditsStep
  <2>2. tags' \in [Copy -> [Genre -> {"none", "file", "provider", "manual"}]]
    <3>1. tags[v][g] \in {"none", "file", "provider", "manual"}
      BY DEF Worked
    <3>2. \E x \in {"none", "file", "provider", "manual"} : tags' = [tags EXCEPT ![v][g] = x]
      <4>1. CASE Pairs!attachTag(v, g, "manual") \/ Pairs!attachTag(v, g, "provider")
        BY <3>1, <4>1 DEF Pairs!attachTag
      <4>2. CASE Pairs!DetachTagFromVideo(v, g)
        BY <4>2 DEF Pairs!DetachTagFromVideo
      <4> QED BY <1>7, <4>1, <4>2 DEF Pairs!AttachTagToVideo, Pairs!AttachMaterializedTags
    <3> QED BY <3>2 DEF Worked
  <2>3. scenes' = scenes /\ answered' = answered /\ apart' = apart
    BY <1>7 DEF Pairs!AttachTagToVideo, Pairs!AttachMaterializedTags, Pairs!DetachTagFromVideo, Pairs!Plainly, Pairs!Others
  <2> QED BY <2>1, <2>2, <2>3 DEF Worked
<1>8. ASSUME NEW v \in Copy, NEW f \in Field,
             \/ \E src \in Pairs!Decisions(f) : Pairs!Decide(v, f, src)
             \/ \E x \in Pairs!Curatable(f) : Pairs!SetCuration(v, f, x) \/ Pairs!ClearCuration(v, f, x)
             \/ \E na \in BOOLEAN : Pairs!SetFacetNotApplicable(v, f, na)
      PROVE  Worked'
  <2>1. edits' \in [Copy -> [Field -> Edited]]
    BY <1>8, EditsStep
  <2>2. Rest
    BY <1>8 DEF Pairs!Decide, Pairs!SetCuration, Pairs!ClearCuration, Pairs!SetFacetNotApplicable, Pairs!Plainly, Pairs!Others
  <2> QED BY <2>1, <2>2 DEF Worked
<1>9. ASSUME NEW v \in Copy, NEW f \in Feature, Pairs!DetachFilmVideo(f, v) \/ \E n \in {0, 1} : Pairs!AttachFilmVideo(f, v, n)
      PROVE  Worked'
  <2>1. scenes' \subseteq [film : Feature, video : Copy, number : {0, 1}]
    BY <1>9 DEF Worked, Pairs!DetachFilmVideo, Pairs!AttachFilmVideo
  <2>2. tags' = tags /\ edits' = edits /\ answered' = answered /\ apart' = apart
    BY <1>9 DEF Pairs!DetachFilmVideo, Pairs!AttachFilmVideo, Pairs!Plainly, Pairs!Others
  <2> QED BY <2>1, <2>2 DEF Worked
<1>10. ASSUME NEW seen \in SUBSET Copy, Pairs!DeactivateExcept(seen) PROVE Worked'
  BY <1>10 DEF Worked, Pairs!DeactivateExcept, Pairs!Plainly, Pairs!work
<1> QED BY <1>1, <1>2, <1>3, <1>4, <1>5, <1>6, <1>7, <1>8, <1>9, <1>10 DEF Pairs!Next

THEOREM PairsWorked == Pairs!Spec => []Worked
<1>1. Worked /\ UNCHANGED Pairs!vars => Worked'
  BY DEF Worked, Pairs!vars, Pairs!work
<1> QED BY WorkedInit, WorkedNext, <1>1, PTL DEF Pairs!Spec

\* Keeping one of two copies takes nothing from it and carries to it all the owner did to
\* the other, a decision it carries has something to pick, and an answered pair is not
\* listed again (repo/video_pairs.go).
THEOREM CopiesKeep == Pairs!Spec => KeepingIsAdditive
<1>1. ASSUME Worked, [Pairs!Next]_(Pairs!vars), NEW k \in Copy, NEW t \in Copy,
             answers' # answers, kept' = <<k, t>>
      PROVE  /\ Pairs!Additive(k, t)
             /\ \A f \in Field : edits'[k][f] # edits[k][f] => Pairs!Resolves(edits[k][f].source, k)'
  <2>1. Pairs!Next
    BY <1>1 DEF Pairs!vars
  <2>2. k # t /\ Pairs!applyCarry(k, t) /\ memo' = memo
    BY <1>1, <2>1, OnlyKeepKeeps, KeepCarries
  <2> QED BY <1>1, <2>2, CarryAdds, CarriedResolves
<1>2. Worked => Pairs!AnsweredStays
  BY DEF Worked, Pairs!AnsweredStays, Pairs!ListVideoPairs
<1>3. Worked /\ [Pairs!Next]_(Pairs!vars)
      => [\A k, t \in Copy : answers' # answers /\ kept' = <<k, t>> => Pairs!Additive(k, t)]_(Pairs!vars)
  BY <1>1
<1>4. Worked /\ [Pairs!Next]_(Pairs!vars)
      => [\A k, t \in Copy, f \in Field :
            answers' # answers /\ kept' = <<k, t>> /\ edits'[k][f] # edits[k][f] => Pairs!Resolves(edits[k][f].source, k)']_(Pairs!vars)
  BY <1>1
<1>5. Pairs!Spec => [][Pairs!Next]_(Pairs!vars)
  BY PTL DEF Pairs!Spec
<1>6. Pairs!Spec => Pairs!KeepingIsAdditive
  BY PairsWorked, <1>3, <1>5, PTL DEF Pairs!KeepingIsAdditive
<1>7. Pairs!Spec => Pairs!PinsResolve
  BY PairsWorked, <1>4, <1>5, PTL DEF Pairs!PinsResolve
<1>8. Pairs!Spec => []Pairs!AnsweredStays
  BY PairsWorked, <1>2, PTL
<1> QED BY <1>6, <1>7, <1>8 DEF KeepingIsAdditive
================================================================================
