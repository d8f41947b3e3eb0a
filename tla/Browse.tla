------------------------------- MODULE Browse --------------------------------
(***************************************************************************)
(* What a visitor is shown of the library: the pages of a list of videos,  *)
(* the lists of people, studios and tags with their A-Z index, the "More   *)
(* with ..." shelves of a video, and the global search.                    *)
(*                                                                         *)
(* Every answer is a function of the rows, so it is an operator here; the  *)
(* steps are the changes of the rows and a client that pages through one   *)
(* list while they change.  A spelling (a title, a name, an alias) is a    *)
(* value with a place in the NOCASE order, and what a text finds in a      *)
(* spelling is a constant.  A condition on a video's own numbers, dates,   *)
(* categories and mapped fields is the set of videos that meet it.         *)
(***************************************************************************)
EXTENDS Integers, FiniteSets, FiniteSetsExt, Sequences, SequencesExt, TLC

CONSTANTS
    Video, Film,            \* sets of ids
    Person, Studio, Tag,    \* disjoint sets of ids
    Role,                   \* of a person's link; a studio's and a tag's have one role
    Under,      \* [Tag -> SUBSET Tag]: a tag with the tags below it
    Spelling,   \* [title, name, alias, shown]: a video's title; an entity's or a film's
                \* name, its aliases, and the spelling a name decision shows or None
    Place,      \* [spelling -> Nat]: the NOCASE order
    Letter,     \* [spelling -> its A-Z letter or "#"]
    Asked,      \* texts that are searched for
    Finds,      \* [Asked -> spellings the full-text index finds]
    Within,     \* [Asked -> spellings that contain its words]
    Length, Score,   \* [Video -> Nat]: a number to sort by; the score of completeness
    Shuffle,    \* [seed -> [id -> Nat]]: holo_shuffle
    None,
    Filters,    \* the lists a client opens
    DefaultLimit, MaxLimit, FilmLimit, FilmDefault, ToolLimit, ToolDefault, \* the code's page bounds
    Library,    \* the links, [links, whole], the library starts with
    MaxEdit, MaxMet,   \* bounds: changes of the rows; those beside a client, which opens
                \* its list before them
    MaxGen      \* bound: refreshes of the client

Named == Person \cup Studio \cup Tag

BrowseAssumption ==
    /\ \A t \in Tag : t \in Under[t] /\ \A u \in Under[t] : Under[u] \subseteq Under[t]
    /\ DefaultLimit > 0 /\ MaxLimit > 0

VARIABLES
    active, trash,     \* videos whose file is there; videos in Trash
    links,             \* <<video, entity, role>>: video_people, video_studios, video_tags
    attached, whole,   \* <<film, video>>: film_videos; those with is_full_film
    filmTrash,
    client,            \* the list a client shows, or None; fresh: no row has changed since
                       \* it last began to read
    replies,           \* pages on their way to the client
    edits

rows == <<active, trash, links, attached, whole, filmTrash>>
vars == <<rows, client, replies, edits>>

Least(a, b) == IF a < b THEN a ELSE b

-----------------------------------------------------------------------------
(* Lists of videos.                                                        *)

Visible == active \ trash
Linked(v, es) == \E l \in links : l[1] = v /\ l[2] \in es
(* A film in Trash stands in for nothing.                                  *)
Represented == {v \in Video : \E f \in Film \ filmTrash : <<f, v>> \in whole}
InFilm == {v \in Video : \E f \in Film \ filmTrash : <<f, v>> \in attached}

(* A filter that keeps everything; hide leaves out full-film videos.       *)
Everything(hide) ==
    [title |-> None, all |-> {}, any |-> {}, where |-> Video, free |-> FALSE, notOf |-> None, hide |-> hide,
     sort |-> "", seed |-> None, cap |-> 0]
(* "all" asks for each of its entities, "any" for one of each of its sets. *)
Kin(e) == IF e \in Tag THEN Under[e] ELSE {e}
build(f) ==
    {v \in Visible :
        /\ f.title = None \/ Spelling.title[v] \in Finds[f.title]
        /\ \A e \in f.all : Linked(v, Kin(e))
        /\ \A es \in f.any : Linked(v, UNION {Kin(e) : e \in es})
        /\ v \in f.where
        /\ f.free => v \notin InFilm
        /\ f.notOf # None => <<f.notOf, v>> \notin attached
        /\ f.hide => v \notin Represented}

(* Every order ends on the id; the orders left out are one of these by     *)
(* another number of the video.                                            *)
Lexically(x, y) == \E i \in DOMAIN x : x[i] < y[i] /\ \A j \in 1 .. i - 1 : x[j] = y[j]
SortKey(sort, seed, v) ==
    CASE sort = "title_asc" -> <<Place[Spelling.title[v]], v>>
      [] sort = "title_desc" -> <<-Place[Spelling.title[v]], -v>>
      [] sort = "duration_asc" -> <<Length[v], v>>
      [] sort = "duration_desc" -> <<-Length[v], -v>>
      [] sort = "completeness_asc" -> <<Score[v], -v>>
      [] sort = "added_asc" -> <<v>>
      [] sort = "random" -> <<Shuffle[seed][v], v>>
      [] OTHER -> <<-v>>
Ordered(f) == SetToSortSeq(build(f), LAMBDA a, b : Lexically(SortKey(f.sort, f.seed, a), SortKey(f.sort, f.seed, b)))

CountVideos(f) == IF f.cap > 0 THEN Least(Cardinality(build(f)), f.cap) ELSE Cardinality(build(f))
ListVideoIDs(f) == IF f.cap > 0 THEN SubSeq(Ordered(f), 1, Least(f.cap, Len(Ordered(f)))) ELSE Ordered(f)

Window(s, offset, limit) == SubSeq(s, offset + 1, Least(offset + limit, Len(s)))
(* the mutant: the limit is not cut at the cap *)
ListVideosPast(f, given, offset) ==
    IF f.cap = 0 \/ offset < f.cap
    THEN Window(Ordered(f), offset, Least(IF given <= 0 THEN DefaultLimit ELSE given, MaxLimit)) ELSE <<>>
(* A page never reaches past the cap.                                      *)
ListVideos(f, given, offset) ==
    LET limit == Least(IF given <= 0 THEN DefaultLimit ELSE given, MaxLimit) IN
    CASE f.cap = 0 -> Window(Ordered(f), offset, limit)
      [] offset < f.cap -> Window(Ordered(f), offset, Least(limit, f.cap - offset))
      [] OTHER -> <<>>

(* A run's jump list: a row for each id asked for that is there, once.     *)
mediaBriefs(ids) ==
    LET there == ToSet(ListVideos([Everything(FALSE) EXCEPT !.where = ToSet(ids)], Len(ids), 0))
        firsts == {i \in DOMAIN ids : ids[i] \in there /\ \A j \in 1 .. i - 1 : ids[j] # ids[i]}
    IN [i \in 1 .. Cardinality(firsts) |-> ids[CHOOSE k \in firsts : Cardinality({j \in firsts : j <= k}) = i]]
(* By its id a video opens and plays unless it is in Trash: a missing file *)
(* or a full-film video keeps its page.                                    *)
GetVideo(v) == v \in Video \ trash

-----------------------------------------------------------------------------
(* Lists of people, studios and tags.                                      *)

(* A row of video_people per role: a person with two roles in a video is   *)
(* counted twice for it.                                                   *)
VideoCount(e) == Cardinality({l \in links : l[2] = e /\ l[1] \in Visible})
labelExpr(e) == IF e \in Person /\ Spelling.shown[e] # None THEN Spelling.shown[e] ELSE Spelling.name[e]
(* Tags are listed without a video, people and studios are not.            *)
namedBase(es) == {e \in es : e \in Tag \/ VideoCount(e) > 0}
NameKey(sort, seed, e) ==
    CASE sort = "count" -> <<-VideoCount(e), Place[labelExpr(e)], e>>
      [] sort = "random" -> <<Shuffle[seed][e], e>>
      [] OTHER -> <<Place[labelExpr(e)], e>>
namedList(es, sort, seed) ==
    SetToSortSeq(namedBase(es), LAMBDA a, b : Lexically(NameKey(sort, seed, a), NameKey(sort, seed, b)))
(* A page of it; with no limit, all of it.                                 *)
namedPage(es, sort, seed, limit, offset) ==
    IF limit > 0 THEN Window(namedList(es, sort, seed), offset, limit) ELSE namedList(es, sort, seed)
(* the mutant: the letters are those of the names, not of what is shown *)
letterOffsetsOfNames(es) ==
    LET s == namedList(es, "name", None)
        At(c) == {i \in DOMAIN s : Letter[Spelling.name[s[i]]] = c}
    IN [c \in {Letter[Spelling.name[s[i]]] : i \in DOMAIN s} |-> Min(At(c)) - 1]
(* Each letter with the offset of its first row in the order of names.     *)
namedLetterOffsets(es) ==
    LET s == namedList(es, "name", None)
        At(c) == {i \in DOMAIN s : Letter[labelExpr(s[i])] = c}
    IN [c \in {Letter[labelExpr(s[i])] : i \in DOMAIN s} |-> Min(At(c)) - 1]

-----------------------------------------------------------------------------
(* "More with ...": a video's most connected person and most distinctive   *)
(* tag, and up to limit other visible videos of each, in any order.        *)

Of(v, es) == {e \in es : Linked(v, {e})}
PersonKey(e) == <<-VideoCount(e), e>>
(* c(1 - c/N), times N. *)
TagKey(e) == LET c == VideoCount(e) IN <<-(c * (Cardinality(Visible) - c)), -c, e>>
First(es, Key(_)) == CHOOSE e \in es : \A o \in es \ {e} : Lexically(Key(e), Key(o))
Siblings(e, v, hide) == {w \in Visible \ {v} : Linked(w, {e}) /\ (hide => w \notin Represented)}
Shelf(v, e, limit, hide) ==
    [of |-> e, items |-> kSubset(Least(IF limit <= 0 THEN 5 ELSE limit, Cardinality(Siblings(e, v, hide))), Siblings(e, v, hide))]
(* None for a video that is not visible, a shelf None without an entity.   *)
Related(v, limit, hide) ==
    IF v \notin Visible THEN None
    ELSE [person |-> IF Of(v, Person) = {} THEN None ELSE Shelf(v, First(Of(v, Person), PersonKey), limit, hide),
          tag |-> IF Of(v, Tag) = {} THEN None ELSE Shelf(v, First(Of(v, Tag), TagKey), limit, hide)]

-----------------------------------------------------------------------------
(* The global search: at most limit of each kind.  A kind's answer is a    *)
(* set of possible sets, for the aliases are read in no order.             *)

Fits(q, s) == s \in Finds[q]
(* Names first, the one that is the text itself before all others.         *)
FoundKey(q, e) == <<IF Place[Spelling.name[e]] = Place[q] THEN 0 ELSE 1, Place[Spelling.name[e]], e>>
FirstOf(es, Key(_), limit) == {e \in es : Cardinality({o \in es \ {e} : Lexically(Key(o), Key(e))}) < limit}
NamesFound(q, es, limit) == FirstOf({e \in es : Fits(q, Spelling.name[e])}, LAMBDA e : FoundKey(q, e), limit)
AliasesFound(q, es, room) ==
    LET hits == {e \in es : \E s \in Spelling.alias[e] : Fits(q, s)}
    IN IF room > 0 THEN kSubset(Least(room, Cardinality(hits)), hits) ELSE {{}}
displayNameMatches(q, es, found, room) ==
    FirstOf({e \in es \ found : Spelling.shown[e] # None /\ Spelling.shown[e] \in Within[q]}, LAMBDA e : <<e>>, room)

WithAliases(q, es, limit) ==
    LET names == NamesFound(q, es, limit) IN {names \cup more : more \in AliasesFound(q, es, limit - Cardinality(names))}
(* A tag is never shown under another spelling.                            *)
EntitiesFound(q, es, limit) ==
    {found \cup displayNameMatches(q, es \ Tag, found, limit - Cardinality(found)) : found \in WithAliases(q, es, limit)}

(* SearchFilms has a limit of its own; a spelling of a film in Trash takes *)
(* a place and is then left out.                                           *)
SearchFilms(q, limit) ==
    FirstOf({f \in Film \ filmTrash : Fits(q, Spelling.name[f])}, LAMBDA f : <<Place[Spelling.name[f]], f>>,
            IF limit <= 0 \/ limit > FilmLimit THEN FilmDefault ELSE limit)
FilmsFound(q, limit) ==
    LET found == SearchFilms(q, limit)
    IN found \cup (displayNameMatches(q, Film, found, limit - Cardinality(found)) \ filmTrash)

(* the mutant: only as many are read as there is room for *)
FoldedShort(videos, es, limit, hide) ==
    IF Len(videos) >= limit \/ es = {} THEN videos
    ELSE videos \o SelectSeq(ListVideos([Everything(hide) EXCEPT !.any = {es}], limit - Len(videos), 0), LAMBDA v : v \notin ToSet(videos))
(* The videos of what was found follow those whose title was, each once.   *)
Folded(videos, es, limit, hide) ==
    IF Len(videos) >= limit \/ es = {} THEN videos
    ELSE LET more == SelectSeq(ListVideos([Everything(hide) EXCEPT !.any = {es}], limit, 0), LAMBDA v : v \notin ToSet(videos))
         IN videos \o SubSeq(more, 1, Least(Len(more), limit - Len(videos)))
VideosFound(q, people, studios, tags, limit, hide) ==
    LET titles == ListVideos([Everything(hide) EXCEPT !.title = q], limit, 0)
    IN Folded(Folded(Folded(titles, people, limit, hide), studios, limit, hide), tags, limit, hide)

Search(q, given, films) ==
    LET limit == Least(IF given <= 0 THEN 10 ELSE given, MaxLimit) IN
    {[people |-> p, studios |-> s, tags |-> t, films |-> IF films THEN FilmsFound(q, limit) ELSE {},
      videos |-> VideosFound(q, p, s, t, limit, films)] :
        p \in EntitiesFound(q, Person, limit), s \in EntitiesFound(q, Studio, limit), t \in EntitiesFound(q, Tag, limit)}

-----------------------------------------------------------------------------
(* The tools of the MCP server: the same lists, asked for by names.        *)

idByName(s, es) == {e \in es : Place[Spelling.name[e]] = Place[s]}
(* A name that nobody has is a condition no video meets.                   *)
searchVideos(f, people, tags, given, page) ==
    LET size == IF given \in 1 .. ToolLimit THEN given ELSE ToolDefault
        ids == UNION ({idByName(s, Person) : s \in people} \cup {idByName(s, Tag) : s \in tags})
        asked == [f EXCEPT !.all = ids]
    IN IF \E s \in people : idByName(s, Person) = {} THEN [results |-> <<>>, total |-> 0]
       ELSE IF \E s \in tags : idByName(s, Tag) = {} THEN [results |-> <<>>, total |-> 0]
       ELSE [results |-> ListVideos(asked, size, (page - 1) * size), total |-> CountVideos(asked)]
listNamed(q, es, sort) == SelectSeq(namedList(es, sort, None), LAMBDA e : q = None \/ Spelling.name[e] \in Within[q])

-----------------------------------------------------------------------------
(* The client: the pages it has of one list, and the replies on their way. *)
(* What was read in another generation of the list is dropped.             *)

Init ==
    /\ active = Video /\ trash = {} /\ filmTrash = {}
    /\ \E l \in Library : links = l.links /\ whole = l.whole /\ attached = l.whole
    /\ client = None /\ replies = {} /\ edits = 0

(* A request reads the count and the page one after the other; a change    *)
(* between the two is as one before both to a client that is told of none. *)
listMedia(f, limit, offset) == [items |-> ListVideos(f, limit, offset), total |-> CountVideos(f)]
Reply(c, p) == [page |-> p, gen |-> c.gen, answer |-> listMedia(c.f, c.n, p * c.n)]
LastPage(total, n) == IF total = 0 THEN 0 ELSE (total - 1) \div n

(* A list sorted by completeness is the owner's alone.                     *)
Open(f, n, owner) ==
    /\ client = None /\ edits = 0
    /\ f.sort \in {"completeness_asc", "completeness_desc"} => owner
    /\ client' = [f |-> f, n |-> n, gen |-> 1, pages |-> <<>>, total |-> 0, fresh |-> TRUE]
    /\ replies' = {Reply(client', 0)}
    /\ UNCHANGED <<rows, edits>>
(* The view came to a page it has not, or retries one that failed.         *)
Ensure ==
    /\ client # None
    /\ \E p \in 0 .. LastPage(client.total, client.n) :
         /\ p \notin DOMAIN client.pages /\ ~\E r \in replies : r.page = p /\ r.gen = client.gen
         /\ replies' = replies \cup {Reply(client, p)}
    /\ UNCHANGED <<rows, client, edits>>
(* After a change of its own: what is in view is read again, and stays     *)
(* until it is; the other pages are dropped.                               *)
Refresh ==
    /\ client # None /\ client.gen < MaxGen
    /\ \E from, to \in 0 .. LastPage(client.total, client.n) :
         /\ from <= to
         /\ client' = [client EXCEPT !.gen = @ + 1, !.fresh = TRUE,
                         !.pages = [p \in DOMAIN client.pages \cap from .. to |-> client.pages[p]]]
         /\ replies' = replies \cup {Reply(client', p) : p \in from .. to}
    /\ UNCHANGED <<rows, edits>>
Without(pages, p) == [q \in DOMAIN pages \ {p} |-> pages[q]]
(* the mutant: whatever arrives is shown *)
LandAny(r) ==
    /\ r \in replies /\ replies' = replies \ {r}
    /\ client' = [client EXCEPT !.total = r.answer.total, !.pages = (r.page :> r.answer.items) @@ Without(@, r.page)]
    /\ UNCHANGED <<rows, edits>>
Land(r) ==
    /\ r \in replies /\ replies' = replies \ {r}
    /\ client' = IF r.gen # client.gen THEN client
                  ELSE [client EXCEPT !.total = r.answer.total,
                                      !.pages = (r.page :> r.answer.items) @@ Without(@, r.page)]
    /\ UNCHANGED <<rows, edits>>
(* The first read of a list that fails leaves no list.                     *)
Fail(r) ==
    /\ r \in replies /\ replies' = replies \ {r}
    /\ client' = IF r.gen # client.gen THEN client ELSE [client EXCEPT !.pages = Without(@, r.page)]
    /\ UNCHANGED <<rows, edits>>

Toggled(s, x) == IF x \in s THEN s \ {x} ELSE s \cup {x}
(* One row comes or goes: by a scan, the owner, a relink.                  *)
Edit ==
    /\ edits < (IF client = None THEN MaxEdit ELSE MaxMet) /\ edits' = edits + 1
    /\ client' = IF client = None THEN None ELSE [client EXCEPT !.fresh = FALSE]
    /\ UNCHANGED replies
    /\ \/ \E v \in Video : active' = Toggled(active, v) /\ UNCHANGED <<trash, links, attached, whole, filmTrash>>
       \/ \E v \in Video : trash' = Toggled(trash, v) /\ UNCHANGED <<active, links, attached, whole, filmTrash>>
       \/ \E v \in Video, e \in Named, r \in Role :
            /\ e \notin Person => r = ""
            /\ links' = Toggled(links, <<v, e, r>>) /\ UNCHANGED <<active, trash, attached, whole, filmTrash>>
       \/ \E f \in Film \ filmTrash, v \in Visible :
            /\ <<f, v>> \notin attached
            /\ attached' = attached \cup {<<f, v>>}
            /\ whole' \in {whole, whole \cup {<<f, v>>}}
            /\ UNCHANGED <<active, trash, links, filmTrash>>
       \/ \E f \in Film : filmTrash' = Toggled(filmTrash, f) /\ UNCHANGED <<active, trash, links, attached, whole>>

Next ==
    \/ \E f \in Filters, n \in 1 .. 2, owner \in BOOLEAN : Open(f, n, owner)
    \/ Ensure
    \/ Refresh
    \/ \E r \in replies : Land(r) \/ Fail(r)
    \/ Edit

Spec == Init /\ [][Next]_vars

-----------------------------------------------------------------------------
\* A client that has all replies it waits for, and no row changed since it began to read,
\* shows the pages of the one list that a frozen playlist or "Play all" has, in its order
\* and to its cap, and knows how long it is; also after a refresh (ListVideos, CountVideos,
\* ListVideoIDs; sparseList.svelte.ts).
PagesTile ==
    client # None /\ client.fresh /\ (\A r \in replies : r.gen # client.gen) =>
        LET ids == ListVideoIDs(client.f) IN
        /\ \A p \in DOMAIN client.pages :
             /\ client.pages[p] = Window(ids, p * client.n, client.n)
             /\ client.total = Len(ids)
        /\ \A v \in ToSet(ids) : GetVideo(v)

\* The jump list of a run has a row for each id that is there, in the order asked for, also
\* when an id is asked for twice (mediaBriefs).
BriefsWhole ==
    \A a, b \in Video :
        ToSet(mediaBriefs(<<a, b, a>>)) = {a, b} \cap Visible /\ Len(mediaBriefs(<<a, b, a>>)) = Cardinality({a, b} \cap Visible)
        /\ ({a, b} \subseteq Visible => mediaBriefs(<<a, b, a>>)[1] = a)

\* A letter of the A-Z index leads to the rows of that letter: they begin at its offset and
\* stand together, whatever spelling a row is shown by (namedLetterOffsets, orderBy).
LettersLand ==
    \A es \in {Person, Studio} :
        LET s == namedList(es, "name", None)  at == namedLetterOffsets(es)
            Has(c) == {i \in DOMAIN s : Letter[labelExpr(s[i])] = c}
        IN \A c \in {Letter[labelExpr(s[i])] : i \in DOMAIN s} \ {"#"} :
               /\ c \in DOMAIN at /\ Has(c) = at[c] + 1 .. at[c] + Cardinality(Has(c))
               /\ \A n \in 1 .. 2 : Letter[labelExpr(namedPage(es, "name", None, n, at[c])[1])] = c

\* While no full-film video is hidden and nobody has two roles in one video, the person shelf
\* is empty only when no person of the video has another; the tag shelf only when each of its
\* tags is on it alone or on every visible video (Related's choice of the two).
ShelvesFilled ==
    \A v \in Visible :
        LET shown == Related(v, 1, FALSE) IN
        /\ (\A k, l \in links : k[1] = l[1] /\ k[2] = l[2] => k = l) /\ {} \in (IF shown.person = None THEN {} ELSE shown.person.items) =>
               \A p \in Of(v, Person) : Siblings(p, v, FALSE) = {}
        /\ {} \in (IF shown.tag = None THEN {} ELSE shown.tag.items) =>
               \A t \in Of(v, Tag) : Siblings(t, v, FALSE) = {} \/ VideoCount(t) = Cardinality(Visible)

\* A search shows the name that was typed, whatever else begins with it, and the videos of
\* everything it shows, unless it shows as many as it may: a person's before a tag's, each
\* once, and none that is gone, in Trash or stands for a film (Search, searchNameOrder).
SearchWhole ==
    \A q \in Asked, limit \in 1 .. 3, films \in BOOLEAN : \A answer \in Search(q, limit, films) :
        LET found == answer.people \cup answer.studios \cup answer.tags
            shown == ToSet(answer.videos)
            Videos(es) == {v \in Visible : (\E e \in es : Linked(v, Kin(e))) /\ (films => v \notin Represented)}
            titled == {v \in Visible : Spelling.title[v] \in Finds[q]}
        IN /\ \A e \in Named : Place[Spelling.name[e]] = Place[q] /\ Fits(q, Spelling.name[e]) => e \in found
           /\ Len(answer.videos) < limit => Videos(found) \subseteq shown
           /\ shown \subseteq titled \cup Videos(answer.people) \/ Videos(answer.people) \subseteq shown
           /\ Cardinality(shown) = Len(answer.videos) /\ Len(answer.videos) <= limit
           /\ shown \subseteq Visible /\ (films => shown \cap Represented = {})

\* What the list tools name, the search tool takes: the pages it gives for a person's and a
\* tag's names are, one after the other, the gallery's list of what has both, sub-tags
\* included; and it finds nothing by a name that is only an alias (searchVideos, idByName).
ToolsAgree ==
    LET people == ToSet(listNamed(None, Person, "count"))  names == {Spelling.name[e] : e \in Named} IN
    /\ \A p \in people, t \in ToSet(listNamed(None, Tag, "name")) :
         LET Answer(i) == searchVideos(Everything(TRUE), {Spelling.name[p]}, {Spelling.name[t]}, 1, i)
         IN /\ Answer(1).total = Cardinality({v \in Visible \ Represented : Linked(v, {p}) /\ Linked(v, Kin(t))})
            /\ [i \in 1 .. Answer(1).total |-> Answer(i).results[1]] = ListVideoIDs([Everything(TRUE) EXCEPT !.all = {p, t}])
    /\ \A s \in UNION {Spelling.alias[e] : e \in Person} \ names : searchVideos(Everything(FALSE), {s}, {}, 0, 1).results = <<>>
==============================================================================
