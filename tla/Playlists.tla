------------------------------ MODULE Playlists ------------------------------
(***************************************************************************)
(* Playlists: a snapshot keeps its members, a smart playlist keeps a query *)
(* that every read expands, the playlists it names included, and a freeze  *)
(* turns the second into the first (internal/api/playlists.go,             *)
(* smart_playlists.go, playlist_refs.go, internal/repo/playlists.go).      *)
(*                                                                         *)
(* Every write is one step under writeMu.  A save is checked, and a freeze *)
(* evaluated, before that step, so that what others wrote in between is    *)
(* not looked at.  A query is what the rules tell apart: the playlists and *)
(* the entity it names, and whether it needs the owner.                    *)
(***************************************************************************)
EXTENDS Naturals, FiniteSets

CONSTANTS
    Client,     \* requests in flight at once
    Video,
    Entity,
    Query,      \* the queries the owner may write
    None,       \* no entity
    MaxList,    \* bound: playlist ids
    MaxDepth,   \* maxRefDepth
    MaxReach,   \* maxRefPlaylists
    MaxGiven,   \* bound: fields one PATCH changes
    MaxStep     \* bound: operations

List == 1 .. MaxList
Root == 0       \* a playlist being created has no id yet
NoRow == [none |-> "row"]
Snap == [none |-> "query"]
Idle == [op |-> "idle"]

PlaylistsAssumption ==
    /\ None \notin Entity
    /\ \A q \in Query : q.refs \subseteq List /\ q.ent \in Entity \cup {None} /\ q.own \in BOOLEAN

VARIABLES
    row,        \* playlists: query or Snap, public, "random sort and a cap"
    members,    \* playlist_videos
    of,         \* [Entity -> the videos it is on]
    merged,     \* entities merged into another
    req,        \* [Client -> a request between its checks and its write]
    steps,
    want,       \* history: what the owner put in a snapshot, by hand or by its one freeze
    loose,      \* history: playlists whose query was saved on a check out of date
    revived     \* history: snapshots a query was written to

hist == <<want, loose, revived>>
vars == <<row, members, of, merged, req, steps, hist>>

Row == {p \in List : row[p] # NoRow}
Smart == {p \in Row : row[p].q # Snap}

Init ==
    /\ row = [p \in List |-> NoRow] /\ members = [p \in List |-> {}]
    /\ of \in {[e \in Entity |-> {}]} /\ merged = {}
    /\ req = [c \in Client |-> Idle] /\ steps = 0
    /\ want = [p \in List |-> {}] /\ loose = {} /\ revived = {}

-----------------------------------------------------------------------------
(* Reading a smart playlist: the problems found while its references are   *)
(* expanded, under the reader's posture.  One problem, and nothing is read.*)

Restricted(p, isOwner) == ~isOwner \/ p.pub
Posture(p, isOwner) == Restricted(p, isOwner)

(* What p runs into is what its references found, its entity and its       *)
(* owner-only condition.                                                   *)
Problems(p, restricted, found) ==
    LET stale == found \cup (IF p.q.ent \in merged THEN {"missing"} ELSE {})
    IN  IF stale = {} /\ restricted /\ p.q.own THEN {"owner_only"} ELSE stale
expandRef[stack \in SUBSET (List \cup {Root}), id \in List, restricted \in BOOLEAN] ==
    IF id \in stack THEN {"loop"}
    ELSE IF Cardinality(stack) > MaxDepth THEN {"limit"}
    ELSE IF row[id] = NoRow THEN {"missing"}
    ELSE IF restricted /\ ~row[id].pub THEN {"owner_only"}
    ELSE IF row[id].q = Snap THEN {}
    ELSE IF row[id].odd THEN {"unstable"}
    ELSE LET within == Posture(row[id], ~restricted)
         IN  Problems(row[id], within, UNION {expandRef[stack \cup {id}, r, within] : r \in row[id].q.refs})
smartFilterAt(stack, p, isOwner) ==
    LET restricted == Posture(p, isOwner)
    IN  Problems(p, restricted, UNION {expandRef[stack, r, restricted] : r \in p.q.refs})

Refs == [id \in List |-> IF id \in Smart THEN row[id].q.refs ELSE {}]
Below(edge, ids) ==
    {r \in List : \A all \in SUBSET List : ids \subseteq all /\ (\A id \in all : edge[id] \subseteq all) => r \in all}

(* The expansion of a playlist with no problem is all there is below it.   *)
smartPlaylistFilter(id, p, isOwner) ==
    LET stale == smartFilterAt({id}, p, isOwner)
    IN  IF stale = {} /\ Cardinality(Below(Refs, p.q.refs)) > MaxReach THEN {"limit"} ELSE stale
Reads(id, isOwner) == smartPlaylistFilter(id, row[id], isOwner) = {}

(* What a query without a problem matches now; a cap cuts a shuffle        *)
(* anywhere.                                                               *)
Names(q) == IF q.ent = None THEN {} ELSE of[q.ent]
Matches(q) ==
    Names(q) \cup UNION {IF row[r].q = Snap THEN members[r] ELSE Names(row[r].q) : r \in Below(Refs, q.refs)}
ListVideoIDs(p) ==
    IF p.odd THEN {s \in SUBSET Matches(p.q) : Cardinality(s) <= 1 /\ (s = {} => Matches(p.q) = {})}
    ELSE {Matches(p.q)}

(* A save is refused for what its references run into; an entity gone from *)
(* the query itself is left to the reads.                                  *)
checkPlaylistDefinition(id, p) ==
    p.q # Snap =>
       smartPlaylistFilter(id, [p EXCEPT !.q = [@ EXCEPT !.ent = None, !.own = FALSE]], TRUE) = {}
(* Mutant: the save does not look for itself among what it reaches.        *)
checkAsNew(id, p) == checkPlaylistDefinition(Root, p)
Checked(id, p) == checkPlaylistDefinition(id, p)
checkSmartPlaylistState(p) == p.q # Snap => ~(p.pub /\ p.q.own)

-----------------------------------------------------------------------------
Counted == steps < MaxStep /\ steps' = steps + 1
Free(c) == Counted /\ req[c] = Idle
Stale(r) == IF r = Idle THEN r ELSE [r EXCEPT !.fresh = FALSE]
Done(c) == req' = [d \in Client |-> IF d = c THEN Idle ELSE Stale(req[d])]
Others == req' = [d \in Client |-> Stale(req[d])]
(* The id after the largest in the table: a deleted playlist's, if it was  *)
(* the last one.                                                           *)
NextID == CHOOSE id \in 1 .. MaxList + 1 : id - 1 \in Row \cup {Root} /\ \A p \in Row : p < id
Posted(q, pub, odd) == [q |-> q, pub |-> pub, odd |-> odd]

(* A new query is written with entities that are there, as the browse page *)
(* offers them.                                                            *)
Offered(q) == q # Snap => q.ent \notin merged
AskCreate(c, p) ==
    /\ Free(c) /\ p.q # Snap /\ Offered(p.q)
    /\ checkSmartPlaylistState(p) /\ Checked(Root, p)
    /\ req' = [req EXCEPT ![c] = [op |-> "create", id |-> Root, p |-> p, fresh |-> TRUE]]
    /\ UNCHANGED <<row, members, of, merged, hist>>

CreatePlaylist(c) ==
    /\ req[c].op = "create" /\ NextID \in List
    /\ row' = [row EXCEPT ![NextID] = req[c].p]
    /\ loose' = IF req[c].fresh THEN loose ELSE loose \cup {NextID}
    /\ Done(c)
    /\ UNCHANGED <<members, of, merged, steps, want, revived>>

(* from_query: the whole result becomes the members.                       *)
CreateSnapshot(vs, pub) ==
    /\ Counted /\ NextID \in List
    /\ row' = [row EXCEPT ![NextID] = Posted(Snap, pub, FALSE)]
    /\ members' = [members EXCEPT ![NextID] = vs] /\ want' = [want EXCEPT ![NextID] = vs]
    /\ Others
    /\ UNCHANGED <<of, merged, loose, revived>>

(* The state the patch would leave is judged, unless it only makes the     *)
(* playlist private; a snapshot takes neither a query nor a cap.           *)
Given(id, p) == {f \in DOMAIN p : p[f] # row[id][f]}
AskPatch(c, id, p) ==
    /\ Free(c) /\ id \in Row /\ Cardinality(Given(id, p)) \in 1 .. MaxGiven
    /\ id \notin Smart => Given(id, p) = {"pub"}
    /\ id \in Smart => p.q # Snap
    /\ "q" \in Given(id, p) => Offered(p.q)
    /\ checkSmartPlaylistState(p)
    /\ Given(id, p) # {"pub"} \/ p.pub => Checked(id, p)
    /\ req' = [req EXCEPT ![c] =
                 [op |-> "patch", id |-> id, p |-> p, given |-> Given(id, p), fresh |-> TRUE]]
    /\ UNCHANGED <<row, members, of, merged, hist>>

UpdatePlaylist(c) ==
    LET r == req[c]  id == r.id IN
    /\ r.op = "patch" /\ id \in Row
    /\ row' = [row EXCEPT ![id] = [f \in DOMAIN @ |-> IF f \in r.given THEN r.p[f] ELSE @[f]]]
    /\ IF "q" \in r.given
       THEN /\ loose' = IF r.fresh THEN loose \ {id} ELSE loose \cup {id}
            /\ revived' = IF id \in Smart THEN revived ELSE revived \cup {id}
       ELSE UNCHANGED <<loose, revived>>
    /\ Done(c)
    /\ UNCHANGED <<members, of, merged, steps, want>>

AskFreeze(c, id) ==
    /\ Free(c) /\ id \in Smart /\ Reads(id, TRUE)
    /\ \E vs \in ListVideoIDs(row[id]) :
          req' = [req EXCEPT ![c] = [op |-> "freeze", id |-> id, vs |-> vs, fresh |-> TRUE]]
    /\ UNCHANGED <<row, members, of, merged, hist>>

Freezes(id) == id \in Smart
FreezePlaylist(c) ==
    LET r == req[c]  id == r.id IN
    /\ r.op = "freeze" /\ Freezes(id)
    /\ row' = [row EXCEPT ![id].q = Snap, ![id].odd = FALSE]
    /\ members' = [members EXCEPT ![id] = @ \cup r.vs]
    /\ want' = IF id \in Smart THEN [want EXCEPT ![id] = r.vs] ELSE want
    /\ loose' = loose \ {id}
    /\ Done(c)
    /\ UNCHANGED <<of, merged, steps, revived>>

(* A request that finds its playlist gone, or frozen already.              *)
Refused(c) ==
    /\ \/ req[c].op = "patch" /\ req[c].id \notin Row
       \/ req[c].op = "freeze" /\ ~Freezes(req[c].id)
    /\ req' = [req EXCEPT ![c] = Idle]
    /\ UNCHANGED <<row, members, of, merged, steps, hist>>

AddPlaylistVideo(id, v) ==
    /\ Counted /\ id \in Row \ Smart /\ v \notin members[id]
    /\ members' = [members EXCEPT ![id] = @ \cup {v}] /\ want' = [want EXCEPT ![id] = @ \cup {v}]
    /\ UNCHANGED <<row, of, merged, req, loose, revived>>

RemovePlaylistVideo(id, v) ==
    /\ Counted /\ id \in Row \ Smart /\ v \in members[id]
    /\ members' = [members EXCEPT ![id] = @ \ {v}] /\ want' = [want EXCEPT ![id] = @ \ {v}]
    /\ UNCHANGED <<row, of, merged, req, loose, revived>>

DeletePlaylist(id) ==
    /\ Counted /\ id \in Row
    /\ row' = [row EXCEPT ![id] = NoRow]
    /\ members' = [members EXCEPT ![id] = {}] /\ want' = [want EXCEPT ![id] = {}]
    /\ loose' = loose \ {id} /\ revived' = revived \ {id}
    /\ Others
    /\ UNCHANGED <<of, merged>>

(* What an entity is on changes with the library.                          *)
Tag(e, v) ==
    /\ Counted /\ e \notin merged
    /\ of' = [of EXCEPT ![e] = IF v \in @ THEN @ \ {v} ELSE @ \cup {v}]
    /\ UNCHANGED <<row, members, merged, req, hist>>

(* A merge rewrites every stored query in its own transaction.             *)
(* Mutant: the queries keep the merged entity.                             *)
RewriteNone(q, e, f) == q
RewriteID(q, e, f) == IF q.ent = e THEN [q EXCEPT !.ent = f] ELSE q
MergeEntities(e, f) ==
    /\ Counted /\ e # f /\ {e, f} \cap merged = {}
    /\ merged' = merged \cup {e}
    /\ of' = [of EXCEPT ![f] = @ \cup of[e], ![e] = {}]
    /\ row' = [p \in List |-> IF p \in Smart THEN [row[p] EXCEPT !.q = RewriteID(@, e, f)] ELSE row[p]]
    /\ Others
    /\ UNCHANGED <<members, hist>>

Next ==
    \/ \E c \in Client, q \in Query, pub, odd \in BOOLEAN : AskCreate(c, Posted(q, pub, odd))
    \/ \E c \in Client, id \in List, q \in Query \cup {Snap}, pub, odd \in BOOLEAN :
          AskPatch(c, id, Posted(q, pub, odd))
    \/ \E c \in Client : CreatePlaylist(c) \/ UpdatePlaylist(c) \/ FreezePlaylist(c) \/ Refused(c)
    \/ \E c \in Client, id \in List : AskFreeze(c, id)
    \/ \E vs \in SUBSET Video, pub \in BOOLEAN : CreateSnapshot(vs, pub)
    \/ \E id \in List, v \in Video : AddPlaylistVideo(id, v) \/ RemovePlaylistVideo(id, v)
    \/ \E id \in List : DeletePlaylist(id)
    \/ \E e \in Entity, v \in Video : Tag(e, v)
    \/ \E e, f \in Entity : MergeEntities(e, f)

Spec == Init /\ [][Next]_vars

-----------------------------------------------------------------------------
(* No playlist reaches itself through queries that were saved on a check   *)
(* nothing had overtaken: definitionRefusal finds every loop, through any  *)
(* number of playlists, however they were edited in turn.                  *)
NoLoop ==
    LET firm == [p \in List |-> IF p \in loose THEN {} ELSE Refs[p]]
    IN  \A p \in Smart : p \notin Below(firm, firm[p])

(* Whatever was saved in whatever order, a playlist that is public and     *)
(* reads, on its own or inside another for its owner, shows nothing of a   *)
(* private playlist and needs no owner-only condition, however far below   *)
(* (SEC-2, SEC-3).                                                         *)
PublicStaysPublic ==
    \A p \in Smart : Reads(p, TRUE) \/ (row[p].pub /\ Reads(p, FALSE)) =>
        \A q \in {p} \cup Below(Refs, Refs[p]) : row[q].pub =>
            \A r \in {q} \cup Below(Refs, Refs[q]) : row[r].pub /\ (r \in Smart => ~row[r].q.own)

(* A playlist's members are what the owner put there and what one freeze   *)
(* of it found, and a smart playlist has none, unless a query was written  *)
(* to it after a freeze (the one race UpdatePlaylist leaves open).         *)
FrozenOnce == \A p \in Row \ revived : members[p] = want[p]

(* A query follows a merge of the entity it names, unless it was saved     *)
(* from before the merge.                                                  *)
MergeFollowed == \A p \in Smart \ loose : row[p].q.ent \notin merged
==============================================================================
