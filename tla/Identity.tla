------------------------------ MODULE Identity ------------------------------
(***************************************************************************)
(* The entity registry: tags, people and studios, the names and aliases    *)
(* that lead to them, the tree of tags, the links from videos, the review  *)
(* queue of possible duplicates and the provider ids                       *)
(* (internal/repo/identity.go, identity_ops.go, review_queue.go,           *)
(* shared_external_id.go, provider_aliases.go, tag_hierarchy.go,           *)
(* orphans.go).                                                            *)
(*                                                                         *)
(* Every operation of the repository is one transaction under writeMu, so  *)
(* it is one step on the record db.  Adding an alias by hand is two: the   *)
(* API asks for a conflict first and inserts later, and in between any     *)
(* other operation may run.                                                *)
(*                                                                         *)
(* A name stands for its identity key (nameKey): two spellings with one    *)
(* key are one name here.  Names with one Loose value differ in            *)
(* punctuation only and are near-misses of each other.                     *)
(***************************************************************************)
EXTENDS Integers, FiniteSets, FiniteSetsExt

CONSTANTS
    Kinds,       \* the entity types a behaviour may be about
    Video,
    Name,
    Loose,       \* the loose key of a name
    Dash,        \* the dashed spelling of a multi-word name, or NoName
    Ext,         \* provider ids
    MaxId,       \* bound: entity ids
    MaxNames,    \* bound: names a rescan finds
    MaxEvent     \* bound: operations

ASSUME IdentityAssumption ==
    /\ Kinds \subseteq {"tag", "person", "studio"}
    /\ {MaxId, MaxNames, MaxEvent} \subseteq Nat

None == 0
NoName == "no name"
NoExt == "no id"
Id == 1 .. MaxId
Pair == {p \in SUBSET Id : Cardinality(p) = 2}
Unowned == [of |-> None, src |-> "owner"]

\* The dashed spelling differs from its name in punctuation only.
ASSUME NamesAssumption ==
    /\ DOMAIN Loose = Name /\ Dash \in [Name -> Name \cup {NoName}]
    /\ \A n \in Name : Dash[n] # NoName => Loose[Dash[n]] = Loose[n]
    /\ NoName \notin Name /\ NoExt \notin Ext /\ IsFiniteSet(Name)

VARIABLES
    kind,      \* the entity type this behaviour is about
    db,        \* the registry's tables
    asked,     \* the alias an API call has checked and not yet added
    attaching, \* the provider id an enrichment has stored and not yet attached
    seen,      \* history: the (name, id) credits of a video a rescan settled
    excuse,    \* history: entities whose names went without a near-miss check
    stray,     \* history: entities given an alias or an id after they were deleted
    shadowed,  \* history: names that became one entity's while another's alias
    carried,   \* history: since the last boot a claimant of an id was merged or swept,
               \* or an id that others were enriched from got its first owner
    events
vars == <<kind, db, asked, attaching, seen, excuse, stray, shadowed, carried, events>>

-----------------------------------------------------------------------------
(* Reading the registry.                                                   *)

Live(d) == {e \in Id : d.name[e] # NoName}
Forms(d, e) ==
    {n \in Name : d.alias[n].of = e} \cup (IF e \in Live(d) THEN {d.name[e]} ELSE {})
Linked(d, e) == \E v \in Video : d.link[v][e] # "none"
Near(n, m) == n # m /\ Loose[n] = Loose[m]
Alike(d, e, f) == \E n \in Forms(d, e), m \in Forms(d, f) : Near(n, m)
Queue(d) == d.weak \cup d.shared
Conflict(d, e, n) == {f \in Id \ {e} : n \in Forms(d, f)}

(* The entity a name leads to: the canonical name before an alias.         *)
Lookup(d, n) ==
    IF \E e \in Live(d) : d.name[e] = n
    THEN CHOOSE e \in Live(d) : d.name[e] = n
    ELSE d.alias[n].of

(* A provider id comes before both.                                        *)
Resolve(d, n, x) ==
    IF x # NoExt /\ d.ext[x] # None THEN d.ext[x] ELSE Lookup(d, n)

(* The ancestors of a tag: the least set that has its parent and with each *)
(* tag its parent.                                                         *)
Upward(d, S) == \A a \in S : d.parent[a] = None \/ d.parent[a] \in S
Ancestors(d, e) ==
    {a \in Id : \A S \in SUBSET Id : Upward(d, S) /\ d.parent[e] \in S \cup {None} => a \in S}

-----------------------------------------------------------------------------
(* The pieces of a transaction, each from tables to tables.                *)

(* A near-miss of the name n of entity e is recorded once, unless the      *)
(* owner keeps the two apart.                                              *)
(* Mutant: that the two are kept apart is not asked.                       *)
FlagAgain(d, e, n) ==
    [d EXCEPT !.weak = @ \cup
        {p \in Pair \ d.shared : e \in p /\ \E o \in p \ {e} : \E m \in Forms(d, o) : Near(n, m)}]
Flag(d, e, n) ==
    [d EXCEPT !.weak = @ \cup
        {p \in Pair \ (d.keep \cup d.shared) :
            /\ e \in p
            /\ \E o \in p \ {e} : \E m \in Forms(d, o) : Near(n, m)}]

SetAlias(d, n, row) ==
    [d EXCEPT !.alias = [m \in Name |-> IF m = n THEN row ELSE d.alias[m]]]

AddAlias(d, e, n, source) ==
    IF d.alias[n].of # None THEN d
    ELSE SetAlias(d, n, [of |-> e, src |-> source])

AddDashed(d, e, n) ==
    IF \/ kind # "tag" \/ Dash[n] = NoName
       \/ Dash[n] \in d.denied \/ Conflict(d, e, Dash[n]) # {}
    THEN d
    ELSE AddAlias(d, e, Dash[n], "owner")

(* A studio's id is never used again; a tag's or a person's is one more    *)
(* than the largest in use.                                                *)
NextId(d) == 1 + IF kind = "studio" THEN d.top
                 ELSE Max(Live(d) \cup {0})

Created(d, n) ==
    LET e  == NextId(d)
        d1 == [d EXCEPT !.name[e] = n, !.parent[e] = None, !.top = e,
                        !.stamp[e] = IF kind = "tag" THEN "fresh" ELSE "none"]
    IN  AddDashed(Flag(d1, e, n), e, n)

Attached(d, e, x) ==
    IF x = NoExt \/ d.ext[x] # None THEN d ELSE [d EXCEPT !.ext[x] = e]

(* resolveOrCreateByName: the tables after it, with the entity or None for *)
(* a denied tag.                                                           *)
Resolved(d, n, x) ==
    IF kind = "tag" /\ n \in d.denied THEN [db |-> d, id |-> None]
    ELSE IF x # NoExt /\ d.ext[x] # None THEN [db |-> d, id |-> d.ext[x]]
    ELSE IF Lookup(d, n) # None
         THEN [db |-> Attached(d, Lookup(d, n), x), id |-> Lookup(d, n)]
         ELSE [db |-> Attached(Created(d, n), NextId(d), x), id |-> NextId(d)]

(* The orphan triggers: an entity whose last link goes is stamped, and a   *)
(* link clears the stamp.                                                  *)
Stamped(before, d) ==
    [d EXCEPT !.stamp =
        [e \in Id |-> IF e \notin Live(d) THEN "none"
                      ELSE IF Linked(d, e) THEN "none"
                      ELSE IF Linked(before, e) THEN "fresh" ELSE d.stamp[e]]]

Linking(d, v, e, source) ==
    IF e = None THEN d
    ELSE [d EXCEPT !.link[v][e] =
            IF @ = "none" \/ (@ = "file" /\ source # "file") THEN source ELSE @]

(* One name a video is credited with.                                      *)
Credit(d, v, n, x, source) ==
    LET r == Resolved(d, n, x) IN Linking(r.db, v, r.id, source)

(* What a scan credits the video with, one name after the other; of some a *)
(* provider's id is known.                                                 *)
Order(names) ==
    CHOOSE o \in [1 .. Cardinality(names) -> names] :
        \A n \in names : \E i \in 1 .. Cardinality(names) : o[i] = n
Credited(d, v, names, id) ==
    LET order == Order(names)
        after[i \in 0 .. Cardinality(names)] ==
            IF i = 0 THEN d ELSE Credit(after[i - 1], v, order[i], id[order[i]], "file")
    IN  after[Cardinality(names)]

(* A link to an entity that is gone fails the whole transaction.           *)
LinksLive(d) == \A v \in Video, e \in Id \ Live(d) : d.link[v][e] = "none"

(* One entity takes another's place in every table but the review queue    *)
(* and the keep-separate list; the other is deleted.  A child of the       *)
(* merged tag that is the survivor, or an ancestor of it, loses its parent *)
(* instead.                                                                *)
Children(d, s, l) == {c \in Id : d.parent[c] = l} \ ({s} \cup Ancestors(d, s))

Moved(d, s, l) ==
    [d EXCEPT
        !.link = [v \in Video |->
            [d.link[v] EXCEPT
                ![s] = IF d.link[v][l] # "none" /\ @ \in {"none", "file"}
                       THEN d.link[v][l] ELSE @,
                ![l] = "none"]],
        !.parent = [c \in Id |->
            IF c \in Children(d, s, l) THEN s
            ELSE IF c = l \/ d.parent[c] = l THEN None ELSE d.parent[c]],
        !.ext = [x \in Ext |-> IF d.ext[x] = l THEN s ELSE d.ext[x]],
        !.memo = [d.memo EXCEPT ![s] = IF @ = NoExt THEN d.memo[l] ELSE @,
                                ![l] = NoExt],
        !.alias = [n \in Name |->
            IF d.alias[n].of = l THEN [d.alias[n] EXCEPT !.of = s] ELSE d.alias[n]],
        !.name[l] = NoName,
        !.suppressed = {t \in d.suppressed : t[1] # l}]

(* The merged entity's name becomes an alias of the survivor, and an alias *)
(* that spells the survivor's own name goes.                               *)
(* Mutant: the name of the merged entity is not kept as an alias.          *)
FoldedNameless(d, s, l) == Moved(d, s, l)
Folded(d, s, l) ==
    LET d1 == AddAlias(Moved(d, s, l), s, d.name[l], "owner")
    IN  IF d1.alias[d.name[s]].of = s
        THEN SetAlias(d1, d.name[s], Unowned) ELSE d1

(* Mutant: the pairs of the merged entity stay in the queue.               *)
PairsDroppedNot(d, gone) == d
PairsDropped(d, gone) ==
    [d EXCEPT !.weak = {p \in @ : p \cap gone = {}}, !.shared = {p \in @ : p \cap gone = {}}]

(* A rename keeps the old name as an alias, and is refused only for        *)
(* another entity's canonical name.                                        *)
RenameFree(d, e, n) == d.name[e] # n /\ \A f \in Live(d) \ {e} : d.name[f] # n
Renamed(d, e, n) ==
    LET old == d.name[e]
        d1  == AddAlias([d EXCEPT !.name[e] = n], e, old, "owner")
        d2  == IF d1.alias[n].of = e THEN SetAlias(d1, n, Unowned) ELSE d1
    IN  Flag(Flag(AddDashed(d2, e, n), e, n), e, old)

(* Pairs of entities that claim one provider id: each takes the place of a *)
(* weaker reason in the queue.                                             *)
(* Mutant: a pair is recorded only if the queue does not hold it.          *)
SharedIgnored(d, ps) == [d EXCEPT !.shared = @ \cup (ps \ (d.keep \cup d.weak))]
Shared(d, ps) == [d EXCEPT !.shared = @ \cup (ps \ d.keep), !.weak = @ \ ps]

Claimants(d, x) == {e \in Live(d) : d.memo[e] = x} \cup ({d.ext[x]} \ {None})

-----------------------------------------------------------------------------
TypeOK ==
    /\ db.name \in [Id -> Name \cup {NoName}]
    /\ \A e, f \in Live(db) : db.name[e] = db.name[f] => e = f
    /\ db.alias \in [Name -> [of : Id \cup {None}, src : {"owner", "provider"}]]
    /\ db.parent \in [Id -> Id \cup {None}]
    /\ db.link \in [Video -> [Id -> {"none", "file", "manual"}]]
    /\ {db.weak, db.shared, db.keep} \subseteq SUBSET Pair
    /\ db.weak \cap db.shared = {}
    /\ db.ext \in [Ext -> Id \cup {None}]
    /\ db.memo \in [Id -> Ext \cup {NoExt}]
    /\ db.stamp \in [Id -> {"none", "fresh", "old"}]
    /\ \A e \in Live(db) : Linked(db, e) => db.stamp[e] = "none"
    /\ LinksLive(db)
    /\ db.suppressed \subseteq Live(db) \X Name
    /\ db.denied \subseteq Name

Empty ==
    [name |-> [e \in Id |-> NoName], alias |-> [n \in Name |-> Unowned],
     parent |-> [e \in Id |-> None], top |-> 0,
     link |-> [v \in Video |-> [e \in Id |-> "none"]],
     weak |-> {}, shared |-> {}, keep |-> {},
     ext |-> [x \in Ext |-> None], memo |-> [e \in Id |-> NoExt],
     stamp |-> [e \in Id |-> "none"], suppressed |-> {}, denied |-> {}]

(* What a first scan of the names of one video leaves.                     *)
Init ==
    /\ kind \in Kinds
    /\ \E names \in SUBSET Name, v \in Video :
        /\ Cardinality(names) <= MaxId
        /\ db = Stamped(Empty, Credited(Empty, v, names, [n \in names |-> NoExt]))
        /\ seen = [u \in Video |-> IF u = v THEN names \X {NoExt} ELSE {}]
    /\ asked = <<>> /\ attaching = <<>>
    /\ excuse = {} /\ stray = {} /\ shadowed = {} /\ carried = FALSE /\ events = 0

Spend == events < MaxEvent /\ events' = events + 1
Room(d, k) == NextId(d) + k <= MaxId + 1
AnyName == CHOOSE n \in Name : TRUE

(* An id without an owner, as after its owner was swept, gets one while    *)
(* another entity was enriched from it: only the next boot tells.          *)
Claiming(e) == attaching # <<>> /\ attaching[1] = e
FirstOwner(d) ==
    \E x \in Ext, e \in Live(db) :
        /\ db.ext[x] = None /\ d.ext[x] \notin {None, e}
        /\ db.memo[e] = x /\ ~Claiming(e)

(* Nothing but the tables changes.                                         *)
Commit(d) ==
    /\ db' = d
    /\ UNCHANGED <<kind, asked, attaching, seen, excuse, stray, shadowed, carried>>

(* A scan or a reconcile makes a video's links the entities its names lead *)
(* to: links a scan made and no name leads to any more go, manual ones     *)
(* stay.  Of one of a studio's or person's names a provider's id may be    *)
(* known.                                                                  *)
Rescan(v) ==
    \E names \in SUBSET Name, known \in Name, x \in Ext \cup {NoExt} :
        /\ Cardinality(names) <= MaxNames
        /\ x # NoExt => kind # "tag" /\ known \in names
        /\ x = NoExt => known = AnyName
        /\ Room(db, Cardinality({n \in names : Lookup(db, n) = None}))
        /\ Spend
        /\ LET id == [n \in names |-> IF n = known THEN x ELSE NoExt]
               cleared == [db EXCEPT !.link[v] =
                              [e \in Id |-> IF @[e] = "file" THEN "none" ELSE @[e]]]
               after == Credited(cleared, v, names, id)
           IN  /\ LinksLive(after)
               /\ db' = Stamped(db, after)
               /\ seen' = [seen EXCEPT ![v] =
                     {<<n, id[n]>> : n \in IF kind = "tag" THEN names \ db.denied
                                            ELSE names}]
               /\ carried' = (carried \/ FirstOwner(after))
        /\ UNCHANGED <<kind, asked, attaching, excuse, stray, shadowed>>

(* The owner adds a tag to a video.                                        *)
AttachTag(v, n) ==
    /\ kind = "tag" /\ n \notin db.denied
    /\ Lookup(db, n) = None => Room(db, 1)
    /\ Spend
    /\ LET after == Credit(db, v, n, NoExt, "manual")
       IN  /\ LinksLive(after)
           /\ Commit(Stamped(db, after))

(* Two entities are merged: one of them stays, and for a studio it may     *)
(* take the other's name.                                                  *)
Merge(s, l, show) ==
    /\ s # l /\ {s, l} \subseteq Live(db)
    /\ show => kind = "studio"
    /\ Spend
    /\ LET n  == db.name[l]
           d1 == Flag(PairsDropped(Folded(db, s, l), {l}), s, n)
           d2 == IF show THEN Renamed(d1, s, n) ELSE d1
       IN  /\ db' = Stamped(db, d2)
           /\ excuse' = (excuse \ {l}) \cup
                 IF l \in excuse \/ Forms(db, l) # {n} THEN {s} ELSE {}
           /\ carried' = (carried \/ \E x \in Ext : l \in Claimants(db, x))
    /\ UNCHANGED <<kind, asked, attaching, seen, stray, shadowed>>

Rename(e, n) ==
    /\ e \in Live(db) /\ RenameFree(db, e, n)
    /\ Spend
    /\ db' = Renamed(db, e, n)
    /\ shadowed' = IF db.alias[n].of \in {None, e} THEN shadowed
                   ELSE shadowed \cup {n}
    /\ UNCHANGED <<kind, asked, attaching, seen, excuse, stray, carried>>

(* The API checks that the entity is there and the name is free ...        *)
AskAlias(e, n) ==
    /\ asked = <<>> /\ e \in Live(db) /\ Conflict(db, e, n) = {}
    /\ Spend
    /\ asked' = <<e, n>>
    /\ UNCHANGED <<kind, db, attaching, seen, excuse, stray, shadowed, carried>>

(* ... and adds the alias later, under the lock; a row another entity owns *)
(* by then makes the call fail.                                            *)
AddAskedAlias ==
    /\ asked # <<>>
    /\ LET e == asked[1]
           n == asked[2]
           d == AddAlias(db, e, n, "owner")
       IN  IF d.alias[n].of = e
           THEN /\ db' = Flag(d, e, n)
                /\ stray' = IF e \in Live(db) THEN stray ELSE stray \cup {e}
                /\ shadowed' = IF Lookup(db, n) \in {None, e} THEN shadowed
                               ELSE shadowed \cup {n}
           ELSE UNCHANGED <<db, stray, shadowed>>
    /\ asked' = <<>>
    /\ UNCHANGED <<kind, attaching, seen, excuse, carried, events>>

(* Deleting an alias that a provider or the dashed-spelling backfill would *)
(* bring back records that it is not to.                                   *)
DeleteAlias(e, n) ==
    /\ db.alias[n].of = e /\ e # None
    /\ Spend
    /\ LET again == \/ db.alias[n].src = "provider"
                    \/ kind = "tag" /\ e \in Live(db) /\ Dash[db.name[e]] = n
       IN  db' = [SetAlias(db, n, Unowned) EXCEPT
                    !.suppressed = IF again THEN @ \cup {<<e, n>>} ELSE @]
    /\ seen' = [v \in Video |-> {c \in seen[v] : c[1] # n}]
    /\ UNCHANGED <<kind, asked, attaching, excuse, stray, shadowed, carried>>

(* A provider's alternate name becomes an alias, unless it reads like the  *)
(* entity's own name, the owner removed it, or another entity has it.      *)
ApplyProviderAlias(e, n) ==
    /\ kind # "tag" /\ e \in Live(db)
    /\ Loose[n] # Loose[db.name[e]] /\ <<e, n>> \notin db.suppressed
    /\ Spend
    /\ \/ \E o \in Conflict(db, e, n) :
           /\ db' = [db EXCEPT !.weak = @ \cup ({{e, o}} \ (db.keep \cup db.shared))]
           /\ UNCHANGED excuse
       \/ /\ Conflict(db, e, n) = {}
          /\ db' = AddAlias(db, e, n, "provider")
          /\ excuse' = excuse \cup {e}
    /\ UNCHANGED <<kind, asked, attaching, seen, stray, shadowed, carried>>

(* An enrichment stores the provider's record of an entity first ...       *)
Enrich(e, x) ==
    /\ kind # "tag" /\ attaching = <<>> /\ e \in Live(db)
    /\ Spend
    /\ db' = [db EXCEPT !.memo[e] = x]
    /\ attaching' = <<e, x>>
    /\ UNCHANGED <<kind, asked, seen, excuse, stray, shadowed, carried>>

(* ... and claims the provider's id for it next: an id another entity owns *)
(* stays there, and the two are put to the owner.                          *)
AttachExternalID ==
    /\ attaching # <<>>
    /\ LET e == attaching[1]
           x == attaching[2]
           d == Attached(db, e, x)
       IN  /\ db' = IF d.ext[x] = e THEN d ELSE Shared(d, {{e, d.ext[x]}})
           /\ stray' = IF e \in Live(db) THEN stray ELSE stray \cup {e}
           /\ carried' = (carried \/ FirstOwner(d))
    /\ attaching' = <<>>
    /\ UNCHANGED <<kind, asked, seen, excuse, shadowed, events>>

Dismiss(p) ==
    /\ p \in Queue(db)
    /\ Spend
    /\ Commit([db EXCEPT !.keep = @ \cup {p}, !.weak = @ \ {p}, !.shared = @ \ {p}])

MayHaveParent(d, e, p) == p # e /\ e \notin Ancestors(d, p)

SetTagParent(e, p) ==
    /\ kind = "tag" /\ e \in Live(db)
    /\ p # None => p \in Live(db) /\ MayHaveParent(db, e, p)
    /\ p # db.parent[e]
    /\ Spend
    /\ Commit([db EXCEPT !.parent[e] = p])

DenyTag(n) ==
    /\ kind = "tag" /\ n \notin db.denied
    /\ Spend
    /\ Commit([db EXCEPT !.denied = @ \cup {n}])

(* The daily sweep deletes what no video has had for the grace period and  *)
(* the owner has not worked on.                                            *)
Authored(d, e) ==
    \/ \E n \in Name : /\ d.alias[n].of = e
                      /\ ~(kind = "tag" /\ Dash[d.name[e]] = n)
    \/ \E p \in d.keep : e \in p
    \/ kind = "tag" /\ (d.parent[e] # None \/ \E c \in Live(d) : d.parent[c] = e)

GraceEnds(e) ==
    /\ db.stamp[e] = "fresh"
    /\ Spend
    /\ Commit([db EXCEPT !.stamp[e] = "old"])

SweepOrphans ==
    LET doomed == {e \in Live(db) : /\ db.stamp[e] = "old" /\ ~Linked(db, e)
                                    /\ ~Authored(db, e)}
    IN  /\ doomed # {}
        /\ db' = [PairsDropped(db, doomed) EXCEPT
                !.name  = [e \in Id |-> IF e \in doomed THEN NoName ELSE @[e]],
                !.stamp = [e \in Id |-> IF e \in doomed THEN "none" ELSE @[e]],
                !.memo  = [e \in Id |-> IF e \in doomed THEN NoExt ELSE @[e]],
                !.alias = [n \in Name |-> IF @[n].of \in doomed THEN Unowned ELSE @[n]],
                !.ext   = [x \in Ext |-> IF @[x] \in doomed THEN None ELSE @[x]],
                !.suppressed = {t \in @ : t[1] \notin doomed}]
        /\ carried' = (carried \/ \E x \in Ext : db.ext[x] \in doomed)
        /\ UNCHANGED <<kind, asked, attaching, seen, excuse, stray, shadowed, events>>

(* The boot passes.  The first is run again only when the record of its    *)
(* last success has been pruned.                                           *)
SeedIdentityReviewQueue ==
    /\ excuse # {}
    /\ db' = [db EXCEPT !.weak = @ \cup
                {p \in Pair \ (db.keep \cup db.shared) : \E e, f \in p :
                    e # f /\ Alike(db, e, f)}]
    /\ excuse' = {}
    /\ UNCHANGED <<kind, asked, attaching, seen, stray, shadowed, carried, events>>

SweepSharedExternalIDs ==
    /\ carried /\ attaching = <<>>
    /\ db' = Shared(db, {p \in Pair : \E x \in Ext : p \subseteq Claimants(db, x)})
    /\ carried' = FALSE
    /\ UNCHANGED <<kind, asked, attaching, seen, excuse, stray, shadowed, events>>

BackfillDashedTagAliases ==
    /\ kind = "tag"
    /\ \E e \in Live(db) : LET n == db.name[e]
                           IN  /\ <<e, Dash[n]>> \notin db.suppressed
                               /\ AddDashed(db, e, n) # db
                               /\ Commit(AddDashed(db, e, n))
    /\ UNCHANGED events

Next ==
    \/ \E v \in Video : Rescan(v) \/ \E n \in Name : AttachTag(v, n)
    \/ \E s, l \in Id, show \in BOOLEAN : Merge(s, l, show)
    \/ \E e \in Id, n \in Name :
          \/ Rename(e, n) \/ AskAlias(e, n) \/ DeleteAlias(e, n)
          \/ ApplyProviderAlias(e, n)
    \/ \E e \in Id, x \in Ext : Enrich(e, x)
    \/ \E p \in Pair : Dismiss(p)
    \/ \E e \in Id, p \in Id \cup {None} : SetTagParent(e, p)
    \/ \E n \in Name : DenyTag(n)
    \/ \E e \in Id : GraceEnds(e)
    \/ AddAskedAlias \/ AttachExternalID \/ SweepOrphans
    \/ SeedIdentityReviewQueue \/ SweepSharedExternalIDs \/ BackfillDashedTagAliases

Spec == Init /\ [][Next]_vars

-----------------------------------------------------------------------------
(* Parents are live tags and no tag is its own ancestor, whatever is moved *)
(* and merged: every ancestor walk of the code ends                        *)
(* (tag_hierarchy.go:175, identity_ops.go:484).                            *)
Forest ==
    \A e \in Id : db.parent[e] # None =>
        /\ {e, db.parent[e]} \subseteq Live(db)
        /\ e \notin Ancestors(db, e)

(* A name a rescan linked to a video still leads to an entity the video is *)
(* linked to, through every merge and rename: the next rescan makes no     *)
(* duplicate (identity_ops.go:380).  Not so once the owner deletes the     *)
(* alias, or gives one entity a name that is another's alias: the row that *)
(* should remember it as an alias is then ignored.                         *)
RescanSettled ==
    \A v \in Video : \A c \in seen[v] : c[1] \notin shadowed =>
        LET e == Resolve(db, c[1], c[2]) IN e # None /\ db.link[v][e] # "none"

(* The queue, the aliases and the provider ids name entities that exist,   *)
(* not one that was merged or swept (orphans.go:59): but an alias the API  *)
(* had already checked, or an id an enrichment was about to claim, still   *)
(* lands on an entity deleted meanwhile.                                   *)
NamesTheLiving ==
    /\ UNION Queue(db) \subseteq Live(db) \cup stray
    /\ \A n \in Name : db.alias[n].of \in Live(db) \cup stray \cup {None}
    /\ \A x \in Ext : db.ext[x] \in Live(db) \cup stray \cup {None}

(* Whoever was enriched from the record another entity owns the id of is   *)
(* put to the owner with it, unless the two are kept apart                 *)
(* (shared_external_id.go:20): a merge or a sweep of the owner, or a new   *)
(* owner after it, may lose the pair until the next boot, and an           *)
(* enrichment has a moment before it claims the id.                        *)
ContestedShown ==
    \A x \in Ext, e \in Live(db) :
        /\ db.memo[e] = x /\ db.ext[x] \notin {None, e}
        /\ ~carried /\ ~Claiming(e)
        => {e, db.ext[x]} \in db.keep \cup db.shared

(* A pair the owner dismissed is never proposed again (review_queue.go:353,*)
(* identity_queue.go:90).                                                  *)
DismissedStays ==
    [][db.keep \subseteq db'.keep \ Queue(db')]_vars

(* Two entities whose names are near-misses are in the queue as soon as    *)
(* they are, without waiting for the boot pass (review_queue.go:86); the   *)
(* names a merge moves and a provider sends are the exceptions.            *)
NearMissQueued ==
    \A e, f \in Live(db) \ excuse :
        e # f /\ Alike(db, e, f) /\ shadowed = {}
        => {e, f} \in db.keep \cup Queue(db)

\* The tables are what the code takes them to be, the tree of tags stays a forest, and a
\* rescan finds every name it linked before (identity_ops.go, tag_hierarchy.go).
RegistryKept == TypeOK /\ Forest /\ RescanSettled

\* Who has a near-miss of another's name, or was enriched from a record another owns, is
\* put to the owner with it (review_queue.go, shared_external_id.go).
QueueTells == ContestedShown /\ NearMissQueued

=============================================================================
