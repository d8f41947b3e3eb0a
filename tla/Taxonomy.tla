------------------------------ MODULE Taxonomy ------------------------------
(***************************************************************************)
(* The names of tags: a tag or a category but never both, the terms the    *)
(* owner denies, the dashed spelling a name of several words brings with   *)
(* it, the tree of tags, and from all of them the genres a video's file is *)
(* given (internal/repo/categories.go, tag_denylist.go,                    *)
(* tag_dashed_alias.go, tag_hierarchy.go, video_tags.go,                   *)
(* internal/api/genre_writeback.go).                                       *)
(*                                                                         *)
(* A term is a name already folded; one video carries the tags.  Merges    *)
(* and what they do to the tree are in Identity.                           *)
(***************************************************************************)
EXTENDS Naturals, FiniteSets

CONSTANTS
    Term,
    Dash,       \* [Term -> its dashed spelling, or None for a single word]
    None,
    MaxTag,     \* bound: tag ids, never used again
    MaxStep     \* bound: operations

Tag == 1 .. MaxTag
NoTag == 0

TaxonomyAssumption ==
    /\ None \notin Term /\ IsFiniteSet(Term) /\ MaxTag \in Nat
    /\ Dash \in [Term -> Term \cup {None}]

VARIABLES
    t,          \* the spine: names, aliases, the last id
    category,   \* names of categories
    denied,     \* denied_tags
    supp,       \* entity_alias_suppressions: <<tag, term>>
    parent,     \* parent_tag_id
    off,        \* tags with writeback_enabled = 0
    link,       \* video_tags
    raw,        \* the genres the file and the providers give the video
    hidden,     \* of these, the ones the owner suppressed
    steps,
    removed     \* history: dashed aliases the owner removed and did not bring back

vars == <<t, category, denied, supp, parent, off, link, raw, hidden, steps, removed>>

Live == {i \in Tag : t.name[i] # None}
Counted == steps < MaxStep /\ steps' = steps + 1

Init ==
    /\ t = [name |-> [i \in Tag |-> None], alias |-> [x \in Term |-> NoTag], top |-> 0]
    /\ category = {} /\ denied = {} /\ supp = {}
    /\ parent = [i \in Tag |-> NoTag] /\ off = {} /\ link = {}
    /\ raw \in SUBSET Term /\ hidden = {} /\ steps = 0 /\ removed = {}

-----------------------------------------------------------------------------
(* Names.                                                                  *)

Named(s, x) == {i \in Tag : s.name[i] = x}
(* A name is looked for among the names first, then among the aliases.     *)
lookupByNameKey(s, x) ==
    IF Named(s, x) # {} THEN CHOOSE i \in Named(s, x) : TRUE ELSE s.alias[x]
entityConflict(s, i, x) == Named(s, x) \ {i} # {} \/ s.alias[x] \notin {NoTag, i}

addDashedTagAlias(s, i, x) ==
    IF Dash[x] # None /\ Dash[x] \notin denied /\ ~entityConflict(s, i, Dash[x]) /\ s.alias[Dash[x]] = NoTag
    THEN [s EXCEPT !.alias[Dash[x]] = i] ELSE s

(* The trigger on either table; only one is asked before it.               *)
(* Mutant: tags have no trigger for a rename.                              *)
CollidesNever(x) == FALSE
CategoryHas(x) == x \in category

Resolves(x) ==
    /\ x \notin denied
    /\ lookupByNameKey(t, x) # NoTag \/ (x \notin category /\ t.top < MaxTag)
resolveOrCreate(s, x) ==
    IF lookupByNameKey(s, x) # NoTag THEN s
    ELSE addDashedTagAlias([s EXCEPT !.name[s.top + 1] = x, !.top = s.top + 1], s.top + 1, x)
Spellings(s, i) == {s.name[i]} \cup {x \in Term : s.alias[x] = i}

ResolveOrCreateTag(x) ==
    /\ Counted /\ Resolves(x)
    /\ t' = resolveOrCreate(t, x)
    /\ UNCHANGED <<category, denied, supp, parent, off, link, raw, hidden, removed>>

AttachTagToVideo(x) ==
    /\ Counted /\ Resolves(x)
    /\ t' = resolveOrCreate(t, x)
    /\ link' = link \cup {lookupByNameKey(t', x)}
    /\ hidden' = hidden \ Spellings(t', lookupByNameKey(t', x))
    /\ UNCHANGED <<category, denied, supp, parent, off, raw, removed>>

(* The resolved genres become tags in one transaction; a term that is      *)
(* denied, or a category's, is passed over.  In whatever order they come.  *)
Order(xs) == {o \in [1 .. Cardinality(xs) -> xs] : \A x \in xs : \E k \in DOMAIN o : o[k] = x}
After(s, xs, o) ==
    LET n == Cardinality(xs)
        after[k \in 0 .. n] == IF k = 0 THEN s ELSE resolveOrCreate(after[k - 1], o[k])
    IN  after[n]
Materialized(s, xs) == {After(s, xs, o) : o \in Order(xs)}
AttachMaterializedTags ==
    LET xs == {x \in raw \ hidden : x \notin denied /\ (lookupByNameKey(t, x) # NoTag \/ x \notin category)}
    IN  /\ Counted /\ xs # {} /\ t.top + Cardinality(xs) <= MaxTag
        /\ t' \in Materialized(t, xs)
        /\ link' = link \cup {lookupByNameKey(t', x) : x \in xs}
        /\ UNCHANGED <<category, denied, supp, parent, off, raw, hidden, removed>>

DetachTagFromVideo(i) ==
    /\ Counted /\ i \in link
    /\ link' = link \ {i} /\ hidden' = hidden \cup Spellings(t, i)
    /\ UNCHANGED <<t, category, denied, supp, parent, off, raw, removed>>

RenameTag(i, x) ==
    /\ Counted /\ i \in Live /\ x # t.name[i]
    /\ Named(t, x) = {} /\ ~CategoryHas(x)
    /\ LET old == t.name[i]
           s1 == [t EXCEPT !.name[i] = x]
           s2 == IF s1.alias[old] = NoTag THEN [s1 EXCEPT !.alias[old] = i] ELSE s1
           s3 == IF s2.alias[x] = i THEN [s2 EXCEPT !.alias[x] = NoTag] ELSE s2
       IN  t' = addDashedTagAlias(s3, i, x)
    /\ removed' = removed \ {<<i, Dash[x]>>, <<i, t.name[i]>>}
    /\ UNCHANGED <<category, denied, supp, parent, off, link, raw, hidden>>

AddEntityAlias(i, x) ==
    /\ Counted /\ i \in Live /\ ~entityConflict(t, i, x) /\ x # t.name[i]
    /\ t' = [t EXCEPT !.alias[x] = i] /\ removed' = removed \ {<<i, x>>}
    /\ UNCHANGED <<category, denied, supp, parent, off, link, raw, hidden>>

(* Removing a tag's own dashed alias is recorded; any other the owner gave *)
(* it is not.                                                              *)
Recorded(i, x) == x = Dash[t.name[i]]
DeleteEntityAlias(x) ==
    LET i == t.alias[x] IN
    /\ Counted /\ i # NoTag
    /\ t' = [t EXCEPT !.alias[x] = NoTag]
    /\ supp' = IF Recorded(i, x) THEN supp \cup {<<i, x>>} ELSE supp
    /\ removed' = IF x = Dash[t.name[i]] THEN removed \cup {<<i, x>>} ELSE removed
    /\ UNCHANGED <<category, denied, parent, off, link, raw, hidden>>

(* At boot, and again whenever the record of the last run was pruned.      *)
Backfilled(s) ==
    LET upTo[i \in 0 .. MaxTag] ==
            IF i = 0 THEN s
            ELSE IF i \notin Live \/ <<i, Dash[s.name[i]]>> \in supp THEN upTo[i - 1]
            ELSE addDashedTagAlias(upTo[i - 1], i, s.name[i])
    IN  upTo[MaxTag]
BackfillDashedTagAliases ==
    /\ t' = Backfilled(t) /\ t' # t
    /\ UNCHANGED <<category, denied, supp, parent, off, link, raw, hidden, steps, removed>>

-----------------------------------------------------------------------------
(* Categories, the deny-list, the tree, and what the owner keeps off file. *)

CreateCategory(x) ==
    /\ Counted /\ x \notin category /\ Named(t, x) = {}
    /\ category' = category \cup {x}
    /\ UNCHANGED <<t, denied, supp, parent, off, link, raw, hidden, removed>>

RenameCategory(x, y) ==
    /\ Counted /\ x \in category /\ y \notin category /\ Named(t, y) = {}
    /\ category' = (category \ {x}) \cup {y}
    /\ UNCHANGED <<t, denied, supp, parent, off, link, raw, hidden, removed>>

DeleteCategory(x) ==
    /\ Counted /\ x \in category /\ category' = category \ {x}
    /\ UNCHANGED <<t, denied, supp, parent, off, link, raw, hidden, removed>>

DenyTag(x) ==
    /\ Counted /\ x \notin denied /\ denied' = denied \cup {x}
    /\ UNCHANGED <<t, category, supp, parent, off, link, raw, hidden, removed>>

RemoveDeniedTag(x) ==
    /\ Counted /\ x \in denied /\ denied' = denied \ {x}
    /\ UNCHANGED <<t, category, supp, parent, off, link, raw, hidden, removed>>

Closed(is) == \A i \in is : parent[i] # NoTag => parent[i] \in is
Up(is) == {j \in Tag : \A above \in SUBSET Tag : is \subseteq above /\ Closed(above) => j \in above}

(* Mutant: only the parent's own parent is looked at.                      *)
NextAbove(p) == {p, parent[p]}
Above(p) == Up({p})
SetTagParent(i, p) ==
    /\ Counted /\ i \in Live /\ p \in Live \cup {NoTag} /\ p # parent[i]
    /\ p # NoTag => i \notin Above(p)
    /\ parent' = [parent EXCEPT ![i] = p]
    /\ UNCHANGED <<t, category, denied, supp, off, link, raw, hidden, removed>>

SetTagWritebackEnabled(i) ==
    /\ Counted /\ i \in Live
    /\ off' = IF i \in off THEN off \ {i} ELSE off \cup {i}
    /\ UNCHANGED <<t, category, denied, supp, parent, link, raw, hidden, removed>>

-----------------------------------------------------------------------------
(* What a genres write gives the file: the tags and all above them but for *)
(* those kept off it, then the raw genres that are none of these, each tag *)
(* under its own name.                                                     *)

TagNamesForVideo == {t.name[i] : i \in Up(link) \ off}
(* Mutant: a raw value is an ignored tag only by the tag's own name.       *)
IgnoredByName(x) == \E i \in off : t.name[i] = x
Ignored(x) == lookupByNameKey(t, x) \in off
CanonicalName(x) == IF lookupByNameKey(t, x) = NoTag THEN x ELSE t.name[lookupByNameKey(t, x)]
RawValues == {x \in raw \ hidden : x \notin denied /\ ~Ignored(x)}
GenreWritebackValues == TagNamesForVideo \cup {CanonicalName(x) : x \in RawValues}

Next ==
    \/ \E x \in Term :
          \/ ResolveOrCreateTag(x) \/ AttachTagToVideo(x) \/ DeleteEntityAlias(x)
          \/ CreateCategory(x) \/ DeleteCategory(x) \/ DenyTag(x) \/ RemoveDeniedTag(x)
    \/ \E x, y \in Term : RenameCategory(x, y)
    \/ \E i \in Tag, x \in Term : RenameTag(i, x) \/ AddEntityAlias(i, x)
    \/ \E i \in Tag : DetachTagFromVideo(i) \/ SetTagWritebackEnabled(i)
    \/ \E i \in Tag, p \in Tag \cup {NoTag} : SetTagParent(i, p)
    \/ AttachMaterializedTags \/ BackfillDashedTagAliases

Spec == Init /\ [][Next]_vars

-----------------------------------------------------------------------------
(* A name is a tag's or a category's, never both, whichever of the two was *)
(* created or renamed last (ADR-078 D3).                                   *)
NamesApart == \A i \in Live : t.name[i] \notin category

(* The file is never given a tag the owner keeps off it, nor one tag under *)
(* two names, whichever spelling the file or a provider has for it.        *)
GenresOnce ==
    /\ \A x \in GenreWritebackValues : lookupByNameKey(t, x) \notin off
    /\ \A x, y \in GenreWritebackValues :
          x # y => lookupByNameKey(t, x) = NoTag \/ lookupByNameKey(t, x) # lookupByNameKey(t, y)

(* No tag is above itself, whatever was put under what in turn.            *)
TreeRooted == \A i \in Live : parent[i] # NoTag => i \notin Up({parent[i]})

(* A dashed alias the owner removed stays removed through every run of the *)
(* backfill, until the owner adds it or renames the tag.                   *)
RemovedDashStays == \A r \in removed : t.alias[r[2]] # r[1]
==============================================================================
