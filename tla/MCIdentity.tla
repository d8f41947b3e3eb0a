----------------------------- MODULE MCIdentity -----------------------------
(***************************************************************************)
(* What the library knows by name, on small instances: the registry of     *)
(* entities (Identity) and the tags and categories (Taxonomy).  "part"     *)
(* says which one runs and the other rests in its first state, so a        *)
(* property of one is a property of every behaviour.                       *)
(*                                                                         *)
(* Identity has one video, three names, of which two are near-misses and   *)
(* one is the dashed spelling of another, one provider id and three        *)
(* entity ids.                                                             *)
(***************************************************************************)
EXTENDS Identity, TLC

CONSTANTS
    pair, dashed,
    Term, TermDash, NoTerm, MaxTag, MaxTagStep  \* Taxonomy's

MCLoose == [n \in Name |-> IF n = "other" THEN "loose2" ELSE "loose1"]
MCDash == [n \in Name |-> IF n = "spaced" THEN "dashed" ELSE NoName]
MCTermDash == [x \in Term |-> IF x = pair THEN dashed ELSE NoTerm]

VARIABLES
    part,
    t, category, denied, supp, parent, off, tagged, raw, hidden, tagSteps, removedDash

Tags == INSTANCE Taxonomy WITH
    Dash <- TermDash, None <- NoTerm, MaxStep <- MaxTagStep,
    link <- tagged, steps <- tagSteps, removed <- removedDash

ASSUME PartsAssumption == Tags!TaxonomyAssumption

registryVars == <<kind, db, asked, attaching, seen, excuse, stray, shadowed, carried, events>>
tagVars == <<t, category, denied, supp, parent, off, tagged, raw, hidden, tagSteps, removedDash>>

AllInit ==
    /\ part \in {"registry", "tags"} /\ Init /\ Tags!Init
    /\ part # "registry" => kind = "tag" /\ \A v \in Video : seen[v] = {}
    /\ part # "tags" => raw = {}

AllNext ==
    /\ UNCHANGED part
    /\ \/ part = "registry" /\ Next /\ UNCHANGED tagVars
       \/ part = "tags" /\ Tags!Next /\ UNCHANGED registryVars

AllSpec == AllInit /\ [][AllNext]_<<part, registryVars, tagVars>>

\* A name is a tag's or a category's and never both, whichever was created or renamed
\* last, and the genres written to a file name each tag once, never one the owner keeps
\* off it, whatever spelling a source has; no tag is above itself, and a dashed alias the
\* owner removed stays removed (repo/categories.go, tag_hierarchy.go, tag_dashed_alias.go,
\* api/genre_writeback.go).
TagsApart == Tags!NamesApart /\ Tags!GenresOnce /\ Tags!TreeRooted /\ Tags!RemovedDashStays
=============================================================================
