------------------------------ MODULE MCFields ------------------------------
(***************************************************************************)
(* The values a video shows, on small instances: which keys make a field   *)
(* (FieldKeys), which source wins and what is written (FieldSources), what *)
(* is stored of the result (ResolvedStore), the studio and people linked   *)
(* to it (VideoLinks) and the tags written into its file (TagWrite).       *)
(* "part" says which one runs and the others rest in their first state, so *)
(* a property of one is a property of every behaviour.                     *)
(*                                                                         *)
(* FieldSources has a file tag "title", a second tag "alt" the mapping may *)
(* read, and two providers, one of which has two keys for the field.       *)
(***************************************************************************)
EXTENDS FieldKeys, TLC

CONSTANTS
    v1, v2, t1, t2, s1, p1, actor, director, r1, r2,
    Video, Mapping,                     \* ResolvedStore's, and VideoLinks'
    Title, Studio, Person, Role, Slot,
    Tag, Scanned,                       \* TagWrite's, and the tags its files start with
    MaxStoreStep, MaxLinkStep,          \* bounds: their MaxStep
    MaxJob, MaxEvent                    \* bounds: TagWrite's

Keys == << <<"a", "bio">>, <<"a", "biography">>, <<"b", "biography">>, <<"b", "mood">> >>
Fields == [c \in {"bio", "mood"} |->
              IF c = "bio" THEN << <<"file", "bio">>, <<"a", "bio">> >> ELSE << <<"file", "mood">> >>]
Values == { {<<"a", "biography">>, <<"b", "biography">>, <<"b", "mood">>},
            {<<"a", "bio">>, <<"a", "biography">>, <<"b", "mood">>} }
Files == { {"mood"} }

Src(ns, key) == [ns |-> ns, key |-> key]
Film == {"film:1", "film:2"}
Alt == Src("file", "alt")
TagOf == Src("file", "title")
P == Src("p", "title")
P2 == Src("p", "alt")
Q == Src("q", "title")
Val(key, caps) == [key |-> key, caps |-> caps]
Replace(srcs) == [multi |-> FALSE, lower |-> FALSE, clearable |-> TRUE, tag |-> TagOf, sources |-> srcs]
Tagged == [v \in Video |-> IF v = v1 THEN {} ELSE Tag]
Shapes ==
    {Replace(<<P, TagOf, Q, P2>>), [Replace(<<Q, TagOf, Alt>>) EXCEPT !.lower = TRUE],
     [Replace(<<P, Q>>) EXCEPT !.clearable = FALSE],
     [Replace(<<TagOf, P>>) EXCEPT !.clearable = FALSE, !.multi = TRUE]}

VARIABLES
    part,
    field, fileFirst, trust, supply, matched, dec, add, suppress, written, job, steps,
    present, active, link, literal, na, alias, mapFile, mapping, order, dirty, score, index, signed, print,
    boot, bootDrain, drain, made, shown, reload, storeSteps, late, unmarked, skipped, failed,
    title, manual, fileStudio, provStudio, pick, fileCredits, added, removed, studioLink, credits,
    backfilled, req, linkSteps, drifted, ungated, racedChecks, mistitled,
    queue, lastId, work, tags, tagLink, suppressed, silenced, snaps, ledger, runs, reading, poll, events,
    past, first, missed, landed, unlogged

Sources == INSTANCE FieldSources WITH
    FilmNs <- Film, Split <- <<>>, Field <- Shapes,
    Source <- {TagOf, Alt, P, P2, Q} \cup {Src(ns, "title") : ns \in Film},
    ValueOrder <- <<Val("a", TRUE), Val("b", FALSE)>>,
    Supply <- {<<>>, <<Val("a", TRUE)>>, <<Val("b", FALSE)>>},
    Settings <- {[fileFirst |-> TRUE, trust |-> <<"q">>], [fileFirst |-> FALSE, trust |-> <<>>]},
    MaxStep <- 3

Store == INSTANCE ResolvedStore WITH
    MaxStep <- MaxStoreStep, file <- mapFile, trust <- order, page <- shown, steps <- storeSteps

Links == INSTANCE VideoLinks WITH
    MaxStep <- MaxLinkStep, steps <- linkSteps, raced <- racedChecks

Writes == INSTANCE TagWrite WITH
    Nothing <- None, Start <- Scanned, file <- tags, link <- tagLink, off <- silenced

ASSUME PartsAssumption ==
    /\ Store!NoneAssumption /\ Links!NoneAssumption
    /\ Writes!StartAssumption /\ Writes!NothingAssumption /\ Writes!BoundsAssumption

keyVars == <<promos, claims, pcache, ccache, rows, file, page, writer, writes, raced>>
sourceVars == <<field, fileFirst, trust, supply, matched, dec, add, suppress, written, job, steps>>
storeVars == <<present, active, link, literal, na, alias, mapFile, mapping, order, dirty, score, index, signed,
               print, boot, bootDrain, drain, made, shown, reload, storeSteps, late, unmarked, skipped, failed>>
linkVars == <<title, manual, fileStudio, provStudio, pick, fileCredits, added, removed, studioLink, credits,
              backfilled, req, linkSteps, drifted, ungated, racedChecks, mistitled>>
writeVars == <<queue, lastId, work, tags, tagLink, suppressed, silenced, snaps, ledger, runs, reading, poll, events,
               past, first, missed, landed, unlogged>>

AllInit ==
    /\ part \in {"keys", "sources", "store", "links", "writes"}
    /\ Init /\ Sources!Init /\ Store!Init /\ Links!Init /\ Writes!Init
    /\ part # "keys" => <<"b", "biography">> \in rows
    /\ part # "sources" => field = Replace(<<P, TagOf, Q, P2>>) /\ fileFirst
    /\ part # "store" => mapFile = 1
    /\ part # "links" => \A v \in Video : title[v] = t1 /\ fileStudio[v] = None

AllNext ==
    /\ UNCHANGED part
    /\ \/ part = "keys" /\ Next /\ UNCHANGED <<sourceVars, storeVars, linkVars, writeVars>>
       \/ part = "sources" /\ Sources!Next /\ UNCHANGED <<keyVars, storeVars, linkVars, writeVars>>
       \/ part = "store" /\ Store!Next /\ UNCHANGED <<keyVars, sourceVars, linkVars, writeVars>>
       \/ part = "links" /\ Links!Next /\ UNCHANGED <<keyVars, sourceVars, storeVars, writeVars>>
       \/ part = "writes" /\ Writes!Next /\ UNCHANGED <<keyVars, sourceVars, storeVars, linkVars>>

AllSpec == AllInit /\ [][AllNext]_<<part, keyVars, sourceVars, storeVars, linkVars, writeVars>>

\* Choosing a value the page offers shows that value, and pinning the source a field
\* already names changes nothing (resolver.go: the offer and the decided value are
\* computed by different code); and the list of removed values tells which of them
\* come back when the removal is lifted, as long as no value holds a separator.  No key
\* is hidden without its value landing somewhere (repo/claims.go).
OffersHold ==
    /\ part = "sources" => Sources!AdoptIsExact /\ Sources!LiftWorks
    /\ part = "keys" => NothingHidden

\* A claim does not move the winner of its target, a scan, refresh or landed write moves
\* only the fields that listen to it, and a write of the value a field shows settles it
\* (field_claims.go, resolver.go).
WinnersStand == WinnerStays /\ Sources!StandsStill /\ Sources!WriteSettles

\* A video that waits for no drain has the score, the index and the change stamp a
\* resolve would give it now, whatever boot, reload, page and request raced
\* (repo/completeness.go, completeness_queue.go, api/handlers.go).
StoreTruth == Store!StoreTruth /\ Store!IndexTruth

\* The studio and credits linked are those of the values a video shows at rest, and two
\* videos share title, people, date and studio only when somebody forced it or a check
\* was made before the change it missed (api/decisions.go, api/video_collision.go).
LinksFollow == Links!LinksFollow /\ Links!TwinsAreForced

\* The snapshot of a write is what the file held before the job first came to it, the
\* ledger of a video with no job left says what its file holds, a tag the owner removed
\* stays off, and a poll that finds nothing left of a batch has counted a run of every
\* job of it, whatever fails, is retried or crashes between the write and its books
\* (writequeue.go process, repo.go replaceAssociations, GetWritebackBatchStatus).
WritesAccounted ==
    /\ [](Writes!TypeOK /\ Writes!SnapshotPrior /\ Writes!LedgerMatches /\ Writes!RemovedStaysOff)
    /\ Writes!PollComplete
==============================================================================
