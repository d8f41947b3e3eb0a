---------------------------- MODULE PersonImages ----------------------------
(***************************************************************************)
(* A person's images and what a provider writes about a person: the rows   *)
(* of person_images with their files (internal/repo, internal/imagesink,   *)
(* internal/personimage, internal/entityimage), the enrichment pass that   *)
(* stores a matched record (internal/enrich), the owner's uploads,         *)
(* promotions, deletions and clears, and a merge of two people.            *)
(*                                                                         *)
(* A row is written before its file, whose name is the row's id; every     *)
(* transaction and every file operation is a step of its own.  Images are  *)
(* told apart by their normalized bytes, a number; the gallery's order is  *)
(* left out, so a merge that cannot carry every photo picks any of them.   *)
(***************************************************************************)
EXTENDS Integers, Sequences, FiniteSets, FiniteSetsExt

CONSTANTS
    Person,
    Pass, Owner,    \* goroutines: enrichment passes; the owner's requests
    Bypass,         \* the passes an owner's run makes, which the gallery's cap does not bound
    Record,         \* what providers hold: external ids
    Offered,        \* <<person, record>>: what the owner or a sweep may match a person to
    From,           \* the provider of each record
    Assets,         \* the images of each record, in order of preference
    Keys,           \* the fields of each record, at least one
    Url, Bytes,     \* the bytes behind each URL, once normalized
    Picked,         \* the bytes the owner has to upload
    GalleryCap,
    Images,         \* the rows at the start, ids 1, 2, ..., unhashed ones among them
    Deleted,        \* the URLs each person's owner deleted by then
    MaxId,          \* bound: image rows
    MaxEvent        \* bound: passes, owner's requests and crashes together

Core == {"headshot", "poster"}
Role == Core \cup {"extra"}
Id == 1 .. MaxId
Provider == {From[r] : r \in Record}
Task == Pass \cup Owner

NoHash == 0
NoUrl == "no url"
NoRecord == "no record"
NoProvider == "none"
Free == [role |-> "free"]
Idle == [pc |-> "idle"]

Row == [person : Person, role : Role, source : {"upload", "promoted", "enrichment"},
        record : Record \cup {NoRecord}, url : Url \cup {NoUrl}, bytes : Nat, hash : Nat]

ImageConstants ==
    /\ {GalleryCap, MaxEvent, MaxId} \subseteq Nat
    /\ Pass \cap Owner = {} /\ Bypass \subseteq Pass
    /\ Offered \subseteq Person \X Record /\ NoRecord \notin Record /\ NoUrl \notin Url
    /\ Picked \subseteq Nat \ {NoHash}
    /\ Bytes \in [Url -> Nat \ {NoHash}] /\ \A r \in Record : Keys[r] # {} /\ From[r] # NoProvider
    /\ \A r \in Record : Assets[r] \in Seq([role : Role, url : Url])

\* The library at the start is one the code can have made.
StartAssumption ==
    /\ Images \in Seq(Row) /\ Len(Images) <= MaxId /\ Deleted \in [Person -> SUBSET Url]
    /\ \A i \in DOMAIN Images :
          /\ Images[i].hash \in {NoHash, Images[i].bytes}
          /\ Images[i].source = "enrichment" => Images[i].record \in Record
    /\ \A i, j \in DOMAIN Images : i # j /\ Images[i].person = Images[j].person =>
          /\ Images[i].role = Images[j].role => Images[i].role \notin Core
          /\ Images[i].source = "enrichment" /\ Images[j].source = "enrichment"
                /\ From[Images[i].record] = From[Images[j].record] => Images[i].record = Images[j].record
    /\ \A p \in Person :
          Cardinality({i \in DOMAIN Images : Images[i].person = p /\ Images[i].role = "extra"}) <= GalleryCap

VARIABLES
    rows,       \* person_images
    next,       \* the next id of its AUTOINCREMENT
    files,      \* <<person, id>> of the files under the image directory
    suppressed, \* person_image_suppressions, of each person
    known,      \* what providers wrote besides: fields, adopted ids, aliases
    live,       \* people that were not merged away
    task, up, events,
    gone,       \* history: URLs of gallery images the owner deleted
    torn,       \* history: rows a crash, a failed rollback or a merge left without a file
    over,       \* history: people whose gallery was taken past the cap on purpose
    muddled     \* history: <<person, provider>> written by two at once, or merged

store == <<rows, next, files, suppressed, known, live>>
history == <<gone, torn, over, muddled>>
vars == <<store, task, up, events, history>>

Uploaded(p, role, b) ==
    [person |-> p, role |-> role, source |-> "upload", record |-> NoRecord,
     url |-> NoUrl, bytes |-> b, hash |-> b]

Init ==
    /\ rows = [i \in Id |-> IF i <= Len(Images) THEN Images[i] ELSE Free]
    /\ next = Len(Images) + 1
    /\ files = {<<Images[i].person, i>> : i \in DOMAIN Images}
    /\ suppressed = Deleted
    /\ known = [p \in Person |->
          LET from == {Images[i].record : i \in {j \in DOMAIN Images :
                          Images[j].person = p /\ Images[j].source = "enrichment"}} IN
          [fields |-> {f \in from \X UNION {Keys[r] : r \in from} : f[2] \in Keys[f[1]]},
           ids |-> from, names |-> from]]
    /\ live = Person
    /\ task = [t \in Task |-> Idle] /\ up = FALSE
    /\ events = 0
    /\ gone = Deleted /\ torn = {} /\ over = {} /\ muddled = {}

(***************************************************************************)
(* The rows, as internal/repo/person_images.go keeps them.                 *)
(***************************************************************************)
Of(p) == {i \in Id : rows[i] # Free /\ rows[i].person = p}
InRole(p, role) == {i \in Of(p) : rows[i].role = role}
ByOwner(i) == rows[i].source \in {"upload", "promoted"}
Enriched(i) == rows[i].source = "enrichment"

(* Mutant: only an upload locks its slot. *)
LockedUploads(p) == {role \in Core : \E i \in InRole(p, role) : rows[i].source = "upload"}
LockedCoreRoles(p) == {role \in Core : \E i \in InRole(p, role) : ByOwner(i)}
ExistingURLs(p) == {rows[i].url : i \in Of(p)} \ {NoUrl}
Filled(i) == <<rows[i].person, i>> \in files

Duplicate(row) ==
    /\ row.role = "extra" /\ row.source = "enrichment"
    /\ \E i \in Of(row.person) : rows[i].hash = row.hash
Full(row, overCap) ==
    row.role = "extra" /\ ~overCap /\ Cardinality(InRole(row.person, "extra")) >= GalleryCap

\* InsertPersonImage of a row it does not refuse; a core slot's last image goes with it.
Inserted(row) ==
    /\ row.person \in live /\ next <= MaxId
    /\ rows' = [i \in Id |->
          IF i = next THEN row
          ELSE IF row.role \in Core /\ i \in InRole(row.person, row.role) THEN Free
          ELSE rows[i]]
    /\ next' = next + 1
    /\ over' = IF Full(row, FALSE) THEN over \cup {row.person} ELSE over

\* An enriched gallery image that goes takes its URL out of later passes.
SuppressedWith(i) ==
    suppressed' = IF rows[i].role = "extra" /\ rows[i].url # NoUrl
                  THEN [suppressed EXCEPT ![rows[i].person] = @ \cup {rows[i].url}]
                  ELSE suppressed
DeletePersonImage(i) == rows' = [rows EXCEPT ![i] = Free] /\ SuppressedWith(i)

(***************************************************************************)
(* Steps of a task.  A pass goes through match, (detach, names, images,    *)
(* fields,) upsert, adopt, reads and its assets; a clear stops at fields.  *)
(***************************************************************************)
At(t, pc) == up /\ task[t].pc = pc
Goto(t, pc) == task' = [task EXCEPT ![t].pc = pc]
Done(t) == task' = [task EXCEPT ![t] = Idle]
Spend == events < MaxEvent /\ events' = events + 1
Act(o) == up /\ task[o] = Idle /\ Spend

\* History: two tasks that write what one provider says of one person.
Muddle(t, p, q) ==
    muddled' = IF \E u \in Task \ {t} :
                     task[u] # Idle /\ task[u].person = p /\ task[u].prov = q
               THEN muddled \cup {<<p, q>>} ELSE muddled

\* runEnrich once the provider answered; before that it changes nothing.
Fetched(e, p, r) ==
    /\ up /\ task[e] = Idle /\ p \in live /\ <<p, r>> \in Offered /\ Spend
    /\ Muddle(e, p, From[r])
    /\ task' = [task EXCEPT ![e] =
          [pc |-> "match", person |-> p, prov |-> From[r], record |-> r, prev |-> NoRecord,
           i |-> 1, done |-> {}, locked |-> {}, skip |-> {}, have |-> {},
           head |-> NoUrl, id |-> 0, seed |-> FALSE,
           since |-> 0, knew |-> {}, blind |-> FALSE]]
    /\ UNCHANGED <<store, up, gone, torn, over>>

Written(p, q) == {r \in Record : From[r] = q /\ \E k \in Keys[r] : <<r, k>> \in known[p].fields}
Match(t) ==
    LET p == task[t].person matches == Written(p, task[t].prov) IN
    /\ At(t, "match")
    /\ \/ /\ matches = {} \/ task[t].record \in matches
          /\ Goto(t, IF t \in Pass THEN "upsert" ELSE "names")
       \/ \E r \in matches \ {task[t].record} :
             task' = [task EXCEPT ![t].pc = "detach", ![t].prev = r]
    /\ UNCHANGED <<store, up, events, history>>

\* clearPersonMatch, in its order: the rows that carry the match go last.
OfProvider(q, S) == {r \in S : From[r] = q}
Detach(t) ==
    /\ At(t, "detach")
    /\ known' = [known EXCEPT ![task[t].person].ids = @ \ {task[t].prev}]
    /\ Goto(t, "names")
    /\ UNCHANGED <<rows, next, files, suppressed, live, up, events, history>>
DeleteProviderAliases(t) ==
    /\ At(t, "names")
    /\ known' = [known EXCEPT ![task[t].person].names = @ \ OfProvider(task[t].prov, @)]
    /\ Goto(t, "images")
    /\ UNCHANGED <<rows, next, files, suppressed, live, up, events, history>>

Provided(p, q) == {i \in Of(p) : Enriched(i) /\ From[rows[i].record] = q}
RemoveProviderAssets(t) ==
    LET p == task[t].person ids == Provided(p, task[t].prov) IN
    /\ At(t, "images")
    /\ rows' = [i \in Id |-> IF i \in ids THEN Free ELSE rows[i]]
    /\ files' = files \ ({p} \X ids)
    /\ Goto(t, "fields")
    /\ UNCHANGED <<next, suppressed, known, live, up, events, history>>
DeleteEnrichmentByProvider(t) ==
    /\ At(t, "fields")
    /\ known' = [known EXCEPT ![task[t].person].fields =
          {f \in @ : From[f[1]] # task[t].prov}]
    /\ IF t \in Pass THEN Goto(t, "upsert") ELSE Done(t)
    /\ UNCHANGED <<rows, next, files, suppressed, live, up, events, history>>

\* A field this record has replaces the provider's value of it, whichever record's.
UpsertEnrichment(e) ==
    LET r == task[e].record IN
    /\ At(e, "upsert")
    /\ known' = [known EXCEPT ![task[e].person].fields =
          {f \in @ : From[f[1]] # From[r] \/ f[2] \notin Keys[r]} \cup ({r} \X Keys[r])]
    /\ Goto(e, "adopt")
    /\ UNCHANGED <<rows, next, files, suppressed, live, up, events, history>>

\* A read or a write failed: the pass, or the clear, ends there.
Fails(t) ==
    /\ up /\ task[t].pc \in {"match", "detach", "names", "images", "fields", "upsert"}
    /\ Done(t)
    /\ UNCHANGED <<store, up, events, history>>

\* AttachExternalID and ApplyProviderAliases, best effort; taken to fail together.
Adopt(e) ==
    LET p == task[e].person r == task[e].record IN
    /\ At(e, "adopt")
    /\ \E kept \in SUBSET {r} :
          known' = [known EXCEPT ![p].ids = @ \cup kept, ![p].names = @ \cup kept]
    /\ Goto(e, "reads")
    /\ UNCHANGED <<rows, next, files, suppressed, live, up, events, history>>

(***************************************************************************)
(* downloadAssets.                                                         *)
(***************************************************************************)
\* Three lookups, taken for empty when they fail: one step, for nothing is written between.
Reads(e) ==
    LET p == task[e].person IN
    /\ At(e, "reads")
    /\ \E fail \in BOOLEAN :
          task' = [task EXCEPT ![e].pc = "assets", ![e].since = next, ![e].knew = gone[p],
             ![e].skip = IF fail THEN {} ELSE suppressed[p],
             ![e].locked = IF fail THEN {} ELSE LockedCoreRoles(p),
             ![e].have = IF fail THEN {} ELSE ExistingURLs(p),
             ![e].blind = @ \/ fail]
    /\ UNCHANGED <<store, up, events, history>>

Skipped(w, a) ==
    \/ a.role \in w.done \cup w.locked \/ a.url \in w.skip
    \/ a.role = "extra" /\ a.url \in w.have
\* The next asset that is fetched; one past the last when there is none.
Upcoming(w) ==
    LET all == Assets[w.record] IN
    Min({j \in w.i .. Len(all) : ~Skipped(w, all[j])} \cup {Len(all) + 1})
More(e) == At(e, "assets") /\ Upcoming(task[e]) <= Len(Assets[task[e].record])
Asset(e) == Assets[task[e].record][Upcoming(task[e])]
EnrichedRow(e, role, url) ==
    [person |-> task[e].person, role |-> role, source |-> "enrichment",
     record |-> task[e].record, url |-> url, bytes |-> Bytes[url], hash |-> Bytes[url]]
AssetRow(e) == EnrichedRow(e, Asset(e).role, Asset(e).url)

\* The fetch, the normalization or the insertion failed.
AssetFails(e) ==
    /\ More(e)
    /\ task' = [task EXCEPT ![e].i = Upcoming(task[e]) + 1]
    /\ UNCHANGED <<store, up, events, history>>
AssetRefused(e) ==
    LET row == AssetRow(e) IN
    /\ More(e) /\ row.person \in live
    /\ \/ /\ Duplicate(row)
          /\ task' = [task EXCEPT ![e].i = Upcoming(task[e]) + 1]
       \/ /\ ~Duplicate(row) /\ Full(row, e \in Bypass)
          /\ task' = [task EXCEPT ![e].i = Upcoming(task[e]) + 1, ![e].done = @ \cup {"extra"}]
    /\ UNCHANGED <<store, up, events, history>>
AssetInserted(e) ==
    LET row == AssetRow(e) IN
    /\ More(e)
    /\ ~Duplicate(row) /\ ~Full(row, e \in Bypass)
    /\ Inserted(row)
    /\ task' = [task EXCEPT ![e].pc = "file", ![e].i = Upcoming(task[e]), ![e].id = next]
    /\ UNCHANGED <<files, suppressed, known, live, up, events, gone, torn, muddled>>

\* A headshot of this pass fills a poster slot that is empty.
Assembled(e) ==
    LET w == task[e] IN
    /\ At(e, "assets") /\ ~More(e)
    /\ IF /\ w.head # NoUrl /\ "poster" \notin w.done \cup w.locked
          /\ InRole(w.person, "poster") = {}
       THEN Goto(e, "seed") ELSE Done(e)
    /\ UNCHANGED <<store, up, events, history>>
SeedPoster(e) ==
    /\ At(e, "seed")
    /\ Inserted(EnrichedRow(e, "poster", task[e].head))
    /\ task' = [task EXCEPT ![e].pc = "file", ![e].id = next, ![e].seed = TRUE]
    /\ UNCHANGED <<files, suppressed, known, live, up, events, gone, torn, muddled>>
SeedFails(e) ==
    At(e, "seed") /\ Done(e) /\ UNCHANGED <<store, up, events, history>>

\* What comes after a row's file, written or not.
Filed(t, ok) ==
    IF t \in Owner \/ task[t].seed THEN Done(t)
    ELSE LET a == Assets[task[t].record][task[t].i] IN
         task' = [task EXCEPT ![t].pc = "assets", ![t].i = @ + 1,
            ![t].done = IF ok /\ a.role \in Core THEN @ \cup {a.role} ELSE @,
            ![t].head = IF ok /\ a.role = "headshot" THEN a.url ELSE @]
Store(t) ==
    /\ At(t, "file")
    /\ files' = files \cup {<<task[t].person, task[t].id>>}
    /\ Filed(t, TRUE)
    /\ UNCHANGED <<rows, next, suppressed, known, live, up, events, history>>

\* The row is taken back; what replaced it, moved it or removed it first stands.
RollsBack(t) ==
    IF task[t].id \in Of(task[t].person)
    THEN \/ DeletePersonImage(task[t].id) /\ UNCHANGED torn
         \/ torn' = torn \cup {task[t].id} /\ UNCHANGED <<rows, suppressed>>
    ELSE UNCHANGED <<rows, suppressed, torn>>
StoreFails(t) ==
    /\ At(t, "file")
    /\ RollsBack(t)
    /\ Filed(t, FALSE)
    /\ UNCHANGED <<next, files, known, live, up, events, gone, over, muddled>>

(***************************************************************************)
(* The owner.                                                              *)
(***************************************************************************)
Filing(o, p) == [pc |-> "file", person |-> p, prov |-> NoProvider, id |-> next]
Upload(o, p, role, b, overCap) ==
    LET row == Uploaded(p, role, b) IN
    /\ Act(o) /\ ~Full(row, overCap) /\ (overCap => role = "extra")
    /\ Inserted(row)
    /\ task' = [task EXCEPT ![o] = Filing(o, p)]
    /\ UNCHANGED <<files, suppressed, known, live, up, gone, torn, muddled>>

\* promotePersonImage: the stored file is read and normalized again, which changes the
\* bytes of a lossy image and not those of a lossless one.
Again(b) == {b, b + 100}
Promote(o, i, role) ==
    /\ Act(o) /\ rows[i] # Free /\ rows[i].person \in live
    /\ <<rows[i].person, i>> \in files
    /\ \E b \in Again(rows[i].bytes) :
          task' = [task EXCEPT ![o] = [pc |-> "promote", person |-> rows[i].person,
             prov |-> NoProvider, role |-> role, bytes |-> b]]
    /\ UNCHANGED <<store, up, history>>
Promoted(o) ==
    LET w == task[o] IN
    /\ At(o, "promote")
    /\ Inserted([Uploaded(w.person, w.role, w.bytes) EXCEPT !.source = "promoted"])
    /\ task' = [task EXCEPT ![o] = Filing(o, w.person)]
    /\ UNCHANGED <<files, suppressed, known, live, up, events, gone, torn, muddled>>
PromoteFails(o) ==
    At(o, "promote") /\ Done(o) /\ UNCHANGED <<store, up, events, history>>

Delete(o, i) ==
    /\ Act(o) /\ rows[i] # Free
    /\ DeletePersonImage(i)
    /\ gone' = IF rows[i].role = "extra" /\ rows[i].url # NoUrl
               THEN [gone EXCEPT ![rows[i].person] = @ \cup {rows[i].url}] ELSE gone
    /\ task' = [task EXCEPT ![o] =
          [pc |-> "unlink", person |-> rows[i].person, prov |-> NoProvider, id |-> i]]
    /\ UNCHANGED <<next, files, known, live, up, torn, over, muddled>>
Unlink(o) ==
    /\ At(o, "unlink")
    /\ files' = files \ {<<task[o].person, task[o].id>>}
    /\ Done(o)
    /\ UNCHANGED <<rows, next, suppressed, known, live, up, events, history>>

Clear(o, p, q) ==
    /\ Act(o) /\ p \in live
    /\ Muddle(o, p, q)
    /\ task' = [task EXCEPT ![o] = [pc |-> "match", person |-> p, prov |-> q,
                                    record |-> NoRecord, prev |-> NoRecord]]
    /\ UNCHANGED <<store, up, gone, torn, over>>

(***************************************************************************)
(* A merge: the loser's rows in its transaction, the files after it.       *)
(***************************************************************************)
CarriedCore(s, l) ==
    {i \in Of(l) : rows[i].role \in Core /\ InRole(s, rows[i].role) = {}}
\* What the survivor holds already is looked up as each photo is listed.
Lacking(s, l) ==
    LET held == Of(s) \cup CarriedCore(s, l) IN
    {i \in InRole(l, "extra") :
        rows[i].hash = NoHash \/ \A j \in held : rows[j].hash # rows[i].hash}
Room(s) == Max({0, GalleryCap - Cardinality(InRole(s, "extra"))})
CarriedExtras(s, l) == kSubset(Min({Room(s), Cardinality(Lacking(s, l))}), Lacking(s, l))

(* Mutant: the loser's suppressions go with it. *)
CarriedSuppressionsNot(s, l) == suppressed
CarriedSuppressions(s, l) == [suppressed EXCEPT ![s] = @ \cup suppressed[l]]

\* Of two people with data from one provider the survivor's stays whole; so does a
\* provider the survivor dismissed.
CarriedKnown(s, l, dismissed) ==
    [known EXCEPT
        ![s].fields = @ \cup {f \in known[l].fields :
            Written(s, From[f[1]]) = {} /\ From[f[1]] \notin dismissed},
        ![s].ids = @ \cup known[l].ids, ![s].names = @ \cup known[l].names]

\* History: the passes at work on either person know less than they should.
Blinded(s, l) ==
    [t \in Task |-> IF t \in Pass /\ task[t] # Idle /\ task[t].person \in {s, l}
                    THEN [task[t] EXCEPT !.blind = TRUE] ELSE task[t]]
Merge(o, s, l) ==
    /\ Act(o) /\ {s, l} \subseteq live /\ s # l
    /\ \E extras \in CarriedExtras(s, l) :
          rows' = [i \in Id |-> IF i \in extras \cup CarriedCore(s, l)
                                THEN [rows[i] EXCEPT !.person = s]
                                ELSE IF i \in Of(l) THEN Free ELSE rows[i]]
    /\ suppressed' = CarriedSuppressions(s, l)
    /\ \E dismissed \in SUBSET Provider : known' = CarriedKnown(s, l, dismissed)
    /\ live' = live \ {l}
    /\ gone' = [gone EXCEPT ![s] = @ \cup gone[l]]
    /\ torn' = torn \cup {i \in Of(l) : ~Filled(i)}
    /\ muddled' = muddled \cup ({s} \X Provider)
    /\ task' = [Blinded(s, l) EXCEPT ![o] =
          [pc |-> "settle", person |-> s, prov |-> NoProvider, loser |-> l]]
    /\ UNCHANGED <<next, files, up, over>>

\* settleMergedImages; a move that fails leaves the loser's directory as it is.
Settle(o) ==
    LET s == task[o].person l == task[o].loser
        ids == {i \in Of(s) : <<l, i>> \in files}
        moved(S) == (files \ ({l} \X S)) \cup ({s} \X S) IN
    /\ At(o, "settle")
    /\ \/ files' = moved(ids) \ ({l} \X Id) /\ UNCHANGED torn
       \/ \E S \in SUBSET ids : S # ids /\ files' = moved(S) /\ torn' = torn \cup (ids \ S)
    /\ Done(o)
    /\ UNCHANGED <<rows, next, suppressed, known, live, up, events, gone, over, muddled>>

(***************************************************************************)
(* Crash and boot.                                                         *)
(***************************************************************************)
Crash ==
    /\ up /\ Spend
    /\ up' = FALSE /\ task' = [t \in Task |-> Idle]
    /\ torn' = torn \cup {i \in Id : rows[i] # Free /\ ~Filled(i)}
    /\ UNCHANGED <<store, gone, over, muddled>>

\* The backfill: rows without a hash get their file's, where it can be read; then a
\* gallery image gives way to a core image, or an older one, of the same bytes.
Hashed(S) == [i \in Id |-> IF i \in S THEN [rows[i] EXCEPT !.hash = rows[i].bytes] ELSE rows[i]]
Twins(now) ==
    {e \in Id : /\ now[e] # Free /\ now[e].role = "extra" /\ now[e].hash # NoHash
                /\ \E o \in Id \ {e} : /\ now[o] # Free /\ now[o].person = now[e].person
                                       /\ now[o].hash = now[e].hash
                                       /\ now[o].role # "extra" \/ o < e}
Boot ==
    /\ ~up /\ up' = TRUE
    /\ \/ UNCHANGED <<rows, files>>
       \/ \E S \in SUBSET {i \in Id : rows[i] # Free /\ rows[i].hash = NoHash /\ Filled(i)} :
             LET now == Hashed(S) IN
             \/ rows' = now /\ UNCHANGED files
             \/ /\ rows' = [i \in Id |-> IF i \in Twins(now) THEN Free ELSE now[i]]
                /\ files' = files \ {<<rows[i].person, i>> : i \in Twins(now)}
    /\ UNCHANGED <<next, suppressed, known, live, task, events, history>>

Next ==
    \/ \E e \in Pass :
          \/ \E p \in Person, r \in Record : Fetched(e, p, r)
          \/ UpsertEnrichment(e) \/ Adopt(e) \/ Reads(e)
          \/ AssetFails(e) \/ AssetRefused(e) \/ AssetInserted(e)
          \/ Assembled(e) \/ SeedPoster(e) \/ SeedFails(e)
    \/ \E t \in Task :
          \/ Match(t) \/ Detach(t) \/ DeleteProviderAliases(t) \/ RemoveProviderAssets(t)
          \/ DeleteEnrichmentByProvider(t) \/ Fails(t) \/ Store(t) \/ StoreFails(t)
    \/ \E o \in Owner :
          \/ \E p \in Person, role \in Role, b \in Picked, overCap \in BOOLEAN :
                Upload(o, p, role, b, overCap)
          \/ \E i \in Id : Delete(o, i) \/ \E role \in Core : Promote(o, i, role)
          \/ Promoted(o) \/ PromoteFails(o) \/ Unlink(o)
          \/ \E p \in Person, q \in Provider : Clear(o, p, q)
          \/ \E s, l \in Person : Merge(o, s, l)
          \/ Settle(o)
    \/ Crash \/ Boot

Spec == Init /\ [][Next]_vars

(***************************************************************************)
(* Properties.                                                             *)
(***************************************************************************)
\* Rows are well formed and one image fills a core slot, a person who was merged away
\* has none, and what a task waits for is a row's id that was given out.
TypeOK ==
    /\ rows \in [Id -> Row \cup {Free}] /\ next \in 1 .. MaxId + 1
    /\ \A i \in Id : rows[i] # Free => i < next /\ rows[i].person \in live
    /\ \A p \in Person, role \in Core : Cardinality(InRole(p, role)) <= 1
    /\ files \subseteq Person \X (1 .. next - 1) /\ torn \subseteq 1 .. next - 1
    /\ \A p \in Person : suppressed[p] \cup gone[p] \subseteq Url
    /\ \A p \in Person : known[p].ids \cup known[p].names \subseteq Record
    /\ live \subseteq Person /\ over \subseteq Person /\ muddled \subseteq Person \X Provider
    /\ \A t \in Task : task[t].pc \in {"file", "unlink"} => task[t].id \in 1 .. next - 1
    /\ up \/ \A t \in Task : task[t] = Idle

\* "The index never points at a file that isn't there" (api/person_images.go): a row
\* has its file, except while the file is being written or moved by the task at work on
\* it, and for a row that a crash, a failed rollback or a merge met in that moment.
RowHasFile ==
    \A i \in Id \ torn : rows[i] # Free =>
        \/ Filled(i)
        \/ \E t \in Task : At(t, "file") /\ task[t].id = i
        \/ \E o \in Owner :
              At(o, "settle") /\ task[o].person = rows[i].person /\ <<task[o].loser, i>> \in files

\* The gallery never shows the same photo of providers twice (F34, ADR-050), however
\* many passes store beside one another, and whatever a merge brings together.
NoTwins ==
    \A i, j \in Id \ (DOMAIN Images) :
        /\ i # j /\ rows[i] # Free /\ rows[j] # Free
        /\ rows[i].person = rows[j].person /\ Enriched(i) /\ Enriched(j)
        /\ rows[i].role = "extra" /\ rows[j].role = "extra"
        => rows[i].hash # rows[j].hash

\* A gallery is past its cap only after the owner, or a run of the owner's, asked for
\* more; a merge fills it to the cap and not beyond.
GalleryBound ==
    \A p \in live \ over : Cardinality(InRole(p, "extra")) <= GalleryCap

\* "Nothing the new record left out survives under the old id" (HOLODEX-610): unless two
\* tasks of one provider met, or a merge, everything a provider wrote of a person is of
\* one record - at rest, at every step of a clear or a rematch, and after one that failed.
OneRecord ==
    \A p \in live, q \in Provider :
        \/ <<p, q>> \in muddled
        \/ Cardinality(Written(p, q) \cup OfProvider(q, known[p].ids \cup known[p].names)
                        \cup OfProvider(q, {rows[i].record : i \in {j \in Of(p) : Enriched(j)}})) <= 1

\* An image the owner chose goes by the owner's hand: the upload or promotion that takes
\* its slot, a deletion, a merge.  Neither a pass nor a clear takes it away - save a pass
\* that looked at the slots before the owner filled this one, or could not look - and a
\* boot takes only a gallery image it finds another copy of.
OwnerImagesStay == [][
    \A i \in Id : rows[i] # Free /\ ByOwner(i) /\ rows'[i] = Free =>
        \/ \E o \in Owner : task'[o].pc \in {"file", "unlink", "settle"} /\ task'[o] # task[o]
        \/ \E o \in Owner : At(o, "file") /\ task[o].id = i
        \/ \E e \in Pass : task'[e] # task[e] /\ (task[e].blind \/ i >= task[e].since)
        \/ ~up /\ rows[i].role = "extra"
             /\ \E j \in Of(rows[i].person) \ {i} : rows[j].bytes = rows[i].bytes]_vars

\* A photo the owner deleted is not brought back by a pass that began its downloads
\* after the deletion (ADR-043), through merges of the person it was deleted from.
DeletedStaysAway == [][
    \A i \in Id, e \in Pass :
        /\ rows[i] = Free /\ rows'[i] # Free /\ task'[e] # task[e] /\ ~task[e].blind
        /\ rows'[i].role = "extra"
        => rows'[i].url \notin task[e].knew]_vars

=============================================================================
