# Holodex: specification and verification

Holodex is a self-hosted catalogue of video files. One Go process scans a
library directory, keeps a SQLite catalogue of it, asks metadata providers about
it, serves an HTTP API and a web front end and, in the background, *changes the
owner's files*: it writes tags into them, re-encodes them, renames them and
purges them. The catalogue is more than a cache of the files: it holds what the
owner decided, added, removed, merged and answered. The specifications here are
about both halves: nothing happens to a file that its owner did not ask for, and
nothing the owner said is lost or undone.

## Inventory

### The parts, their state and their operations

| part | code (`src/internal/`) | state | operations |
|---|---|---|---|
| write queue | `writequeue/`, `repo/writequeue.go` | `writeback_queue`, wake-up channels, `job_runs`, snapshots | enqueue, claim, finish, requeue, retry, dismiss, clear, revert, boot recovery |
| held originals and the swap | `maintenance/swap.go`, `worker.go`, `repo/held_originals.go` | the file, its candidate and its original; `held_originals` | flip, restore, discard, expiry, recovery, orphan sweep |
| file rename | `rename/`, `repo/rename_queue.go`, `writequeue/rename.go` | names of files, `file_renames` | plan, move, step aside, wait, unwind, undo, recovery, read back |
| library | `scanner/`, `purge/`, `repo/repo.go`, `video_move.go`, `video_fold.go`, `delete.go` | `videos` | walk, hold and match a moved file, fold two rows, deactivate, delete, restore, purge |
| posters | `thumbnail/`, `writeback/localposter.go` | slots and served files, `thumb_state`, the ledger | extract, generate, choose, upload, remove, write into the file |
| montages | `montage/` | two-tier queue in memory, files | request, bump, make, invalidate |
| enrichment | `enrich/` | token bucket, pause and breaker of a provider; the sweep | refresh a pair, sweep, click, dismiss |
| images of entities | `imagesink/`, `enrich/service.go`, `repo/person_images.go` | image rows and files, suppressions | store, retire, upload, promote, delete, clear a match, backfill |
| registry | `repo/identity*.go`, `aliases.go`, `review_queue.go`, `orphans.go` | entities, aliases, external ids, links, the review queue | find or create, merge, split, rename, alias, dismiss, delete, sweep |
| tags | `repo/categories.go`, `tag_*.go`, `api/genre_writeback.go` | tags, categories, denylist, tree | create, rename, deny, parent, write genres |
| resolver | `resolver/`, `api/decisions.go`, `api/curation.go` | decisions, curation | decide, pin, add, remove, lift, write back |
| provider keys | `api/field_promotions.go`, `field_claims.go`, `repo/claims.go` | two tables, two caches | promote, claim, clear |
| resolved store | `repo/completeness.go`, `resolved_values.go` | scores, index, dirty marks, fingerprint | mark, drain, heal, reload, boot |
| links of a video | `api/decisions.go`, `repo/studios.go`, `video_collision.go` | studio and credits of a video | decide, curate, relink, gate, backfill |
| films | `repo/films.go`, `film_delete.go` | films, members, aliases, trash | create, rename, date, merge, attach, trash, restore, purge |
| playlists | `repo/playlists.go`, `api/playlists.go` | lists, members, saved queries | edit, publish, freeze, merge, delete |
| duplicate videos | `repo/video_pairs.go` | pairs, answers | keep one, keep both, label |
| queries | `query/`, `repo/query_compile.go` | none (a stored text) | parse, bind, print, compile |
| lists, search, shelves | `repo/repo.go`, `api/handlers.go`, `api/paging.go`, `api/media_brief.go`, `mcp/mcp.go`, the client's `sparseList` | none of its own; a client's pages | filter, sort, page, count, index, search, relate |
| file-name metadata | `extract/`, `repo/extraction_review.go` | review rows, shadow values | extract, score, write or ask, answer |
| re-encode pipeline, tag writer, probing, the rest of the API, settings, metrics, web, TMDB provider | several | static, external or read-only | not modelled; reasons in `PROJECT.json` |

### How they interact

* A handler of the API reads in one transaction and writes in another. Every
  repository call holds `writeMu` over one SQLite connection: it is one action.
* Handlers insert rows of `writeback_queue` and kick a lane's channel (capacity
  one). The *write* lane (tag writes, reverts, renames) and the *maintenance* lane
  poll the table and meet in one SQL statement, `claimNext`, which refuses a row
  whose video has a running row of any kind.
* The maintenance worker journals its intent in `held_originals`, the rename
  worker in `file_renames`; both journals are replayed at boot before anything
  else runs. The server, the queue and the maintenance worker then start in
  goroutines, in no order. A shutdown waits for none of them.
* The scanner, the providers and the owner write the inputs of a video's fields;
  triggers mark the video dirty; a drain resolves it and stores score, index and
  links. Pages resolve on the fly and may heal what is stale.
* A merge in the registry rewrites links, saved queries, review rows and
  decisions; images follow; genres go back to the files through the queue.

### What is hard, and what makes it right

`PROJECT.json` lists 40 hazards at their lines. In short: two lanes over one
table; a lost wake-up; a crash between any two renames, between a rename and its
journal, between a job's effect and its row; a rollback that fails; renames that
wait for each other in a circle; a scan that stores what it read seconds ago; a
token handed back that others counted on; a pause that comes while a caller is on
its way; a cache filled by a reader after the writer dropped it; the same rule
computed by three pieces of code; a request that acts on what was true when it
looked; a stored text that must parse again.

## Modules

Every component has a module of its own; those of one area are checked together
by one MC module, in which `part` says which of them runs while the others rest in
their first state, so that a property of one is a property of every behaviour.

| module | what it is | state and actions, in the code's terms |
|---|---|---|
| `WriteQueue` | the queue | the table (ids only: `RequeueWriteback` is the only operation that sets a later `enqueued_at`, and it takes a higher id too), lanes, workers' places in their loops, kicks, a `writebackMedia` request between its insert and its clear; a job's file work is one step with either outcome |
| `HeldOriginal` | abstract: what maintenance promises the owner of one file | `Swap` keeps the first original, `Restore` gives it back, `Discard` lets it go |
| `HeldSwap` | worker, journal, renames, recovery, expiry, orphan sweep of one video | each rename, removal and repository call is a step; a call fails exactly when the context is cancelled, a file operation when a fault strikes; refines `HeldOriginal` |
| `FileRename` | the rename jobs of a folder | a move takes whatever file answers to the name, and `at` says whose it was; each move and each journal write is a step; `FoldKey` says which names differ in case only |
| `FileNaming` | names from templates, the plan of a folder, reading back, locked and held names | a name is a sequence of symbols; a rename by hand outside Holodex locks the name |
| `Library` | scan, move matching, fold, trash, purge | the walk, the stat check, extraction and store of each file are steps; the owner moves files meanwhile |
| `TagWrite` | a write of a video's tags | snapshot, write, ledger, re-index and the two queries of a batch's status are steps, with the end of the process between; one queue of jobs, of which `WriteQueue` shows that a video runs one |
| `Poster`, `MediaQueue` | a video's poster; the montages | requests, worker and boot take turns at every file operation |
| `EnrichSweep` | pacer, sweep and clicks | time in ticks of one token; waits are what is left of them |
| `PersonImages` | images of two people | every row, file and suppression update of a pass is a step |
| `Identity`, `Taxonomy` | the registry; tags and categories | one transaction is one step on the record `db`; an alias by hand and an attached id are two |
| `Resolver`, `FieldSources` | which value a field shows; who has a say in it | `Resolver` is the pure algorithm, read at every step |
| `FieldKeys` | promotions and claims | two tables, two caches; a page, or a request that checks a claim, queries a table and stores what it read in the cache in two steps (`QueryPromotions`, `StorePromotions`, `QueryClaims`, `StoreClaims`); a write commits and then drops its caches (`DropClaims`, `DropPromotions`) |
| `ResolvedStore` | stored scores and index | a result is the inputs it was made from, so that a stale one shows |
| `VideoLinks` | studio and credits of a video, the collision gate | load, resolve and replace are steps of a request |
| `Films`, `Playlists`, `VideoPairs` | what videos are gathered in | a request looks first and writes later |
| `Browse` | lists, indexes, shelves and searches, and a client that pages | every answer is an operator over the rows; the steps are changes of the rows and the client's fetches, whose generation tells a late page from a current one; a request's count and its page read one state; the client drops only pages it has not read |
| `Query`, `QueryDates` | the query language; its dates | tokens, tree, canonical text, found videos; days of a calendar |
| `Extract`, `JaroWinkler` | file-name metadata; similarity | scores in hundredths; each run and each tab is a process |
| `*_proofs` | the theorems of the component of that name; `Fields_proofs` those of `FieldKeys`, `ResolvedStore`, `VideoLinks` and `TagWrite`, as `MCFields` composes them; `Images_proofs` those of `Poster` and `PersonImages`, as `MCImages` does; `FileRename_proofs` also those of `HeldSwap`, as `MCFileRename` does; `Films_proofs` also those of `VideoPairs`, as `MCCollections` does; `Identity_proofs` also those of `Taxonomy`, as `MCIdentity` does | - |
| `MCWriteQueue`, `MCSettles`, `MCSwaps`, `MCFileRename`, `MCLibrary`, `MCEnrichSweep`, `MCIdentity`, `MCImages`, `MCFields`, `MCCollections`, `MCQuery`, `MCTexts` | instances for TLC | - |

## Runs

| run | components | bounds |
|---|---|---|
| `queue_lanes` | `WriteQueue` | 2 videos, 2 + 1 workers, 2 jobs, a wait, a retry, 2 crashes |
| `settles` | `WriteQueue`, `FileRename`, liveness | 2 videos, 1 + 1 workers, 2 jobs, 1 crash; 3 names, 2 requests, 1 failed move, 1 end of the process |
| `files_safe` | `FileRename`, `HeldSwap` | 2 videos, 4 names of which two differ in case, 2 requests, 1 failed move, 1 foreign file, 1 end of the process; 3 requests, 1 fault, 2 ends of the process |
| `swap_settles` | `HeldSwap`, `MediaQueue`, liveness | 3 requests, 1 fault, 2 ends of the process; 2 videos, 2 makers, 3 events |
| `library` | `Library` | 3 paths, 2 contents, 7 rows, 3 events of the owner or the disk |
| `sweep` | `EnrichSweep` | 3 entities, 1 provider, 1 click, burst 1, pauses of 2 ticks, 2 acts |
| `identity` | `Identity`, `Taxonomy` | 3 ids, 3 names, 1 external id, 4 events; 3 tags, 5 steps |
| `images` | `Poster`, `PersonImages` | 2 images, 2 requests, 1 worker, 2 events; 2 people, 3 records, 2 passes, 1 owner, 2 events |
| `fields` | `FieldKeys`, `FieldSources`, `ResolvedStore`, `VideoLinks`, `TagWrite` | 4 provider keys, 3 writes, 1 reader; 4 shapes of a field, 3 steps; 2 videos, 4 steps; 2 videos, 2 steps; 2 videos of which one starts without the tag, 3 jobs, 4 events |
| `collections` | `Films`, `Playlists`, `VideoPairs`, `Browse` | 3 films, 2 titles, 2 videos, 5 steps (up to permutations); 3 lists, 3 steps, 2 clients; 2 copies, 4 steps; 3 videos, 6 names, 8 lists, 2 changes, 2 generations |
| `texts` | `Query`, `QueryDates`, `Extract`, `FileNaming`, `JaroWinkler` | every text of the alphabets, a year and ten days with a leap day, 3 file names, 2 videos of a folder, all pairs of names of up to four letters |
| `query_hours` | `Query`, a counterexample | durations beyond 277 hours |

What each property says is above its definition. Why the bounds are enough: a
conflict needs two actors and one thing; overtaking, swapping and crossing need two
videos or names, a chain needs a third; one crash gives a recovery, two a
recovery of a recovery; a fault gives a rollback. In the queue a conflict needs
two jobs of one video in different lanes, in the swap a flip, a second flip under the
standing hold and its end are the longest protocol there is, in a folder two
videos make the shortest cycle and a third name a chain. A merge followed by a
rescan, a trash followed by a purge, a claim followed by its clearing are two or
three steps; the bounds leave one or two for what comes between. `MaxWaits` is 2 for
the code's 20: enough to wait, wait again and give up. Every property has a mutant
of the code in `PROJECT.json` that the run refutes, so no property holds because the
bound is too small for its case to occur. The largest runs visit between seven
hundred thousand and one and a half million distinct states, each in under three minutes with two workers.

Deadlock is not checked where a process nobody calls is simply idle.

**Fairness.** The loops of workers, the boot, recovery and a handler in the middle
of its request are scheduled (Go schedules runnable goroutines, and handlers run
to their end). Nobody has to call the API, nothing assumes that a kick arrives
(`Poll`, the timer in both loops, is what `EveryJobSettles` needs: the mutant without
it fails), and a process is restarted only when it was told to stop. In the sweep
ticks pass and a goroutine that can go on does; providers may answer as badly as they
like. In the montages the still queue drains now and then.

## Where the code and what is said of it disagree

`query_hours` is a counterexample: `duration:300h` is accepted and stored as seconds,
which the parser refuses, so a smart playlist with it is broken from then on. The
passing run of the queries has no duration beyond 277 hours.

The others below were met while modelling. Where a property would fail for
one of them, its definition names the condition under which the code keeps it, and a history variable of the module
(its name in brackets) marks the states outside of it.

*Queue, swap, rename.* The maintenance worker starts beside, not after, the queue's
boot recovery (`early`; `main.go:565`, against `maintenance/worker.go:76` and
`repo/writequeue.go:181`). `writebackMedia` clears failed rows in a second transaction,
which can be the row of its own job, and the job then reads as done
(`api/writeback.go:428`). A flip that was swapped in before its row was finished is run
again on the flipped file (`maintenance/worker.go:182`). A flip can fail between the
expiry pass's look and its enqueue (`worker.go:145`). With two workers a video that
stepped aside can take the partner's file for its own landed rename; a stop between a
move to the via name and its journal row leaves the file there; a swap whose partner
failed is never put back (`half`, `Sheltered`; `docs/architecture/file-rename.md:115`,
`:124`). The write of tags and the promotion of ignored ones are two steps
(`writequeue.go:356`).

*Library.* A restored item is purged from a list read before (`purge.go:113`, against
`docs/specs/delete-media.md:84`). A fold keeps the newer *row's* edit, though the older
row's may be the later one (`video_fold.go:258`).

*Images.* An owner's upload is deleted as a duplicate by the boot backfill
(`repo/person_images.go:508`, against `docs/specs/people-images.md:236`); a pass whose
read of locked or suppressed images failed goes on without them (`blind`); a merge or
crash between row and file (`torn`, `muddled`, `over`). A poster's crash between slot and
row or before `Present` (`unnamed`, `torn`, `gap`); a regenerate asked while the job is
not yet done is dropped; a montage invalidated while one is made is swallowed by the
dedup set (`lost`).

*Enrichment.* A sleeper dials during a pause that began after it was let through; a wait
may exceed `burst/rps`; a retry wait may be shorter than a longer pause; a dismissal after
the check does not stop the pair (`beaten`); `persistRateLimit` can lose an update.

*Registry and tags.* An attached id may reach a dead entity (`stray`), an alias
shadow a name (`shadowed`), a near-miss be carried or excused (`carried`, `excuse`);
`ApplyProviderAliases` never flags near-misses (`provider_aliases.go:72`, against
`review_queue.go:91`). Renaming a tag to a category's name is a 500, to a denied term is
allowed (`tag_denylist.go:24`).

*Fields.* A key can be promoted and claimed at once (`repo/claims.go:68` says never), a
cache can hold what was queried before a commit (`raced`), a claim can move a winner that
is itself claimed. A field cleared on a gap is never written; removed values are told
wrongly when a value holds a separator. The store misses tag-alias and trust-order
changes (`unmarked`); reload re-scores without its fingerprint
(`completeness_boot.go:39`). The studio gate reads links replaced after the lock
(`racedChecks`); `backfillStudioLinks` returns once any link exists.

*Collections.* A film restored between the purge's list and its removal is removed
(`doomed`); a film's old title is lost as an alias; its same-title question is not asked
again after some merges (`unasked`). A PATCH checked before a freeze makes the snapshot
smart again (`revived`); a recycled playlist id makes a saved query follow another list
(migration 0051). `KeepOneVideo` puts a tag back that the owner took off the kept copy
(against RD4), and carries links without relinking or the gate.

*Lists and search.* A person with two roles in a video is counted twice, as the key of
`video_people` holds the role. `searchPeopleByAlias` applies its limit before it drops
people already found by name, so that a match by alias alone can be crowded out.
`SearchFilms` has no exact-name-first order and a limit of its own (25 for what is not
between 1 and 100). The comment of `getRelated`, "404 if missing/inactive (consistent
with getMedia)", is at odds with `getMedia`, which serves inactive videos.

*Texts.* Cast decisions are looked up under `people` while the mapping says `actors`; two
tabs answer one review row twice (`extract_review.go:88`); a row updated meanwhile is
answered with its older value. A date's upper bound in year 9999, canonical texts
over `MaxBytes`, a renamed file's delimiter missing in its record.

## Proofs

Theorems hold for every value of the constants: any number of videos, workers,
jobs, names, requests, faults and crashes. The assumptions are those named in the
modules: constants that stand for "none" are not members of what they are none of,
and bounds are natural numbers.

**The write-back queue** (`WriteQueue_proofs`). That no two rows of one video run
(`OneRunning`) is not inductive: a worker finishes by the id it holds, and recovery
resets rows under a worker's hands. The inductive invariant adds that a worker's row
is in the table and running (`ClaimHeld`), that no two workers hold one job, and that
who is at work has a job; it goes through because every deletion the API makes is of
failed rows. `FileExclusive` follows. `Audit` adds that a worker about to finish has
already recorded its run, `InOrder` that a running or failed row has been tried.

**Held originals** (`FileRename_proofs`). Types with the steps at which the worker and
the journal agree; each step of the swap and of its recovery is then a step of
`HeldOriginal` or none (`SwapImplements`), and the file is missing only between the two
renames (`FileSafe`).

**Renames** (`FileRename_proofs`). `NothingOverwritten` follows step by step from what
each step does to the files; `Typed` needs which steps of a job have a journal row.
`WholeAtRest` and `DoneIsTrue` do not hold for every instance, so their theorems say
when they do: with one worker (the default), as long as no job ends with its file at the
via name while the row has another (`[]Straight`). The invariant (`Sound`) says for each
step of a job where the file, the row and the journal stand (`Place`), that every other
video is at rest meanwhile and at most one is found elsewhere at boot (`Alone`), and that
no file is at a via name before one was moved there (`Unhalved`); shelter that is lost
stays lost (`ShelterLost`). `PlainRestsWhole` replaces `Straight` by a condition on the
names alone: where no two differ only in case, it holds (`Steady`), whatever fails. Where
two videos have such names TLC finds it broken without any failed move: one is left aside
waiting for the other's name, that one moves to the name the first's row still has and its
completion is refused, the first lands on the name so freed, and the next attempt, finding
files at both names, drops the row (`rename/worker.go`, `where`).

**The library** (`Library_proofs`). That no path has two rows needs what the passes hold:
a new file in a worker's hands, or held until the walk ends, is of a path without a row,
no path is in two hands, and none in hand is still ahead of the walk (`Apart`); ids and
edits are never ahead of their counters (`Fresh`). With it an upsert never revives a row
(`TrashStays`), and every step but a purge and a fold keeps every row (`EditsKept`). A
finite set of paths, and a start that fits the table, are assumed.

What the rows say of the disk (`RowsMirrorDisk`, `MovedFilesKeepRows`, together
`LibraryHolds`) speaks of the moment after a pass, and a pass acts on what it saw long
before. The invariant therefore follows a pass that nothing has disturbed: what it has in
hand, holds or has passed is so on disk, and the row a held file is matched with has lost
its own file (`Settling`, `Matched`); rows and contents have one home each, or are the pair
that the fold still to come will make one (`Homes`, `Alone`, `Healing`). A disturbance
makes all of this void until the next pass, and the theorem promises no more.

**Posters** (`Images_proofs`). `PosterInv` has nine parts: types, who holds which lock,
the upgrade of old posters, rows that name their slots save where a row is due, what the
ledger records, pictures that stay once made, a pair whose halves agree, the pair that is
the chosen image unless a Present is owed, and who is to find a picture for a video never
attempted: the queue, or a request that has still to extract or enqueue (`Sought`). The
five theorems are read off it. A reset goes on when its Present fails, as
`regenerateThumbnail` does: were it to end there, five requests and failures would leave
a video without a picture and out of the queue.

**Images of people** (`Images_proofs`, `ImagesHold`). `PeopleInv` has six parts, of which
three are the properties `RowHasFile`, `NoTwins` and `GalleryBound` with what they need.
`PeopleShape`: types, ids given in order and never again, one row in a core slot, and what
each task carries at each step. `Filing`: a row without its file is the row of a task about
to write it, whose id no other task holds, or has its file still with the loser of a merge
that is being settled. `Provenance` is what makes `OneRecord` inductive, and stronger than
a rest: for each step of a match or a clear it says how much of the old record is gone
(`InTurn` - the ids, then the names, the images, and the fields last, as
`clearPersonMatch` orders them), and that no two tasks write for one person and provider
unless the pair is in `muddled`; the fields, which carry the match, outlive everything
else, so a clear that fails at any step leaves one record. `Locks` is what
`OwnerImagesStay` and `DeletedStaysAway` need of a pass long after it looked: each slot
the owner had filled by then and that still holds the owner's image is locked, each URL
deleted by then is skipped, unless a lookup failed or a merge came between (`blind`); a row
whose file failed is the pass's own, so it is younger than the look. Assumed of the
library at the start: one row in a core slot, one record per provider and person,
galleries within the cap.

**Enrichment** (`EnrichSweep_proofs`). `OneTokenForOne` is inductive with the types: a
promise is later than every other, a turn is given back only by the latest, and a tick
shortens all. `DismissedNotDialed` needs that whoever is past the check met a pair that
was not dismissed or is marked as overtaken; `GivenUpAfterStreak` that a breaker counts
no more than the streak so far with the result not yet collected. `SweepSpares` puts
these together with the counts (`AddsUp`): the pairs done, refused and waiting are all
pairs, whatever order the results are collected in (`Tallied`). How far ahead a bucket may be promised is
not bounded, in the code as in the model.

**Fields** (`Fields_proofs`). Four components that `MCFields` composes, each with an
invariant of its own; every other part rests, so a theorem is of the component's own
specification. *Caches*: `CacheInv` says which drops are still to come at each step of a
write. *Store* (`StoreHolds`): that a video no drain is owed has its present score, index
and stamp. Whether a drain is owed is more than the dirty mark: a boot or a reload may
have compared its fingerprint and not yet marked (`Owed`). `StoreInv` adds what each
drain, page and reload holds in its hands: a result it computed is of the inputs as they
are, or the video is marked again (`ResultTrue`). *Links* (`LinksHold`): the links are those of the shown values
at rest, and what a request has loaded, resolved and not yet written is as good as when it
read it, or the video is in `racedChecks`; two videos that agree in all that makes a twin
were decided apart, forced, or checked too early (`TwinsInv`). *Tag writes* (`WritesHold`):
`WriteInv` says that a batch is named by the id of its first job and its jobs are of
different videos (`Batched`, so that batch and video name a job), that a snapshot's job
has reached the file and what it keeps is the file before (`Snapped`, `SnapshotPrior`),
that a ledger which differs from its file has the job that wrote it still to be audited
(`Audited`), and that the first half of a poll stays true until the second (`Polled`).

**Films** (`Films_proofs`). Ids are given in order and never again, so that a request, a
year to fill, an alias or a purge never means a later film (`Typed`); with it each part of
`FilmsKept` is inductive, the images' with the purge's own list (`ImagesWhole`).

**Copies** (`Films_proofs`, `CopiesKeep`). The shape of what is carried and that an answered pair stands among those kept apart
(`Worked`) is inductive; the rest is in the one step: a scene of either copy is a scene of
the kept one after it (`FilmsMove`), so what a decision picks from moves with it
(`CarriedResolves`).

**The registry** (`Identity_proofs`). Every operation is an operator on the tables, so
most lemmas are about those (`Created`, `Linking`, `Credit`, `Folded`, `PairsDropped`): what it keeps
and what it adds. A rescan credits a video with a set of names, each in the tables the one
before left (`Credited`, a function over the order of the names), and a merge moves a
loser's names, links and answers at once. The inductive invariant (`IInv`) has five
parts. `Held`: the tables are whole - unique names, no pair both asked about and settled,
a forest of tags, ids given in order - and the queue, aliases and ids name who lives, a
name is one entity's unless it was shadowed, and what is alike is asked about. `Rested`:
only what has no link waits to be swept, without which a sweep could take what a rescan
had linked. `Settled`: each name a rescan saw leads to an entity its video is linked to.
`Contest` and `Claim`: a claimant of a provider id is asked about with its owner, but for
the moment between an enrichment's record and its claim. From it follow `RegistryKept`,
`NamesTheLiving` and `QueueTells`, and, with the steps, `DismissedStays`. The exceptions
(`stray`, `shadowed`, `excuse`, `carried`) are those of the definitions, each with its
reason there.

**Tags and categories** (`Identity_proofs`, `TagsHold`). `TagInv` has five parts: names and
aliases lead to tags there are and a name is one tag's (`Spine`), parents, links and what
is kept off the file name tags there are (`Hung`), no tag has a category's name, no tag is
above itself, and what was removed is on record, so that no backfill restores it. The
genres of a video are made into tags in an order nobody fixes, and a backfill goes through
all tags: each is a function over its turns, and what it makes (`TagsGrown`, `Made`) is
proved by going to the first turn that fails. What is above a tag is the least set that
holds it and is closed under parents, so that a tag put under one it is not above stays
out of what is above itself (`RootedStill`), and what is above a video's tags are tags
(`GenresNamed`). That the walks down and up the tree end, which `UNION ALL` needs, is
`TreeRooted`.

**Only model-checked.** The liveness properties (`EveryJobSettles`, `JournalSettles`,
`RenameSettles`, `MontageSettles`, `SweepEnds`) are out of the prover's reach. So is
what needs induction over data: `OffersHold` and `WinnersStand` (the order of sources is
filtered and folded), `ListsHold` (sorted pages) and `NamesJudged` (patterns and similarity are recursive functions).
`QueriesMean`, `PlansRest` and `DatesHold` are of modules with recursive operators.

## Plan

1. The queue, the swap and the renames, with their proofs - done.
2. Library, media queue, posters, enrichment, registry, fields, collections, texts -
   done.
3. Proofs of the safety invariants - done, save those listed above with the reason.
4. Left for the model: the scan's effect on the rename journal, composed with
   `FileRename`; the mount without RENAME_NOREPLACE; film fields and cast; gallery
   order.

## Not modelled

Container formats and encoders (external tools), reads of the catalogue other than
`Browse`'s, parsing of containers, sessions, metrics, the transport of the MCP server, the
web client but for its paging list, and the provider process; `PROJECT.json` gives the reason for each. Database errors other than those
of a cancelled context, except in `Poster` and `PersonImages`, where any step may
fail. Per component: `FileRename` leaves out scans and the summary run; `FileNaming`
identity, part and year tokens; `Query` suggestions and the display tree;
`Playlists` sorting and caps; `Films` fields and cast; `VideoPairs` the preview and playback
positions; `VideoLinks` roles and dates; `FieldKeys` labels and order.
