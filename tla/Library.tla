------------------------------ MODULE Library ------------------------------
(***************************************************************************)
(* The library and the disk it mirrors: the scanner's passes               *)
(* (internal/scanner), the rows of videos they write (internal/repo), the  *)
(* owner's Trash (F24) and the purge (internal/purge), beside the owner    *)
(* moving files about while all of it runs.                                *)
(*                                                                         *)
(* A content stands for a file's bytes with its size, mtime and extracted  *)
(* facts, so a file that is moved keeps it and a file that is edited gets  *)
(* another one.  One number stands for the owner's edits of a row: the     *)
(* moment of the newest of them.  What is modelled elsewhere is left out:  *)
(* the rename journal (FileRename) and held originals (HeldSwap), which    *)
(* can only hold a fold or a purge back; a fold or a purge held back is a  *)
(* fault here.                                                             *)
(***************************************************************************)
EXTENDS Naturals, FiniteSets, FiniteSetsExt

CONSTANTS
    Path,         \* paths under the media root
    Content,      \* what a file can hold
    Nothing,      \* no file, or no row
    Size,         \* byte size of each content
    Start,        \* the disk when the library was first scanned
    RemoveFiles,  \* delete_remove_files
    MaxRow,       \* bound: rows ever inserted
    MaxEvent      \* bound: changes to the files, edits, deletions, restores and
                  \* failures together

ASSUME StartAssumption == Start \in [Path -> Content \cup {Nothing}] /\ Nothing \notin Content
ASSUME SizeAssumption == Size \in [Content -> Nat]
ASSUME RemoveAssumption == RemoveFiles \in BOOLEAN
ASSUME BoundsAssumption ==
    /\ MaxRow \in Nat /\ MaxEvent \in Nat /\ IsFiniteSet(Path)
    /\ Cardinality({p \in Path : Start[p] # Nothing}) <= MaxRow

VARIABLES
    disk,      \* content of each path
    row,       \* the videos table
    lastId,    \* its AUTOINCREMENT counter
    pc,        \* where the pass stands: "idle", "walk", "match", "fold"
    todo,      \* paths the walk has still to reach
    jobs,      \* files a worker has read and not yet stored
    seen,      \* rows recorded as seen this pass
    anyFile,   \* the walk has seen a media file
    held,      \* new files held until the walk ends
    cand,      \* the missing rows each held file may be
    folds,     \* pairs of rows this pass has still to fold
    purging,   \* items the sweep or a purge-now is working on
    events,    \* changes, edits, deletions, restores and failures so far
    quiet,     \* history: nothing has disturbed the pass under way
    settled,   \* history: a quiet pass ended and nothing happened since
    home       \* history: the row a content was first stored in, while its files only moved

pass == <<pc, todo, jobs, seen, anyFile, held, cand, folds>>
hist == <<quiet, settled, home>>
table == <<row, lastId>>
vars == <<disk, table, pass, purging, events, hist>>

Id == 1 .. MaxRow
Row == [path : Path, content : Content, fp : BOOLEAN, active : BOOLEAN,
        trash : {"live", "trash"}, edit : 0 .. MaxEvent]
ASSUME NoRowAssumption == Nothing \notin Row
Rows == {i \in Id : row[i] # Nothing}
Live == {i \in Rows : row[i].trash = "live"}
Visible == {i \in Live : row[i].active}
At(p) == {i \in Rows : row[i].path = p}

\* sameContentSQL between row h and a file or row with content c: by fingerprint
\* when h has one, and otherwise by the recorded facts.
SameContent(h, c, fp) == row[h].content = c /\ (row[h].fp => fp)

FoldEvidence(h, n) ==
    /\ h < n /\ h \in Live /\ ~row[h].active /\ n \in Visible
    /\ SameContent(h, row[n].content, row[n].fp)

\* The one-to-one pairs of FoldPairs.
FoldPairs ==
    LET all == {q \in Id \X Id : FoldEvidence(q[1], q[2])}
    IN  {q \in all : \A r \in all : (r[1] = q[1] \/ r[2] = q[2]) => r = q}

Disturb == quiet' = FALSE /\ settled' = FALSE

Event == events < MaxEvent /\ events' = events + 1

\* What may leave a pass short of the disk: a failure, or a change behind its back.
Fault == Event /\ Disturb

Forget(C) == home' = [c \in Content |-> IF c \in C THEN Nothing ELSE home[c]]

Init ==
    LET files == {p \in Path : Start[p] # Nothing}
        order == CHOOSE f \in [files -> 1 .. Cardinality(files)] :
                    \A p, q \in files : f[p] = f[q] => p = q
    IN  /\ disk = Start
        /\ lastId = Cardinality(files)
        /\ row = [i \in Id |->
                    IF \E p \in files : order[p] = i
                    THEN [path |-> CHOOSE p \in files : order[p] = i,
                          content |-> Start[CHOOSE p \in files : order[p] = i],
                          fp |-> TRUE, active |-> TRUE, trash |-> "live", edit |-> 0]
                    ELSE Nothing]
        /\ home = [c \in Content |->
                    IF Cardinality({p \in files : Start[p] = c}) = 1
                    THEN order[CHOOSE p \in files : Start[p] = c] ELSE Nothing]
        /\ pc = "idle" /\ todo = {} /\ jobs = {} /\ seen = {} /\ anyFile = FALSE
        /\ held = {} /\ cand = <<>> /\ folds = {} /\ purging = {}
        /\ events = 0
        /\ quiet = FALSE /\ settled = TRUE

---------------------------------------------------------------------------
(* The owner's files, changed by hand.                                     *)

World == Event /\ Disturb /\ UNCHANGED <<table, pass, purging>>

\* Once a file appears at a path that belongs to another row, beside another copy of
\* itself, or while a second row of its content exists or is about to, which row it
\* belongs to is no longer told by its content.
Foreign(c, p) ==
    {row[i].content : i \in {j \in At(p) : row[j].content # c \/ row[j].trash # "live"}}
        \cup {f.content : f \in {g \in jobs \cup held : g.path = p}}

Muddled(c, p, copies) ==
    Foreign(c, p) \cup
        IF \/ copies > 0 \/ Foreign(c, p) # {}
           \/ Cardinality({i \in Rows : row[i].content = c}) > 1
           \/ \E f \in jobs \cup held : f.content = c
        THEN {c} ELSE {}

Put(p, c) ==
    /\ disk[p] = Nothing
    /\ disk' = [disk EXCEPT ![p] = c]
    /\ Forget(Muddled(c, p, Cardinality({q \in Path : disk[q] = c})))
    /\ World

Take(p) ==
    /\ disk[p] # Nothing
    /\ disk' = [disk EXCEPT ![p] = Nothing]
    /\ UNCHANGED home
    /\ World

Move(p, q) ==
    /\ disk[p] # Nothing /\ disk[q] = Nothing
    /\ disk' = [disk EXCEPT ![p] = Nothing, ![q] = disk[p]]
    /\ Forget(Muddled(disk[p], q, 0))
    /\ World

---------------------------------------------------------------------------
(* A pass: the walk and its workers.                                       *)

\* scanMu admits one pass; TriggerRescan, the ticker and the watcher start it.
StartPass ==
    /\ pc = "idle"
    /\ pc' = "walk" /\ todo' = Path /\ seen' = {} /\ anyFile' = FALSE
    /\ quiet' = TRUE
    /\ UNCHANGED <<disk, table, jobs, held, cand, folds, purging, events, settled, home>>

Saw(p) == pc = "walk" /\ p \in todo /\ disk[p] # Nothing /\ todo' = todo \ {p} /\ anyFile' = TRUE

WalkPast(p) ==
    /\ pc = "walk" /\ p \in todo /\ disk[p] = Nothing
    /\ todo' = todo \ {p}
    /\ UNCHANGED <<disk, table, pc, jobs, seen, anyFile, held, cand, folds, purging, events, hist>>

\* A directory that cannot be read is skipped, and with it its files; a pass that
\* is cancelled, or whose root fails, goes on with what it has seen.
WalkSkips(P) ==
    /\ pc = "walk" /\ P # {} /\ P \subseteq todo
    /\ todo' = todo \ P
    /\ Fault
    /\ UNCHANGED <<disk, table, pc, jobs, seen, anyFile, held, cand, folds, purging, home>>

\* The file's row is in Trash: seen, and left as it is.
IndexTrashed(p) ==
    /\ Saw(p)
    /\ \E i \in At(p) \ Live : seen' = seen \cup {i}
    /\ UNCHANGED <<disk, table, pc, jobs, held, cand, folds, purging, events, hist>>

\* Changed within MinAge: left alone this pass, its row seen.
IndexYoung(p) ==
    /\ Saw(p) /\ At(p) \subseteq Live
    /\ seen' = seen \cup At(p)
    /\ Fault
    /\ UNCHANGED <<disk, table, pc, jobs, held, cand, folds, purging, home>>

\* Mutant: the row of an unchanged file is not shown again.
ShownNot(i) == [row EXCEPT ![i].fp = TRUE]

\* A missing fingerprint is filled in, a hidden row is shown again.
Shown(i) == [row EXCEPT ![i].active = TRUE, ![i].fp = TRUE]

IndexUnchanged(p) ==
    /\ Saw(p)
    /\ \E i \in At(p) \cap Live :
          /\ row[i].content = disk[p]
          /\ row' = Shown(i)
          /\ seen' = seen \cup {i}
    /\ UNCHANGED <<disk, lastId, pc, jobs, held, cand, folds, purging, events, hist>>

\* The fingerprint that was missing cannot be read this time either.
IndexStillUnprinted(p) ==
    /\ Saw(p)
    /\ \E i \in At(p) \cap Live :
          /\ row[i].content = disk[p] /\ ~row[i].fp
          /\ row' = [row EXCEPT ![i].active = TRUE]
          /\ seen' = seen \cup {i}
    /\ Fault
    /\ UNCHANGED <<disk, lastId, pc, jobs, held, cand, folds, purging, home>>

\* New or changed: the file is extracted, and what it holds is now in a worker's
\* hands.
IndexRead(p) ==
    /\ Saw(p)
    /\ \A i \in At(p) : i \in Live /\ row[i].content # disk[p]
    /\ jobs' = jobs \cup {[path |-> p, content |-> disk[p], known |-> At(p) # {}]}
    /\ UNCHANGED <<disk, table, pc, seen, held, cand, folds, purging, events, hist>>

\* The extraction fails: the file's row is not seen either.
IndexFails(p) ==
    /\ Saw(p)
    /\ \A i \in At(p) : i \in Live /\ row[i].content # disk[p]
    /\ Fault
    /\ UNCHANGED <<disk, table, pc, jobs, seen, held, cand, folds, purging, home>>

\* Mutant: the upsert clears deleted_at.
StoredUndeleted(i, c, fp) ==
    [row EXCEPT ![i].content = c, ![i].fp = fp, ![i].active = TRUE, ![i].trash = "live"]

\* The row of a path takes what was read there; one in Trash stays in Trash.
Stored(i, c, fp) == [row EXCEPT ![i].content = c, ![i].fp = fp, ![i].active = TRUE]

UpsertVideo(p, c, fp) ==
    \/ \E i \in At(p) :
          /\ row' = Stored(i, c, fp)
          /\ seen' = seen \cup {i}
          /\ UNCHANGED lastId
    \/ /\ At(p) = {} /\ lastId < MaxRow
       /\ lastId' = lastId + 1
       /\ row' = [row EXCEPT ![lastId'] = [path |-> p, content |-> c, fp |-> fp,
                              active |-> TRUE, trash |-> "live", edit |-> 0]]
       /\ seen' = seen \cup {lastId'}

HasSizeTwin(c) == \E i \in Live : Size[row[i].content] = Size[c]

\* The worker stores what it read.  A new file some row's size matches is held.
IndexHold(j) ==
    /\ j \in jobs /\ ~j.known /\ HasSizeTwin(j.content)
    /\ jobs' = jobs \ {j}
    /\ held' = held \cup {[path |-> j.path, content |-> j.content]}
    /\ UNCHANGED <<disk, table, pc, todo, seen, anyFile, cand, folds, purging, events, hist>>

IndexCommit(j) ==
    /\ j \in jobs /\ (j.known \/ ~HasSizeTwin(j.content))
    /\ jobs' = jobs \ {j}
    /\ UpsertVideo(j.path, j.content, TRUE)
    /\ UNCHANGED <<disk, pc, todo, anyFile, held, cand, folds, purging, events, hist>>

\* The fingerprint fails: stored as unknown, and a new file is not held.
IndexUnprinted(j) ==
    /\ j \in jobs
    /\ jobs' = jobs \ {j}
    /\ UpsertVideo(j.path, j.content, FALSE)
    /\ Fault
    /\ UNCHANGED <<disk, pc, todo, anyFile, held, cand, folds, purging, home>>

---------------------------------------------------------------------------
(* The end of a pass: moves are matched, missing rows hidden, moves healed. *)

MoveCandidates(h) ==
    {i \in Live : /\ SameContent(i, h.content, TRUE)
                  /\ ~(row[i].active /\ i \in seen)
                  /\ disk[row[i].path] = Nothing}

EndWalk ==
    /\ pc = "walk" /\ todo = {} /\ jobs = {}
    /\ pc' = "match"
    /\ cand' = [h \in held |-> MoveCandidates(h)]
    /\ UNCHANGED <<disk, table, todo, jobs, seen, anyFile, held, folds, purging, events, hist>>

\* Exactly one candidate, which no other held file claims.
OneToOne(h, i) == cand[h] = {i} /\ \A g \in DOMAIN cand : i \in cand[g] => g = h

RepointVideo(h) ==
    /\ pc = "match" /\ h \in held
    /\ \E i \in Live :
          /\ OneToOne(h, i)
          /\ row' = [row EXCEPT ![i].path = h.path, ![i].content = h.content,
                                ![i].fp = TRUE, ![i].active = TRUE]
          /\ seen' = seen \cup {i}
    /\ held' = held \ {h}
    /\ UNCHANGED <<disk, lastId, pc, todo, jobs, anyFile, cand, folds, purging, events, hist>>

\* No candidate, several, or one that has since been deleted: a new video.
MatchNew(h) ==
    /\ pc = "match" /\ h \in held
    /\ ~\E i \in Live : OneToOne(h, i)
    /\ held' = held \ {h}
    /\ UpsertVideo(h.path, h.content, TRUE)
    /\ UNCHANGED <<disk, pc, todo, jobs, anyFile, cand, folds, purging, events, hist>>

\* DeactivateExcept, unless the walk saw no file at all; then FoldPairs.
DeactivateExcept ==
    /\ pc = "match" /\ held = {} /\ anyFile
    /\ row' = [i \in Id |-> IF i \in Rows \ seen
                            THEN [row[i] EXCEPT !.active = FALSE] ELSE row[i]]
    /\ pc' = "fold"
    /\ folds' = FoldPairs'
    /\ UNCHANGED <<disk, lastId, todo, jobs, seen, anyFile, held, cand, purging, events, hist>>

\* Mutant: the older row's edit is kept whatever the newer one has.
CarriedOlder(o, n) == row[o].edit
\* The newer row's edit, where it has one.
Carried(o, n) == IF row[n].edit > 0 THEN row[n].edit ELSE row[o].edit

\* Mutant: the newer row is the one that stays.
FoldedNewer(o, n) == [row EXCEPT ![n].edit = Carried(o, n), ![o] = Nothing]

\* The older row keeps its id and takes the newer one's file.
Folded(o, n) ==
    [row EXCEPT ![o] = [row[n] EXCEPT !.edit = Carried(o, n)], ![n] = Nothing]

FoldMovedVideo(o, n) ==
    /\ pc = "fold" /\ <<o, n>> \in folds
    /\ folds' = folds \ {<<o, n>>}
    /\ row' = IF FoldEvidence(o, n) THEN Folded(o, n) ELSE row
    /\ UNCHANGED <<disk, lastId, pc, todo, jobs, seen, anyFile, held, cand, purging, events, hist>>

\* Queued or held work on a side of the pair keeps it for a later pass.
FoldHeldBack(o, n) ==
    /\ pc = "fold" /\ <<o, n>> \in folds
    /\ folds' = folds \ {<<o, n>>}
    /\ Fault
    /\ UNCHANGED <<disk, table, pc, todo, jobs, seen, anyFile, held, cand, purging, home>>

EndPass ==
    /\ \/ pc = "fold" /\ folds = {}
       \/ pc = "match" /\ held = {} /\ ~anyFile
    /\ pc' = "idle" /\ cand' = <<>> /\ seen' = {} /\ anyFile' = FALSE
    /\ settled' = (settled \/ (quiet /\ anyFile))
    /\ UNCHANGED <<disk, table, todo, jobs, held, folds, purging, events, quiet, home>>

\* The process ends and starts again: a pass and a purge leave what they wrote.
Restart ==
    /\ pc' = "idle" /\ todo' = {} /\ jobs' = {} /\ seen' = {} /\ anyFile' = FALSE
    /\ held' = {} /\ cand' = <<>> /\ folds' = {} /\ purging' = {}
    /\ Fault
    /\ UNCHANGED <<disk, table, home>>

---------------------------------------------------------------------------
(* The owner's edits and Trash, and the purge.                             *)

Edit(i) ==
    /\ i \in Visible /\ Event
    /\ row' = [row EXCEPT ![i].edit = 1 + Max({row[j].edit : j \in Rows})]
    /\ UNCHANGED <<disk, lastId, pass, purging, hist>>

SoftDelete(i) ==
    /\ i \in Live /\ Event
    /\ row' = [row EXCEPT ![i].trash = "trash"]
    /\ Forget({row[i].content})
    /\ UNCHANGED <<disk, lastId, pass, purging, quiet, settled>>

Restore(i) ==
    /\ i \in Rows \ Live
    /\ row' = [row EXCEPT ![i].trash = "live"]
    /\ Fault
    /\ UNCHANGED <<disk, lastId, pass, purging, home>>

Purging == [id : Id, path : Path, step : {"trash", "file", "row"}, by : {"sweep", "owner"}]

\* The sweep reads once which rows are past their grace, and their paths; the
\* sweeps follow one another.
Sweep ==
    \E due \in SUBSET (Rows \ Live) :
        /\ due # {} /\ \A t \in purging : t.by # "sweep"
        /\ purging' = purging \cup {[id |-> i, path |-> row[i].path, step |-> "file", by |-> "sweep"]
                                      : i \in due}
        /\ UNCHANGED <<disk, table, pass, events, hist>>

\* PurgeNow reads the path, moves the row to Trash, and purges it.
PurgeNow(i) ==
    /\ i \in Rows /\ Event
    /\ \A t \in purging : t.by # "owner"
    /\ purging' = purging \cup {[id |-> i, path |-> row[i].path, step |-> "trash", by |-> "owner"]}
    /\ UNCHANGED <<disk, table, pass, hist>>

PurgeTrash(t) ==
    /\ t \in purging /\ t.step = "trash"
    /\ IF t.id \in Rows
       THEN /\ purging' = (purging \ {t}) \cup {[t EXCEPT !.step = "file"]}
            /\ row' = [row EXCEPT ![t.id].trash = IF @ = "live" THEN "trash" ELSE @]
            /\ Forget({row[t.id].content})
       ELSE /\ purging' = purging \ {t}
            /\ UNCHANGED <<row, home>>
    /\ UNCHANGED <<disk, lastId, pass, events, quiet, settled>>

\* The file first; one already gone is as good as removed.
PurgeFile(t) ==
    /\ t \in purging /\ t.step = "file"
    /\ purging' = (purging \ {t}) \cup {[t EXCEPT !.step = "row"]}
    /\ disk' = IF RemoveFiles THEN [disk EXCEPT ![t.path] = Nothing] ELSE disk
    /\ Disturb
    /\ UNCHANGED <<table, pass, events, home>>

\* The file cannot be removed, or a maintenance job holds it: left for a retry.
PurgeFails(t) ==
    /\ t \in purging /\ t.step = "file"
    /\ purging' = purging \ {t}
    /\ Fault
    /\ UNCHANGED <<disk, table, pass, home>>

Deleted(i) == [row EXCEPT ![i] = Nothing]

HardDelete(t) ==
    /\ t \in purging /\ t.step = "row"
    /\ purging' = purging \ {t}
    /\ row' = Deleted(t.id)
    /\ home' = [c \in Content |-> IF home[c] = t.id THEN Nothing ELSE home[c]]
    /\ Disturb
    /\ UNCHANGED <<disk, lastId, pass, events>>

---------------------------------------------------------------------------

Scan ==
    \/ StartPass \/ EndWalk \/ DeactivateExcept \/ EndPass
    \/ \E p \in Path : \/ WalkPast(p) \/ IndexTrashed(p) \/ IndexYoung(p)
                        \/ IndexUnchanged(p) \/ IndexStillUnprinted(p) \/ IndexRead(p) \/ IndexFails(p)
    \/ \E P \in SUBSET Path : WalkSkips(P)
    \/ \E j \in jobs : IndexHold(j) \/ IndexCommit(j) \/ IndexUnprinted(j)
    \/ \E h \in held : RepointVideo(h) \/ MatchNew(h)
    \/ \E q \in folds : FoldMovedVideo(q[1], q[2]) \/ FoldHeldBack(q[1], q[2])

Trash ==
    \/ \E i \in Id : SoftDelete(i) \/ Restore(i) \/ PurgeNow(i)
    \/ Sweep
    \/ \E t \in purging : PurgeTrash(t) \/ PurgeFile(t) \/ PurgeFails(t) \/ HardDelete(t)

Next ==
    \/ Scan \/ Trash \/ Restart
    \/ \E i \in Id : Edit(i)
    \/ \E p \in Path : Take(p) \/ (\E c \in Content : Put(p, c)) \/ (\E q \in Path : Move(p, q))

Spec == Init /\ [][Next]_vars

---------------------------------------------------------------------------

TypeOK ==
    /\ disk \in [Path -> Content \cup {Nothing}]
    /\ row \in [Id -> Row \cup {Nothing}] /\ lastId \in 0 .. MaxRow
    /\ pc \in {"idle", "walk", "match", "fold"} /\ todo \subseteq Path
    /\ jobs \subseteq [path : Path, content : Content, known : BOOLEAN]
    /\ held \subseteq [path : Path, content : Content]
    /\ seen \subseteq Id /\ anyFile \in BOOLEAN /\ folds \subseteq Id \X Id
    /\ DOMAIN cand \subseteq [path : Path, content : Content]
    /\ purging \subseteq Purging
    /\ home \in [Content -> Id \cup {Nothing}] /\ {quiet, settled} \subseteq BOOLEAN
    /\ events \in 0 .. MaxEvent

\* After a pass nothing disturbed, the rows mirror the disk: every file is a visible
\* video with the file's facts or is in Trash, and every visible video has its file
\* (ADR-018).  The index of a file, the match of a move, the hiding of missing rows
\* and the heal each see only a part of it, and deletions may fall between them.
Mirrored ==
    settled =>
        /\ \A p \in Path : disk[p] # Nothing =>
              \E i \in At(p) : i \notin Live \/ (i \in Visible /\ row[i].content = disk[p])
        /\ \A i \in Visible : disk[row[i].path] = row[i].content

\* A file that is only moved keeps its row, with all that hangs on it, whenever the
\* move lands: between passes, before or after the walk has been at either path,
\* beside a failed fingerprint or an interrupted pass (F79).  Told once a quiet pass
\* has ended.
MovesKeepTheRow ==
    settled => \A p \in Path :
        (disk[p] # Nothing /\ home[disk[p]] # Nothing) =>
            home[disk[p]] \in Visible /\ row[home[disk[p]]].path = p

\* No two rows come to hold one path, so that the UNIQUE of file_path never refuses
\* a repoint, an insert or a fold half-way.
OneRowPerPath == \A i, j \in Rows : row[i].path = row[j].path => i = j

\* What a run keeps of all this: the rows mirror the disk after a quiet pass, a file that
\* only moved has the row it had, and no two rows are at one path (scanner.go, move.go,
\* video_fold.go: ADR-018, F79).
LibraryKept == TypeOK /\ Mirrored /\ MovesKeepTheRow /\ OneRowPerPath

\* Only the owner brings a row back from Trash: not the storing of a file read
\* before the deletion, not a repoint, not a fold (F24).
OnlyRestored == [][\A i \in Id : i \in Rows \ Live /\ i \in Live' => Restore(i)]_vars

\* A live row goes only under a purge, or into the survivor of a fold, which is then
\* at its path and has its edits.
EditsFollow ==
    [][\A i \in Live : i \in Rows' \/ (\E t \in purging : HardDelete(t))
          \/ \E o \in Live' : /\ row'[o].path = row[i].path
                               /\ row[i].edit # 0 => row'[o].edit = row[i].edit]_vars

=============================================================================
