------------------------------ MODULE TagWrite ------------------------------
(***************************************************************************)
(* A tag write from the owner's decision to the file and back: the tags of *)
(* a video (internal/repo/video_tags.go), the genre jobs made from them    *)
(* (internal/api), Queue.process with its snapshot, audit and re-read      *)
(* (internal/writequeue), the batches that are polled and reverted, beside *)
(* the owner's Refresh and a process that may end between any two steps.   *)
(*                                                                         *)
(* A file's Genre and its extra tag keys are one set of tags.  That at     *)
(* most one job of a video runs is what WriteQueue shows; here it is how   *)
(* a job is claimed.  A batch is known by the id of its first job.  Left   *)
(* out: fields other than genres, the ancestors of a tag, the genres a     *)
(* provider offers, a file changed by others (Library does that).          *)
(***************************************************************************)
EXTENDS Naturals, Functions

CONSTANTS
    Video,
    Tag,
    Nothing,   \* no row, no value
    Start,     \* the tags of each file when it was scanned
    MaxJob,    \* bound: rows ever inserted
    MaxEvent   \* bound: the owner's decisions, refreshes, crashes and failures together

StartAssumption == Start \in [Video -> SUBSET Tag]
BoundsAssumption == MaxJob \in Nat /\ MaxEvent \in Nat

VARIABLES
    queue,      \* writeback_queue: id -> row
    lastId,     \* its AUTOINCREMENT counter
    work,       \* what the worker of each video holds
    file,       \* the tags in each file
    link,       \* video_tags: where each video has each tag from
    suppressed, \* metadata_curation: tags the owner removed from each video
    off,        \* tags with writeback_enabled = 0
    snaps,      \* file_writeback_snapshots
    ledger,     \* the tags the newest file_writebacks row of each video says were written
    runs,       \* job_runs: the batches each job was recorded under
    reading,    \* what an owner's Refresh of each video has read and not yet stored
    poll,       \* a batch's status, half read
    events,
    past,       \* history: video and batch of every job
    first,      \* history: the tags in the file when each job first got to it
    missed,     \* history: jobs whose snapshot failed
    landed,     \* history: jobs that reached the file and left no audit row
    unlogged    \* history: videos with such a job whose next attempt did not write

tags == <<file, link, suppressed, off>>
books == <<snaps, ledger, runs>>
hist == <<past, first, missed, landed, unlogged>>
vars == <<queue, lastId, work, tags, books, reading, poll, events, hist>>

Id == 1 .. MaxJob
Key == {"batch", "job"} \X Id
Source == {"none", "file", "own"}
Row == [video : Video, tags : SUBSET Tag, batch : Key \cup {Nothing},
        status : {"pending", "running", "failed"}]
NothingAssumption == Nothing \notin Key \cup Row /\ \A T \in SUBSET Tag : T # Nothing
Rows == {i \in Id : queue[i] # Nothing}
Of(v, s) == {i \in Rows : queue[i].video = v /\ queue[i].status = s}

\* The batch a job's snapshot is kept under.
SnapshotBatch(i) == IF queue[i].batch # Nothing THEN queue[i].batch ELSE <<"job", i>>

Event == events < MaxEvent /\ events' = events + 1

Init ==
    /\ queue = [i \in Id |-> Nothing] /\ lastId = 0
    /\ work = [v \in Video |-> Nothing]
    /\ file = Start
    /\ link = [v \in Video |-> [t \in Tag |-> IF t \in Start[v] THEN "file" ELSE "none"]]
    /\ suppressed = [v \in Video |-> {}] /\ off = {}
    /\ snaps = {} /\ ledger = [v \in Video |-> Nothing] /\ runs = {}
    /\ reading = [v \in Video |-> Nothing] /\ poll = Nothing
    /\ events = 0
    /\ past = [i \in Id |-> Nothing] /\ first = [i \in Id |-> Nothing]
    /\ missed = {} /\ landed = {} /\ unlogged = {}

---------------------------------------------------------------------------
(* The owner's decisions about tags.                                       *)

\* A tag added by hand is the owner's, and no longer removed.
AttachTagToVideo(v, t) ==
    /\ Event
    /\ link[v][t] # "own"
    /\ link' = [link EXCEPT ![v][t] = "own"]
    /\ suppressed' = [suppressed EXCEPT ![v] = @ \ {t}]
    /\ UNCHANGED <<queue, lastId, work, file, off, books, reading, poll, hist>>

DetachTagFromVideo(v, t) ==
    /\ Event
    /\ link[v][t] # "none"
    /\ link' = [link EXCEPT ![v][t] = "none"]
    /\ suppressed' = [suppressed EXCEPT ![v] = @ \cup {t}]
    /\ UNCHANGED <<queue, lastId, work, file, off, books, reading, poll, hist>>

SetTagWritebackEnabled(t) ==
    /\ Event
    /\ off' = IF t \in off THEN off \ {t} ELSE off \cup {t}
    /\ UNCHANGED <<queue, lastId, work, file, link, suppressed, books, reading, poll, hist>>

\* Mutant: a tag the owner removed is linked again.
RelinkedRemoved(v, F) ==
    [link EXCEPT ![v] = [t \in Tag |->
        IF @[t] = "own" THEN "own" ELSE IF t \in F THEN "file" ELSE "none"]]

\* replaceAssociations: a file's tags replace the links that came from the file.
Relinked(v, F) ==
    [link EXCEPT ![v] = [t \in Tag |->
        IF @[t] = "own" THEN "own"
        ELSE IF t \in F \ suppressed[v] THEN "file" ELSE "none"]]

\* The owner's Refresh reads the file ...
RefreshRead(v) ==
    /\ reading[v] = Nothing /\ Event
    /\ reading' = [reading EXCEPT ![v] = file[v]]
    /\ UNCHANGED <<queue, lastId, work, tags, books, poll, hist>>

\* ... and stores what it read.
RefreshStore(v) ==
    /\ reading[v] # Nothing
    /\ link' = Relinked(v, reading[v])
    /\ reading' = [reading EXCEPT ![v] = Nothing]
    /\ UNCHANGED <<queue, lastId, work, file, suppressed, off, books, poll, events, hist>>

---------------------------------------------------------------------------
(* Jobs.                                                                   *)

\* The tags a write puts in the file: every tag of the video that is not UI-only.
GenreWritebackValues(v) == {t \in Tag : link[v][t] # "none" /\ t \notin off}

FreshId == {lastId + 1}

Insert(i, v, T, batch) ==
    /\ i <= MaxJob
    /\ queue' = [queue EXCEPT ![i] = [video |-> v, tags |-> T, batch |-> batch, status |-> "pending"]]
    /\ lastId' = i
    /\ past' = [past EXCEPT ![i] = [video |-> v, batch |-> batch]]
    /\ first' = [first EXCEPT ![i] = Nothing]
    /\ missed' = missed \ {i} /\ landed' = landed \ {i}
    /\ UNCHANGED unlogged

Enqueue(v) ==
    /\ Event
    /\ \E i \in FreshId : Insert(i, v, GenreWritebackValues(v), Nothing)
    /\ UNCHANGED <<work, tags, books, reading, poll>>

\* A tag sync: one job for each video of some tags, in one transaction.
EnqueueMany(T) ==
    LET V == {v \in Video : \E t \in T : link[v][t] # "none"}
        key == <<"batch", lastId + 1>>
    IN  /\ Event
        /\ \E last \in lastId + 1 .. MaxJob :
              LET of == CHOOSE f \in Bijection(lastId + 1 .. last, V) : TRUE IN
              /\ ExistsBijection(lastId + 1 .. last, V)
              /\ queue' = [i \in Id |-> IF i \in lastId + 1 .. last
                              THEN [video |-> of[i], tags |-> GenreWritebackValues(of[i]),
                                    batch |-> key, status |-> "pending"]
                              ELSE queue[i]]
              /\ past' = [i \in Id |-> IF i \in lastId + 1 .. last THEN [video |-> of[i], batch |-> key]
                                                                    ELSE past[i]]
              /\ lastId' = last
        /\ UNCHANGED <<work, tags, books, reading, poll, first, missed, landed, unlogged>>

RetryFailed(v) ==
    /\ Of(v, "failed") # {} /\ Event
    /\ queue' = [i \in Id |-> IF i \in Of(v, "failed")
                              THEN [queue[i] EXCEPT !.status = "pending"] ELSE queue[i]]
    /\ UNCHANGED <<lastId, work, tags, books, reading, poll, hist>>

DismissFailed(v) ==
    /\ Of(v, "failed") # {}
    /\ queue' = [i \in Id |-> IF i \in Of(v, "failed") THEN Nothing ELSE queue[i]]
    /\ UNCHANGED <<lastId, work, tags, books, reading, poll, events, hist>>

\* One inverse job for a video of the batch; a video that had no tags is skipped.
\* Queue.Revert goes through the videos one transaction at a time, and may stop.
Revert(s) ==
    /\ s \in snaps /\ s.tags # {} /\ Event
    /\ \E i \in FreshId : Insert(i, s.video, s.tags, Nothing)
    /\ UNCHANGED <<work, tags, books, reading, poll>>

---------------------------------------------------------------------------
(* Queue.process.                                                          *)

At(v, step) == work[v] # Nothing /\ work[v].step = step
Job(v) == queue[work[v].id]
Goto(v, step) == work' = [work EXCEPT ![v].step = step]
Mine(v) == work[v].id

\* The oldest pending job of a video none of whose jobs is running.
Claim(v) ==
    /\ work[v] = Nothing /\ Of(v, "running") = {}
    /\ \E i \in Of(v, "pending") :
          /\ \A j \in Of(v, "pending") : i <= j
          /\ queue' = [queue EXCEPT ![i].status = "running"]
          /\ work' = [work EXCEPT ![v] = [id |-> i, step |-> "snapshot", ok |-> TRUE,
                                           batch |-> queue[i].batch]]
    /\ UNCHANGED <<lastId, tags, books, reading, poll, events, hist>>

Unwritten(v) == unlogged' = IF Mine(v) \in landed THEN unlogged \cup {v} ELSE unlogged

\* A Genre delete for a file that has none is dropped, and nothing is written.
ProcessNothing(v) ==
    /\ At(v, "snapshot") /\ Job(v).tags = {} /\ file[v] = {}
    /\ Goto(v, "record")
    /\ Unwritten(v)
    /\ UNCHANGED <<queue, lastId, tags, books, reading, poll, events, past, first, missed, landed>>

\* Mutant: every attempt takes a snapshot of its own.
SnapshotAgain(v, key) ==
    {s \in snaps : s.batch # key \/ s.video # v} \cup {[batch |-> key, video |-> v, tags |-> file[v]]}

\* The snapshot an earlier attempt took is kept.
Snapshot(v, key) ==
    IF \E s \in snaps : s.batch = key /\ s.video = v THEN snaps
    ELSE snaps \cup {[batch |-> key, video |-> v, tags |-> file[v]]}

Reached(v) == first' = [first EXCEPT ![Mine(v)] = IF @ = Nothing THEN file[v] ELSE @]

SnapshotBeforeWrite(v) ==
    /\ At(v, "snapshot") /\ (Job(v).tags # {} \/ file[v] # {})
    /\ snaps' = Snapshot(v, SnapshotBatch(Mine(v)))
    /\ work' = [work EXCEPT ![v].step = "write", ![v].batch = SnapshotBatch(Mine(v))]
    /\ Reached(v)
    /\ UNCHANGED <<queue, lastId, tags, ledger, runs, reading, poll, events, past, missed, landed, unlogged>>

\* Mutant: the run of a job without a snapshot is filed under no batch.
BatchCleared(v) == Nothing

\* The batch of a job whose snapshot failed.
BatchKept(v) == work[v].batch

\* A snapshot that fails does not stop the write.
SnapshotFails(v) ==
    /\ At(v, "snapshot") /\ (Job(v).tags # {} \/ file[v] # {}) /\ Event
    /\ work' = [work EXCEPT ![v].step = "write", ![v].batch = BatchKept(v)]
    /\ Reached(v)
    /\ missed' = missed \cup {Mine(v)}
    /\ UNCHANGED <<queue, lastId, tags, books, reading, poll, past, landed, unlogged>>

\* WriteBatch replaces the file by a written copy of it ...
WriteBatch(v) ==
    /\ At(v, "write")
    /\ file' = [file EXCEPT ![v] = Job(v).tags]
    /\ landed' = landed \cup {Mine(v)}
    /\ Goto(v, "audit")
    /\ UNCHANGED <<queue, lastId, link, suppressed, off, books, reading, poll, events,
                   past, first, missed, unlogged>>

\* ... or fails and leaves it alone.
WriteFails(v) ==
    /\ At(v, "write") /\ Event
    /\ work' = [work EXCEPT ![v].step = "record", ![v].ok = FALSE]
    /\ Unwritten(v)
    /\ UNCHANGED <<queue, lastId, tags, books, reading, poll, past, first, missed, landed>>

InsertWriteback(v) ==
    /\ At(v, "audit")
    /\ ledger' = [ledger EXCEPT ![v] = Job(v).tags]
    /\ landed' = landed \ {Mine(v)} /\ unlogged' = unlogged \ {v}
    /\ Goto(v, "promote")
    /\ UNCHANGED <<queue, lastId, tags, snaps, runs, reading, poll, events, past, first, missed>>

\* UI-only tags the write took off the file become the owner's own.
PromoteIgnoredFileTags(v) ==
    /\ At(v, "promote")
    /\ link' = [link EXCEPT ![v] = [t \in Tag |-> IF t \in off /\ @[t] = "file" THEN "own" ELSE @[t]]]
    /\ Goto(v, "reread")
    /\ UNCHANGED <<queue, lastId, file, suppressed, off, books, reading, poll, events, hist>>

\* The post-write hook: the file is read back.
PostWrite(v) ==
    /\ At(v, "reread")
    /\ link' = Relinked(v, file[v])
    /\ Goto(v, "record")
    /\ UNCHANGED <<queue, lastId, file, suppressed, off, books, reading, poll, events, hist>>

RecordJobRun(v) ==
    /\ At(v, "record")
    /\ runs' = runs \cup {[job |-> Mine(v), batch |-> work[v].batch]}
    /\ Goto(v, "finish")
    /\ UNCHANGED <<queue, lastId, tags, snaps, ledger, reading, poll, events, hist>>

FinishWriteback(v) ==
    /\ At(v, "finish")
    /\ queue' = [queue EXCEPT ![Mine(v)] =
                    IF work[v].ok THEN Nothing ELSE [@ EXCEPT !.status = "failed"]]
    /\ work' = [work EXCEPT ![v] = Nothing]
    /\ UNCHANGED <<lastId, tags, books, reading, poll, events, hist>>

Recovered(r) == [r EXCEPT !.status = IF @ = "running" THEN "pending" ELSE @]

\* The process ends, and boots again with RecoverRunningWritebacks.
Restart ==
    /\ Event
    /\ queue' = [i \in Id |-> IF i \in Rows THEN Recovered(queue[i]) ELSE Nothing]
    /\ work' = [v \in Video |-> Nothing]
    /\ reading' = [v \in Video |-> Nothing]
    /\ poll' = Nothing
    /\ UNCHANGED <<lastId, tags, books, hist>>

---------------------------------------------------------------------------
(* GetWritebackBatchStatus: two reads, of the queue and then of the runs.  *)

InBatch(b) == {i \in Id : past[i] # Nothing /\ past[i].batch = b}
Batches == {past[i].batch : i \in {j \in Id : past[j] # Nothing}} \ {Nothing}

PollQueue(b) ==
    /\ poll = Nothing /\ b \in Batches
    /\ poll' = [batch |-> b,
                left |-> {i \in Rows : queue[i].batch = b /\ queue[i].status # "failed"}]
    /\ UNCHANGED <<queue, lastId, work, tags, books, reading, events, hist>>

PollRuns ==
    /\ poll # Nothing
    /\ poll' = Nothing
    /\ UNCHANGED <<queue, lastId, work, tags, books, reading, events, hist>>

---------------------------------------------------------------------------

Decide(v) ==
    \E t \in Tag : AttachTagToVideo(v, t) \/ DetachTagFromVideo(v, t)

Process(v) ==
    \/ Claim(v) \/ ProcessNothing(v) \/ SnapshotBeforeWrite(v) \/ SnapshotFails(v)
    \/ WriteBatch(v) \/ WriteFails(v) \/ InsertWriteback(v) \/ PromoteIgnoredFileTags(v)
    \/ PostWrite(v) \/ RecordJobRun(v) \/ FinishWriteback(v)

Next ==
    \/ \E v \in Video : \/ Decide(v) \/ Process(v) \/ RefreshRead(v) \/ RefreshStore(v)
                        \/ Enqueue(v) \/ RetryFailed(v) \/ DismissFailed(v)
    \/ \E t \in Tag : SetTagWritebackEnabled(t)
    \/ \E T \in SUBSET Tag : EnqueueMany(T)
    \/ \E s \in snaps : Revert(s)
    \/ \E b \in Batches : PollQueue(b)
    \/ PollRuns \/ Restart

Spec == Init /\ [][Next]_vars

---------------------------------------------------------------------------

TypeOK ==
    /\ queue \in [Id -> Row \cup {Nothing}] /\ lastId \in 0 .. MaxJob
    /\ \A v \in Video : work[v] # Nothing =>
          /\ work[v].id \in Rows /\ Job(v).status = "running" /\ Job(v).video = v
          /\ work[v].batch \in Key \cup {Nothing}
    /\ file \in [Video -> SUBSET Tag] /\ link \in [Video -> [Tag -> Source]]
    /\ suppressed \in [Video -> SUBSET Tag] /\ off \subseteq Tag
    /\ snaps \subseteq [batch : Key, video : Video, tags : SUBSET Tag]
    /\ ledger \in [Video -> (SUBSET Tag) \cup {Nothing}]
    /\ runs \subseteq [job : Id, batch : Key \cup {Nothing}]
    /\ reading \in [Video -> (SUBSET Tag) \cup {Nothing}]
    /\ events \in 0 .. MaxEvent

\* The snapshot of a job is what the file held before the job first came to it: a job
\* that runs again, after a crash or a retry, finds the file as its first attempt left
\* it and must not take that for the prior value; and the job of another video of the
\* batch, or an earlier job with the same key, is not mistaken for it (F48.9a).
SnapshotPrior ==
    \A i \in Id : \A s \in snaps :
        (/\ first[i] # Nothing /\ i \notin missed
         /\ s.video = past[i].video
         /\ s.batch = IF past[i].batch = Nothing THEN <<"job", i>> ELSE past[i].batch)
            => s.tags = first[i]

\* A poll that finds nothing left of a batch counts a run of every job of it: a
\* caller that stops polling there has missed no outcome (ADR-077 D3).
PollComplete ==
    [][\A b \in Batches :
          (PollRuns /\ poll.batch = b /\ poll.left = {}) =>
              \A i \in InBatch(b) : [job |-> i, batch |-> b] \in runs]_vars

\* Once a video has no job left, the ledger's newest row says what is in its file,
\* unless a job reached the file before a crash and its next attempt did not write:
\* it failed, or found its deletion already done (ADR-041).
LedgerMatches ==
    \A v \in Video :
        (ledger[v] # Nothing /\ v \notin unlogged /\ \A i \in Rows : queue[i].video # v)
            => ledger[v] = file[v]

\* A tag the owner removed from a video stays off it, whatever its file still holds
\* and whatever was read from it before (HOLODEX-614).
RemovedStaysOff == \A v \in Video : \A t \in suppressed[v] : link[v][t] = "none"

=============================================================================
