----------------------------- MODULE WriteQueue -----------------------------
(***************************************************************************)
(* The durable job queue of internal/writequeue and internal/maintenance,  *)
(* over the table writeback_queue of internal/repo: one row per accepted   *)
(* job, two worker lanes, at most one running row per video, crash and     *)
(* boot at any step.  A repo call holds writeMu and is one transaction, so *)
(* each is one atomic step here; what happens between two repo calls of    *)
(* the same goroutine or handler is where the steps of others interleave.  *)
(*                                                                         *)
(* A job's payload is abstracted to its kind; running it is one Work step  *)
(* with a nondeterministic outcome (its file system steps are the subject  *)
(* of HeldSwap).  Database errors are not modelled.                        *)
(***************************************************************************)
EXTENDS Naturals, FiniteSets, Sequences

CONSTANTS
    Videos,      \* ids of the videos jobs are queued for
    NoVideo,     \* the video of a row that does not exist
    Writers,     \* workers of the tag-write lane (WRITEBACK_CONCURRENCY)
    Maint,       \* the single worker of the maintenance lane
    MaxJobs,     \* bound: rows ever inserted
    MaxWaits,    \* rename.maxWaits: requeues allowed to one rename job
    MaxRetries,  \* bound: a job is retried while attempts <= MaxRetries
    MaxCrashes   \* bound: crashes of the process

ASSUME NoVideoAssumption == NoVideo \notin Videos
ASSUME MaintAssumption == Maint \notin Writers
ASSUME BoundsAssumption ==
    MaxJobs \in Nat /\ MaxWaits \in Nat /\ MaxRetries \in Nat /\ MaxCrashes \in Nat

VARIABLES
    queue,    \* the table: job id -> row, NoRow when there is none
    lastId,   \* the AUTOINCREMENT counter of the table
    phase,    \* the process: "down", "booting" (before RecoverRunning), "up"
    pc,       \* where each worker goroutine stands
    job,      \* the *WritebackJob each busy worker holds
    outcome,  \* what the job of each busy worker came to
    early,    \* history: Maint claimed its job before RecoverRunning ran
    notify,   \* per lane, the wake-up buffered in the notify channel
    handler,  \* per video, the job a writeMedia request inserted before its clear
    runs,     \* job_runs: the statuses recorded for each job
    moved,    \* history: rename rows replaced by RequeueWriteback
    crashes

vars == <<queue, lastId, phase, pc, job, outcome, early, notify, handler,
          runs, moved, crashes>>
table == <<queue, lastId>>
workers == <<pc, job, outcome, early>>

Workers == Writers \cup {Maint}
Lanes == {"write", "maintenance"}
Kinds == {"write", "maintenance", "rename"}
JobIds == 1 .. MaxJobs

NoRow == [video |-> NoVideo, kind |-> "none", status |-> "none", attempts |-> 0]
Row == [video : Videos, kind : Kinds,
        status : {"pending", "running", "failed"}, attempts : Nat]
NoJob == [id |-> 0, video |-> NoVideo, kind |-> "none"]
Job == [id : JobIds, video : Videos, kind : Kinds]

LaneOf(w) == IF w = Maint THEN "maintenance" ELSE "write"
LaneOfKind(k) == IF k = "maintenance" THEN "maintenance" ELSE "write"

Pending(v, k) == {"pending", "running"} \cap
    {queue[i].status : i \in {j \in JobIds : queue[j].video = v /\ queue[j].kind = k}} # {}
\* Mutant: a dismissal does not look at the status.
AnyRow(v, k) == {i \in JobIds : queue[i].video = v /\ queue[i].kind = k}

Failed(v, k) == {i \in JobIds : /\ queue[i].video = v
                                /\ queue[i].kind = k
                                /\ queue[i].status = "failed"}
Running(v) == \E i \in JobIds : queue[i].video = v /\ queue[i].status = "running"

NewRow(v, k) == [video |-> v, kind |-> k, status |-> "pending", attempts |-> 0]

\* The row r in another status, after n attempts in all.
Turned(r, s, n) == [video |-> r.video, kind |-> r.kind, status |-> s, attempts |-> n]

\* The table with the rows of gone deleted and one new row of kind k per video
\* of vs appended, in that order.
AppendRows(gone, vs, k) ==
    [i \in JobIds |-> IF i - lastId \in DOMAIN vs THEN NewRow(vs[i - lastId], k)
                      ELSE IF i \in gone THEN NoRow ELSE queue[i]]

Kick(lane) == notify' = [notify EXCEPT ![lane] = TRUE]

-----------------------------------------------------------------------------
\* One transaction of the API or of a background job.  The process is running;
\* it need not have finished booting (main.go starts the server and the workers
\* in goroutines of their own).

Insert(gone, vs, k) ==
    /\ phase # "down"
    /\ lastId + Len(vs) <= MaxJobs
    /\ queue' = AppendRows(gone, vs, k)
    /\ lastId' = lastId + Len(vs)
    /\ Kick(LaneOfKind(k))
    /\ UNCHANGED <<phase, workers, runs, moved, crashes>>

\* Queue.EnqueueMany and Queue.Enqueue: one row per video, never refused.
EnqueueMany(vs) == Insert({}, vs, "write") /\ UNCHANGED handler

\* Handlers.writebackMedia inserts its job first ...
WriteMedia(v) ==
    /\ handler[v] = 0
    /\ Insert({}, <<v>>, "write")
    /\ handler' = [handler EXCEPT ![v] = lastId + 1]

\* ... and in a second transaction clears the video's failed writes.
WriteMediaClear(v) ==
    /\ handler[v] # 0
    /\ queue' = [i \in JobIds |-> IF i \in Failed(v, "write") THEN NoRow ELSE queue[i]]
    /\ handler' = [handler EXCEPT ![v] = 0]
    /\ UNCHANGED <<lastId, phase, workers, notify, runs, moved, crashes>>

EnqueueMaintenance(v) ==
    /\ ~Pending(v, "maintenance")
    /\ Insert(Failed(v, "maintenance"), <<v>>, "maintenance")
    /\ UNCHANGED handler

\* A batch of renames: vs is what is left of it once every video whose rename
\* is queued or running has been skipped.
EnqueueRenames(vs) ==
    /\ \A n \in DOMAIN vs : ~Pending(vs[n], "rename")
    /\ Insert(UNION {Failed(vs[n], "rename") : n \in DOMAIN vs}, vs, "rename")
    /\ UNCHANGED handler

RetryFailed(v, k) ==
    /\ phase # "down"
    /\ Failed(v, k) # {}
    /\ \A i \in Failed(v, k) : queue[i].attempts <= MaxRetries
    /\ queue' = [i \in JobIds |-> IF i \in Failed(v, k)
                                  THEN Turned(queue[i], "pending", queue[i].attempts)
                                  ELSE queue[i]]
    /\ Kick(LaneOfKind(k))
    /\ UNCHANGED <<lastId, phase, workers, handler, runs, moved, crashes>>

DismissFailed(v, k) ==
    /\ phase # "down"
    /\ Failed(v, k) # {}
    /\ queue' = [i \in JobIds |-> IF i \in Failed(v, k) THEN NoRow ELSE queue[i]]
    /\ UNCHANGED <<lastId, phase, workers, notify, handler, runs, moved, crashes>>

-----------------------------------------------------------------------------
\* The worker loops: Queue.worker for each of Writers, Worker.Run for Maint.

\* The pending rows of w's lane whose video has no running row of any kind.
Claimable(w) == {i \in JobIds : /\ queue[i].status = "pending"
                                /\ LaneOfKind(queue[i].kind) = LaneOf(w)
                                /\ ~Running(queue[i].video)}

\* Mutant: newest first.
NewestOf(S) == {i \in S : \A j \in S : j <= i}

\* The claim order is (enqueued_at, id).  RequeueWriteback is the only way to a
\* later enqueued_at and it takes a new id, so the oldest row has the least id.
OldestOf(S) == {i \in S : \A j \in S : i <= j}

\* claimNext, in one critical section of writeMu.
Claim(w) ==
    /\ pc[w] = "idle"
    /\ \E i \in OldestOf(Claimable(w)) :
        /\ queue' = [queue EXCEPT ![i] = Turned(@, "running", @.attempts + 1)]
        /\ job' = [job EXCEPT ![w] = [id |-> i, video |-> queue[i].video,
                                      kind |-> queue[i].kind]]
    /\ pc' = [pc EXCEPT ![w] = "work"]
    /\ early' = IF w = Maint THEN phase = "booting" ELSE early
    /\ UNCHANGED <<lastId, phase, outcome, notify, handler, runs, moved, crashes>>

Rest(w) ==
    /\ pc[w] = "idle"
    /\ Claimable(w) = {}
    /\ pc' = [pc EXCEPT ![w] = "waiting"]
    /\ UNCHANGED <<table, phase, job, outcome, early, notify, handler, runs, moved, crashes>>

\* The select of the loop: a buffered kick ...
Wake(w) ==
    /\ pc[w] = "waiting"
    /\ notify[LaneOf(w)]
    /\ pc' = [pc EXCEPT ![w] = "idle"]
    /\ notify' = [notify EXCEPT ![LaneOf(w)] = FALSE]
    /\ UNCHANGED <<table, phase, job, outcome, early, handler, runs, moved, crashes>>

\* Mutant: no poll, a worker waits for its kick.
PollNever(w) == pc[w] = "waiting" /\ FALSE /\ UNCHANGED vars

\* ... or the poll timer.
Poll(w) ==
    /\ pc[w] = "waiting"
    /\ pc' = [pc EXCEPT ![w] = "idle"]
    /\ UNCHANGED <<table, phase, job, outcome, early, notify, handler, runs, moved, crashes>>

\* Running the job ends in success or failure.
Work(w, o) ==
    /\ pc[w] = "work"
    /\ outcome' = [outcome EXCEPT ![w] = o]
    /\ pc' = [pc EXCEPT ![w] = "record"]
    /\ UNCHANGED <<table, phase, job, early, notify, handler, runs, moved, crashes>>

\* Mutant: only a success is recorded.
RecordSuccess(w) ==
    /\ pc[w] = "record"
    /\ runs' = [runs EXCEPT ![job[w].id] = @ \cup ({outcome[w]} \cap {"ok"})]
    /\ pc' = [pc EXCEPT ![w] = "finish"]
    /\ UNCHANGED <<table, phase, job, outcome, early, notify, handler, moved, crashes>>

\* RecordJobRun comes before FinishWriteback, in a transaction of its own.
RecordJobRun(w) ==
    /\ pc[w] = "record"
    /\ runs' = [runs EXCEPT ![job[w].id] = @ \cup {outcome[w]}]
    /\ pc' = [pc EXCEPT ![w] = "finish"]
    /\ UNCHANGED <<table, phase, job, outcome, early, notify, handler, moved, crashes>>

Done(w) ==
    /\ pc' = [pc EXCEPT ![w] = "idle"]
    /\ job' = [job EXCEPT ![w] = NoJob]
    /\ outcome' = [outcome EXCEPT ![w] = "none"]
    /\ early' = (early /\ w # Maint)

\* FinishWriteback: an update or delete by id, whatever the row's status is by
\* then.  The maintenance lane wakes the tag-write lane.
FinishWriteback(w) ==
    /\ pc[w] = "finish"
    /\ queue' = [queue EXCEPT ![job[w].id] =
                    IF outcome[w] = "ok" \/ @ = NoRow THEN NoRow
                    ELSE Turned(@, "failed", @.attempts)]
    /\ IF w = Maint THEN Kick("write") ELSE UNCHANGED notify
    /\ Done(w)
    /\ UNCHANGED <<lastId, phase, handler, runs, moved, crashes>>

\* Or a rename finds its target held by another rename of its batch, and
\* RequeueWriteback puts it back to pending under a new, higher id.
RequeueWriteback(w) ==
    /\ pc[w] = "work"
    /\ job[w].kind = "rename"
    /\ queue[job[w].id] # NoRow
    /\ queue[job[w].id].attempts <= MaxWaits
    /\ lastId < MaxJobs
    /\ LET row == queue[job[w].id]
       IN  queue' = [queue EXCEPT ![lastId + 1] = Turned(row, "pending", row.attempts),
                                 ![job[w].id] = NoRow]
    /\ lastId' = lastId + 1
    /\ moved' = moved \cup {job[w].id}
    /\ Done(w)
    /\ UNCHANGED <<phase, notify, handler, runs, crashes>>

-----------------------------------------------------------------------------
\* The process.

\* main.go starts the server, the maintenance loop and Queue.Start in three
\* goroutines: the maintenance worker may claim before RecoverRunning runs.
Boot ==
    /\ phase = "down"
    /\ phase' = "booting"
    /\ pc' = [pc EXCEPT ![Maint] = "idle"]
    /\ UNCHANGED <<table, job, outcome, early, notify, handler, runs, moved, crashes>>

\* Queue.Start: RecoverRunningWritebacks, then the pool.
Start ==
    /\ phase = "booting"
    /\ phase' = "up"
    /\ queue' = [i \in JobIds |-> IF queue[i].status = "running"
                                  THEN Turned(queue[i], "pending", queue[i].attempts)
                                  ELSE queue[i]]
    /\ pc' = [w \in Workers |-> IF w \in Writers THEN "idle" ELSE pc[w]]
    /\ UNCHANGED <<lastId, job, outcome, early, notify, handler, runs, moved, crashes>>

\* A crash, or a shutdown: the process ends without waiting for the workers,
\* whose last repo calls fail with the cancelled context.
Crash ==
    /\ phase # "down"
    /\ crashes < MaxCrashes
    /\ phase' = "down"
    /\ pc' = [w \in Workers |-> "down"]
    /\ job' = [w \in Workers |-> NoJob]
    /\ outcome' = [w \in Workers |-> "none"]
    /\ early' = FALSE
    /\ notify' = [l \in Lanes |-> FALSE]
    /\ handler' = [v \in Videos |-> 0]
    /\ crashes' = crashes + 1
    /\ UNCHANGED <<table, runs, moved>>

-----------------------------------------------------------------------------
Init ==
    /\ queue = [i \in JobIds |-> NoRow]
    /\ lastId = 0
    /\ phase = "down"
    /\ pc = [w \in Workers |-> "down"]
    /\ job = [w \in Workers |-> NoJob]
    /\ outcome = [w \in Workers |-> "none"]
    /\ early = FALSE
    /\ notify = [l \in Lanes |-> FALSE]
    /\ handler = [v \in Videos |-> 0]
    /\ runs = [i \in JobIds |-> {}]
    /\ moved = {}
    /\ crashes = 0

\* The lists a caller hands over: up to MaxJobs videos, none twice.
VideoLists == UNION {{s \in [1 .. n -> Videos] : \A a, b \in 1 .. n : a # b => s[a] # s[b]}
                     : n \in 1 .. MaxJobs}

Api ==
    \/ \E vs \in VideoLists : EnqueueMany(vs) \/ EnqueueRenames(vs)
    \/ \E v \in Videos : WriteMedia(v) \/ WriteMediaClear(v) \/ EnqueueMaintenance(v)
    \/ \E v \in Videos, k \in Kinds : RetryFailed(v, k) \/ DismissFailed(v, k)

Worker(w) ==
    \/ Claim(w) \/ Rest(w) \/ Wake(w) \/ Poll(w)
    \/ \E o \in {"ok", "err"} : Work(w, o)
    \/ RecordJobRun(w) \/ FinishWriteback(w) \/ RequeueWriteback(w)

Next == Api \/ (\E w \in Workers : Worker(w)) \/ Boot \/ Start \/ Crash

Spec == Init /\ [][Next]_vars

\* Every goroutine is scheduled, every job's tool ends, the owner restarts a
\* stopped process.  Nobody has to call the API.
FairSpec ==
    /\ Spec
    /\ \A w \in Workers : WF_vars(Worker(w))
    /\ WF_vars(Boot) /\ WF_vars(Start)
    /\ \A v \in Videos : WF_vars(WriteMediaClear(v))
-----------------------------------------------------------------------------
\* Type invariant.
TypeOK ==
    /\ queue \in [JobIds -> Row \cup {NoRow}]
    /\ lastId \in 0 .. MaxJobs
    /\ \A i \in JobIds : i > lastId => queue[i] = NoRow
    /\ phase \in {"down", "booting", "up"}
    /\ pc \in [Workers -> {"down", "idle", "waiting", "work", "record", "finish"}]
    /\ job \in [Workers -> Job \cup {NoJob}]
    /\ outcome \in [Workers -> {"none", "ok", "err"}]
    /\ early \in BOOLEAN
    /\ notify \in [Lanes -> BOOLEAN]
    /\ handler \in [Videos -> 0 .. MaxJobs]
    /\ runs \in [JobIds -> SUBSET {"ok", "err"}]
    /\ moved \subseteq JobIds
    /\ crashes \in 0 .. MaxCrashes

\* The table never marks two jobs of one video running, whichever lanes claimed
\* them and whatever crashed in between (claimNext, repo/writequeue.go:179).
OneRunningRow ==
    \A i, j \in JobIds :
        /\ queue[i].status = "running" /\ queue[j].status = "running"
        /\ queue[i].video = queue[j].video
        => i = j

Busy(w) == pc[w] \in {"work", "record", "finish"}

\* The row a worker claimed stays in the table, of the same video and kind and
\* marked running, until that worker finishes it: no retry, dismissal, clear or
\* enqueue takes it away meanwhile.  Only RecoverRunning may turn it back to
\* pending, under a job claimed before it ran.
ClaimHeld ==
    \A w \in Workers : Busy(w) =>
        LET row == queue[job[w].id]
        IN  /\ row.video = job[w].video /\ row.kind = job[w].kind
            /\ LaneOfKind(row.kind) = LaneOf(w)
            /\ row.status = "running" \/ (w = Maint /\ early /\ row.status = "pending")

\* No two workers are inside jobs of one video, save that the maintenance
\* worker may be in a job it claimed before RecoverRunning: then its row was
\* reset under it and the tag-write lane does not see it (main.go starts both).
ExclusiveFile ==
    \A w, x \in Workers :
        /\ w # x /\ pc[w] = "work" /\ pc[x] = "work"
        /\ job[w].video = job[x].video
        => early /\ Maint \in {w, x}

\* Two tag-lane jobs of one file start in the order they were accepted: while
\* one runs, no older one is still waiting for its first attempt.  The values
\* of the newer job must not be overwritten by the older one's.
NeverOvertaken ==
    \A i, j \in JobIds :
        /\ i < j /\ queue[i].video = queue[j].video
        /\ queue[i].status = "pending" /\ queue[j].status = "running"
        /\ LaneOfKind(queue[i].kind) = LaneOfKind(queue[j].kind)
        => queue[i].attempts > 0

\* A job never leaves the table without a trace: a row that is gone or failed
\* has its run in job_runs, or was replaced by RequeueWriteback.  A crash
\* between the two transactions of finish must not lose it.
AuditTrail ==
    \A i \in 1 .. lastId :
        /\ queue[i] = NoRow => runs[i] # {} \/ i \in moved
        /\ queue[i].status = "failed" => "err" \in runs[i]

\* Every accepted job ends: whatever crashes and lost wake-ups happen, a waiting
\* or running row eventually succeeds, fails or is replaced.
EveryJobSettles ==
    \A i \in JobIds :
        queue[i].status \in {"pending", "running"}
            ~> queue[i].status \notin {"pending", "running"}
=============================================================================
