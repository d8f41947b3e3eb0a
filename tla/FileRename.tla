----------------------------- MODULE FileRename -----------------------------
(***************************************************************************)
(* The renaming of the files of one folder (internal/rename): the rename   *)
(* jobs of videos that may want each other's names, the journal row        *)
(* written before the file moves, the two-step move through the via name,  *)
(* the step aside that frees a swap of names, unwinding, undo, and the     *)
(* replay of the journal at boot.  Every move and every repo call that     *)
(* writes is a step of its own, so jobs of two videos may interleave and   *)
(* the process may end between any two.                                    *)
(*                                                                         *)
(* A video has at most one rename row and no other job runs beside it      *)
(* (WriteQueue!SingleRow, ExclusiveFile).  The claim order is left open: a *)
(* pending rename is passed over while its video is being re-encoded, so   *)
(* any other may be next.  The mount tells names apart exactly and has     *)
(* RENAME_NOREPLACE.                                                       *)
(***************************************************************************)
EXTENDS Naturals, FiniteSets

CONSTANTS
    Videos,       \* the videos of the folder
    Names,        \* file names a video can have
    NoName,       \* the name in a row that does not exist
    ViaName,      \* the half-way name of each video
    FoldKey,      \* the name case-folded, of every name
    First,        \* the name of each video's file at the start
    Concurrency,  \* workers of the tag-write lane
    MaxWaits,     \* rename.maxWaits: attempts before a job stops waiting
    MaxJobs,      \* bound: applies, undos and retries
    MaxFaults,    \* bound: moves that fail
    MaxForeign,   \* bound: files dropped into the folder by somebody else
    MaxCrashes    \* bound: ends of the process

Vias == {ViaName[v] : v \in Videos}
AllNames == Names \cup Vias

ASSUME VideosAssumption == IsFiniteSet(Videos)
ASSUME ViaAssumption ==
    /\ ViaName \in [Videos -> Vias] /\ Vias \cap Names = {} /\ NoName \notin AllNames
    /\ \A v, u \in Videos : ViaName[v] = ViaName[u] => v = u
ASSUME FoldAssumption ==
    /\ DOMAIN FoldKey = AllNames
    /\ \A n \in Vias, m \in AllNames : FoldKey[n] = FoldKey[m] => n = m
ASSUME FirstAssumption ==
    /\ First \in [Videos -> Names]
    /\ \A v, u \in Videos : First[v] = First[u] => v = u
ASSUME BoundsAssumption ==
    /\ Concurrency \in Nat /\ MaxWaits \in Nat /\ MaxJobs \in Nat
    /\ MaxFaults \in Nat /\ MaxForeign \in Nat /\ MaxCrashes \in Nat

VARIABLES
    at,         \* the name each video's file really has
    foreign,    \* names taken by files Holodex does not track
    file_path,  \* the name each video's row has (videos.file_path)
    journal,    \* the pending file_renames row of each video
    last,       \* its latest done row
    job,        \* its rename row in the queue
    pc,         \* where the worker running that job stands
    phase,      \* the process: "recover", "up", "stopping"
    todo,       \* recovery: the videos whose rows are not yet replayed
    half,       \* history: a file has been moved to a via name
    jobs, faults, crashes

files == <<at, foreign, half>>
catalogue == <<file_path, journal, last>>
process == <<phase, todo, crashes>>
vars == <<files, catalogue, job, pc, process, jobs, faults>>

NoRow == [old |-> NoName, new |-> NoName, via |-> FALSE, undo |-> FALSE]
NoDone == [old |-> NoName, new |-> NoName]
NoJob == [status |-> "none", name |-> NoName, undo |-> FALSE, batch |-> 0, attempts |-> 0]

\* A repo call of a goroutine whose context is still live.
DB == phase = "up"

\* Folder.Exists: a file answers to name n, whosever it is.
Exists(n) == n \in foreign \/ \E v \in Videos : at[v] = n

Queued(v) == job[v].status \in {"pending", "running"}

To(v, here, there) == pc[v] = here /\ pc' = [pc EXCEPT ![v] = there]

-----------------------------------------------------------------------------
\* The plan.  Name n is free for v when nobody else has it, or only videos of M,
\* which are expected to move off theirs.

Free(v, n, M) ==
    \/ FoldKey[n] = FoldKey[file_path[v]]
    \/ /\ \A u \in Videos \ M : u # v => FoldKey[file_path[u]] # FoldKey[n]
       /\ \A m \in AllNames :
            Exists(m) /\ FoldKey[m] = FoldKey[n]
                => \E u \in Videos : FoldKey[file_path[u]] = FoldKey[m]

Batch(b) == IF b = 0 THEN {} ELSE {v \in Videos : Queued(v) /\ job[v].batch = b}

\* renameApply plans the selected videos and queues those of S, to be named t;
\* a selected video whose rename is queued already is skipped.
Apply(S, t) ==
    /\ DB /\ jobs < MaxJobs /\ S # {}
    /\ \A v \in S :
        /\ ~Queued(v)
        /\ t[v] # file_path[v] /\ Free(v, t[v], S \cup {u \in Videos : Queued(u)})
        /\ \A u \in S : FoldKey[t[u]] = FoldKey[t[v]] => u = v
    /\ job' = [v \in Videos |->
                IF v \in S THEN [status |-> "pending", name |-> t[v], undo |-> FALSE,
                                 batch |-> jobs + 1, attempts |-> 0]
                ELSE job[v]]
    /\ jobs' = jobs + 1
    /\ UNCHANGED <<files, catalogue, pc, process, faults>>

\* renameUndo
Undo(v) ==
    /\ DB /\ jobs < MaxJobs /\ ~Queued(v)
    /\ last[v] # NoDone /\ last[v].new = file_path[v]
    /\ Exists(last[v].old) => FoldKey[last[v].old] = FoldKey[last[v].new]
    /\ job' = [job EXCEPT ![v] = [status |-> "pending", name |-> last[v].old, undo |-> TRUE,
                                  batch |-> 0, attempts |-> 0]]
    /\ jobs' = jobs + 1
    /\ UNCHANGED <<files, catalogue, pc, process, faults>>

Retry(v) ==
    /\ DB /\ jobs < MaxJobs /\ job[v].status = "failed"
    /\ job' = [job EXCEPT ![v].status = "pending"]
    /\ jobs' = jobs + 1
    /\ UNCHANGED <<files, catalogue, pc, process, faults>>

Dismiss(v) ==
    /\ DB /\ job[v].status = "failed"
    /\ job' = [job EXCEPT ![v] = NoJob]
    /\ UNCHANGED <<files, catalogue, pc, process, jobs, faults>>

\* Somebody puts a file of their own into the folder.
Drop(n) ==
    /\ ~Exists(n) /\ Cardinality(foreign) < MaxForeign
    /\ foreign' = foreign \cup {n}
    /\ UNCHANGED <<at, half, catalogue, job, pc, process, jobs, faults>>

-----------------------------------------------------------------------------
\* Executor.Run.

Claim(v) ==
    /\ DB /\ job[v].status = "pending" /\ pc[v] = "idle"
    /\ Cardinality({u \in Videos : pc[u] # "idle"}) < Concurrency
    /\ job' = [job EXCEPT ![v].status = "running", ![v].attempts = @ + 1]
    /\ pc' = [pc EXCEPT ![v] = "look"]
    /\ UNCHANGED <<files, catalogue, process, jobs, faults>>

\* where: the names of v's journal row that a file answers to.
AtOld(v) == Exists(journal[v].old)
AtNew(v) == Exists(journal[v].new)
AtVia(v) == journal[v].via /\ Exists(ViaName[v])

\* Mutant: the row of a file found aside is dropped too.
LookDropping(v) ==
    /\ pc[v] = "look" /\ DB
    /\ IF journal[v] # NoRow /\ AtNew(v) /\ ~AtOld(v)
       THEN pc' = [pc EXCEPT ![v] = "complete"] /\ UNCHANGED journal
       ELSE pc' = [pc EXCEPT ![v] = "plan"] /\ journal' = [journal EXCEPT ![v] = NoRow]
    /\ UNCHANGED <<files, file_path, last, job, process, jobs, faults>>

\* A row left by an earlier attempt: a rename that landed is finished, one aside
\* at its via name is resumed, any other is dropped.
Look(v) ==
    /\ pc[v] = "look" /\ DB
    /\ IF journal[v] # NoRow /\ AtNew(v) /\ ~AtOld(v)
       THEN pc' = [pc EXCEPT ![v] = "complete"] /\ UNCHANGED journal
       ELSE /\ pc' = [pc EXCEPT ![v] = "plan"]
            /\ journal' = [journal EXCEPT ![v] = IF AtVia(v) THEN @ ELSE NoRow]
    /\ UNCHANGED <<files, file_path, last, job, process, jobs, faults>>

\* A held original, a lock, a plan that no longer gives this name, or an undo of
\* what is not the latest rename: the job fails and nothing is undone.
Refuse(v) ==
    /\ To(v, "look", "failed") \/ To(v, "plan", "failed")
    /\ DB
    /\ UNCHANGED <<files, catalogue, job, process, jobs, faults>>

\* ErrNoop: the metadata asks for the name the file has.
AlreadyNamed(v) ==
    /\ To(v, "plan", "ok")
    /\ DB /\ ~job[v].undo /\ journal[v] = NoRow
    /\ UNCHANGED <<files, catalogue, job, process, jobs, faults>>

InsertPendingRename(v) ==
    /\ To(v, "plan", "move")
    /\ DB /\ journal[v] = NoRow
    /\ IF job[v].undo
       THEN last[v] = [old |-> job[v].name, new |-> file_path[v]]
       ELSE job[v].name # file_path[v] /\ Free(v, job[v].name, Batch(job[v].batch))
    /\ journal' = [journal EXCEPT ![v] = [old |-> file_path[v], new |-> job[v].name,
                                          via |-> FALSE, undo |-> job[v].undo]]
    /\ UNCHANGED <<files, file_path, last, job, process, jobs, faults>>

\* A rename found aside goes on with the row it has.
Resume(v) ==
    /\ To(v, "plan", "move")
    /\ DB /\ journal[v] # NoRow
    /\ job[v].undo => last[v] = [old |-> job[v].name, new |-> file_path[v]]
    /\ UNCHANGED <<files, catalogue, job, process, jobs, faults>>

Source(v) == IF journal[v].via THEN ViaName[v] ELSE journal[v].old

\* A change of case or composition only.
TwoSteps(v) == /\ Source(v) # ViaName[v]
               /\ FoldKey[Source(v)] = FoldKey[journal[v].new]

Target(v) == IF TwoSteps(v) THEN ViaName[v] ELSE journal[v].new

\* Mutant: a move replaces the file it lands on.
MovesOver(src, dst) ==
    /\ Exists(src)
    /\ at' = [v \in Videos |-> IF at[v] = src THEN dst ELSE at[v]]
    /\ foreign' = {IF n = src THEN dst ELSE n : n \in foreign}
    /\ half' = (half \/ dst \in Vias)

\* ops.move: whatever file has name src, never replacing dst ...
Moves(src, dst) ==
    /\ Exists(src) /\ ~Exists(dst)
    /\ at' = [v \in Videos |-> IF at[v] = src THEN dst ELSE at[v]]
    /\ foreign' = {IF n = src THEN dst ELSE n : n \in foreign}
    /\ half' = (half \/ dst \in Vias)

\* ... and can fail for want of the file, or of anything.
MoveErrs(src) ==
    \/ ~Exists(src) /\ UNCHANGED faults
    \/ faults < MaxFaults /\ faults' = faults + 1

\* Mutant: the second step of a two-step rename is left out.
MoveOnce(v) ==
    /\ pc[v] = "move"
    /\ pc' = [pc EXCEPT ![v] = "complete"]
    /\ Moves(Source(v), Target(v))
    /\ UNCHANGED <<catalogue, job, process, jobs, faults>>

Move(v) ==
    /\ pc[v] = "move"
    /\ pc' = [pc EXCEPT ![v] = IF TwoSteps(v) THEN "via" ELSE "complete"]
    /\ Moves(Source(v), Target(v))
    /\ UNCHANGED <<catalogue, job, process, jobs, faults>>

MoveExists(v) ==
    /\ To(v, "move", "exists")
    /\ Exists(Source(v)) /\ Exists(Target(v))
    /\ UNCHANGED <<files, catalogue, job, process, jobs, faults>>

MoveFails(v) ==
    /\ To(v, "move", "unwind")
    /\ MoveErrs(Source(v))
    /\ UNCHANGED <<files, catalogue, job, process, jobs>>

\* The via name is journaled after the move to it.
SetRenameVia(v) ==
    /\ pc[v] = "via"
    /\ IF DB THEN /\ journal' = [journal EXCEPT ![v].via = TRUE]
                  /\ pc' = [pc EXCEPT ![v] = "move"]
       ELSE pc' = [pc EXCEPT ![v] = "unwind"] /\ UNCHANGED journal
    /\ UNCHANGED <<files, file_path, last, job, process, jobs, faults>>

\* file_path is UNIQUE.
Unique(v, n) == \A u \in Videos : u # v => file_path[u] # n

\* CompleteRename's transaction for the row of v.
Completes(v) ==
    /\ file_path[v] \in {journal[v].old, journal[v].new}
                        \cup (IF journal[v].via THEN {ViaName[v]} ELSE {})
    /\ Unique(v, journal[v].new)

Completed(v) ==
    /\ file_path' = [file_path EXCEPT ![v] = journal[v].new]
    /\ last' = [last EXCEPT ![v] = [old |-> journal[v].old, new |-> journal[v].new]]
    /\ journal' = [journal EXCEPT ![v] = NoRow]

CompleteRename(v) ==
    /\ DB
    /\ \/ To(v, "complete", "ok") /\ Completes(v) /\ Completed(v)
       \/ To(v, "complete", "failed") /\ ~Completes(v) /\ UNCHANGED catalogue
    /\ UNCHANGED <<files, job, process, jobs, faults>>

-----------------------------------------------------------------------------
\* unwind

\* waitsInBatch: byName, the queued renames of v's batch by the folded name each
\* one's video has; of two with one key the row listed last stays.
ByName(v) ==
    LET key(u) == FoldKey[file_path[u]]
        B == Batch(job[v].batch)
    IN  {h \in [{key(u) : u \in B} -> B] : \A k \in DOMAIN h : key(h[k]) = k}

Waits(v, h) ==
    /\ ~journal[v].undo /\ job[v].attempts <= MaxWaits
    /\ FoldKey[journal[v].new] \in DOMAIN h /\ h[FoldKey[journal[v].new]] # v

\* Following the holders' own targets leads back to v.
Cycle(v, h) ==
    LET m[k \in Nat] ==
            IF k = 0 THEN h[FoldKey[journal[v].new]]
            ELSE LET next == FoldKey[job[m[k - 1]].name]
                 IN  IF next \in DOMAIN h THEN h[next] ELSE m[k - 1]
    IN  \E k \in 0 .. Cardinality(DOMAIN h) - 1 : m[k] = v

Aside(v) == Exists(ViaName[v])

\* The name is held by a rename of the same batch: wait behind it ...
WaitAside(v) ==
    /\ To(v, "exists", "requeue")
    /\ DB /\ Aside(v) /\ \E h \in ByName(v) : Waits(v, h)
    /\ UNCHANGED <<files, catalogue, job, process, jobs, faults>>

Wait(v) ==
    /\ To(v, "exists", "requeue")
    /\ DB /\ ~Aside(v) /\ \E h \in ByName(v) : Waits(v, h) /\ ~Cycle(v, h)
    /\ journal' = [journal EXCEPT ![v] = NoRow]
    /\ UNCHANGED <<files, file_path, last, job, process, jobs, faults>>

\* ... or, when that one waits for this, step aside.
StepAside(v) ==
    /\ To(v, "exists", "aside")
    /\ DB /\ ~Aside(v) /\ \E h \in ByName(v) : Waits(v, h) /\ Cycle(v, h)
    /\ Moves(journal[v].old, ViaName[v])
    /\ UNCHANGED <<catalogue, job, process, jobs, faults>>

StepAsideFails(v) ==
    /\ To(v, "exists", "failed")
    /\ DB /\ ~Aside(v) /\ \E h \in ByName(v) : Waits(v, h) /\ Cycle(v, h)
    /\ MoveErrs(journal[v].old)
    /\ journal' = [journal EXCEPT ![v] = NoRow]
    /\ UNCHANGED <<files, file_path, last, job, process, jobs>>

StepAsideRename(v) ==
    /\ To(v, "aside", "requeue")
    /\ DB
    /\ journal' = [journal EXCEPT ![v].via = TRUE]
    /\ file_path' = [file_path EXCEPT ![v] = IF @ = journal[v].old THEN ViaName[v] ELSE @]
    /\ UNCHANGED <<files, last, job, process, jobs, faults>>

\* Anything else puts the file back, if it is aside.
GiveUp(v) ==
    /\ To(v, "exists", "unwind")
    /\ \E h \in ByName(v) : ~Waits(v, h)
    /\ (DB \/ journal[v].undo \/ job[v].attempts > MaxWaits)
    /\ UNCHANGED <<files, catalogue, job, process, jobs, faults>>

PutBack(v) ==
    /\ To(v, "unwind", "abandon")
    /\ Moves(ViaName[v], journal[v].old)
    /\ UNCHANGED <<catalogue, job, process, jobs, faults>>

\* The old name is taken by now, or the move fails: the file stays aside.
PutBackFails(v) ==
    /\ To(v, "unwind", "failed")
    /\ Aside(v)
    /\ (Exists(journal[v].old) /\ UNCHANGED faults) \/ MoveErrs(ViaName[v])
    /\ UNCHANGED <<files, catalogue, job, process, jobs>>

NotAside(v) ==
    /\ To(v, "unwind", "abandon")
    /\ ~Aside(v)
    /\ UNCHANGED <<files, catalogue, job, process, jobs, faults>>

\* AbandonRename's transaction.
PathBack(v) == IF file_path[v] = ViaName[v] THEN journal[v].old ELSE file_path[v]

Abandoned(v) ==
    IF Unique(v, PathBack(v))
    THEN /\ file_path' = [file_path EXCEPT ![v] = PathBack(v)]
         /\ journal' = [journal EXCEPT ![v] = NoRow]
         /\ UNCHANGED last
    ELSE UNCHANGED catalogue

AbandonRename(v) ==
    /\ To(v, "abandon", "failed")
    /\ DB
    /\ Abandoned(v)
    /\ UNCHANGED <<files, job, process, jobs, faults>>

\* processRename: the row's end.
Finish(v) ==
    /\ To(v, "ok", "idle") \/ To(v, "failed", "idle")
    /\ DB
    /\ job' = [job EXCEPT ![v] = IF pc[v] = "ok" THEN NoJob ELSE [@ EXCEPT !.status = "failed"]]
    /\ UNCHANGED <<files, catalogue, process, jobs, faults>>

Requeue(v) ==
    /\ To(v, "requeue", "idle")
    /\ DB
    /\ job' = [job EXCEPT ![v].status = "pending"]
    /\ UNCHANGED <<files, catalogue, process, jobs, faults>>

\* The steps that need the context end the job without it: its row stays running.
Cancelled(v) ==
    /\ phase = "stopping"
    /\ \/ pc[v] \in {"look", "plan", "complete", "aside", "abandon", "ok", "failed", "requeue"}
       \/ pc[v] = "exists" /\ ~journal[v].undo /\ job[v].attempts <= MaxWaits
    /\ pc' = [pc EXCEPT ![v] = "idle"]
    /\ UNCHANGED <<files, catalogue, job, process, jobs, faults>>

-----------------------------------------------------------------------------
\* The process.

Stop ==
    /\ phase = "up" /\ crashes < MaxCrashes
    /\ phase' = "stopping"
    /\ UNCHANGED <<files, catalogue, job, pc, todo, crashes, jobs, faults>>

\* It ends at any moment and is started again.
Restart ==
    /\ crashes < MaxCrashes
    /\ phase' = "recover" /\ crashes' = crashes + 1
    /\ todo' = {v \in Videos : journal[v] # NoRow}
    /\ pc' = [v \in Videos |-> "idle"]
    /\ UNCHANGED <<files, catalogue, job, jobs, faults>>

\* recoverOne, for each row of the journal.
Replaying(v) == phase = "recover" /\ v \in todo /\ pc[v] = "idle"
Replayed(v) == todo' = todo \ {v} /\ UNCHANGED <<phase, crashes>>

RecoverNew(v) ==
    /\ Replaying(v) /\ AtNew(v) /\ ~AtOld(v)
    /\ IF Completes(v) THEN Completed(v) ELSE UNCHANGED catalogue
    /\ Replayed(v)
    /\ UNCHANGED <<files, job, pc, jobs, faults>>

RecoverOld(v) ==
    /\ Replaying(v) /\ AtOld(v) /\ ~AtNew(v) /\ ~AtVia(v)
    /\ journal' = [journal EXCEPT ![v] = NoRow]
    /\ Replayed(v)
    /\ UNCHANGED <<files, file_path, last, job, pc, jobs, faults>>

\* The requeued job will resume it.
RecoverViaJob(v) ==
    /\ Replaying(v) /\ AtVia(v) /\ ~AtOld(v) /\ ~AtNew(v) /\ Queued(v)
    /\ Replayed(v)
    /\ UNCHANGED <<files, catalogue, job, pc, jobs, faults>>

RecoverVia(v) ==
    /\ Replaying(v) /\ AtVia(v) /\ ~AtOld(v) /\ ~AtNew(v) /\ ~Queued(v)
    /\ \/ /\ Moves(ViaName[v], journal[v].old)
          /\ pc' = [pc EXCEPT ![v] = "back"]
          /\ UNCHANGED <<process, faults>>
       \/ /\ MoveErrs(ViaName[v])
          /\ Replayed(v)
          /\ UNCHANGED <<files, pc>>
    /\ UNCHANGED <<catalogue, job, jobs>>

RecoverBack(v) ==
    /\ phase = "recover" /\ To(v, "back", "idle")
    /\ Abandoned(v)
    /\ Replayed(v)
    /\ UNCHANGED <<files, job, jobs, faults>>

\* At none of the names, or at more than one.
RecoverLost(v) ==
    /\ Replaying(v)
    /\ ~(AtNew(v) /\ ~AtOld(v)) /\ ~(AtOld(v) /\ ~AtNew(v) /\ ~AtVia(v))
    /\ ~(AtVia(v) /\ ~AtOld(v) /\ ~AtNew(v))
    /\ job' = [job EXCEPT ![v].status = IF Queued(v) THEN "failed" ELSE @]
    /\ journal' = [journal EXCEPT ![v] = NoRow]
    /\ Replayed(v)
    /\ UNCHANGED <<files, file_path, last, pc, jobs, faults>>

\* Mutant: the rows that were running are left alone.
RecoveredOnly ==
    /\ phase = "recover" /\ todo = {}
    /\ phase' = "up"
    /\ UNCHANGED <<files, catalogue, job, pc, todo, crashes, jobs, faults>>

\* Queue.Start requeues the running rows before its workers claim.
Recovered ==
    /\ phase = "recover" /\ todo = {}
    /\ phase' = "up"
    /\ job' = [v \in Videos |-> IF job[v].status = "running"
                                THEN [job[v] EXCEPT !.status = "pending"] ELSE job[v]]
    /\ UNCHANGED <<files, catalogue, pc, todo, crashes, jobs, faults>>

-----------------------------------------------------------------------------
Init ==
    /\ at = First /\ foreign = {} /\ half = FALSE
    /\ file_path = First
    /\ journal = [v \in Videos |-> NoRow]
    /\ last = [v \in Videos |-> NoDone]
    /\ job = [v \in Videos |-> NoJob]
    /\ pc = [v \in Videos |-> "idle"]
    /\ phase = "up" /\ todo = {}
    /\ jobs = 0 /\ faults = 0 /\ crashes = 0

Api ==
    \/ \E S \in SUBSET Videos : \E t \in [S -> Names] : Apply(S, t)
    \/ \E v \in Videos : Undo(v) \/ Retry(v) \/ Dismiss(v)

Unwind(v) ==
    \/ WaitAside(v) \/ Wait(v) \/ StepAside(v) \/ StepAsideFails(v) \/ StepAsideRename(v)
    \/ GiveUp(v) \/ PutBack(v) \/ PutBackFails(v) \/ NotAside(v) \/ AbandonRename(v)

Run(v) ==
    \/ Look(v) \/ Refuse(v) \/ AlreadyNamed(v) \/ InsertPendingRename(v) \/ Resume(v)
    \/ Move(v) \/ MoveExists(v) \/ MoveFails(v) \/ SetRenameVia(v) \/ CompleteRename(v)
    \/ Unwind(v) \/ Finish(v) \/ Requeue(v) \/ Cancelled(v)

Recovery ==
    \/ \E v \in Videos :
        \/ RecoverNew(v) \/ RecoverOld(v) \/ RecoverViaJob(v) \/ RecoverVia(v)
        \/ RecoverBack(v) \/ RecoverLost(v)
    \/ Recovered

Next ==
    \/ Api \/ (\E n \in Names : Drop(n))
    \/ \E v \in Videos : Claim(v) \/ Run(v)
    \/ Stop \/ Restart \/ Recovery

Spec == Init /\ [][Next]_vars

\* Workers and recovery are scheduled, and a process told to stop ends and is
\* started again.  Nobody has to call the API.
FairSpec ==
    /\ Spec
    /\ \A v \in Videos : WF_vars(Claim(v)) /\ WF_vars(Run(v))
    /\ WF_vars(Recovery) /\ WF_vars(phase = "stopping" /\ Restart)
-----------------------------------------------------------------------------
Rows == [old : AllNames, new : AllNames, via : BOOLEAN, undo : BOOLEAN] \cup {NoRow}
Dones == [old : AllNames, new : AllNames] \cup {NoDone}
Jobs == [status : {"pending", "running", "failed"}, name : AllNames, undo : BOOLEAN,
         batch : 0 .. MaxJobs, attempts : Nat] \cup {NoJob}

\* Type invariant.
TypeOK ==
    /\ at \in [Videos -> AllNames]
    /\ foreign \subseteq AllNames
    /\ file_path \in [Videos -> AllNames]
    /\ journal \in [Videos -> Rows] /\ last \in [Videos -> Dones] /\ job \in [Videos -> Jobs]
    /\ pc \in [Videos -> {"idle", "look", "plan", "move", "via", "complete", "exists", "aside",
                          "unwind", "abandon", "ok", "failed", "requeue", "back"}]
    /\ phase \in {"recover", "up", "stopping"}
    /\ todo \subseteq Videos
    /\ jobs \in 0 .. MaxJobs /\ faults \in 0 .. MaxFaults /\ crashes \in 0 .. MaxCrashes

\* No file is ever overwritten: not a video's by another's rename, nor one that
\* Holodex does not track, whatever was planned, journaled or recovered before.
NoOverwrite ==
    /\ \A v, u \in Videos : at[v] = at[u] => v = u
    /\ \A v \in Videos : at[v] \notin foreign

\* The conditions under which a rename keeps its promises: nobody else's file
\* interferes, and the process does not end once a file has been half-way.  (The
\* promises also want one worker: Concurrency = 1, the default.)
Sheltered == foreign = {} /\ (half => crashes = 0 /\ phase = "up")

\* "A rename keeps the video whole" (docs/specs/file-rename.md, P0-9): between
\* jobs each file is where its video's row says, or where a pending journal row
\* says.  A plain rename survives any crash and failed move, a swap of names or a
\* change of case any failed move, unless another video has the name that differs
\* only in case: a file left aside for it can then be told apart wrongly.
WholeAtRest ==
    Sheltered /\ phase = "up" => \A v \in Videos : pc[v] = "idle" =>
        IF journal[v] = NoRow THEN at[v] = file_path[v]
        ELSE \/ at[v] \in {journal[v].old, journal[v].new}
             \/ at[v] = ViaName[v] /\ journal[v].via

\* A row is marked done only for a file that has the new name: another file that
\* answers to it is never taken for the video's own (Executor.Run, recoverOne).
DoneIsTrue ==
    [][Sheltered' => \A v \in Videos : last'[v] # last[v] => at[v] = last'[v].new]_vars

\* A rename that waits for another of its batch does not wait for ever, and one
\* that a crash interrupted comes to an end.
RenameSettles == \A v \in Videos : Queued(v) ~> ~Queued(v)

=============================================================================
