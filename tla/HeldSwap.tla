------------------------------ MODULE HeldSwap ------------------------------
(***************************************************************************)
(* The maintenance of one video's file (internal/maintenance): the worker  *)
(* running flip, restore and discard jobs, the two-rename swap journaled   *)
(* in held_originals, its recovery at boot, the expiry pass and the orphan *)
(* sweep of the write queue.  Every rename, every removal and every call   *)
(* of the repo is a step of its own, so a crash may fall between any two.  *)
(*                                                                         *)
(* The video has at most one maintenance row (WriteQueue!SingleRow) and no *)
(* tag write runs beside it (WriteQueue!ExclusiveFile), so one op and one  *)
(* status stand for the lane.  A picture is the number of re-encodes it    *)
(* has been through.  File system calls may fail; database calls fail when *)
(* the context of the process has been cancelled, and only then.           *)
(***************************************************************************)
EXTENDS Naturals

CONSTANTS
    Absent,     \* there is no file of this name
    Partial,    \* a file a tool is still writing
    MaxJobs,    \* bound: jobs requested or retried
    MaxFaults,  \* bound: file system calls that fail
    MaxCrashes  \* bound: ends of the process

ASSUME FilesAssumption == Absent \notin Nat /\ Partial \notin Nat /\ Absent # Partial
ASSUME BoundsAssumption == MaxJobs \in Nat /\ MaxFaults \in Nat /\ MaxCrashes \in Nat

VARIABLES
    path,      \* the library file
    new,       \* NewPath: the candidate, <file>.holodex-new
    held,      \* HeldPath: the original, <file>.holodex-orig
    row,       \* state of the held_originals row, "none" without one
    expired,   \* the hold is past expires_at
    op,        \* operation of the video's maintenance row
    status,    \* status of that row, "none" without one
    pc,        \* where the worker stands
    applied,   \* history: how often the queued flip has replaced the file
    asked,     \* the operation an API request has checked and not yet queued
    expiry,    \* where the expiry pass stands
    phase,     \* the process: "down", "recover", "up", "stopping"
    starter,   \* where Queue.Start stands: "wait", "sweep", "done"
    faulty,    \* a file system call has failed since the last boot
    faults, jobs, crashes

files == <<path, new, held>>
journal == <<row, expired>>
lane == <<op, status>>
api == <<asked, expiry, jobs>>
process == <<phase, starter, crashes>>
fs == <<faulty, faults>>
vars == <<files, journal, lane, pc, applied, api, process, fs>>

Ops == {"hflip", "restore", "discard"}

\* A repo call of a goroutine whose context is still live.
DB == phase = "up"

\* A rename or a removal fails.
Fault ==
    /\ faults < MaxFaults
    /\ faults' = faults + 1
    /\ faulty' = TRUE

Step(here, there) == pc = here /\ pc' = there

-----------------------------------------------------------------------------
\* The lane.  An API request checks first and queues in a later transaction;
\* the queue refuses it when a job is queued or running, and otherwise drops a
\* failed one.

Enqueue(o) ==
    IF status \in {"pending", "running"} THEN UNCHANGED <<lane, applied>>
    ELSE op' = o /\ status' = "pending" /\ applied' = 0

\* enqueueFlip runs the preflight, which reads the file.
AskFlip ==
    /\ DB /\ asked = "none" /\ jobs < MaxJobs
    /\ status \notin {"pending", "running"} /\ path # Absent
    /\ asked' = "hflip" /\ jobs' = jobs + 1
    /\ UNCHANGED <<files, journal, lane, pc, applied, expiry, process, fs>>

\* enqueueHeld wants a standing hold.
AskHeld(o) ==
    /\ DB /\ asked = "none" /\ jobs < MaxJobs
    /\ row = "held"
    /\ asked' = o /\ jobs' = jobs + 1
    /\ UNCHANGED <<files, journal, lane, pc, applied, expiry, process, fs>>

EnqueueOp ==
    /\ DB /\ asked # "none"
    /\ Enqueue(asked)
    /\ asked' = "none"
    /\ UNCHANGED <<files, journal, pc, expiry, jobs, process, fs>>

Retry ==
    /\ DB /\ status = "failed" /\ jobs < MaxJobs
    /\ status' = "pending" /\ jobs' = jobs + 1
    /\ UNCHANGED <<files, journal, op, pc, applied, asked, expiry, process, fs>>

Dismiss ==
    /\ DB /\ status = "failed"
    /\ status' = "none"
    /\ UNCHANGED <<files, journal, op, pc, applied, api, process, fs>>

\* The hold's window passes.
Expire ==
    /\ row = "held" /\ ~expired
    /\ expired' = TRUE
    /\ UNCHANGED <<files, row, lane, pc, applied, api, process, fs>>

\* ExpireHeld lists the expired holds, then reads each video's job status, then
\* queues the discard: three transactions.
ExpiryList ==
    /\ DB /\ expiry = "idle" /\ row = "held" /\ expired
    /\ expiry' = "listed"
    /\ UNCHANGED <<files, journal, lane, pc, applied, asked, jobs, process, fs>>

ExpiryCheck ==
    /\ DB /\ expiry = "listed"
    /\ expiry' = IF status = "failed" /\ op # "discard" THEN "idle" ELSE "checked"
    /\ UNCHANGED <<files, journal, lane, pc, applied, asked, jobs, process, fs>>

ExpiryEnqueue ==
    /\ DB /\ expiry = "checked"
    /\ Enqueue("discard")
    /\ expiry' = "idle"
    /\ UNCHANGED <<files, journal, pc, asked, jobs, process, fs>>

-----------------------------------------------------------------------------
\* Worker.process: the claimed job's operation, step by step.

Claim ==
    /\ DB /\ status = "pending" /\ pc = "idle"
    /\ status' = "running"
    /\ pc' = op
    /\ UNCHANGED <<files, journal, op, applied, api, process, fs>>

\* Worker.flip: Rebuild writes the candidate ...
Rebuild ==
    /\ Step("hflip", "verify")
    /\ DB /\ path # Absent
    /\ new' = Partial
    /\ UNCHANGED <<path, held, journal, lane, applied, api, process, fs>>

RebuildFails ==
    /\ Step("hflip", "failed")
    /\ ~DB \/ path = Absent
    /\ UNCHANGED <<files, journal, lane, applied, api, process, fs>>

\* ... and Verify passes it.  The tools die with the context.
Verify ==
    /\ Step("verify", "begin")
    /\ DB /\ new = Partial
    /\ new' = path + 1
    /\ UNCHANGED <<path, held, journal, lane, applied, api, process, fs>>

\* A failed candidate is removed, if that works; the error is ignored.
VerifyFails ==
    /\ Step("verify", "failed")
    /\ new' \in {Absent, new}
    /\ UNCHANGED <<path, held, journal, lane, applied, api, process, fs>>

\* Swapper.Swap up to BeginSwap.  While a hold stands the candidate replaces
\* the current file directly.
BeginSwap ==
    /\ pc = "begin" /\ DB
    /\ \/ row = "held" /\ pc' = "replace" /\ UNCHANGED journal
       \/ row = "none" /\ held = Absent
          /\ pc' = "hold" /\ row' = "swapping" /\ expired' = FALSE
    /\ UNCHANGED <<files, lane, applied, api, process, fs>>

Swappable == row = "held" \/ (row = "none" /\ held = Absent)

\* A row in transit, a held file that no row explains, or no telling.
BeginSwapRefused ==
    /\ Step("begin", "drop")
    /\ ((~DB \/ ~Swappable) /\ UNCHANGED fs) \/ Fault
    /\ UNCHANGED <<files, journal, lane, applied, api, process>>

Hold ==
    /\ Step("hold", "place")
    /\ path # Absent
    /\ held' = path /\ path' = Absent
    /\ UNCHANGED <<new, journal, lane, applied, api, process, fs>>

HoldFails ==
    /\ Step("hold", "unjournal")
    /\ Fault
    /\ UNCHANGED <<files, journal, lane, applied, api, process>>

Place ==
    /\ \/ Step("place", "setHeld")
       \/ Step("replace", "done")
    /\ new # Absent
    /\ path' = new /\ new' = Absent
    /\ applied' = applied + 1
    /\ UNCHANGED <<held, journal, lane, api, process, fs>>

\* The candidate may be gone: the orphan sweep runs beside the worker.
PlaceFails ==
    /\ \/ Step("place", "rollback")
       \/ Step("replace", "drop")
    /\ Fault \/ (new = Absent /\ UNCHANGED fs)
    /\ UNCHANGED <<files, journal, lane, applied, api, process>>

Rollback ==
    /\ Step("rollback", "unjournal")
    /\ path' = held /\ held' = Absent
    /\ UNCHANGED <<new, journal, lane, applied, api, process, fs>>

\* The row stays in swapping, for the boot to settle.
RollbackFails ==
    /\ Step("rollback", "drop")
    /\ Fault
    /\ UNCHANGED <<files, journal, lane, applied, api, process>>

Unjournal ==
    /\ Step("unjournal", "drop")
    /\ row' = IF DB THEN "none" ELSE row
    /\ UNCHANGED <<files, expired, lane, applied, api, process, fs>>

SetHeld ==
    /\ pc = "setHeld"
    /\ IF DB THEN row' = "held" /\ pc' = "done" ELSE UNCHANGED row /\ pc' = "drop"
    /\ UNCHANGED <<files, expired, lane, applied, api, process, fs>>

\* Worker.do removes the candidate of a failed swap, ignoring the error.
DropNew ==
    /\ Step("drop", "failed")
    /\ new' \in {Absent, new}
    /\ UNCHANGED <<path, held, journal, lane, applied, api, process, fs>>

\* Swapper.Restore and Swapper.Discard: heldFor, then SetHeldState.
BeginEnd ==
    /\ DB /\ row = "held"
    /\ \/ Step("restore", "moveBack") /\ row' = "restoring"
       \/ Step("discard", "remove") /\ row' = "discarding"
    /\ UNCHANGED <<files, expired, lane, applied, api, process, fs>>

BeginEndRefused ==
    /\ Step("restore", "failed") \/ Step("discard", "failed")
    /\ ~DB \/ row # "held"
    /\ UNCHANGED <<files, journal, lane, applied, api, process, fs>>

MoveBack ==
    /\ Step("moveBack", "endHold")
    /\ path' = held /\ held' = Absent
    /\ UNCHANGED <<new, journal, lane, applied, api, process, fs>>

Remove ==
    /\ Step("remove", "endHold")
    /\ held' = Absent
    /\ UNCHANGED <<path, new, journal, lane, applied, api, process, fs>>

EndFails ==
    /\ Step("moveBack", "rehold") \/ Step("remove", "rehold")
    /\ Fault
    /\ UNCHANGED <<files, journal, lane, applied, api, process>>

\* The hold still stands.
Rehold ==
    /\ Step("rehold", "failed")
    /\ row' = IF DB THEN "held" ELSE row
    /\ UNCHANGED <<files, expired, lane, applied, api, process, fs>>

EndHold ==
    /\ pc = "endHold"
    /\ IF DB THEN row' = "none" /\ pc' = "done" ELSE UNCHANGED row /\ pc' = "failed"
    /\ UNCHANGED <<files, expired, lane, applied, api, process, fs>>

\* FinishWriteback.  Under a cancelled context it fails, or is not reached: the
\* row stays running.
Finish ==
    /\ Step("done", "idle") \/ Step("failed", "idle")
    /\ status' = IF ~DB THEN status ELSE IF pc = "done" THEN "none" ELSE "failed"
    /\ UNCHANGED <<files, journal, op, applied, api, process, fs>>

-----------------------------------------------------------------------------
\* Queue.Start, in a goroutine beside the worker: RecoverRunningWritebacks ...
RecoverRunning ==
    /\ DB /\ starter = "wait"
    /\ starter' = "sweep"
    /\ status' = IF status = "running" THEN "pending" ELSE status
    /\ UNCHANGED <<files, journal, op, pc, applied, api, phase, crashes, fs>>

\* ... then sweepOrphans, whose walk comes to this directory at some moment and
\* removes a candidate it finds there.
SweepOrphans ==
    /\ phase \in {"up", "stopping"} /\ starter = "sweep"
    /\ starter' = "done"
    /\ new' = Absent
    /\ UNCHANGED <<path, held, journal, lane, pc, applied, api, phase, crashes, fs>>

\* The process is told to stop: the context is cancelled, the goroutines run on.
Stop ==
    /\ phase = "up" /\ crashes < MaxCrashes
    /\ phase' = "stopping"
    /\ UNCHANGED <<files, journal, lane, pc, applied, api, starter, crashes, fs>>

\* The process ends, at any moment, without waiting for the worker.
Exit ==
    /\ phase # "down" /\ crashes < MaxCrashes
    /\ phase' = "down" /\ starter' = "wait" /\ crashes' = crashes + 1
    /\ pc' = "idle" /\ asked' = "none" /\ expiry' = "idle"
    /\ UNCHANGED <<files, journal, lane, applied, jobs, fs>>

Boot ==
    /\ phase = "down"
    /\ phase' = "recover" /\ faulty' = FALSE
    /\ UNCHANGED <<files, journal, lane, pc, applied, api, starter, crashes, faults>>

\* Mutant: an interrupted restore is recovered like a discard.
RecoverMoveDiscarding ==
    \/ /\ row = "swapping" /\ path = Absent /\ held # Absent
       /\ path' = held /\ held' = Absent /\ UNCHANGED <<new, applied>>
    \/ /\ row \in {"restoring", "discarding"} /\ held # Absent
       /\ held' = Absent /\ UNCHANGED <<path, new, applied>>

\* recoverOne moves at most one file ...
RecoverMove ==
    \/ /\ row = "swapping" /\ path = Absent /\ held # Absent /\ new # Absent
       /\ path' = new /\ new' = Absent /\ applied' = applied + 1
       /\ UNCHANGED held
    \/ /\ row = "swapping" /\ path = Absent /\ held # Absent /\ new = Absent
       /\ path' = held /\ held' = Absent /\ UNCHANGED <<new, applied>>
    \/ /\ row = "restoring" /\ held # Absent
       /\ path' = held /\ held' = Absent /\ UNCHANGED <<new, applied>>
    \/ /\ row = "discarding" /\ held # Absent
       /\ held' = Absent /\ UNCHANGED <<path, new, applied>>

\* Mutant: recovery lists the rows in swapping only.
RecoveredSwapOnly ==
    IF row # "swapping" THEN row ELSE IF held = Absent THEN "none" ELSE "held"

\* ... and then settles the row, as it does at once when no file has to move.
Recovered == IF row \in {"none", "held"} THEN row
             ELSE IF row = "swapping" /\ held # Absent THEN "held" ELSE "none"

\* What RecoverSwaps still has to move before it can settle the row.
Unmoved == \/ row = "swapping" /\ path = Absent
           \/ row \in {"restoring", "discarding"} /\ held # Absent

RecoverFiles ==
    /\ phase = "recover"
    /\ RecoverMove
    /\ UNCHANGED <<journal, lane, pc, api, process, fs>>

\* An error leaves the row for the next boot.  (That neither file is there,
\* another error of recoverOne, is what NeverWithoutFile rules out.)
RecoverFails ==
    /\ phase = "recover" /\ row \notin {"none", "held"}
    /\ Fault
    /\ phase' = "up"
    /\ UNCHANGED <<files, journal, lane, pc, applied, api, starter, crashes>>

\* Mutant: recovery undoes every swap by dropping its row.
RecoverRowDropping ==
    /\ phase = "recover" /\ (row = "swapping" \/ ~Unmoved)
    /\ phase' = "up"
    /\ row' = IF row = "swapping" THEN "none" ELSE Recovered
    /\ UNCHANGED <<files, expired, lane, pc, applied, api, starter, crashes, fs>>

RecoverRow ==
    /\ phase = "recover" /\ ~Unmoved
    /\ phase' = "up"
    /\ row' = Recovered
    /\ UNCHANGED <<files, expired, lane, pc, applied, api, starter, crashes, fs>>

-----------------------------------------------------------------------------
Init ==
    /\ path = 0 /\ new = Absent /\ held = Absent
    /\ row = "none" /\ expired = FALSE
    /\ op = "hflip" /\ status = "none"
    /\ pc = "idle" /\ applied = 0
    /\ asked = "none" /\ expiry = "idle"
    /\ phase = "down" /\ starter = "wait"
    /\ faulty = FALSE
    /\ faults = 0 /\ jobs = 0 /\ crashes = 0

Lane ==
    \/ AskFlip \/ AskHeld("restore") \/ AskHeld("discard") \/ EnqueueOp
    \/ Retry \/ Dismiss \/ Expire

Expiry == ExpiryList \/ ExpiryCheck \/ ExpiryEnqueue

Flip ==
    \/ Rebuild \/ RebuildFails \/ Verify \/ VerifyFails
    \/ BeginSwap \/ BeginSwapRefused \/ Hold \/ HoldFails \/ Place \/ PlaceFails
    \/ Rollback \/ RollbackFails \/ Unjournal \/ SetHeld \/ DropNew

EndOfHold ==
    BeginEnd \/ BeginEndRefused \/ MoveBack \/ Remove \/ EndFails \/ Rehold \/ EndHold

Worker == Claim \/ Flip \/ EndOfHold \/ Finish

Recovery == RecoverFiles \/ RecoverFails \/ RecoverRow

Start == RecoverRunning \/ SweepOrphans

Next == Lane \/ Expiry \/ Worker \/ Start \/ Stop \/ Exit \/ Boot \/ Recovery

Spec == Init /\ [][Next]_vars

\* The goroutines of the process are scheduled and the tools they run end, a
\* process told to stop ends, and the owner starts one that is down.  Nobody
\* has to call the API, and no hold has to expire.
FairSpec ==
    /\ Spec
    /\ WF_vars(Worker) /\ WF_vars(Recovery) /\ WF_vars(Start) /\ WF_vars(Boot)
    /\ WF_vars(phase = "stopping" /\ Exit)
-----------------------------------------------------------------------------
\* Type invariant.  The library file is never a half-written one.
TypeOK ==
    /\ path \in Nat \cup {Absent}
    /\ new \in Nat \cup {Absent, Partial}
    /\ held \in Nat \cup {Absent}
    /\ row \in {"none", "swapping", "held", "restoring", "discarding"}
    /\ expired \in BOOLEAN
    /\ op \in Ops
    /\ status \in {"none", "pending", "running", "failed"}
    /\ pc \in {"idle", "hflip", "verify", "begin", "hold", "place", "replace", "rollback",
               "unjournal", "setHeld", "drop", "restore", "moveBack", "discard", "remove",
               "rehold", "endHold", "done", "failed"}
    /\ applied \in Nat
    /\ asked \in Ops \cup {"none"}
    /\ expiry \in {"idle", "listed", "checked"}
    /\ phase \in {"down", "recover", "up", "stopping"}
    /\ starter \in {"wait", "sweep", "done"}
    /\ faulty \in BOOLEAN
    /\ faults \in 0 .. MaxFaults
    /\ jobs \in 0 .. MaxJobs
    /\ crashes \in 0 .. MaxCrashes

\* The library file is missing only between the two renames of a swap, and then
\* the original is set aside under a row that boot recovery will replay.  No
\* crash, failed rename or failed recovery takes the last copy of the film.
NeverWithoutFile == path = Absent => held # Absent /\ row = "swapping"

\* The journal and the disk agree on whether an original is held: a held file
\* always has a row (else every later flip is refused and nothing ever deletes
\* it) and a standing hold always has its file (else a restore has nothing to
\* return).
HeldJournaled ==
    /\ row = "none" => held = Absent
    /\ row = "held" => held # Absent /\ path # Absent

\* Between two jobs nothing is half done: unless the file system failed since
\* the boot, an idle worker has left either no hold or a standing one, and the
\* library file in its place.  A candidate swept away mid-swap does not break it.
SettledBetweenJobs ==
    phase = "up" /\ pc = "idle" /\ ~faulty => row \in {"none", "held"} /\ path # Absent

\* What the owner sees: between the two renames the file's picture is the one
\* set aside, and what is set aside is not yet a held original.
Abstract == INSTANCE HeldOriginal WITH
    None <- Absent,
    current <- IF path = Absent THEN held ELSE path,
    original <- IF path = Absent THEN Absent ELSE held,
    ending <- IF row = "restoring" THEN "restore"
              ELSE IF row = "discarding" THEN "discard" ELSE "none"

\* Every step is an atomic swap, restore or discard, or changes nothing the
\* owner sees: above all the original of the first operation is what a restore
\* returns, and a candidate is placed only over the picture it was made from.
ImplementsHeldOriginal == Abstract!Spec

\* A transient row does not outlive the job or the boot that finds it, unless
\* the file system fails.
JournalSettles == row \notin {"none", "held"} ~> (row \in {"none", "held"} \/ faulty)

=============================================================================
