-------------------------- MODULE FileRename_proofs --------------------------
(***************************************************************************)
(* What moves files.  No rename, step aside, put-back or replay overwrites *)
(* a file, for every folder, any number of workers, failed moves, foreign  *)
(* files and crashes; and the swap of a re-encoded file for its original,  *)
(* with its recovery, implements an exchange that takes effect at once.    *)
(***************************************************************************)
EXTENDS MCFileRename, FiniteSetTheorems, TLAPS

\* NoOverwrite with the domain of at: each video has one file.
Kept == DOMAIN at = Videos /\ NoOverwrite

LEMMA InitKept == Init => Kept
  BY FirstAssumption DEF Init, Kept, NoOverwrite

\* A move to a name nothing answers to keeps the files apart.
LEMMA MoveKeeps ==
  ASSUME Kept, NEW src, NEW dst, Moves(src, dst)
  PROVE  Kept'
<1>1. DOMAIN at' = Videos
  BY DEF Moves
<1>2. ASSUME NEW v \in Videos, NEW u \in Videos, at'[v] = at'[u] PROVE v = u
  BY <1>2 DEF Kept, NoOverwrite, Moves, Exists
<1>3. ASSUME NEW v \in Videos PROVE at'[v] \notin foreign'
  BY <1>3 DEF Kept, NoOverwrite, Moves, Exists
<1> QED
  BY <1>1, <1>2, <1>3 DEF Kept, NoOverwrite

\* What a step does to the files: it moves one so, drops a foreign one on a free
\* name, or leaves them alone.
FileStep ==
  \/ UNCHANGED files
  \/ \E src, dst : Moves(src, dst)
  \/ \E n \in Names : Drop(n)

LEMMA FileSteps == ASSUME [Next]_vars PROVE FileStep
<1>1. CASE Api
  BY <1>1 DEF FileStep, Api, Apply, Undo, Retry, Dismiss, files
<1>2. CASE \E n \in Names : Drop(n)
  BY <1>2 DEF FileStep
<1>3. ASSUME NEW v \in Videos, Claim(v) \/ Run(v) PROVE FileStep
  <2>1. CASE Unwind(v)
    BY <2>1 DEF FileStep, Unwind, WaitAside, Wait, StepAside, StepAsideFails, StepAsideRename, GiveUp,
                PutBack, PutBackFails, NotAside, AbandonRename, files
  <2>2. CASE Move(v)
    BY <2>2 DEF FileStep, Move
  <2>3. CASE \/ Look(v) \/ Refuse(v) \/ AlreadyNamed(v) \/ InsertPendingRename(v) \/ Resume(v)
             \/ MoveExists(v) \/ MoveFails(v) \/ SetRenameVia(v) \/ CompleteRename(v)
    BY <2>3 DEF FileStep, Look, Refuse, AlreadyNamed, InsertPendingRename, Resume, MoveExists,
                MoveFails, SetRenameVia, CompleteRename, files
  <2>4. CASE Claim(v) \/ Finish(v) \/ Requeue(v) \/ Cancelled(v)
    BY <2>4 DEF FileStep, Claim, Finish, Requeue, Cancelled, files
  <2> QED
    BY <1>3, <2>1, <2>2, <2>3, <2>4 DEF Run
<1>4. CASE Stop \/ Restart
  BY <1>4 DEF FileStep, Stop, Restart, files
<1>5. CASE Recovery
  BY <1>5 DEF FileStep, Recovery, RecoverNew, RecoverOld, RecoverViaJob, RecoverVia, RecoverBack,
              RecoverLost, Recovered, files
<1>6. CASE UNCHANGED vars
  BY <1>6 DEF FileStep, vars, files
<1> QED
  BY <1>1, <1>2, <1>3, <1>4, <1>5, <1>6 DEF Next

LEMMA NextKept == Kept /\ [Next]_vars => Kept'
<1> SUFFICES ASSUME Kept, [Next]_vars PROVE Kept'
  OBVIOUS
<1>1. CASE UNCHANGED files
  BY <1>1 DEF Kept, NoOverwrite, files
<1>2. ASSUME NEW src, NEW dst, Moves(src, dst) PROVE Kept'
  BY <1>2, MoveKeeps
<1>3. ASSUME NEW n \in Names, Drop(n) PROVE Kept'
  BY <1>3 DEF Drop, Kept, NoOverwrite, Exists
<1> QED
  BY <1>1, <1>2, <1>3, FileSteps DEF FileStep

\* No file is ever overwritten, neither by the moves of a rename (Folder.move) nor
\* by what a crash, an unwinding or a replay of the journal makes of it.
THEOREM NothingOverwritten == Spec => []NoOverwrite
<1>1. Kept => NoOverwrite
  BY DEF Kept
<1> QED
  BY InitKept, NextKept, <1>1, PTL DEF Spec

-----------------------------------------------------------------------------
\* A worker that is not idle runs a job, and from the move on its journal row is
\* there; so are those of the videos boot recovery has not replayed, or puts back.
Shape ==
  \A v \in Videos :
    /\ pc[v] \notin {"idle", "back"} => job[v].status = "running" /\ phase # "recover"
    /\ pc[v] \in {"move", "via", "complete", "exists", "aside", "unwind", "abandon", "back"}
         => journal[v] # NoRow
    /\ v \in todo => journal[v] # NoRow /\ phase = "recover"

Inv == TypeOK /\ Shape

USE DEF DB, To, NoRow, NoDone, NoJob

LEMMA InitInv == Init => Inv
  BY ViaAssumption, FirstAssumption, BoundsAssumption DEF Init, Inv, TypeOK, Shape, Rows, Dones, Jobs, AllNames

LEMMA ApiInv == Inv /\ Api => Inv'
<1> SUFFICES ASSUME Inv, Api PROVE Inv'
  OBVIOUS
<1> USE BoundsAssumption DEF Inv, TypeOK, Shape, Rows, Dones, Jobs, files, catalogue, process, AllNames, Queued
<1>1. ASSUME NEW S \in SUBSET Videos, NEW t \in [S -> Names], Apply(S, t) PROVE Inv'
  <2>1. jobs + 1 \in 0 .. MaxJobs
    BY <1>1 DEF Apply
  <2>2. ASSUME NEW v \in Videos PROVE job'[v] \in Jobs
    <3>1. CASE v \in S
      BY <1>1, <2>1, <3>1 DEF Apply
    <3>2. CASE v \notin S
      BY <1>1, <3>2 DEF Apply
    <3> QED
      BY <3>1, <3>2
  <2>3. TypeOK'
    BY <1>1, <2>1, <2>2 DEF Apply
  <2>4. ASSUME NEW v \in Videos, job[v].status = "running" PROVE job'[v].status = "running"
    BY <1>1, <2>4 DEF Apply
  <2>5. Shape'
    BY <1>1, <2>4 DEF Apply
  <2> QED
    BY <2>3, <2>5
<1>2. ASSUME NEW v \in Videos, Undo(v) PROVE Inv'
  BY <1>2 DEF Undo
<1>3. ASSUME NEW v \in Videos, Retry(v) PROVE Inv'
  <2>1. [job[v] EXCEPT !.status = "pending"] \in Jobs
    BY <1>3 DEF Retry
  <2> QED
    BY <1>3, <2>1 DEF Retry
<1>4. ASSUME NEW v \in Videos, Dismiss(v) PROVE Inv'
  BY <1>4 DEF Dismiss
<1> QED
  BY <1>1, <1>2, <1>3, <1>4 DEF Api

\* A row that gets its via name, and a job that changes state, stay what they are.
LEMMA ViaRow ==
  ASSUME NEW r \in Rows, r # NoRow
  PROVE  [r EXCEPT !.via = TRUE] \in Rows \ {NoRow}
  BY DEF Rows

LEMMA JobState ==
  ASSUME NEW j \in Jobs, j # NoJob, NEW s \in {"pending", "running", "failed"}
  PROVE  [j EXCEPT !.status = s] \in Jobs
  BY DEF Jobs

LEMMA MovesTyped ==
  ASSUME Inv, NEW src, NEW dst \in AllNames, Moves(src, dst)
  PROVE  at' \in [Videos -> AllNames] /\ foreign' \subseteq AllNames
  BY DEF Inv, TypeOK, Moves

LEMMA RunInv == ASSUME Inv, NEW v \in Videos, Claim(v) \/ Run(v) PROVE Inv'
<1> USE BoundsAssumption DEF Inv, TypeOK, Shape, Rows, Dones, Jobs, files, catalogue, process
<1>1. CASE Claim(v)
  BY <1>1 DEF Claim
<1>2. CASE Look(v)
  <2>1. journal' \in [Videos -> Rows]
    BY <1>2 DEF Look
  <2>2. TypeOK'
    BY <1>2, <2>1 DEF Look
  <2>3. Shape'
    <3>1. CASE pc' = [pc EXCEPT ![v] = "complete"] /\ UNCHANGED journal /\ journal[v] # NoRow
      BY <1>2, <3>1 DEF Look
    <3>2. CASE /\ pc' = [pc EXCEPT ![v] = "plan"]
               /\ \A u \in Videos : u # v => journal'[u] = journal[u]
      BY <1>2, <3>2 DEF Look
    <3> QED
      BY <1>2, <3>1, <3>2 DEF Look
  <2> QED
    BY <2>2, <2>3
<1>3. CASE Refuse(v) \/ AlreadyNamed(v) \/ Resume(v)
  BY <1>3 DEF Refuse, AlreadyNamed, Resume
<1>4. CASE InsertPendingRename(v)
  BY <1>4 DEF InsertPendingRename
<1>5. CASE Move(v)
  BY <1>5, MovesTyped DEF Move, Target, AllNames, Vias
<1>6. CASE MoveExists(v) \/ MoveFails(v)
  BY <1>6 DEF MoveExists, MoveFails, MoveErrs
<1>7. CASE SetRenameVia(v)
  <2>1. [journal[v] EXCEPT !.via = TRUE] \in Rows \ {NoRow}
    <3>1. pc[v] = "via"
      BY <1>7 DEF SetRenameVia
    <3>2. journal[v] \in Rows /\ journal[v] # NoRow
      BY <3>1
    <3> QED
      BY <3>2, ViaRow
  <2>2. CASE DB
    <3>1. /\ journal' = [journal EXCEPT ![v] = [journal[v] EXCEPT !.via = TRUE]]
          /\ pc' = [pc EXCEPT ![v] = "move"]
          /\ UNCHANGED <<files, file_path, last, job, process, jobs, faults>>
      BY <1>7, <2>2 DEF SetRenameVia
    <3>2. TypeOK'
      BY <2>1, <3>1
    <3>3. Shape'
      BY <1>7, <2>1, <3>1 DEF SetRenameVia
    <3> QED
      BY <3>2, <3>3
  <2>3. CASE ~DB
    BY <1>7, <2>3 DEF SetRenameVia
  <2> QED
    BY <2>2, <2>3
<1>8. CASE CompleteRename(v)
  <2>1. journal[v].old \in AllNames /\ journal[v].new \in AllNames
    BY <1>8 DEF CompleteRename
  <2>2. CASE Completed(v) /\ To(v, "complete", "ok")
    <3>1. TypeOK'
      BY <1>8, <2>1, <2>2 DEF CompleteRename, Completed
    <3>2. Shape'
      BY <1>8, <2>2 DEF CompleteRename, Completed
    <3> QED
      BY <3>1, <3>2
  <2>3. CASE UNCHANGED catalogue /\ To(v, "complete", "failed")
    BY <1>8, <2>3 DEF CompleteRename
  <2> QED
    BY <1>8, <2>2, <2>3 DEF CompleteRename
<1>9. CASE Unwind(v)
  <2>1. CASE WaitAside(v) \/ GiveUp(v) \/ NotAside(v) \/ PutBackFails(v)
    <3>1. CASE WaitAside(v)
      BY <3>1 DEF WaitAside
    <3>2. CASE GiveUp(v)
      BY <3>2 DEF GiveUp
    <3>3. CASE NotAside(v)
      BY <3>3 DEF NotAside
    <3>4. CASE PutBackFails(v)
      BY <3>4 DEF PutBackFails, MoveErrs
    <3> QED
      BY <2>1, <3>1, <3>2, <3>3, <3>4
  <2>2. CASE Wait(v) \/ StepAsideFails(v)
    <3>1. /\ pc[v] = "exists" /\ phase = "up"
          /\ journal' = [journal EXCEPT ![v] = NoRow]
          /\ UNCHANGED <<files, file_path, last, job, process, jobs>>
      BY <2>2 DEF Wait, StepAsideFails
    <3>2. /\ pc' = [pc EXCEPT ![v] = "requeue"] \/ pc' = [pc EXCEPT ![v] = "failed"]
          /\ UNCHANGED faults \/ (faults < MaxFaults /\ faults' = faults + 1)
      <4>1. CASE Wait(v)
        <5>1. pc' = [pc EXCEPT ![v] = "requeue"] /\ UNCHANGED faults
          BY <4>1, Zenon DEF Wait
        <5> QED
          BY <5>1
      <4>2. CASE StepAsideFails(v)
        <5>1. pc' = [pc EXCEPT ![v] = "failed"] /\ MoveErrs(journal[v].old)
          BY <4>2, Zenon DEF StepAsideFails
        <5> QED
          BY <5>1 DEF MoveErrs
      <4> QED
        BY <2>2, <4>1, <4>2
    <3>3. TypeOK'
      BY <3>1, <3>2
    <3>4. Shape'
      BY <3>1, <3>2
    <3> QED
      BY <3>3, <3>4
  <2>3. CASE StepAside(v)
    BY <2>3, MovesTyped DEF StepAside, AllNames, Vias
  <2>4. CASE StepAsideRename(v)
    <3> DEFINE halfway == [journal[v] EXCEPT !.via = TRUE]
               named == IF file_path[v] = journal[v].old THEN ViaName[v] ELSE file_path[v]
    <3>1. /\ pc[v] = "aside" /\ pc' = [pc EXCEPT ![v] = "requeue"]
          /\ journal' = [journal EXCEPT ![v] = halfway]
          /\ file_path' = [file_path EXCEPT ![v] = named]
          /\ UNCHANGED <<files, last, job, process, jobs, faults>>
      BY <2>4 DEF StepAsideRename
    <3>2. halfway \in Rows \ {NoRow}
      <4>1. journal[v] \in Rows /\ journal[v] # NoRow
        BY <3>1
      <4> QED
        BY <4>1, ViaRow
    <3>3. named \in AllNames
      BY DEF AllNames, Vias
    <3> HIDE DEF halfway, named
    <3>4. TypeOK'
      BY <3>1, <3>2, <3>3
    <3>5. Shape'
      BY <3>1, <3>2
    <3> QED
      BY <3>4, <3>5
  <2>5. CASE PutBack(v)
    BY <2>5, MovesTyped DEF PutBack
  <2>6. CASE AbandonRename(v)
    <3>1. CASE UNCHANGED catalogue
      BY <2>6, <3>1 DEF AbandonRename
    <3>2. CASE /\ file_path' = [file_path EXCEPT ![v] = PathBack(v)]
               /\ journal' = [journal EXCEPT ![v] = NoRow]
               /\ UNCHANGED last
      <4>1. PathBack(v) \in AllNames
        BY <2>6 DEF AbandonRename, PathBack
      <4>2. TypeOK'
        BY <2>6, <3>2, <4>1 DEF AbandonRename
      <4>3. Shape'
        BY <2>6, <3>2 DEF AbandonRename
      <4> QED
        BY <4>2, <4>3
    <3> QED
      BY <2>6, <3>1, <3>2 DEF AbandonRename, Abandoned
  <2> QED
    BY <1>9, <2>1, <2>2, <2>3, <2>4, <2>5, <2>6 DEF Unwind
<1>10. CASE Finish(v)
  <2>1. pc[v] # "idle" /\ pc[v] # "back" /\ pc' = [pc EXCEPT ![v] = "idle"]
    BY <1>10 DEF Finish
  <2>2. job[v] \in Jobs /\ job[v] # NoJob
    BY <2>1
  <2>3. [job[v] EXCEPT !.status = "failed"] \in Jobs
    BY <2>2, JobState
  <2> DEFINE end == IF pc[v] = "ok" THEN NoJob ELSE [job[v] EXCEPT !.status = "failed"]
  <2>4. end \in Jobs
    BY <2>3
  <2>5. /\ job' = [job EXCEPT ![v] = end]
        /\ UNCHANGED <<files, catalogue, process, jobs, faults>>
    BY <1>10 DEF Finish
  <2> HIDE DEF end
  <2> QED
    BY <2>1, <2>4, <2>5
<1>11. CASE Requeue(v)
  <2>1. pc[v] = "requeue"
    BY <1>11 DEF Requeue
  <2>2. job[v] \in Jobs /\ job[v] # NoJob
    BY <2>1
  <2> DEFINE again == [job[v] EXCEPT !.status = "pending"]
  <2>3. again \in Jobs
    BY <2>2, JobState
  <2>4. /\ pc' = [pc EXCEPT ![v] = "idle"] /\ job' = [job EXCEPT ![v] = again]
        /\ UNCHANGED <<files, catalogue, process, jobs, faults>>
    BY <1>11 DEF Requeue
  <2> HIDE DEF again
  <2> QED
    BY <2>1, <2>3, <2>4
<1>12. CASE Cancelled(v)
  BY <1>12 DEF Cancelled
<1> QED
  BY <1>1, <1>2, <1>3, <1>4, <1>5, <1>6, <1>7, <1>8, <1>9, <1>10, <1>11, <1>12 DEF Run

LEMMA RecoveryInv == Inv /\ Recovery => Inv'
<1> SUFFICES ASSUME Inv, Recovery PROVE Inv'
  OBVIOUS
<1> USE BoundsAssumption DEF Inv, TypeOK, Shape, Rows, Dones, Jobs, files, catalogue, process, Replaying, Replayed
<1>1. ASSUME NEW v \in Videos, RecoverNew(v) PROVE Inv'
  BY <1>1 DEF RecoverNew, Completed
<1>2. ASSUME NEW v \in Videos, RecoverOld(v) \/ RecoverViaJob(v) PROVE Inv'
  BY <1>2 DEF RecoverOld, RecoverViaJob
<1>3. ASSUME NEW v \in Videos, RecoverVia(v) PROVE Inv'
  BY <1>3, MovesTyped DEF RecoverVia, MoveErrs
<1>4. ASSUME NEW v \in Videos, RecoverBack(v) PROVE Inv'
  BY <1>4 DEF RecoverBack, Abandoned, PathBack
<1>5. ASSUME NEW v \in Videos, RecoverLost(v) PROVE Inv'
  <2>1. job' \in [Videos -> Jobs]
    <3>1. CASE Queued(v)
      BY <1>5, <3>1 DEF RecoverLost, Queued
    <3>2. CASE ~Queued(v)
      <4>1. [job[v] EXCEPT !.status = @] = job[v]
        OBVIOUS
      <4> QED
        BY <1>5, <3>2, <4>1 DEF RecoverLost
    <3> QED
      BY <3>1, <3>2
  <2>2. TypeOK'
    BY <1>5, <2>1 DEF RecoverLost
  <2>3. Shape'
    BY <1>5, <2>1 DEF RecoverLost
  <2> QED
    BY <2>2, <2>3
<1>6. CASE Recovered
  BY <1>6 DEF Recovered
<1> QED
  BY <1>1, <1>2, <1>3, <1>4, <1>5, <1>6 DEF Recovery

LEMMA NextInv == Inv /\ [Next]_vars => Inv'
<1> SUFFICES ASSUME Inv, [Next]_vars PROVE Inv'
  OBVIOUS
<1>1. CASE \E n \in Names : Drop(n)
  BY <1>1 DEF Drop, Inv, TypeOK, Shape, files, catalogue, process, AllNames
<1>2. CASE Stop
  BY <1>2 DEF Stop, Inv, TypeOK, Shape, files, catalogue, process
<1>3. CASE Restart
  BY <1>3, BoundsAssumption DEF Restart, Inv, TypeOK, Shape, files, catalogue, process
<1>4. CASE UNCHANGED vars
  BY <1>4 DEF vars, Inv, TypeOK, Shape, files, catalogue, process
<1> QED
  BY <1>1, <1>2, <1>3, <1>4, ApiInv, RunInv, RecoveryInv DEF Next

\* Whatever the folder and the history, every name in it and in the journal is a
\* name, so no step acts on a row that is not there (Executor.Run, recoverOne).
THEOREM Typed == Spec => []TypeOK
<1>1. Inv => TypeOK
  BY DEF Inv
<1> QED
  BY InitInv, NextInv, <1>1, PTL DEF Spec
-----------------------------------------------------------------------------
(* With one worker, a rename keeps every video whole as long as no file is left  *)
(* between jobs at its via name while its row has another.                       *)

\* No file is left between jobs at its via name while its row has another.
Astray(v) == pc[v] = "idle" /\ at[v] = ViaName[v] /\ file_path[v] # ViaName[v]
Straight == Sheltered => \A v \in Videos : ~Astray(v)

Row(v) == journal[v] # NoRow

\* Where a file can be: at rest, where its row says; left by a process that ended, or is
\* ending, at either name of its journal row; in a job, with its source yet to be moved;
\* and half-way.
Rest(v) ==
  /\ at[v] = file_path[v]
  /\ IF Row(v) THEN journal[v].via /\ at[v] = ViaName[v] ELSE at[v] \in Names
Left(v) ==
  /\ Row(v) /\ ~journal[v].via /\ file_path[v] = journal[v].old
  /\ at[v] \in {journal[v].old, journal[v].new}
Half(v) == Row(v) /\ ~journal[v].via /\ at[v] = ViaName[v] /\ file_path[v] = journal[v].old
Parked(v) == Row(v) /\ journal[v].via /\ at[v] = ViaName[v] /\ file_path[v] \in {journal[v].old, ViaName[v]}
Moving(v) ==
  \/ Row(v) /\ ~journal[v].via /\ at[v] = journal[v].old /\ file_path[v] = at[v]
  \/ Parked(v)
Moved(v) ==
  /\ Row(v) /\ at[v] = journal[v].new
  /\ file_path[v] = journal[v].old \/ (journal[v].via /\ file_path[v] = ViaName[v])
Backed(v) ==
  /\ Row(v) /\ at[v] = journal[v].old
  /\ file_path[v] = journal[v].old \/ (journal[v].via /\ file_path[v] = ViaName[v])

Place(v) ==
  /\ pc[v] = "idle" => Rest(v) \/ (phase # "up" /\ Left(v))
  /\ pc[v] \in {"look", "plan"} => Rest(v)
  /\ pc[v] \in {"move", "exists", "unwind"} => Moving(v)
  /\ pc[v] \in {"via", "aside"} => Half(v)
  /\ pc[v] = "complete" => Moved(v) \/ (Rest(v) /\ Row(v) /\ ~Unique(v, journal[v].new))
  /\ pc[v] = "abandon" => Backed(v)
  /\ pc[v] \in {"failed", "requeue"} => Rest(v) \/ Parked(v)
  /\ pc[v] = "ok" => Rest(v)
  /\ pc[v] # "back"

\* Names in rows are of files, and no path has two rows.
Named(v) ==
  /\ Row(v) => /\ journal[v].old \in Names /\ journal[v].new \in Names
               /\ journal[v].old # journal[v].new
  /\ last[v] # NoDone => last[v].old \in Names /\ last[v].new \in Names /\ last[v].old # last[v].new
  /\ job[v].status # "none" => job[v].name \in Names
  /\ Unique(v, file_path[v])

\* While a job runs every other video is at rest; otherwise at most one is not where
\* its row says.
Alone ==
  /\ \A v, u \in Videos : pc[v] # "idle" /\ u # v => pc[u] = "idle" /\ Rest(u)
  /\ \A v, u \in Videos : at[v] # file_path[v] /\ at[u] # file_path[u] => v = u

\* Before any file was half-way none is; a row that recovery has yet to replay is known.
Unhalved(v) == ~half => at[v] # ViaName[v] /\ ~journal[v].via
Whole ==
  /\ \A v \in Videos : Unhalved(v)
  /\ phase = "recover" => \A v \in Videos : Row(v) => v \in todo

Sound == Alone /\ Whole /\ \A v \in Videos : Place(v) /\ Named(v)
Ended == phase = "recover" => crashes # 0

LEMMA ProcessSteps ==
  ASSUME [Next]_vars
  PROVE  UNCHANGED <<phase, todo, crashes>> \/ Stop \/ Restart \/ Recovery
<1>1. ASSUME NEW v \in Videos, Claim(v) \/ Run(v) PROVE UNCHANGED <<phase, todo, crashes>>
  <2>1. CASE Unwind(v)
    BY <2>1 DEF Unwind, WaitAside, Wait, StepAside, StepAsideFails, StepAsideRename, GiveUp,
       PutBack, PutBackFails, NotAside, AbandonRename, process
  <2>2. CASE Look(v) \/ Refuse(v) \/ AlreadyNamed(v) \/ InsertPendingRename(v) \/ Resume(v)
    BY <2>2 DEF Look, Refuse, AlreadyNamed, InsertPendingRename, Resume, process
  <2>3. CASE Move(v) \/ MoveExists(v) \/ MoveFails(v) \/ SetRenameVia(v) \/ CompleteRename(v)
    BY <2>3 DEF Move, MoveExists, MoveFails, SetRenameVia, CompleteRename, process
  <2>4. CASE Claim(v) \/ Finish(v) \/ Requeue(v) \/ Cancelled(v)
    BY <2>4 DEF Claim, Finish, Requeue, Cancelled, process
  <2> QED
    BY <1>1, <2>1, <2>2, <2>3, <2>4 DEF Run
<1>2. CASE Api
  BY <1>2 DEF Api, Apply, Undo, Retry, Dismiss, process
<1>3. CASE \E n \in Names : Drop(n)
  BY <1>3 DEF Drop, process
<1>4. CASE UNCHANGED vars
  BY <1>4 DEF vars, process
<1> QED
  BY <1>1, <1>2, <1>3, <1>4 DEF Next

LEMMA EndedNext == Inv /\ Ended /\ [Next]_vars => Ended'
<1> SUFFICES ASSUME Inv, Ended, [Next]_vars PROVE Ended'
  OBVIOUS
<1>1. CASE UNCHANGED <<phase, todo, crashes>>
  BY <1>1 DEF Ended
<1>2. CASE Stop
  BY <1>2 DEF Stop, Ended
<1>3. CASE Restart
  BY <1>3, BoundsAssumption DEF Restart, Ended, Inv, TypeOK
<1>4. CASE Recovery
  BY <1>4 DEF Recovery, RecoverNew, RecoverOld, RecoverViaJob, RecoverVia, RecoverBack,
     RecoverLost, Recovered, Replayed, process, Ended
<1> QED
  BY <1>1, <1>2, <1>3, <1>4, ProcessSteps

\* What a folder's shelter has lost does not come back.
LEMMA ShelterLost == Inv /\ Ended /\ [Next]_vars /\ Sheltered' => Sheltered
<1> SUFFICES ASSUME Inv, Ended, [Next]_vars, Sheltered' PROVE Sheltered
  OBVIOUS
<1>1. foreign = {} /\ (half => half')
  <2>1. CASE UNCHANGED files
    BY <2>1 DEF files, Sheltered
  <2>2. ASSUME NEW src, NEW dst, Moves(src, dst) PROVE foreign = {} /\ (half => half')
    BY <2>2 DEF Moves, Sheltered
  <2>3. ASSUME NEW n \in Names, Drop(n) PROVE foreign = {} /\ (half => half')
    BY <2>3 DEF Drop, Sheltered
  <2> QED
    BY <2>1, <2>2, <2>3, FileSteps DEF FileStep
<1>2. CASE ~half
  BY <1>1, <1>2 DEF Sheltered
<1>3. CASE half
  <2>1. crashes' = 0 /\ phase' = "up"
    BY <1>1, <1>3 DEF Sheltered
  <2>2. CASE UNCHANGED <<phase, todo, crashes>>
    BY <1>1, <2>1, <2>2 DEF Sheltered
  <2>3. CASE Stop \/ Restart
    BY <2>1, <2>3 DEF Stop, Restart, Inv, TypeOK
  <2>4. CASE Recovery
    <3>1. phase = "recover" /\ crashes' = crashes
      BY <2>4 DEF Recovery, RecoverNew, RecoverOld, RecoverViaJob, RecoverVia, RecoverBack,
         RecoverLost, Recovered, Replaying, Replayed, process
    <3> QED
      BY <2>1, <3>1 DEF Ended
  <2> QED
    BY <2>2, <2>3, <2>4, ProcessSteps
<1> QED
  BY <1>2, <1>3

\* With no file of others, a move takes the file of the one video that has the name.
LEMMA MovesOne ==
  ASSUME TypeOK, Kept, foreign = {}, NEW v \in Videos, NEW dst, Moves(at[v], dst)
  PROVE  /\ at' = [at EXCEPT ![v] = dst]
         /\ half' = (half \/ dst \in Vias)
<1>1. \A u \in Videos : at[u] = at[v] => u = v
  BY DEF Kept, NoOverwrite
<1>2. at' = [u \in Videos |-> IF u = v THEN dst ELSE at[u]]
  BY <1>1 DEF Moves
<1>3. DOMAIN at = Videos /\ at = [u \in Videos |-> at[u]]
  BY DEF TypeOK
<1> QED
  BY <1>2, <1>3 DEF Moves

\* What a step of v's job leaves of the others.
OthersStay(v) ==
  /\ \A u \in Videos \ {v} : /\ at'[u] = at[u] /\ file_path'[u] = file_path[u]
                             /\ journal'[u] = journal[u] /\ last'[u] = last[u]
                             /\ job'[u] = job[u] /\ pc'[u] = pc[u]
  /\ UNCHANGED <<phase, todo>>

LEMMA StepSound ==
  ASSUME Shape, Sound, NEW v \in Videos, pc[v] # "idle", OthersStay(v), half => half',
         Place(v)', Named(v)', Unhalved(v)'
  PROVE  Sound'
<1>1. phase # "recover" /\ \A u \in Videos \ {v} : pc[u] = "idle" /\ Rest(u)
  BY DEF Sound, Alone, Shape, Place
<1>2. ASSUME NEW u \in Videos \ {v} PROVE Rest(u)' /\ Place(u)' /\ Unhalved(u)' /\ pc'[u] = "idle"
  <2>1. pc'[u] = "idle" /\ Rest(u)'
    BY <1>1, <1>2 DEF OthersStay, Rest, Row
  <2>2. Unhalved(u)'
    BY <1>2 DEF Sound, Whole, OthersStay, Unhalved
  <2> QED
    BY <2>1, <2>2 DEF Place
<1>3. ASSUME NEW u \in Videos \ {v} PROVE Named(u)'
  <2>1. Unique(u, file_path[u])'
    BY <1>3 DEF Sound, Named, Unique, OthersStay
  <2> QED
    BY <1>3, <2>1 DEF Sound, Named, Row, OthersStay
<1>4. Alone'
  BY <1>2 DEF Alone, Rest
<1>5. Whole'
  BY <1>1, <1>2 DEF Whole, OthersStay
<1> QED
  BY <1>2, <1>3, <1>4, <1>5 DEF Sound

\* Of the step of a job: the files and rows of the other videos stay.
LEMMA RunSound ==
  ASSUME Inv, Kept, Sound, Sheltered, Sheltered', Straight', NEW v \in Videos, Run(v)
  PROVE  Sound'
<1> USE DEF Inv, TypeOK, Rows, Dones, Jobs
<1>1. pc[v] # "idle" /\ Place(v) /\ Named(v) /\ Unhalved(v) /\ foreign = {}
  <2>1. pc[v] # "idle"
    BY DEF Run, Unwind, Look, Refuse, AlreadyNamed, InsertPendingRename, Resume, Move,
       MoveExists, MoveFails, SetRenameVia, CompleteRename, WaitAside, Wait, StepAside,
       StepAsideFails, StepAsideRename, GiveUp, PutBack, PutBackFails, NotAside, AbandonRename,
       Finish, Requeue, Cancelled
  <2> QED
    BY <2>1 DEF Sound, Whole, Sheltered
<1>2. \A n : Exists(n) => \E u \in Videos : at[u] = n
  BY <1>1 DEF Exists
<1>3. \A u \in Videos \ {v} : /\ Rest(u) /\ at[u] = file_path[u] /\ at[u] # at[v] /\ at[u] # ViaName[v]
  <2>1. \A u \in Videos \ {v} : Rest(u) /\ at[u] # at[v]
    BY <1>1 DEF Sound, Alone, Kept, NoOverwrite
  <2> QED
    BY <2>1, ViaAssumption DEF Rest, AllNames, Vias
<1>4. ViaName[v] \in Vias /\ ViaName[v] \notin Names
  BY ViaAssumption DEF Vias
<1>5. ASSUME Look(v) PROVE Sound'
  <2>1. CASE /\ Row(v) /\ AtNew(v) /\ ~AtOld(v)
             /\ pc' = [pc EXCEPT ![v] = "complete"] /\ UNCHANGED journal
    <3>1. Rest(v) /\ at[v] = ViaName[v] /\ journal[v].new \in Names
      BY <1>1, <1>5, <2>1 DEF Look, Place, Rest, Named
    <3>2. PICK u \in Videos : at[u] = journal[v].new
      BY <1>2, <2>1 DEF AtNew
    <3>3. ~Unique(v, journal[v].new)
      BY <1>3, <1>4, <3>1, <3>2 DEF Unique
    <3>4. OthersStay(v) /\ UNCHANGED <<at, foreign, half, file_path, last, job, journal>>
      BY <1>5, <2>1 DEF Look, OthersStay, files, process
    <3>5. Place(v)' /\ Named(v)' /\ Unhalved(v)'
      BY <1>1, <2>1, <3>1, <3>3, <3>4 DEF Place, Named, Unhalved, Rest, Row, Unique
    <3> QED
      BY <1>1, <3>4, <3>5, StepSound
  <2>2. CASE /\ pc' = [pc EXCEPT ![v] = "plan"]
             /\ journal' = [journal EXCEPT ![v] = IF AtVia(v) THEN @ ELSE NoRow]
    <3>1. OthersStay(v) /\ UNCHANGED <<at, foreign, half, file_path, last, job>>
      BY <1>5, <2>2 DEF Look, OthersStay, files, process
    <3>2. Row(v) => AtVia(v)
      BY <1>1, <1>5 DEF Look, Place, Rest, AtVia, Exists
    <3>3. journal'[v] = journal[v]
      BY <2>2, <3>2 DEF Row
    <3>4. Place(v)' /\ Named(v)' /\ Unhalved(v)'
      BY <1>1, <1>5, <2>2, <3>1, <3>3 DEF Look, Place, Named, Unhalved, Rest, Row, Unique
    <3> QED
      BY <1>1, <3>1, <3>4, StepSound
  <2> QED
    BY <1>5, <2>1, <2>2 DEF Look, Row
<1>6. ASSUME Refuse(v) \/ AlreadyNamed(v) \/ Resume(v) PROVE Sound'
  <2>1. /\ OthersStay(v) /\ UNCHANGED <<at, foreign, half, file_path, last, job, journal>>
        /\ pc[v] \in {"look", "plan"} /\ pc'[v] \in {"failed", "ok", "move"}
        /\ pc'[v] = "move" => Row(v)
    BY <1>6 DEF Refuse, AlreadyNamed, Resume, Row, OthersStay, files, catalogue, process
  <2>2. Place(v)' /\ Named(v)' /\ Unhalved(v)'
    BY <1>1, <2>1 DEF Place, Named, Unhalved, Rest, Row, Unique, Moving, Parked
  <2> QED
    BY <1>1, <2>1, <2>2, StepSound
<1>7. ASSUME InsertPendingRename(v) PROVE Sound'
  <2> DEFINE written == [old |-> file_path[v], new |-> job[v].name, via |-> FALSE, undo |-> job[v].undo]
  <2>1. /\ OthersStay(v) /\ UNCHANGED <<at, foreign, half, file_path, last, job>>
        /\ pc[v] = "plan" /\ pc'[v] = "move" /\ ~Row(v) /\ journal'[v] = written
    BY <1>7 DEF InsertPendingRename, Row, OthersStay, files, process
  <2>2. job[v].name # file_path[v] /\ job[v].name \in Names
    <3>1. job[v].status # "none"
      BY <1>1, <2>1 DEF Shape
    <3>2. CASE job[v].undo
      <4>1. last[v].old = job[v].name /\ last[v].new = file_path[v]
        BY <1>7, <3>2 DEF InsertPendingRename
      <4>2. last[v] # NoDone
        BY <4>1, ViaAssumption
      <4> QED
        BY <1>1, <4>1, <4>2 DEF Named
    <3>3. CASE ~job[v].undo
      BY <1>1, <1>7, <3>1, <3>3 DEF InsertPendingRename, Named
    <3> QED
      BY <3>2, <3>3
  <2>3. at[v] = file_path[v] /\ at[v] \in Names
    BY <1>1, <2>1 DEF Place, Rest
  <2>4. written # NoRow /\ written.old = file_path[v] /\ written.new = job[v].name /\ ~written.via
    BY <2>3, ViaAssumption DEF AllNames
  <2>5. Place(v)' /\ Named(v)' /\ Unhalved(v)'
    BY <1>1, <2>1, <2>2, <2>3, <2>4 DEF Place, Named, Unhalved, Row, Unique, Moving
  <2> QED
    BY <1>1, <2>1, <2>5, StepSound
<1>8. ASSUME Move(v) PROVE Sound'
  <2>1. Row(v) /\ Moving(v) /\ Source(v) = at[v] /\ journal[v].old \in Names /\ journal[v].new \in Names
    BY <1>1, <1>8 DEF Move, Place, Moving, Parked, Row, Source, Named
  <2>2. Moves(at[v], Target(v)) /\ UNCHANGED <<file_path, last, job, journal, phase, todo>>
    BY <1>8, <2>1 DEF Move, catalogue, process
  <2>3. at' = [at EXCEPT ![v] = Target(v)] /\ half' = (half \/ Target(v) \in Vias)
    BY <1>1, <2>2, MovesOne
  <2>4. OthersStay(v)
    BY <1>8, <2>2, <2>3 DEF Move, OthersStay
  <2>5. CASE TwoSteps(v)
    <3>1. at'[v] = ViaName[v] /\ half' /\ pc'[v] = "via" /\ Source(v) # ViaName[v]
      BY <1>4, <1>8, <2>3, <2>5 DEF Move, Target, TwoSteps
    <3>2. Half(v)'
      BY <2>1, <2>2, <3>1 DEF Half, Moving, Parked, Source, Row
    <3> QED
      BY <1>1, <2>2, <2>4, <3>1, <3>2, StepSound DEF Place, Named, Unhalved, Row, Unique
  <2>6. CASE ~TwoSteps(v)
    <3>1. at'[v] = journal[v].new /\ pc'[v] = "complete"
      BY <1>8, <2>3, <2>6 DEF Move, Target
    <3>2. Moved(v)'
      BY <2>1, <2>2, <3>1 DEF Moved, Moving, Parked, Row
    <3>3. Place(v)' /\ Named(v)'
      BY <1>1, <2>2, <3>1, <3>2 DEF Place, Named, Row, Unique
    <3>4. Unhalved(v)'
      BY <1>1, <1>4, <2>1, <2>2, <2>3, <3>1 DEF Unhalved
    <3> QED
      BY <1>1, <2>3, <2>4, <3>3, <3>4, StepSound
  <2> QED
    BY <2>5, <2>6
<1>9. ASSUME MoveExists(v) \/ MoveFails(v) \/ GiveUp(v) PROVE Sound'
  <2>1. /\ OthersStay(v) /\ UNCHANGED <<at, foreign, half, file_path, last, job, journal>>
        /\ pc[v] \in {"move", "exists"} /\ pc'[v] \in {"exists", "unwind"}
    BY <1>9 DEF MoveExists, MoveFails, GiveUp, OthersStay, files, catalogue, process
  <2>2. Place(v)' /\ Named(v)' /\ Unhalved(v)'
    BY <1>1, <2>1 DEF Place, Named, Unhalved, Row, Unique, Moving, Parked
  <2> QED
    BY <1>1, <2>1, <2>2, StepSound
<1>10. ASSUME SetRenameVia(v) PROVE Sound'
  <2>1. Half(v) /\ half /\ DB
    BY <1>1, <1>10 DEF SetRenameVia, Place, Half, Unhalved, Sheltered
  <2>2. /\ journal' = [journal EXCEPT ![v].via = TRUE] /\ pc' = [pc EXCEPT ![v] = "move"]
        /\ UNCHANGED <<at, foreign, half, file_path, last, job, phase, todo>>
    BY <1>10, <2>1 DEF SetRenameVia, files, process
  <2>3. /\ journal'[v].via /\ journal'[v].old = journal[v].old /\ journal'[v].new = journal[v].new
        /\ journal'[v] # NoRow
    BY <1>1, <2>1, <2>2, ViaAssumption DEF Half, Row, Named, AllNames
  <2>4. OthersStay(v)
    BY <2>2 DEF OthersStay
  <2>5. Place(v)' /\ Named(v)' /\ Unhalved(v)'
    BY <1>1, <2>1, <2>2, <2>3 DEF Place, Named, Unhalved, Row, Unique, Moving, Parked, Half
  <2> QED
    BY <1>1, <2>2, <2>4, <2>5, StepSound
<1>11. ASSUME CompleteRename(v) PROVE Sound'
  <2>1. pc[v] = "complete" /\ UNCHANGED <<at, foreign, half, job, phase, todo>> /\ Row(v)
        /\ pc' = [pc EXCEPT ![v] = pc'[v]]
    BY <1>1, <1>11 DEF CompleteRename, files, process, Shape, Row
  <2>2. CASE Completes(v) /\ Completed(v) /\ pc'[v] = "ok"
    <3>1. file_path' = [file_path EXCEPT ![v] = journal[v].new]
          /\ last' = [last EXCEPT ![v] = [old |-> journal[v].old, new |-> journal[v].new]]
          /\ journal' = [journal EXCEPT ![v] = NoRow] /\ Unique(v, journal[v].new)
      BY <2>2 DEF Completed, Completes
    <3>2. OthersStay(v)
      BY <2>1, <3>1 DEF OthersStay
    <3>3. at[v] = journal[v].new
      BY <1>1, <2>1, <3>1 DEF Place, Moved
    <3>4. Place(v)' /\ Unhalved(v)'
      BY <1>1, <2>1, <2>2, <3>1, <3>3 DEF Place, Rest, Row, Named, Unhalved
    <3>5. Named(v)'
      BY <1>1, <2>1, <3>1 DEF Named, Row, Unique
    <3> QED
      BY <1>1, <2>1, <3>2, <3>4, <3>5, StepSound
  <2>3. CASE ~Completes(v) /\ UNCHANGED catalogue /\ pc'[v] = "failed"
    <3>1. ~Moved(v)
      BY <1>3, <2>3 DEF Moved, Completes, Unique
    <3>2. OthersStay(v) /\ UNCHANGED <<file_path, last, journal>>
      BY <2>1, <2>3 DEF OthersStay, catalogue
    <3>3. Place(v)' /\ Named(v)' /\ Unhalved(v)'
      BY <1>1, <2>1, <2>3, <3>1, <3>2 DEF Place, Rest, Row, Named, Unique, Unhalved
    <3> QED
      BY <1>1, <2>1, <3>2, <3>3, StepSound
  <2> QED
    BY <1>11, <2>2, <2>3 DEF CompleteRename
<1>12. ASSUME WaitAside(v) PROVE Sound'
  <2>1. /\ OthersStay(v) /\ UNCHANGED <<at, foreign, half, file_path, last, job, journal>>
        /\ pc[v] = "exists" /\ pc'[v] = "requeue" /\ Aside(v)
    BY <1>12 DEF WaitAside, OthersStay, files, catalogue, process
  <2>2. Parked(v)
    BY <1>1, <1>2, <1>3, <1>4, <2>1 DEF Aside, Place, Moving, Named
  <2>3. Place(v)' /\ Named(v)' /\ Unhalved(v)'
    BY <1>1, <2>1, <2>2 DEF Place, Named, Unhalved, Row, Unique, Parked
  <2> QED
    BY <1>1, <2>1, <2>3, StepSound
<1>13. ASSUME Wait(v) \/ StepAsideFails(v) PROVE Sound'
  <2>1. /\ pc[v] = "exists" /\ pc'[v] \in {"requeue", "failed"} /\ ~Aside(v)
        /\ pc' = [pc EXCEPT ![v] = pc'[v]] /\ journal' = [journal EXCEPT ![v] = NoRow]
        /\ UNCHANGED <<at, foreign, half, file_path, last, job, phase, todo>>
    BY <1>13 DEF Wait, StepAsideFails, files, process
  <2>2. OthersStay(v)
    BY <2>1 DEF OthersStay
  <2>3. at[v] = file_path[v] /\ at[v] \in Names
    BY <1>1, <2>1 DEF Place, Moving, Parked, Aside, Exists, Named
  <2>4. Place(v)' /\ Named(v)' /\ Unhalved(v)'
    BY <1>1, <1>4, <2>1, <2>3 DEF Place, Rest, Named, Unhalved, Row, Unique
  <2> QED
    BY <1>1, <2>1, <2>2, <2>4, StepSound
<1>14. ASSUME StepAside(v) PROVE Sound'
  <2>1. /\ pc[v] = "exists" /\ pc' = [pc EXCEPT ![v] = "aside"] /\ ~Aside(v)
        /\ Moves(journal[v].old, ViaName[v])
        /\ UNCHANGED <<file_path, journal, last, job, phase, todo>>
    BY <1>14 DEF StepAside, catalogue, process
  <2>2. Row(v) /\ ~journal[v].via /\ at[v] = journal[v].old /\ file_path[v] = at[v]
    BY <1>1, <2>1 DEF Place, Moving, Parked, Aside, Exists
  <2>3. at' = [at EXCEPT ![v] = ViaName[v]] /\ half'
    BY <1>1, <1>4, <2>1, <2>2, MovesOne
  <2>4. OthersStay(v)
    BY <2>1, <2>3 DEF OthersStay
  <2>5. Place(v)' /\ Named(v)' /\ Unhalved(v)'
    BY <1>1, <2>1, <2>2, <2>3 DEF Place, Half, Named, Unhalved, Row, Unique
  <2> QED
    BY <1>1, <2>3, <2>4, <2>5, StepSound
<1>15. ASSUME StepAsideRename(v) PROVE Sound'
  <2>1. /\ pc[v] = "aside" /\ pc' = [pc EXCEPT ![v] = "requeue"]
        /\ journal' = [journal EXCEPT ![v].via = TRUE]
        /\ file_path' = [file_path EXCEPT ![v] = IF @ = journal[v].old THEN ViaName[v] ELSE @]
        /\ UNCHANGED <<at, foreign, half, last, job, phase, todo>>
    BY <1>15 DEF StepAsideRename, files, process
  <2>2. Half(v) /\ half
    BY <1>1, <2>1 DEF Place, Half, Unhalved
  <2>3. file_path' = [file_path EXCEPT ![v] = ViaName[v]] /\ file_path'[v] = ViaName[v]
    BY <2>1, <2>2 DEF Half
  <2>4. /\ journal'[v].via /\ journal'[v].old = journal[v].old /\ journal'[v].new = journal[v].new
        /\ journal'[v] # NoRow
    BY <1>1, <2>1, <2>2, ViaAssumption DEF Half, Row, Named, AllNames
  <2>5. OthersStay(v)
    BY <2>1, <2>3 DEF OthersStay
  <2>6. Place(v)' /\ Named(v)' /\ Unhalved(v)'
    BY <1>1, <1>3, <2>1, <2>2, <2>3, <2>4 DEF Place, Rest, Named, Unhalved, Row, Unique, Half
  <2> QED
    BY <1>1, <2>1, <2>5, <2>6, StepSound
<1>16. ASSUME PutBack(v) PROVE Sound'
  <2>1. /\ pc[v] = "unwind" /\ pc' = [pc EXCEPT ![v] = "abandon"]
        /\ Moves(ViaName[v], journal[v].old)
        /\ UNCHANGED <<file_path, journal, last, job, phase, todo>>
    BY <1>16 DEF PutBack, catalogue, process
  <2>2. at[v] = ViaName[v]
    BY <1>2, <1>3, <2>1 DEF Moves
  <2>3. Parked(v)
    BY <1>1, <1>4, <2>1, <2>2 DEF Place, Moving, Named
  <2>4. at' = [at EXCEPT ![v] = journal[v].old] /\ (half => half')
    BY <1>1, <2>1, <2>2, MovesOne
  <2>5. OthersStay(v)
    BY <2>1, <2>4 DEF OthersStay
  <2>6. Place(v)' /\ Named(v)' /\ Unhalved(v)'
    BY <1>1, <1>4, <2>1, <2>3, <2>4 DEF Place, Backed, Parked, Named, Unhalved, Row, Unique
  <2> QED
    BY <1>1, <2>4, <2>5, <2>6, StepSound
<1>17. ASSUME PutBackFails(v) PROVE Sound'
  <2>1. /\ OthersStay(v) /\ UNCHANGED <<at, foreign, half, file_path, last, job, journal>>
        /\ pc[v] = "unwind" /\ pc'[v] = "failed" /\ Aside(v)
    BY <1>17 DEF PutBackFails, OthersStay, files, catalogue, process
  <2>2. Parked(v)
    BY <1>1, <1>2, <1>3, <1>4, <2>1 DEF Aside, Place, Moving, Named
  <2>3. Place(v)' /\ Named(v)' /\ Unhalved(v)'
    BY <1>1, <2>1, <2>2 DEF Place, Named, Unhalved, Row, Unique, Parked
  <2> QED
    BY <1>1, <2>1, <2>3, StepSound
<1>18. ASSUME NotAside(v) PROVE Sound'
  <2>1. /\ OthersStay(v) /\ UNCHANGED <<at, foreign, half, file_path, last, job, journal>>
        /\ pc[v] = "unwind" /\ pc'[v] = "abandon" /\ ~Aside(v)
    BY <1>18 DEF NotAside, OthersStay, files, catalogue, process
  <2>2. Backed(v)
    BY <1>1, <2>1 DEF Aside, Exists, Place, Moving, Parked, Backed
  <2>3. Place(v)' /\ Named(v)' /\ Unhalved(v)'
    BY <1>1, <2>1, <2>2 DEF Place, Named, Unhalved, Row, Unique, Backed
  <2> QED
    BY <1>1, <2>1, <2>3, StepSound
<1>19. ASSUME AbandonRename(v) PROVE Sound'
  <2>1. /\ pc[v] = "abandon" /\ pc' = [pc EXCEPT ![v] = "failed"] /\ Abandoned(v)
        /\ UNCHANGED <<at, foreign, half, job, phase, todo>>
    BY <1>19 DEF AbandonRename, files, process
  <2>2. Backed(v) /\ PathBack(v) = journal[v].old /\ at[v] = journal[v].old /\ journal[v].old \in Names
    BY <1>1, <1>4, <2>1 DEF Place, Backed, PathBack, Named
  <2>3. Unique(v, PathBack(v))
    BY <1>3, <2>2 DEF Unique
  <2>4. /\ file_path' = [file_path EXCEPT ![v] = journal[v].old]
        /\ journal' = [journal EXCEPT ![v] = NoRow] /\ UNCHANGED last
    BY <2>1, <2>2, <2>3 DEF Abandoned
  <2>5. OthersStay(v)
    BY <2>1, <2>4 DEF OthersStay
  <2>6. Place(v)' /\ Named(v)' /\ Unhalved(v)'
    BY <1>1, <1>4, <2>1, <2>2, <2>3, <2>4 DEF Place, Rest, Named, Unhalved, Row, Unique
  <2> QED
    BY <1>1, <2>1, <2>5, <2>6, StepSound
<1>20. ASSUME Finish(v) \/ Requeue(v) PROVE Sound'
  <2>1. /\ pc[v] \in {"ok", "failed", "requeue"} /\ pc' = [pc EXCEPT ![v] = "idle"] /\ phase = "up"
        /\ UNCHANGED <<at, foreign, half, file_path, last, journal, phase, todo>>
        /\ \A u \in Videos \ {v} : job'[u] = job[u]
        /\ job'[v].status # "none" => job'[v].name = job[v].name /\ job[v].status # "none"
    BY <1>20 DEF Finish, Requeue, Shape, files, catalogue, process
  <2>2. OthersStay(v) /\ pc'[v] = "idle"
    BY <2>1 DEF OthersStay
  <2>3. Rest(v)
    <3>1. Rest(v) \/ Parked(v)
      BY <1>1, <2>1 DEF Place
    <3>2. at[v] = ViaName[v] => file_path[v] = ViaName[v]
      BY <2>1, <2>2 DEF Straight, Astray
    <3> QED
      BY <3>1, <3>2 DEF Parked, Rest
  <2>4. Place(v)' /\ Named(v)' /\ Unhalved(v)'
    BY <1>1, <2>1, <2>2, <2>3 DEF Place, Rest, Named, Unhalved, Row, Unique
  <2> QED
    BY <1>1, <2>1, <2>2, <2>4, StepSound
<1>21. ASSUME Cancelled(v) PROVE Sound'
  <2>1. /\ pc' = [pc EXCEPT ![v] = "idle"] /\ phase = "stopping" /\ ~half
        /\ pc[v] \notin {"via", "move", "unwind", "back", "idle"}
        /\ UNCHANGED <<at, foreign, half, file_path, last, journal, job, phase, todo>>
    BY <1>21 DEF Cancelled, Sheltered, files, catalogue, process
  <2>2. OthersStay(v) /\ pc'[v] = "idle"
    BY <2>1 DEF OthersStay
  <2>3. Rest(v) \/ Left(v)
    BY <1>1, <2>1 DEF Place, Unhalved, Rest, Left, Moving, Moved, Backed, Parked, Half, Row
  <2>4. Place(v)' /\ Named(v)' /\ Unhalved(v)'
    BY <1>1, <2>1, <2>2, <2>3 DEF Place, Rest, Left, Named, Unhalved, Row, Unique
  <2> QED
    BY <1>1, <2>1, <2>2, <2>4, StepSound
<1> QED
  BY <1>5, <1>6, <1>7, <1>8, <1>9, <1>10, <1>11, <1>12, <1>13, <1>14, <1>15, <1>16, <1>17, <1>18,
     <1>19, <1>20, <1>21 DEF Run, Unwind


\* Steps that only change jobs keep the files where they are.
LEMMA JobsSound ==
  ASSUME Sound, UNCHANGED <<at, half, file_path, journal, last, pc, phase, todo>>,
         \A v \in Videos : job'[v].status # "none" => job'[v].name \in Names
  PROVE  Sound'
<1>1. Alone' /\ Whole'
  BY DEF Sound, Alone, Whole, Unhalved, Row, Rest
<1>2. ASSUME NEW v \in Videos PROVE Place(v)' /\ Named(v)'
  <2>1. Place(v)'
    BY DEF Sound, Place, Rest, Left, Half, Parked, Moving, Moved, Backed, Row, Unique
  <2>2. Named(v)'
    BY DEF Sound, Named, Row, Unique
  <2> QED
    BY <2>1, <2>2
<1> QED
  BY <1>1, <1>2 DEF Sound

LEMMA ApiSound == Inv /\ Sound /\ Api => Sound'
<1> SUFFICES ASSUME Inv, Sound, Api PROVE Sound'
  OBVIOUS
<1> USE DEF files, catalogue, process
<1>1. ASSUME NEW v \in Videos PROVE Named(v) /\ job[v] \in Jobs /\ last[v] \in Dones
  BY DEF Sound, Inv, TypeOK
<1>2. UNCHANGED <<at, half, file_path, journal, last, pc, phase, todo>>
  BY DEF Api, Apply, Undo, Retry, Dismiss
<1>3. ASSUME NEW v \in Videos, job'[v].status # "none" PROVE job'[v].name \in Names
  <2>1. ASSUME NEW S \in SUBSET Videos, NEW t \in [S -> Names], Apply(S, t)
        PROVE  job'[v].name \in Names
    <3>1. CASE v \in S
      BY <2>1, <3>1 DEF Apply
    <3>2. CASE v \notin S
      BY <1>1, <1>3, <2>1, <3>2 DEF Apply, Named
    <3> QED
      BY <3>1, <3>2
  <2>2. ASSUME NEW u \in Videos, Undo(u) PROVE job'[v].name \in Names
    BY <1>1, <1>3, <2>2 DEF Undo, Named, Inv, TypeOK
  <2>3. ASSUME NEW u \in Videos, Retry(u) PROVE job'[v].name \in Names
    <3>1. job'[v].name = job[v].name /\ job[v].status # "none"
      BY <1>1, <1>3, <2>3 DEF Retry, Inv, TypeOK, Jobs
    <3> QED
      BY <1>1, <3>1 DEF Named
  <2>4. ASSUME NEW u \in Videos, Dismiss(u) PROVE job'[v].name \in Names
    BY <1>1, <1>3, <2>4 DEF Dismiss, Named, Inv, TypeOK
  <2> QED
    BY <2>1, <2>2, <2>3, <2>4 DEF Api
<1> QED
  BY <1>2, <1>3, JobsSound

\* With one worker, a job starts when every video is at rest.
LEMMA ClaimSound ==
  ASSUME Inv, Sound, Concurrency <= 1, NEW v \in Videos, Claim(v)
  PROVE  Sound'
<1> DEFINE busy == {u \in Videos : pc[u] # "idle"}
<1>1. busy = {}
  <2>1. IsFiniteSet(busy)
    BY VideosAssumption, FS_Subset
  <2>2. Cardinality(busy) < Concurrency
    BY DEF Claim
  <2>3. Cardinality(busy) \in Nat
    BY <2>1, FS_CardinalityType
  <2>4. Cardinality(busy) = 0
    BY <2>2, <2>3, BoundsAssumption
  <2> QED
    BY <2>1, <2>4, FS_EmptySet
<1>2. /\ UNCHANGED <<at, half, file_path, journal, last, phase, todo>> /\ phase = "up"
      /\ pc' = [pc EXCEPT ![v] = "look"] /\ job[v].status = "pending"
      /\ \A u \in Videos : job'[u].name = job[u].name /\ (u # v => job'[u] = job[u])
  BY DEF Claim, files, catalogue, process, Inv, TypeOK, Jobs
<1>3. \A u \in Videos : pc[u] = "idle" /\ Rest(u) /\ Named(u)
  BY <1>1, <1>2 DEF Sound, Place
<1>4. \A u \in Videos : Rest(u)' /\ pc'[u] = IF u = v THEN "look" ELSE "idle"
  BY <1>2, <1>3 DEF Rest, Row, Inv, TypeOK
<1>5. \A u \in Videos : Place(u)'
  BY <1>4 DEF Place
<1>6. \A u \in Videos : Named(u)'
  BY <1>2, <1>3 DEF Named, Row, Unique
<1>7. Alone'
  BY <1>4 DEF Alone, Rest
<1>8. Whole'
  BY <1>2 DEF Sound, Whole, Unhalved, Row
<1> QED
  BY <1>5, <1>6, <1>7, <1>8 DEF Sound

\* A process that ends before a file was half-way leaves each file at one of the names
\* of its row, and at most one of them not where its video's row says.
LEMMA StopSound ==
  ASSUME Inv, Sound, Sheltered', Stop \/ Restart
  PROVE  Sound'
<1> USE DEF files, catalogue, process
<1>1. /\ UNCHANGED <<at, half, file_path, journal, last, job>> /\ ~half /\ phase' # "up"
      /\ (phase = "up" /\ phase' = "stopping" /\ UNCHANGED pc) \/ (\A v \in Videos : pc'[v] = "idle")
      /\ phase' = "recover" => todo' = {v \in Videos : Row(v)}
  <2>1. CASE Stop
    BY <2>1 DEF Stop, Sheltered
  <2>2. CASE Restart
    <3>1. crashes' # 0 /\ pc' = [v \in Videos |-> "idle"] /\ UNCHANGED <<at, half, file_path, journal, last, job>>
      BY <2>2 DEF Restart, Inv, TypeOK
    <3>2. phase' = "recover" /\ todo' = {v \in Videos : Row(v)}
      BY <2>2 DEF Restart, Row
    <3> QED
      BY <3>1, <3>2 DEF Sheltered
  <2> QED
    BY <2>1, <2>2
<1>2. ASSUME NEW v \in Videos PROVE at[v] # ViaName[v] /\ ~journal[v].via /\ Place(v) /\ Named(v)
  BY <1>1 DEF Sound, Whole, Unhalved
<1>3. ASSUME NEW v \in Videos PROVE Place(v)'
  <2>1. CASE phase = "up" /\ UNCHANGED pc
    BY <1>1, <1>2, <2>1 DEF Place, Rest, Left, Half, Parked, Moving, Moved, Backed, Row, Unique
  <2>2. CASE pc'[v] = "idle"
    <3>1. Rest(v) \/ Left(v)
      BY <1>2 DEF Place, Rest, Left, Half, Parked, Moving, Moved, Backed, Row, Inv, TypeOK
    <3> QED
      BY <1>1, <2>2, <3>1 DEF Place, Rest, Left, Row
  <2> QED
    BY <1>1, <2>1, <2>2
<1>4. ASSUME NEW v \in Videos PROVE Named(v)' /\ Unhalved(v)'
  BY <1>1, <1>2 DEF Named, Unhalved, Row, Unique
<1>5. Alone'
  BY <1>1 DEF Sound, Alone, Rest, Row
<1>6. Whole'
  BY <1>1, <1>4 DEF Whole, Row
<1> QED
  BY <1>3, <1>4, <1>5, <1>6 DEF Sound

\* What boot finds: no job runs, and a video with a journal row has its file at one of
\* the two names, where nobody else's is taken for it.
LEMMA AtBoot ==
  ASSUME Inv, Sound, Sheltered, phase = "recover", NEW v \in Videos
  PROVE  /\ pc[v] = "idle" /\ Unhalved(v) /\ ~half /\ Named(v)
         /\ IF Row(v) THEN Left(v) ELSE Rest(v)
<1>1. pc[v] = "idle"
  BY DEF Inv, TypeOK, Shape, Sound, Place
<1>2. ~half
  BY DEF Sheltered
<1>3. Rest(v) \/ Left(v)
  BY <1>1 DEF Sound, Place
<1>4. Unhalved(v)
  BY DEF Sound, Whole
<1> QED
  BY <1>1, <1>2, <1>3, <1>4 DEF Unhalved, Rest, Left, Sound

LEMMA Landed ==
  ASSUME Inv, Kept, Sound, Sheltered, NEW v \in Videos, Replaying(v)
  PROVE  /\ Left(v) /\ ~AtVia(v)
         /\ at[v] = journal[v].new => AtNew(v) /\ ~AtOld(v) /\ Unique(v, journal[v].new)
         /\ at[v] = journal[v].old => AtOld(v)
<1>1. Row(v) /\ phase = "recover"
  BY DEF Replaying, Inv, Shape, Row
<1>2. Left(v) /\ Named(v) /\ ~AtVia(v)
  BY <1>1, AtBoot DEF Left, AtVia
<1>3. ASSUME at[v] = journal[v].new PROVE ~AtOld(v) /\ Unique(v, journal[v].new)
  <2>1. at[v] # file_path[v] /\ file_path[v] = journal[v].old
    BY <1>2, <1>3 DEF Left, Named
  <2>2. \A u \in Videos \ {v} : at[u] = file_path[u] /\ file_path[u] # file_path[v] /\ at[u] # at[v]
    BY <1>2, <2>1 DEF Sound, Alone, Named, Unique, Kept, NoOverwrite
  <2>3. foreign = {}
    BY DEF Sheltered
  <2> QED
    BY <1>3, <2>1, <2>2, <2>3 DEF AtOld, Exists, Unique
<1>4. \A n : at[v] = n => Exists(n)
  BY DEF Exists
<1> QED
  BY <1>2, <1>3, <1>4 DEF AtNew, AtOld

\* The replay of one video's row.
LEMMA ReplaySound ==
  ASSUME Inv, Sound, Sheltered, phase = "recover", NEW v \in Videos,
         UNCHANGED <<at, half, pc, phase>>, todo' = todo \ {v}, ~Row(v)', Rest(v)', Named(v)',
         \A u \in Videos \ {v} : /\ file_path'[u] = file_path[u] /\ journal'[u] = journal[u]
                                 /\ last'[u] = last[u] /\ job'[u] = job[u]
  PROVE  Sound'
<1>1. ASSUME NEW u \in Videos PROVE Place(u)' /\ Unhalved(u)' /\ pc'[u] = "idle"
  <2>1. pc[u] = "idle" /\ (IF Row(u) THEN Left(u) ELSE Rest(u)) /\ Unhalved(u) /\ ~half
    BY AtBoot
  <2>2. CASE u = v
    BY <2>1, <2>2 DEF Place, Unhalved, Row
  <2>3. CASE u # v
    BY <2>1, <2>3 DEF Place, Rest, Left, Unhalved, Row
  <2> QED
    BY <2>2, <2>3
<1>2. ASSUME NEW u \in Videos PROVE Named(u)'
  <2>1. CASE u # v
    <3>1. Unique(u, file_path[u])'
      BY <2>1 DEF Sound, Named, Unique
    <3> QED
      BY <2>1, <3>1 DEF Sound, Named, Row
  <2> QED
    BY <2>1
<1>3. Alone'
  BY <1>1 DEF Sound, Alone, Rest
<1>4. Whole'
  BY <1>1 DEF Sound, Whole, Row
<1> QED
  BY <1>1, <1>2, <1>3, <1>4 DEF Sound

LEMMA RecoverySound ==
  ASSUME Inv, Kept, Sound, Sheltered, Recovery
  PROVE  Sound'
<1> USE DEF files, catalogue, process
<1>1. phase = "recover"
  BY DEF Recovery, RecoverNew, RecoverOld, RecoverViaJob, RecoverVia, RecoverBack, RecoverLost,
     Recovered, Replaying
<1>2. ASSUME NEW v \in Videos, RecoverNew(v) PROVE Sound'
  <2>1. Left(v) /\ Named(v) /\ at[v] = journal[v].new /\ Unique(v, journal[v].new)
    BY <1>1, <1>2, Landed, AtBoot DEF RecoverNew, Left
  <2>2. Completed(v) /\ UNCHANGED <<at, half, pc, phase, job>> /\ todo' = todo \ {v}
    BY <1>2, <2>1 DEF RecoverNew, Completes, Left, Replayed
  <2>3. /\ journal' = [journal EXCEPT ![v] = NoRow] /\ file_path' = [file_path EXCEPT ![v] = journal[v].new]
        /\ last' = [last EXCEPT ![v] = [old |-> journal[v].old, new |-> journal[v].new]]
    BY <2>2 DEF Completed
  <2>4. ~Row(v)' /\ Rest(v)'
    BY <2>1, <2>2, <2>3 DEF Row, Rest, Left, Named, Inv, TypeOK
  <2>5. Named(v)'
    BY <2>1, <2>2, <2>3, <2>4 DEF Named, Unique, Left, Inv, TypeOK
  <2> QED
    BY <1>1, <2>2, <2>3, <2>4, <2>5, ReplaySound
<1>3. ASSUME NEW v \in Videos, RecoverOld(v) \/ RecoverLost(v) PROVE Sound'
  <2>1. Left(v) /\ Named(v) /\ at[v] = journal[v].old
    BY <1>1, <1>3, Landed, AtBoot DEF RecoverOld, RecoverLost, Left
  <2>2. /\ journal' = [journal EXCEPT ![v] = NoRow] /\ UNCHANGED <<at, half, pc, phase, file_path, last>>
        /\ todo' = todo \ {v}
    BY <1>3 DEF RecoverOld, RecoverLost, Replayed
  <2>3. /\ \A u \in Videos \ {v} : job'[u] = job[u]
        /\ job'[v].name = job[v].name /\ (job[v].status = "none" => job'[v].status = "none")
    BY <1>3 DEF RecoverOld, RecoverLost, Queued, Inv, TypeOK, Jobs
  <2>4. ~Row(v)' /\ Rest(v)'
    BY <2>1, <2>2 DEF Row, Rest, Left, Named, Inv, TypeOK
  <2>5. Named(v)'
    BY <2>1, <2>2, <2>3, <2>4 DEF Named, Unique
  <2> QED
    BY <1>1, <2>2, <2>3, <2>4, <2>5, ReplaySound
<1>4. ASSUME NEW v \in Videos, RecoverViaJob(v) \/ RecoverVia(v) \/ RecoverBack(v) PROVE Sound'
  BY <1>1, <1>4, Landed, AtBoot DEF RecoverViaJob, RecoverVia, RecoverBack
<1>5. ASSUME Recovered PROVE Sound'
  <2>1. UNCHANGED <<at, half, file_path, journal, last, pc>> /\ phase' = "up"
    BY <1>5 DEF Recovered
  <2>2. ASSUME NEW v \in Videos PROVE pc[v] = "idle" /\ Rest(v) /\ Named(v)
    BY <1>1, <1>5, AtBoot DEF Recovered, Sound, Whole
  <2>3. ASSUME NEW v \in Videos PROVE Place(v)' /\ Rest(v)'
    BY <2>1, <2>2 DEF Place, Rest, Row
  <2>4. ASSUME NEW v \in Videos
        PROVE  job'[v].name = job[v].name /\ (job[v].status = "none" => job'[v].status = "none")
    BY <1>5 DEF Recovered, Inv, TypeOK, Jobs
  <2>5. ASSUME NEW v \in Videos PROVE Named(v)'
    BY <2>1, <2>2, <2>4 DEF Named, Row, Unique
  <2>6. Alone'
    BY <2>3, <2>1, <2>2 DEF Alone, Rest
  <2>7. Whole'
    BY <2>1 DEF Sound, Whole, Unhalved
  <2> QED
    BY <2>3, <2>5, <2>6, <2>7 DEF Sound
<1> QED
  BY <1>2, <1>3, <1>4, <1>5 DEF Recovery

Safe == Ended /\ (Sheltered => Sound)

LEMMA InitSafe == Init => Safe
<1> SUFFICES ASSUME Init PROVE Sound
  BY DEF Init, Safe, Ended
<1>1. ASSUME NEW v \in Videos
      PROVE  /\ pc[v] = "idle" /\ at[v] = file_path[v] /\ at[v] \in Names /\ at[v] # ViaName[v]
             /\ ~Row(v) /\ ~journal[v].via /\ last[v] = NoDone /\ job[v].status = "none"
             /\ Unique(v, file_path[v])
  BY FirstAssumption, ViaAssumption DEF Init, Row, AllNames, Vias, Unique
<1>2. phase = "up"
  BY DEF Init
<1> QED
  BY <1>1, <1>2 DEF Sound, Alone, Whole, Place, Named, Rest, Unhalved

LEMMA NextSafe ==
  ASSUME Concurrency <= 1
  PROVE  Inv /\ Kept /\ Safe /\ Straight' /\ [Next]_vars => Safe'
<1> SUFFICES ASSUME Inv, Kept, Safe, Straight', [Next]_vars, Sheltered' PROVE Sound'
  BY EndedNext DEF Safe
<1>1. Sheltered /\ Sound
  BY ShelterLost DEF Safe
<1>2. CASE Api
  BY <1>1, <1>2, ApiSound
<1>3. CASE \E n \in Names : Drop(n)
  BY <1>3 DEF Drop, Sheltered
<1>4. ASSUME NEW v \in Videos, Claim(v) \/ Run(v) PROVE Sound'
  BY <1>1, <1>4, ClaimSound, RunSound
<1>5. CASE Stop \/ Restart
  BY <1>1, <1>5, StopSound
<1>6. CASE Recovery
  BY <1>1, <1>6, RecoverySound
<1>7. CASE UNCHANGED vars
  BY <1>1, <1>7, JobsSound DEF vars, files, catalogue, process, Sound, Named
<1> QED
  BY <1>2, <1>3, <1>4, <1>5, <1>6, <1>7 DEF Next

LEMMA RestWhole == Safe => WholeAtRest
<1> SUFFICES ASSUME Safe, Sheltered, phase = "up", NEW v \in Videos, pc[v] = "idle" PROVE Rest(v)
  BY DEF WholeAtRest, Rest, Row
<1> QED
  BY DEF Safe, Sound, Place

\* A row is marked done for the file that has the new name.
LEMMA DoneRight ==
  Inv /\ Kept /\ Safe /\ [Next]_vars /\ Sheltered'
    => \A v \in Videos : last'[v] # last[v] => at[v] = last'[v].new
<1> SUFFICES ASSUME Inv, Kept, Safe, [Next]_vars, Sheltered',
                    NEW v \in Videos, last'[v] # last[v]
             PROVE  at[v] = last'[v].new
  OBVIOUS
<1>1. Sheltered /\ Sound
  BY ShelterLost DEF Safe
<1>2. ASSUME NEW u \in Videos, Completed(u), at[u] = journal[u].new PROVE at[v] = last'[v].new
  BY <1>2 DEF Completed, Inv, TypeOK
<1>3. ASSUME NEW u \in Videos, Claim(u) \/ Run(u) PROVE at[v] = last'[v].new
  <2>1. CASE Unwind(u)
    BY <2>1 DEF Unwind, WaitAside, Wait, StepAside, StepAsideFails, StepAsideRename, GiveUp,
       PutBack, PutBackFails, NotAside, AbandonRename, Abandoned, catalogue
  <2>2. CASE CompleteRename(u)
    <3>1. pc[u] = "complete" /\ Completes(u) /\ Completed(u)
      BY <2>2 DEF CompleteRename, catalogue
    <3>2. at[u] = journal[u].new
      BY <1>1, <3>1 DEF Sound, Place, Moved, Completes
    <3> QED
      BY <1>2, <3>1, <3>2
  <2>3. CASE Look(u) \/ Refuse(u) \/ AlreadyNamed(u) \/ InsertPendingRename(u) \/ Resume(u)
    BY <2>3 DEF Look, Refuse, AlreadyNamed, InsertPendingRename, Resume, catalogue
  <2>4. CASE Move(u) \/ MoveExists(u) \/ MoveFails(u) \/ SetRenameVia(u)
    BY <2>4 DEF Move, MoveExists, MoveFails, SetRenameVia, catalogue
  <2>5. CASE Claim(u) \/ Finish(u) \/ Requeue(u) \/ Cancelled(u)
    BY <2>5 DEF Claim, Finish, Requeue, Cancelled, catalogue
  <2> QED
    BY <1>3, <2>1, <2>2, <2>3, <2>4, <2>5 DEF Run
<1>4. CASE Recovery
  <2>1. ASSUME NEW u \in Videos, RecoverNew(u) PROVE at[v] = last'[v].new
    <3>1. Completed(u)
      BY <2>1 DEF RecoverNew, catalogue
    <3>2. at[u] = journal[u].new
      BY <1>1, <2>1, Landed DEF RecoverNew, Left
    <3> QED
      BY <1>2, <3>1, <3>2
  <2> QED
    BY <1>4, <2>1 DEF Recovery, RecoverOld, RecoverViaJob, RecoverVia, RecoverBack, RecoverLost,
       Abandoned, Recovered, catalogue
<1>5. CASE Api \/ Stop \/ Restart \/ \E n \in Names : Drop(n)
  BY <1>5 DEF Api, Apply, Undo, Retry, Dismiss, Stop, Restart, Drop, catalogue
<1>6. CASE UNCHANGED vars
  BY <1>6 DEF vars, catalogue
<1> QED
  BY <1>3, <1>4, <1>5, <1>6 DEF Next

\* With one worker and as long as no file is left astray, every file is between jobs
\* where its video's row, or a pending row of the journal, says: through plain renames,
\* swaps, changes of case, failed moves, undos and crashes (Executor.Run, unwind,
\* Recover).
THEOREM RestsWhole ==
  ASSUME Concurrency <= 1 PROVE Spec /\ []Straight => []WholeAtRest
<1>1. Init => Inv /\ Kept /\ Safe
  BY InitInv, InitKept, InitSafe
<1>2. Inv /\ Kept /\ Safe /\ Straight' /\ [Next]_vars => (Inv /\ Kept /\ Safe)'
  BY NextInv, NextKept, NextSafe
<1>3. Safe => WholeAtRest
  BY RestWhole
<1> QED
  BY <1>1, <1>2, <1>3, PTL DEF Spec

\* Under the same conditions a row is marked done only for the file that has the new
\* name, whichever of Run and recoverOne marks it.
THEOREM MarksDone ==
  ASSUME Concurrency <= 1 PROVE Spec /\ []Straight => DoneIsTrue
<1>1. Init => Inv /\ Kept /\ Safe
  BY InitInv, InitKept, InitSafe
<1>2. Inv /\ Kept /\ Safe /\ Straight' /\ [Next]_vars => (Inv /\ Kept /\ Safe)'
  BY NextInv, NextKept, NextSafe
<1>3. Inv /\ Kept /\ Safe /\ [Next]_vars =>
        [Sheltered' => \A v \in Videos : last'[v] # last[v] => at[v] = last'[v].new]_vars
  BY DoneRight
<1> QED
  BY <1>1, <1>2, <1>3, PTL DEF Spec, DoneIsTrue

-----------------------------------------------------------------------------
(* Where no two names differ only in case or composition, no rename goes in two  *)
(* steps, so no file is ever left astray.                                        *)

Plain == \A n, m \in Names : FoldKey[n] = FoldKey[m] => n = m

\* A file is at its via name only while its video steps aside, or as its row says.
Steady == Sheltered => \A v \in Videos :
            at[v] = ViaName[v] => file_path[v] = ViaName[v] \/ pc[v] = "aside"

LEMMA SteadyRun ==
  ASSUME Plain, Inv, Kept, Sound, Steady, Sheltered, Sheltered',
         NEW u \in Videos, Claim(u) \/ Run(u), NEW v \in Videos, at'[v] = ViaName[v]
  PROVE  file_path'[v] = ViaName[v] \/ pc'[v] = "aside"
<1> USE DEF Inv, TypeOK, Rows, files, catalogue, process
<1> DEFINE G == file_path'[v] = ViaName[v] \/ pc'[v] = "aside"
<1>1. at[v] = ViaName[v] => file_path[v] = ViaName[v] \/ pc[v] = "aside"
  BY DEF Steady
<1>2. Place(u) /\ Named(u) /\ Unhalved(v) /\ foreign = {} /\ ViaName[u] \notin Names
  BY ViaAssumption DEF Sound, Whole, Sheltered, Vias
<1>3. CASE UNCHANGED <<at, file_path>> /\ (pc[v] = "aside" => pc'[v] = "aside")
  BY <1>1, <1>3
<1>4. CASE Move(u)
  <2>1. /\ Moving(u) /\ Source(u) = at[u] /\ journal[u].old \in Names /\ journal[u].new \in Names
        /\ journal[u].old # journal[u].new
    BY <1>2, <1>4 DEF Move, Place, Moving, Parked, Row, Source, Named
  <2>2. Target(u) = journal[u].new
    BY <2>1 DEF Plain, Target, TwoSteps, Source
  <2>3. at' = [at EXCEPT ![u] = journal[u].new]
    BY <1>2, <1>4, <2>1, <2>2, MovesOne DEF Move
  <2>4. u # v
    BY <1>2, <2>1, <2>3
  <2> QED
    BY <1>1, <1>4, <2>3, <2>4 DEF Move
<1>5. CASE CompleteRename(u)
  <2>1. CASE Completes(u) /\ Completed(u)
    <3>1. at[u] = journal[u].new /\ journal[u].new \in Names
      BY <1>2, <1>5, <2>1 DEF CompleteRename, Completes, Place, Moved, Named, Row
    <3>2. u # v
      BY <1>2, <1>5, <3>1 DEF CompleteRename
    <3> QED
      BY <1>1, <1>5, <2>1, <3>2 DEF CompleteRename, Completed
  <2> QED
    BY <1>1, <1>5, <2>1 DEF CompleteRename
<1>6. CASE StepAside(u)
  <2>1. journal[u].old = at[u]
    BY <1>2, <1>6 DEF StepAside, Place, Moving, Parked, Aside, Exists
  <2>2. at' = [at EXCEPT ![u] = ViaName[u]]
    BY <1>2, <1>6, <2>1, MovesOne DEF StepAside
  <2> QED
    BY <1>1, <1>6, <2>2 DEF StepAside
<1>7. CASE StepAsideRename(u)
  BY <1>1, <1>2, <1>7 DEF StepAsideRename, Place, Half
<1>8. CASE PutBack(u)
  <2>1. ViaName[u] = at[u] /\ journal[u].old \in Names
    <3>1. PICK w \in Videos : at[w] = ViaName[u]
      BY <1>2, <1>8 DEF PutBack, Moves, Exists
    <3>2. w # u => Rest(w) /\ at[w] \in {ViaName[w]} \cup Names
      BY <1>8 DEF PutBack, Sound, Alone, Rest
    <3>3. w = u
      BY <1>2, <3>1, <3>2, ViaAssumption
    <3> QED
      BY <1>2, <1>8, <3>1, <3>3 DEF PutBack, Place, Moving, Parked, Named
  <2>2. at' = [at EXCEPT ![u] = journal[u].old]
    BY <1>2, <1>8, <2>1, MovesOne DEF PutBack
  <2> QED
    BY <1>1, <1>2, <1>8, <2>1, <2>2 DEF PutBack
<1>9. CASE AbandonRename(u)
  <2>1. at[u] = journal[u].old /\ journal[u].old \in Names
    BY <1>2, <1>9 DEF AbandonRename, Place, Backed, Named
  <2>2. u # v
    BY <1>2, <1>9, <2>1 DEF AbandonRename
  <2> QED
    BY <1>1, <1>9, <2>2 DEF AbandonRename, Abandoned
<1>10. CASE Cancelled(u)
  BY <1>2, <1>10 DEF Cancelled, Unhalved, Sheltered
<1>11. CASE \/ Look(u) \/ Refuse(u) \/ AlreadyNamed(u) \/ InsertPendingRename(u) \/ Resume(u)
            \/ MoveExists(u) \/ MoveFails(u) \/ SetRenameVia(u)
  BY <1>3, <1>11 DEF Look, Refuse, AlreadyNamed, InsertPendingRename, Resume, MoveExists,
     MoveFails, SetRenameVia
<1>12. CASE WaitAside(u) \/ Wait(u) \/ StepAsideFails(u) \/ GiveUp(u) \/ PutBackFails(u) \/ NotAside(u)
  BY <1>3, <1>12 DEF WaitAside, Wait, StepAsideFails, GiveUp, PutBackFails, NotAside
<1>13. CASE Claim(u) \/ Finish(u) \/ Requeue(u)
  BY <1>3, <1>13 DEF Claim, Finish, Requeue
<1> QED
  BY <1>4, <1>5, <1>6, <1>7, <1>8, <1>9, <1>10, <1>11, <1>12, <1>13 DEF Run, Unwind

LEMMA NextSteady ==
  ASSUME Plain
  PROVE  Inv /\ Kept /\ Safe /\ Steady /\ [Next]_vars => Steady'
<1> SUFFICES ASSUME Inv, Kept, Safe, Steady, [Next]_vars, Sheltered',
                    NEW v \in Videos, at'[v] = ViaName[v]
             PROVE  file_path'[v] = ViaName[v] \/ pc'[v] = "aside"
  BY DEF Steady
<1>1. Sheltered /\ Sound
  BY ShelterLost DEF Safe
<1>2. at[v] = ViaName[v] => file_path[v] = ViaName[v] \/ pc[v] = "aside"
  BY <1>1 DEF Steady
<1>3. CASE UNCHANGED <<at, file_path, pc>>
  BY <1>2, <1>3
<1>4. CASE Api \/ Stop \/ UNCHANGED vars \/ \E n \in Names : Drop(n)
  BY <1>3, <1>4 DEF Api, Apply, Undo, Retry, Dismiss, Stop, Drop, vars, files, catalogue
<1>5. ASSUME NEW u \in Videos, Claim(u) \/ Run(u)
      PROVE  file_path'[v] = ViaName[v] \/ pc'[v] = "aside"
  BY <1>1, <1>5, SteadyRun
<1>6. CASE Restart
  <2>1. ~half /\ UNCHANGED at
    BY <1>6 DEF Restart, files, Sheltered, Inv, TypeOK
  <2> QED
    BY <1>1, <2>1 DEF Sound, Whole, Unhalved
<1>7. CASE Recovery
  <2>1. phase = "recover"
    BY <1>7 DEF Recovery, RecoverNew, RecoverOld, RecoverViaJob, RecoverVia, RecoverBack,
       RecoverLost, Recovered, Replaying
  <2>2. \A u \in Videos : ~RecoverVia(u)
    BY <1>1, Landed DEF RecoverVia
  <2>3. UNCHANGED at
    BY <1>7, <2>2 DEF Recovery, RecoverNew, RecoverOld, RecoverViaJob, RecoverBack, RecoverLost,
       Recovered, files
  <2> QED
    BY <1>1, <2>1, <2>3, AtBoot DEF Unhalved
<1> QED
  BY <1>4, <1>5, <1>6, <1>7 DEF Next

LEMMA InitSteady == Init => Steady
  BY FirstAssumption, ViaAssumption DEF Init, Steady, Vias

\* With one worker and no two names that differ only in case or composition, no file is
\* ever left astray, so both promises hold however many moves fail.
THEOREM PlainRestsWhole ==
  ASSUME Concurrency <= 1, Plain PROVE Spec => []WholeAtRest
<1> DEFINE I == Inv /\ Kept /\ Safe /\ Steady
<1>1. Init => I
  BY InitInv, InitKept, InitSafe, InitSteady
<1>2. I /\ [Next]_vars => I'
  <2>1. I /\ [Next]_vars => Steady'
    BY NextSteady
  <2>2. Steady' => Straight'
    BY DEF Steady, Straight, Astray
  <2> QED
    BY <2>1, <2>2, NextInv, NextKept, NextSafe
<1>3. I => WholeAtRest
  BY RestWhole
<1> HIDE DEF I
<1> QED
  BY <1>1, <1>2, <1>3, PTL DEF Spec
-----------------------------------------------------------------------------
(* The maintenance of one video's file (HeldSwap): its swap, the hold on the *)
(* original and their recovery, for any number of jobs, failed file system   *)
(* calls and ends of the process.                                            *)
(*                                                                           *)
(* The invariant has three parts besides the types.  SwapRows says what      *)
(* files each state of the journal row stands for, which is all that boot    *)
(* recovery can go by; SwapWorker says what the worker knows at each step of *)
(* an operation; SwapQuiet says which rows a process that has met no file    *)
(* system error can leave behind.                                            *)

LEMMA FilesApart == Absent \notin Nat /\ Partial \notin Nat /\ Absent # Partial
BY SwapAssumption DEF Swap!FilesAssumption

LEMMA SwapBounds == MaxSwapJobs \in Nat /\ MaxFaults \in Nat /\ MaxSwapCrashes \in Nat
BY SwapAssumption DEF Swap!BoundsAssumption

SwapRows ==
    /\ row = "none" => held = Absent
    /\ row = "held" => held # Absent
    /\ path = Absent => row = "swapping" /\ held # Absent /\ new \in {Absent, held + 1}

SwapWorker ==
    /\ life \in {"down", "recover"} => swapPc = "idle"
    /\ swapPc = "verify" => path # Absent
    /\ swapPc = "begin" => path # Absent /\ new \in {Absent, path + 1}
    /\ swapPc = "replace" => row = "held" /\ path # Absent /\ new \in {Absent, path + 1}
    /\ swapPc = "hold" => /\ row = "swapping" /\ held = Absent
                          /\ path # Absent /\ new \in {Absent, path + 1}
    /\ swapPc \in {"place", "rollback"} => row = "swapping" /\ path = Absent
    /\ swapPc = "setHeld" => row = "swapping" /\ path # Absent /\ held # Absent
    /\ swapPc = "unjournal" => row = "swapping" /\ path # Absent /\ held = Absent
    /\ swapPc = "moveBack" => row = "restoring" /\ held # Absent
    /\ swapPc = "remove" => row = "discarding" /\ held # Absent
    /\ swapPc = "rehold" => row \in {"restoring", "discarding"} /\ held # Absent
    /\ swapPc = "endHold" => row \in {"restoring", "discarding"} /\ held = Absent

SwapQuiet ==
    life = "up" /\ ~faulty
    /\ swapPc \in {"idle", "hflip", "verify", "begin", "replace", "drop", "restore", "discard",
                      "done", "failed"}
    => row \in {"none", "held"}

SwapInv == Swap!TypeOK /\ SwapRows /\ SwapWorker /\ SwapQuiet

LEMMA SwapInit == Swap!Init => SwapInv
<1> SUFFICES ASSUME Swap!Init PROVE SwapInv
  OBVIOUS
<1>1. Swap!TypeOK
  <2>1. expired \in BOOLEAN
    BY DEF Swap!Init
  <2>2. faulty \in BOOLEAN
    BY DEF Swap!Init
  <2> QED
    BY <2>1, <2>2, SwapBounds DEF Swap!Init, Swap!TypeOK, Swap!Ops
<1>2. SwapRows /\ SwapWorker /\ SwapQuiet
  BY FilesApart DEF Swap!Init, SwapRows, SwapWorker, SwapQuiet
<1> QED
  BY <1>1, <1>2 DEF SwapInv

\* A step of an API request, of the expiry pass or of the clock moves no file
\* and no journal row.
LEMMA SwapLane == SwapInv /\ (Swap!Lane \/ Swap!Expiry) => SwapInv'
<1> SUFFICES ASSUME SwapInv, Swap!Lane \/ Swap!Expiry PROVE SwapInv'
  OBVIOUS
<1> USE DEF Swap!files, Swap!journal, Swap!lane, Swap!api, Swap!process, Swap!fs, Swap!DB,
            Swap!Enqueue, Swap!Ops
<1>1. UNCHANGED <<path, new, held, row, swapPc, life, starter, faulty, swapFaults, swapCrashes>>
  BY DEF Swap!Lane, Swap!Expiry, Swap!AskFlip, Swap!AskHeld, Swap!EnqueueOp, Swap!Retry,
         Swap!Dismiss, Swap!Expire,
         Swap!ExpiryList, Swap!ExpiryCheck, Swap!ExpiryEnqueue
<1>2. /\ op' \in Swap!Ops /\ status' \in {"none", "pending", "running", "failed"}
      /\ applied' \in Nat /\ swapJobs' \in 0 .. MaxSwapJobs
      /\ asked' \in Swap!Ops \cup {"none"} /\ expiry' \in {"idle", "listed", "checked"}
  BY SwapBounds
     DEF SwapInv, Swap!TypeOK, Swap!Lane, Swap!Expiry, Swap!AskFlip, Swap!AskHeld, Swap!EnqueueOp,
         Swap!Retry, Swap!Dismiss, Swap!Expire,
         Swap!ExpiryList, Swap!ExpiryCheck, Swap!ExpiryEnqueue
<1>3. expired' \in BOOLEAN
  <2>1. expired' = expired \/ expired' = TRUE
    BY DEF Swap!Lane, Swap!Expiry, Swap!AskFlip, Swap!AskHeld, Swap!EnqueueOp, Swap!Retry,
           Swap!Dismiss, Swap!Expire,
           Swap!ExpiryList, Swap!ExpiryCheck, Swap!ExpiryEnqueue
  <2> QED
    BY <2>1 DEF SwapInv, Swap!TypeOK
<1> QED
  BY <1>1, <1>2, <1>3 DEF SwapInv, Swap!TypeOK, SwapRows, SwapWorker, SwapQuiet

LEMMA SwapFlip == SwapInv /\ (Swap!Claim \/ Swap!Flip) => SwapInv'
<1> SUFFICES ASSUME SwapInv, Swap!Claim \/ Swap!Flip PROVE SwapInv'
  OBVIOUS
<1> USE SwapBounds, FilesApart
    DEF SwapInv, Swap!TypeOK, SwapRows, SwapWorker, SwapQuiet, Swap!Ops,
        Swap!Step, Swap!DB, Swap!Fault,
        Swap!files, Swap!journal, Swap!lane, Swap!api, Swap!process, Swap!fs
<1>1. CASE Swap!Claim
  BY <1>1 DEF Swap!Claim
<1>2. CASE Swap!Rebuild \/ Swap!RebuildFails
  BY <1>2 DEF Swap!Rebuild, Swap!RebuildFails
<1>3. CASE Swap!Verify \/ Swap!VerifyFails
  BY <1>3 DEF Swap!Verify, Swap!VerifyFails
<1>4. CASE Swap!BeginSwap \/ Swap!BeginSwapRefused
  <2>1. Swap!TypeOK'
    <3>1. faulty' \in BOOLEAN
      BY <1>4 DEF Swap!BeginSwap, Swap!BeginSwapRefused, Swap!Swappable
    <3>2. expired' \in BOOLEAN
      BY <1>4 DEF Swap!BeginSwap, Swap!BeginSwapRefused, Swap!Swappable
    <3> QED
      BY <1>4, <3>1, <3>2 DEF Swap!BeginSwap, Swap!BeginSwapRefused, Swap!Swappable
  <2>2. SwapRows'
    BY <1>4 DEF Swap!BeginSwap, Swap!BeginSwapRefused, Swap!Swappable
  <2>3. SwapWorker'
    BY <1>4 DEF Swap!BeginSwap, Swap!BeginSwapRefused, Swap!Swappable
  <2>4. SwapQuiet'
    BY <1>4 DEF Swap!BeginSwap, Swap!BeginSwapRefused, Swap!Swappable
  <2> QED
    BY <2>1, <2>2, <2>3, <2>4
<1>5. CASE Swap!Hold \/ Swap!HoldFails
  <2>1. Swap!TypeOK'
    <3>1. faulty' \in BOOLEAN
      BY <1>5 DEF Swap!Hold, Swap!HoldFails
    <3>2. expired' \in BOOLEAN
      BY <1>5 DEF Swap!Hold, Swap!HoldFails
    <3> QED
      BY <1>5, <3>1, <3>2 DEF Swap!Hold, Swap!HoldFails
  <2>2. SwapRows'
    BY <1>5 DEF Swap!Hold, Swap!HoldFails
  <2>3. SwapWorker'
    BY <1>5 DEF Swap!Hold, Swap!HoldFails
  <2>4. SwapQuiet'
    BY <1>5 DEF Swap!Hold, Swap!HoldFails
  <2> QED
    BY <2>1, <2>2, <2>3, <2>4
<1>6. CASE Swap!Place \/ Swap!PlaceFails
  <2>1. Swap!TypeOK'
    <3>1. faulty' \in BOOLEAN
      BY <1>6 DEF Swap!Place, Swap!PlaceFails
    <3>2. expired' \in BOOLEAN
      BY <1>6 DEF Swap!Place, Swap!PlaceFails
    <3> QED
      BY <1>6, <3>1, <3>2 DEF Swap!Place, Swap!PlaceFails
  <2>2. SwapRows'
    BY <1>6 DEF Swap!Place, Swap!PlaceFails
  <2>3. SwapWorker'
    BY <1>6 DEF Swap!Place, Swap!PlaceFails
  <2>4. SwapQuiet'
    BY <1>6 DEF Swap!Place, Swap!PlaceFails
  <2> QED
    BY <2>1, <2>2, <2>3, <2>4
<1>7. CASE Swap!Rollback \/ Swap!RollbackFails
  <2>1. Swap!TypeOK'
    <3>1. faulty' \in BOOLEAN
      BY <1>7 DEF Swap!Rollback, Swap!RollbackFails
    <3>2. expired' \in BOOLEAN
      BY <1>7 DEF Swap!Rollback, Swap!RollbackFails
    <3> QED
      BY <1>7, <3>1, <3>2 DEF Swap!Rollback, Swap!RollbackFails
  <2>2. SwapRows'
    BY <1>7 DEF Swap!Rollback, Swap!RollbackFails
  <2>3. SwapWorker'
    BY <1>7 DEF Swap!Rollback, Swap!RollbackFails
  <2>4. SwapQuiet'
    BY <1>7 DEF Swap!Rollback, Swap!RollbackFails
  <2> QED
    BY <2>1, <2>2, <2>3, <2>4
<1>8. CASE Swap!Unjournal \/ Swap!SetHeld \/ Swap!DropNew
  BY <1>8 DEF Swap!Unjournal, Swap!SetHeld, Swap!DropNew
<1> QED
  BY <1>1, <1>2, <1>3, <1>4, <1>5, <1>6, <1>7, <1>8 DEF Swap!Flip

LEMMA SwapEnd == SwapInv /\ (Swap!EndOfHold \/ Swap!Finish) => SwapInv'
<1> SUFFICES ASSUME SwapInv, Swap!EndOfHold \/ Swap!Finish PROVE SwapInv'
  OBVIOUS
<1> USE SwapBounds, FilesApart
    DEF SwapInv, Swap!TypeOK, SwapRows, SwapWorker, SwapQuiet, Swap!Ops,
        Swap!Step, Swap!DB, Swap!Fault,
        Swap!files, Swap!journal, Swap!lane, Swap!api, Swap!process, Swap!fs
<1>1. CASE Swap!BeginEnd \/ Swap!BeginEndRefused
  BY <1>1 DEF Swap!BeginEnd, Swap!BeginEndRefused
<1>2. CASE Swap!MoveBack \/ Swap!Remove
  BY <1>2 DEF Swap!MoveBack, Swap!Remove
<1>3. CASE Swap!EndFails \/ Swap!Rehold \/ Swap!EndHold
  <2>1. Swap!TypeOK'
    <3>1. faulty' \in BOOLEAN
      BY <1>3 DEF Swap!EndFails, Swap!Rehold, Swap!EndHold
    <3>2. expired' \in BOOLEAN
      BY <1>3 DEF Swap!EndFails, Swap!Rehold, Swap!EndHold
    <3> QED
      BY <1>3, <3>1, <3>2 DEF Swap!EndFails, Swap!Rehold, Swap!EndHold
  <2>2. SwapRows'
    BY <1>3 DEF Swap!EndFails, Swap!Rehold, Swap!EndHold
  <2>3. SwapWorker'
    BY <1>3 DEF Swap!EndFails, Swap!Rehold, Swap!EndHold
  <2>4. SwapQuiet'
    BY <1>3 DEF Swap!EndFails, Swap!Rehold, Swap!EndHold
  <2> QED
    BY <2>1, <2>2, <2>3, <2>4
<1>4. CASE Swap!Finish
  BY <1>4 DEF Swap!Finish
<1> QED
  BY <1>1, <1>2, <1>3, <1>4 DEF Swap!EndOfHold

LEMMA SwapProcess == SwapInv /\ (Swap!Start \/ Swap!Stop \/ Swap!Exit \/ Swap!Boot \/ Swap!Recovery) => SwapInv'
<1> SUFFICES ASSUME SwapInv, Swap!Start \/ Swap!Stop \/ Swap!Exit \/ Swap!Boot \/ Swap!Recovery PROVE SwapInv'
  OBVIOUS
<1> USE SwapBounds, FilesApart
    DEF SwapInv, Swap!TypeOK, SwapRows, SwapWorker, SwapQuiet, Swap!Ops,
        Swap!Step, Swap!DB, Swap!Fault,
        Swap!files, Swap!journal, Swap!lane, Swap!api, Swap!process, Swap!fs
<1>1. CASE Swap!Start
  BY <1>1 DEF Swap!Start, Swap!RecoverRunning, Swap!SweepOrphans
<1>2. CASE Swap!Stop \/ Swap!Boot
  <2>1. Swap!TypeOK'
    <3>1. faulty' \in BOOLEAN
      BY <1>2 DEF Swap!Stop, Swap!Boot
    <3>2. expired' \in BOOLEAN
      BY <1>2 DEF Swap!Stop, Swap!Boot
    <3> QED
      BY <1>2, <3>1, <3>2 DEF Swap!Stop, Swap!Boot
  <2>2. SwapRows'
    BY <1>2 DEF Swap!Stop, Swap!Boot
  <2>3. SwapWorker'
    BY <1>2 DEF Swap!Stop, Swap!Boot
  <2>4. SwapQuiet'
    BY <1>2 DEF Swap!Stop, Swap!Boot
  <2> QED
    BY <2>1, <2>2, <2>3, <2>4
<1>3. CASE Swap!Exit
  <2>1. Swap!TypeOK'
    BY <1>3 DEF Swap!Exit
  <2>2. SwapRows'
    BY <1>3 DEF Swap!Exit
  <2>3. SwapWorker'
    BY <1>3 DEF Swap!Exit
  <2>4. SwapQuiet'
    BY <1>3 DEF Swap!Exit
  <2> QED
    BY <2>1, <2>2, <2>3, <2>4
<1>4. CASE Swap!RecoverFiles
  BY <1>4 DEF Swap!RecoverFiles, Swap!RecoverMove
<1>5. CASE Swap!RecoverFails \/ Swap!RecoverRow
  <2>1. Swap!TypeOK'
    <3>1. faulty' \in BOOLEAN
      BY <1>5 DEF Swap!RecoverFails, Swap!RecoverRow, Swap!Recovered, Swap!Unmoved
    <3>2. expired' \in BOOLEAN
      BY <1>5 DEF Swap!RecoverFails, Swap!RecoverRow, Swap!Recovered, Swap!Unmoved
    <3> QED
      BY <1>5, <3>1, <3>2 DEF Swap!RecoverFails, Swap!RecoverRow, Swap!Recovered, Swap!Unmoved
  <2>2. SwapRows'
    BY <1>5 DEF Swap!RecoverFails, Swap!RecoverRow, Swap!Recovered, Swap!Unmoved
  <2>3. SwapWorker'
    BY <1>5 DEF Swap!RecoverFails, Swap!RecoverRow, Swap!Recovered, Swap!Unmoved
  <2>4. SwapQuiet'
    BY <1>5 DEF Swap!RecoverFails, Swap!RecoverRow, Swap!Recovered, Swap!Unmoved
  <2> QED
    BY <2>1, <2>2, <2>3, <2>4
<1> QED
  BY <1>1, <1>2, <1>3, <1>4, <1>5 DEF Swap!Recovery

LEMMA SwapNext == SwapInv /\ [Swap!Next]_(Swap!vars) => SwapInv'
<1>1. SwapInv /\ UNCHANGED Swap!vars => SwapInv'
  BY DEF SwapInv, Swap!TypeOK, SwapRows, SwapWorker, SwapQuiet, Swap!vars, Swap!files,
         Swap!journal, Swap!lane, Swap!api, Swap!process, Swap!fs
<1> QED
  BY <1>1, SwapLane, SwapFlip, SwapEnd, SwapProcess DEF Swap!Next, Swap!Worker

LEMMA SwapHolds == Swap!Spec => []SwapInv
BY SwapInit, SwapNext, PTL DEF Swap!Spec

\* Every variable keeps to its type; the library file is never half-written.
THEOREM SwapTyped == Swap!Spec => []Swap!TypeOK
<1>1. SwapInv => Swap!TypeOK
  BY DEF SwapInv
<1> QED
  BY <1>1, SwapHolds, PTL

\* The library file is missing only when the original is set aside under a row
\* that boot recovery replays.
THEOREM FileSafe == Swap!Spec => []NeverWithoutFile
<1>1. SwapInv => NeverWithoutFile
  BY DEF SwapInv, SwapRows, NeverWithoutFile, Swap!NeverWithoutFile
<1> QED
  BY <1>1, SwapHolds, PTL

\* The journal and the disk agree on whether an original is held.
THEOREM JournalAgrees == Swap!Spec => []Swap!HeldJournaled
<1>1. SwapInv => Swap!HeldJournaled
  BY DEF SwapInv, SwapRows, Swap!HeldJournaled
<1> QED
  BY <1>1, SwapHolds, PTL

\* Unless the file system failed since the boot, nothing is half done between
\* two jobs.
THEOREM SwapSettled == Swap!Spec => []Swap!SettledBetweenJobs
<1>1. SwapInv => Swap!SettledBetweenJobs
  BY DEF SwapInv, SwapRows, SwapQuiet, Swap!SettledBetweenJobs
<1> QED
  BY <1>1, SwapHolds, PTL
-----------------------------------------------------------------------------
\* Refinement.  Only five kinds of step change what the owner sees.

LEMMA AbstractInit == Swap!Init => Swap!Abstract!Init
BY FilesApart DEF Swap!Init, Swap!Abstract!Init

\* A step that moves neither the file nor the original nor the row is unseen.
LEMMA Unseen ==
    UNCHANGED <<path, held, row>> => UNCHANGED Swap!Abstract!vars
BY DEF Swap!Abstract!vars

LEMMA PlaceIsSwap ==
  ASSUME SwapInv, Swap!Place
  PROVE  Swap!Abstract!Swap
BY FilesApart DEF SwapInv, Swap!TypeOK, SwapRows, SwapWorker, Swap!Place, Swap!Step,
       Swap!journal, Swap!Abstract!Swap

LEMMA FlipStep ==
  ASSUME SwapInv, Swap!Flip
  PROVE  Swap!Abstract!Swap \/ UNCHANGED Swap!Abstract!vars
<1> USE DEF Swap!Step, Swap!files, Swap!journal
<1>1. CASE Swap!Place
  BY <1>1, PlaceIsSwap
<1>2. CASE Swap!Hold \/ Swap!Rollback
  BY <1>2, FilesApart
     DEF Swap!Hold, Swap!Rollback, SwapInv, Swap!TypeOK, SwapRows,
         SwapWorker, Swap!Abstract!vars
<1>3. CASE Swap!BeginSwap \/ Swap!Unjournal \/ Swap!SetHeld
  BY <1>3 DEF Swap!BeginSwap, Swap!Unjournal, Swap!SetHeld, SwapInv, SwapWorker, Swap!Abstract!vars
<1>4. CASE Swap!Rebuild \/ Swap!RebuildFails \/ Swap!Verify \/ Swap!VerifyFails \/ Swap!BeginSwapRefused
           \/ Swap!HoldFails \/ Swap!PlaceFails \/ Swap!RollbackFails \/ Swap!DropNew
  BY <1>4, Unseen DEF Swap!Rebuild, Swap!RebuildFails, Swap!Verify, Swap!VerifyFails,
                      Swap!BeginSwapRefused,
                      Swap!HoldFails, Swap!PlaceFails, Swap!RollbackFails, Swap!DropNew
<1> QED
  BY <1>1, <1>2, <1>3, <1>4 DEF Swap!Flip

LEMMA EndStep ==
  ASSUME SwapInv, Swap!EndOfHold
  PROVE  \/ Swap!Abstract!Begin("restore") \/ Swap!Abstract!Begin("discard")
         \/ Swap!Abstract!Restore \/ Swap!Abstract!Discard \/ Swap!Abstract!End
         \/ UNCHANGED Swap!Abstract!vars
<1> USE FilesApart DEF Swap!Step, Swap!files, Swap!journal, SwapInv, Swap!TypeOK,
            SwapRows, SwapWorker
<1>1. CASE Swap!BeginEnd
  BY <1>1 DEF Swap!BeginEnd, Swap!Abstract!Begin
<1>2. CASE Swap!MoveBack
  BY <1>2 DEF Swap!MoveBack, Swap!Abstract!Restore
<1>3. CASE Swap!Remove
  BY <1>3 DEF Swap!Remove, Swap!Abstract!Discard
<1>4. CASE Swap!Rehold \/ Swap!EndHold
  BY <1>4 DEF Swap!Rehold, Swap!EndHold, Swap!Abstract!End, Swap!Abstract!vars
<1>5. CASE Swap!BeginEndRefused \/ Swap!EndFails
  BY <1>5, Unseen DEF Swap!BeginEndRefused, Swap!EndFails
<1> QED
  BY <1>1, <1>2, <1>3, <1>4, <1>5 DEF Swap!EndOfHold

LEMMA RecoveryStep ==
  ASSUME SwapInv, Swap!Recovery
  PROVE  \/ Swap!Abstract!Swap \/ Swap!Abstract!Restore \/ Swap!Abstract!Discard \/ Swap!Abstract!End
         \/ UNCHANGED Swap!Abstract!vars
<1> USE FilesApart DEF Swap!files, Swap!journal, SwapInv, Swap!TypeOK, SwapRows
<1>1. CASE Swap!RecoverFiles /\ row = "swapping" /\ new # Absent
  BY <1>1 DEF Swap!RecoverFiles, Swap!RecoverMove, Swap!Abstract!Swap
<1>2. CASE Swap!RecoverFiles /\ row = "swapping" /\ new = Absent
  BY <1>2 DEF Swap!RecoverFiles, Swap!RecoverMove, Swap!Abstract!vars
<1>3. CASE Swap!RecoverFiles /\ row = "restoring"
  BY <1>3 DEF Swap!RecoverFiles, Swap!RecoverMove, Swap!Abstract!Restore
<1>4. CASE Swap!RecoverFiles /\ row = "discarding"
  BY <1>4 DEF Swap!RecoverFiles, Swap!RecoverMove, Swap!Abstract!Discard
<1>5. CASE Swap!RecoverFails
  BY <1>5, Unseen DEF Swap!RecoverFails
<1>6. CASE Swap!RecoverRow
  BY <1>6 DEF Swap!RecoverRow, Swap!Recovered, Swap!Unmoved, Swap!Abstract!End, Swap!Abstract!vars
<1>7. Swap!RecoverFiles => row \in {"swapping", "restoring", "discarding"}
  BY DEF Swap!RecoverFiles, Swap!RecoverMove
<1> QED
  BY <1>1, <1>2, <1>3, <1>4, <1>5, <1>6, <1>7 DEF Swap!Recovery

LEMMA AbstractNext == SwapInv /\ [Swap!Next]_(Swap!vars) => [Swap!Abstract!Next]_(Swap!Abstract!vars)
<1> SUFFICES ASSUME SwapInv, [Swap!Next]_(Swap!vars) PROVE [Swap!Abstract!Next]_(Swap!Abstract!vars)
  OBVIOUS
<1> USE DEF Swap!files, Swap!journal
<1>1. CASE Swap!Flip
  BY <1>1, FlipStep DEF Swap!Abstract!Next
<1>2. CASE Swap!EndOfHold
  BY <1>2, EndStep DEF Swap!Abstract!Next
<1>3. CASE Swap!Recovery
  BY <1>3, RecoveryStep DEF Swap!Abstract!Next
<1>4. CASE Swap!Lane \/ Swap!Expiry
  BY <1>4, Unseen DEF Swap!Lane, Swap!Expiry, Swap!AskFlip, Swap!AskHeld, Swap!EnqueueOp,
                      Swap!Retry, Swap!Dismiss, Swap!Expire,
                      Swap!ExpiryList, Swap!ExpiryCheck, Swap!ExpiryEnqueue
<1>5. CASE Swap!Claim \/ Swap!Finish
  BY <1>5, Unseen DEF Swap!Claim, Swap!Finish
<1>6. CASE Swap!Start \/ Swap!Stop \/ Swap!Exit \/ Swap!Boot
  BY <1>6, Unseen DEF Swap!Start, Swap!RecoverRunning, Swap!SweepOrphans, Swap!Stop, Swap!Exit,
                      Swap!Boot
<1>7. CASE UNCHANGED Swap!vars
  BY <1>7, Unseen DEF Swap!vars
<1> QED
  BY <1>1, <1>2, <1>3, <1>4, <1>5, <1>6, <1>7 DEF Swap!Next, Swap!Worker

\* The journaled two-rename swap, with its recovery, implements operations that
\* take effect at once.
THEOREM SwapImplements == Swap!Spec => ImplementsHeldOriginal
<1>1. Swap!Spec => Swap!Abstract!Init /\ [][Swap!Abstract!Next]_(Swap!Abstract!vars)
  BY AbstractInit, AbstractNext, SwapHolds, PTL DEF Swap!Spec
<1> QED
  BY <1>1 DEF ImplementsHeldOriginal, Swap!ImplementsHeldOriginal, Swap!Abstract!Spec
=============================================================================
