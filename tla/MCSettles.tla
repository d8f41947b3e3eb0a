------------------------------ MODULE MCSettles ------------------------------
(***************************************************************************)
(* What the queue owes its callers in the end, on small instances: the     *)
(* whole queue, and the rename jobs.  "part" says which of the two runs;   *)
(* the other stays in its first state.                                     *)
(***************************************************************************)
EXTENDS WriteQueue, TLC

CONSTANTS v1, v2, a, b, c, x1, x2, NoName

VARIABLES
    part,
    at, foreign, half, file_path, journal, last, renames, stand, process, todo, stops, applies, faults

Renames == INSTANCE FileRename WITH
    Names <- {a, b, c}, ViaName <- v1 :> x1 @@ v2 :> x2, First <- v1 :> a @@ v2 :> b,
    FoldKey <- [n \in {a, b, c, x1, x2} |-> n],
    Concurrency <- 1, MaxWaits <- 2, MaxJobs <- 2, MaxFaults <- 1, MaxForeign <- 0, MaxCrashes <- 1,
    job <- renames, pc <- stand, phase <- process, crashes <- stops, jobs <- applies

queueVars == vars
renameVars == <<at, foreign, half, file_path, journal, last, renames, stand, process, todo, stops, applies, faults>>
allVars == <<part, vars, renameVars>>

Both == part \in {"queue", "renames"} /\ Init /\ Renames!Init
InQueue(A) == part = "queue" /\ A /\ UNCHANGED <<part, renameVars>>
InRenames(A) == part = "renames" /\ A /\ UNCHANGED <<part, vars>>

FairBoth ==
    /\ Both /\ [][InQueue(Next) \/ InRenames(Renames!Next)]_allVars
    /\ \A w \in Workers : WF_allVars(InQueue(Worker(w)))
    /\ WF_allVars(InQueue(Boot)) /\ WF_allVars(InQueue(Start))
    /\ \A v \in Videos : WF_allVars(InQueue(WriteMediaClear(v)))
    /\ \A v \in Videos : WF_allVars(InRenames(Renames!Claim(v))) /\ WF_allVars(InRenames(Renames!Run(v)))
    /\ WF_allVars(InRenames(Renames!Recovery))
    /\ WF_allVars(InRenames(process = "stopping" /\ Renames!Restart))

\* A queued rename job ends: it is done, it fails for the owner to see, or the
\* owner dismisses it (rename/engine.go:run, writequeue.go:Wait).
RenameSettles == Renames!RenameSettles
==============================================================================
