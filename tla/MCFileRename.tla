---------------------------- MODULE MCFileRename ----------------------------
(***************************************************************************)
(* What moves the files of videos, on small instances: the rename jobs of  *)
(* a folder (FileRename), and the exchange of one file for its re-encode   *)
(* with the hold on the original (HeldSwap).  "part" says which one runs   *)
(* and the other rests in its first state, so a property of one is a       *)
(* property of every behaviour.                                            *)
(*                                                                         *)
(* Two videos are renamed, with files a and b; c is a in another case, and *)
(* d is free, so that a job can wait for another that is not waiting for   *)
(* it.                                                                     *)
(***************************************************************************)
EXTENDS FileRename, TLC

CONSTANTS
    v1, v2, a, b, c, x1, x2, d,
    Absent, Partial, MaxSwapJobs, MaxSwapCrashes  \* HeldSwap's

Via == v1 :> x1 @@ v2 :> x2
Start == v1 :> a @@ v2 :> b
\* c is a in another case.
CaseOfA == [n \in {a, b, c, x1, x2, d} |-> IF n = c THEN a ELSE n]

VARIABLES
    part,
    path, new, held, row, expired, op, status, swapPc, applied, asked, expiry, life, starter,
    faulty, swapFaults, swapJobs, swapCrashes

Swap == INSTANCE HeldSwap WITH
    MaxJobs <- MaxSwapJobs, MaxCrashes <- MaxSwapCrashes,
    pc <- swapPc, phase <- life, faults <- swapFaults, jobs <- swapJobs, crashes <- swapCrashes

ASSUME SwapAssumption == Swap!FilesAssumption /\ Swap!BoundsAssumption

swapVars == <<path, new, held, row, expired, op, status, swapPc, applied, asked, expiry, life, starter,
              faulty, swapFaults, swapJobs, swapCrashes>>

AllInit == part \in {"rename", "swap"} /\ Init /\ Swap!Init

AllNext ==
    /\ UNCHANGED part
    /\ \/ part = "rename" /\ Next /\ UNCHANGED swapVars
       \/ part = "swap" /\ Swap!Next /\ UNCHANGED vars

AllSpec == AllInit /\ [][AllNext]_<<part, vars, swapVars>>

\* The library file is missing only while the original is set aside under a row that
\* boot recovery replays, whatever fails or crashes (maintenance/swap.go).
NeverWithoutFile == Swap!NeverWithoutFile

\* The two renames, the rows that journal them and their recovery look to the owner like
\* operations that take effect at once (Swapper.Swap, Restore, Discard).
ImplementsHeldOriginal == Swap!ImplementsHeldOriginal
=============================================================================
