------------------------------- MODULE MCSwaps -------------------------------
(***************************************************************************)
(* What a re-encode does to a file and the hold on its original            *)
(* (HeldSwap), and the montages made of the videos (MediaQueue), on small  *)
(* instances and one at a time: "part" says which one runs and the other   *)
(* rests in its first state, so a property of one is a property of every   *)
(* behaviour.                                                              *)
(***************************************************************************)
EXTENDS HeldSwap

CONSTANTS v1, v2, Nothing

VARIABLES
    part,
    mode, high, normal, pending, ready, step, taken, read, stills, cands, live, picture, due,
    montageRow, montage, events, requested, lost

Montages == INSTANCE MediaQueue WITH
    Video <- {v1, v2}, Short <- {v2}, Worker <- {1, 2}, MaxEvent <- 3,
    held <- taken, row <- montageRow, asked <- requested

ASSUME MontagesAssumption == Montages!ShortAssumption /\ Montages!NothingAssumption

swapVars == <<path, new, held, row, expired, op, status, pc, applied, asked, expiry, jobs,
              phase, starter, crashes, faulty, faults>>
montageVars == <<mode, high, normal, pending, ready, step, taken, read, stills, cands, live, picture, due,
                 montageRow, montage, events, requested, lost>>
allVars == <<part, swapVars, montageVars>>

InSwap(A) == part = "swap" /\ A /\ UNCHANGED <<part, montageVars>>
InMontages(A) == part = "montages" /\ A /\ UNCHANGED <<part, swapVars>>

AllInit ==
    /\ part \in {"swap", "montages"} /\ Init /\ Montages!Init
    /\ part # "montages" => mode = "manual"

AllNext == InSwap(Next) \/ InMontages(Montages!Next)

\* The fairness of the two: HeldSwap!FairSpec and MediaQueue!FairSpec.
AllSpec ==
    /\ AllInit /\ [][AllNext]_allVars
    /\ WF_allVars(InSwap(Worker)) /\ WF_allVars(InSwap(Recovery))
    /\ WF_allVars(InSwap(Start)) /\ WF_allVars(InSwap(Boot))
    /\ WF_allVars(InSwap(phase = "stopping" /\ Exit))
    /\ \A w \in {1, 2} : WF_allVars(InMontages(Montages!WorkerStep(w)))
    /\ WF_allVars(InMontages(Montages!StillsDrained))

\* Every page that says waiting or making comes to say something else: no wake-up is
\* lost between the workers, and no tier or still queue starves one (montage/queue.go).
MontageSettles ==
    Montages!StatusSettles /\ [](Montages!OneMaker /\ Montages!ReadyIsCurrent) /\ Montages!OwnerFirst
==============================================================================
