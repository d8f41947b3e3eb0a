---------------------------- MODULE HeldOriginal ----------------------------
(***************************************************************************)
(* What file maintenance promises the owner of one video, whatever crashes *)
(* and file system errors happen on the way: the file is always there and  *)
(* whole, an operation takes effect at once or not at all, and from the    *)
(* first operation to the end of the hold the original is kept aside, so   *)
(* that a restore returns the file to how it was before maintenance began  *)
(* (Swapper.Swap, Restore and Discard in internal/maintenance).            *)
(***************************************************************************)
EXTENDS Naturals

CONSTANT None  \* no original is held; not the picture of a file

VARIABLES
    current,   \* the picture of the library file: how often it was re-encoded
    original,  \* the picture of the held original, or None
    ending     \* how the hold is about to end: "restore", "discard" or "none"

vars == <<current, original, ending>>

Init == current = 0 /\ original = None /\ ending = "none"

\* A later operation while a hold stands keeps the first original.
Swap ==
    /\ ending = "none"
    /\ current' = current + 1
    /\ original' = IF original = None THEN current ELSE original
    /\ UNCHANGED ending

\* A restore or a discard is begun, which settles how the hold can end ...
Begin(e) ==
    /\ ending = "none" /\ original # None
    /\ ending' = e
    /\ UNCHANGED <<current, original>>

\* ... takes effect ...
Restore ==
    /\ ending = "restore" /\ original # None
    /\ current' = original
    /\ original' = None
    /\ UNCHANGED ending

Discard ==
    /\ ending = "discard" /\ original # None
    /\ original' = None
    /\ UNCHANGED <<current, ending>>

\* ... and is over, or is given up with the hold still standing.
End ==
    /\ ending # "none"
    /\ ending' = "none"
    /\ UNCHANGED <<current, original>>

Next == Swap \/ (\E e \in {"restore", "discard"} : Begin(e)) \/ Restore \/ Discard \/ End

Spec == Init /\ [][Next]_vars
=============================================================================
