----------------------------- MODULE MCLibrary -----------------------------
(***************************************************************************)
(* Three paths and two contents of equal size; two of the paths hold a     *)
(* file when the library is first scanned.                                 *)
(***************************************************************************)
EXTENDS Library

CONSTANTS p, q, r, a, b

MCSize == [c \in Content |-> 1]
MCStart == [x \in Path |-> IF x = p THEN a ELSE IF x = q THEN b ELSE Nothing]
=============================================================================
