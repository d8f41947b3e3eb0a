---------------------------- MODULE MCWriteQueue ----------------------------
(* WriteQueue for TLC: the identities of videos and tag-write workers do not *)
(* matter, so safety runs check up to their permutations.                    *)
EXTENDS WriteQueue, TLC

Symmetric == Permutations(Videos) \cup Permutations(Writers)
=============================================================================
