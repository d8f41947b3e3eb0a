--------------------------- MODULE MCEnrichSweep ---------------------------
EXTENDS EnrichSweep, TLC
CONSTANTS p1, c1
\* One pair of each kind.
OneOfEach == (<<1, p1>> :> "none") @@ (<<2, p1>> :> "old") @@ (<<3, p1>> :> "fresh")
=============================================================================
