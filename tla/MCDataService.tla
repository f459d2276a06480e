--------------------------- MODULE MCDataService ---------------------------
EXTENDS DataService, TLC

CONSTANTS r1, r2

MCUsers == {"ann", "root"}
MCReqs == {r1, r2}
Symmetry == Permutations(MCReqs)
=============================================================================
