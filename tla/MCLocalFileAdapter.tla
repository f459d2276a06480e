------------------------ MODULE MCLocalFileAdapter ------------------------
(* LocalFileAdapter on a few calls and paths. *)
EXTENDS LocalFileAdapter, TLC

MCRequests == Ops \X {1, 2}
MCPaths2 == {1, 2}
MCPaths1 == {1}
MCRemovable == {1}
Symmetry == Permutations(Ops)
=============================================================================
