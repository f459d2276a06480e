-------------------------- MODULE MCTenantRuntime --------------------------
(* TenantRuntime with one service of each kind: one that makes its state when  *)
(* it is initialised, as the timer store does, and one that makes it at its    *)
(* first use, as temporary access does.                                        *)
EXTENDS TenantRuntime, TLC

MCOffers == {Services, Lazy}

Symmetry == Permutations(Requests) \cup Permutations(Rebuilds)
=============================================================================
