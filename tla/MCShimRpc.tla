------------------------------ MODULE MCShimRpc ------------------------------
(* Model values for ShimRpc. Callers are interchangeable.      *)
EXTENDS ShimRpc, TLC

CallerSymmetry == Permutations(Callers)
=============================================================================
