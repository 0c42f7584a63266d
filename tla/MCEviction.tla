------------------------------ MODULE MCEviction ------------------------------
(* Eviction with blobs of one and two units, two of which never fit together.  *)
EXTENDS Eviction, TLC

CONSTANTS small, large, other

Sizes == (small :> 1) @@ (large :> 2) @@ (other :> 2)

Symmetry == Permutations(Tasks) \union Permutations({large, other})
=============================================================================
