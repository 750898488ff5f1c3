---------------------------- MODULE MCDataArray ----------------------------
(* A data array of 12 blocks that may grow twice, shared by three leaves   *)
(* of at most three blocks.  The leaves are interchangeable.               *)
EXTENDS DataArray, TLC

LeafSymmetry == Permutations(Leaf)
============================================================================
