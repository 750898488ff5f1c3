--------------------------- MODULE MCCFArrayLeaf ---------------------------
(* A block given back by another leaf holds nothing, or the smallest keys. *)
EXTENDS CFArrayLeaf

RecycledBlocks == {[i \in 1..Cap |-> MAX], [i \in 1..Cap |-> i]}
============================================================================
