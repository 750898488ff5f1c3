---------------------------- MODULE MCIterators ----------------------------
(* Iterators on small maps.                                                *)
EXTENDS Iterators
============================================================================
