---------------------------- MODULE MCDataLayout ----------------------------
(* Three prefetched leaves of one or two blocks in an array of 3 to 12      *)
(* blocks that may grow to 15, and a few calls of them afterwards.         *)
EXTENDS DataLayout
============================================================================
