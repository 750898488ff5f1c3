---------------------------- MODULE MCCarmiTree ----------------------------
(* Two leaves below the root, splits into three children, leaves of at     *)
(* most three points that may refuse a third one.  The keys are unevenly   *)
(* spaced, so that a trained line leaves children empty and crowds others. *)
EXTENDS CarmiTree
============================================================================
