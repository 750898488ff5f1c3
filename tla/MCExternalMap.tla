--------------------------- MODULE MCExternalMap ---------------------------
(* Two leaves of at most three records below the root, and splits into two.*)
(* The keys are unevenly spaced, so that lines fit them badly.             *)
EXTENDS ExternalMap

MCLog2 == <<0, 1000, 1585>>
============================================================================
