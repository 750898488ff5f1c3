--------------------------- MODULE MCNodeTraining ---------------------------
(* Up to six of five keys, unevenly spaced, two of them far from the others*)
(* for the inner nodes; up to eight points for the root.                   *)
EXTENDS NodeTraining

MCKey == {1, 2, 3, 9, 20}
MCRootKey == {1, 2, 3, 4, 5, 7, 9, 10, 13, 20}
MCInnerSets ==
  UNION {{s \in [1..n -> MCKey] : \A i \in 1..n - 1 : s[i] <= s[i + 1]} : n \in 1..6}
MCRootSets == {<<1, 2, 3, 9>>, <<1, 2, 4, 9, 10>>, <<2, 2, 2>>, <<1, 2, 3, 5, 9, 13>>}
MCBreaks == UNION {[1..n -> 1..6] : n \in {0, 2, 3}}
MCChilds == {2, 3, 5}
MCRootChilds == {3, 4}
(* The points and the cuts that the root of the code has for them.         *)
MCNone == {}
MCUneven == {<<2, 4, 5, 7, 9, 10, 13>>}
MCUnevenBreaks == {<<1, 3, 4, 5>>}
MCThree == {3}
=============================================================================
