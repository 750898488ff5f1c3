--------------------------- MODULE MCConstruction ---------------------------
(* Up to eight points and up to three keys to insert, over leaves of at    *)
(* most two blocks of two points.                                          *)
EXTENDS Construction

MCKey == {1, 2, 3, 4, 9, 10, 20}
Increasing(n) ==
  {s \in [1..n -> MCKey] : \A i \in 1..n - 1 : s[i] < s[i + 1]}
MCInitSets ==
  {<<1>>, <<4, 2, 3, 1>>, <<2, 2, 2, 2, 2>>, <<20, 10, 9, 4, 2, 2, 2, 1>>,
   <<1, 1, 2, 3, 3, 3, 9, 9>>}
  \cup Increasing(5) \cup Increasing(6) \cup Increasing(7)
MCInsertSets == {<<>>, <<3>>, <<10, 9>>, <<2, 2, 3>>}
(* Four of five points close together, the last one far from them.         *)
MCSkewed == {<<1, 2, 3, 4, 20>>}
(* Three points, and two keys expected to come between them.               *)
MCThree == {<<1, 2, 10>>}
MCBetween == {<<3, 4>>}
MCNone == {<<>>}
MCInnerTime == [type \in Type |->
                  CASE type = "lr" -> 5 [] type = "plr" -> 6
                    [] type = "his" -> 6 [] type = "bs" -> 7]
MCSearchTime == [n \in 1..2 |-> 5 + n]
MCLongSearch == [n \in 1..6 |-> 5 + n]
=============================================================================
