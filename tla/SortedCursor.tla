---------------------------- MODULE SortedCursor ----------------------------
(***************************************************************************)
(* What the iterators of CARMIMap promise (carmi_map.h, "STL Iterator      *)
(* Construction Functions", "Standard Access Functions"): the points of the*)
(* map are one sorted sequence, and an iterator is a place between two of  *)
(* them.  A forward iterator refers to the point behind its place, a       *)
(* reverse one to the point before it.                                     *)
(***************************************************************************)
EXTENDS Naturals, SequencesExt

CONSTANT Key

VARIABLES
  points,    \* the keys of the map, in order
  call,      \* the call that was made last, and its key
  way,       \* "none", or what is held: a "forward" or a "reverse" iterator
  pos,       \* the number of points before the place of the iterator
  key        \* the key of the point it refers to, 0 when there is none

End == Len(points)

Below(k) == Cardinality({i \in 1..End : points[i] < k})
UpTo(k)  == Cardinality({i \in 1..End : points[i] <= k})

(* The key that an iterator at p refers to.                                *)
Refers(sorted, w, p) ==
  CASE w = "forward" /\ p < Len(sorted) -> sorted[p + 1]
    [] w = "reverse" /\ p > 0           -> sorted[p]
    [] OTHER                            -> 0

Init ==
  /\ points \in Seq(Key)
  /\ \A i \in 1..End - 1 : points[i] <= points[i + 1]
  /\ call = <<"none", 0>>
  /\ way = "none"
  /\ pos = 0
  /\ key = 0

Take(op, k, w, p) ==
  /\ call' = <<op, k>>
  /\ way' = w
  /\ pos' = p
  /\ key' = Refers(points, w, p)
  /\ UNCHANGED points

Edge ==
  \/ Take("begin", 0, "forward", 0)
  \/ Take("end", 0, "forward", End)
  \/ Take("rbegin", 0, "reverse", End)
  \/ Take("rend", 0, "reverse", 0)

LowerBound(k) == Take("lower_bound", k, "forward", Below(k))
UpperBound(k) == Take("upper_bound", k, "forward", UpTo(k))
Find(k) == Take("find", k, "forward", IF Below(k) < UpTo(k) THEN Below(k) ELSE End)

(* A step over either edge makes it the iterator behind the last point of  *)
(* its direction ("the next data point is invalid, return end()").         *)
Up   == IF pos < End THEN pos + 1 ELSE IF way = "forward" THEN End ELSE 0
Down == IF pos > 0 THEN pos - 1 ELSE IF way = "forward" THEN End ELSE 0

Step ==
  /\ way # "none"
  /\ \/ Take("++", 0, way, IF way = "forward" THEN Up ELSE Down)
     \/ Take("--", 0, way, IF way = "forward" THEN Down ELSE Up)

(* An iterator made from one of another class is at the same place.        *)
Convert == way # "none" /\ \E w \in {"forward", "reverse"} : Take("convert", 0, w, pos)

(* insert(key): the point comes behind those that are not greater, and what*)
(* is held is an iterator to it or the one that was held before.           *)
Insert(k) ==
  /\ call' = <<"insert", k>>
  /\ points' = InsertAt(points, UpTo(k) + 1, k)
  /\ \/ way' = "forward" /\ pos' = UpTo(k)
     \/ UNCHANGED <<way, pos>>
  /\ key' = Refers(points', way', pos')

(* erase(key): every point of the key goes, and no iterator is kept.       *)
Erase(k) ==
  /\ call' = <<"erase", k>>
  /\ points' = SubSeq(points, 1, Below(k)) \o SubSeq(points, UpTo(k) + 1, End)
  /\ way' = "none"
  /\ pos' = 0
  /\ key' = 0

Next ==
  \/ Edge
  \/ Step
  \/ Convert
  \/ \E k \in Key : LowerBound(k) \/ UpperBound(k) \/ Find(k) \/ Insert(k) \/ Erase(k)

Spec == Init /\ [][Next]_<<points, call, way, pos, key>>
============================================================================
