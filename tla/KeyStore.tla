------------------------------ MODULE KeyStore ------------------------------
(***************************************************************************)
(* What CARMI promises of the keys it holds, to whoever calls insert, erase*)
(* and find (carmi_map.h): a bag of keys.  A point is added without a look *)
(* at the points of the same key; an erase takes every point of one key.   *)
(* Values, positions and iteration are not part of it.                     *)
(***************************************************************************)
EXTENDS Naturals

CONSTANT Key

VARIABLE held      \* held[k]: the number of data points with the key k

Init == held \in [Key -> Nat]

Insert(k) == held' = [held EXCEPT ![k] = @ + 1]

Erase(k) == held' = [held EXCEPT ![k] = 0]

Next == \E k \in Key : Insert(k) \/ Erase(k)

Spec == Init /\ [][Next]_held
============================================================================
