---------------------------- MODULE ExternalLeaf ----------------------------
(***************************************************************************)
(* The external array leaf (nodes/leafNode/external_array_type.h,          *)
(* ExternalArray): a range of the caller's array of records, a regression  *)
(* that guesses the place of a key in it, and the error around the guess   *)
(* in which it is searched first.                                          *)
(*                                                                         *)
(* Records are their keys.  data is what the caller has written so far;    *)
(* the array goes on behind it, and Junk is the key that is read there.    *)
(* Positions count from 0, as in the code.                                 *)
(***************************************************************************)
EXTENDS LRModel

CONSTANTS
  MaxLeafSize,  \* kMaxLeafNodeSizeExternal, 1024 in params.h
  Junk,         \* the key in memory that no record has been written to
  Log2          \* log2 in thousandths

ASSUME MaxLeafSizeAssumption == MaxLeafSize \in Nat \ {0, 1}
ASSUME Log2Assumption == Log2 \in [1..MaxLeafSize -> Nat]

Abs(n) == IF n < 0 THEN -n ELSE n

KeyAt(data, p) == IF p \in 0..Len(data) - 1 THEN data[p + 1] ELSE Junk

(* The default constructor: no records, and a model that is never asked.   *)
EmptyLeaf(left) ==
  [kind |-> "leaf", m_left |-> left, size |-> 0, error |-> 0,
   lr |-> [minValue |-> 0, slope |-> 0, intercept |-> 0, den |-> 1]]

(* Predict: the share of the records before k, times their number now.     *)
Guess(leaf, k) ==
  LET p == ((leaf.lr.slope * (k - leaf.lr.minValue) + leaf.lr.intercept)
              * leaf.size) \div leaf.lr.den
  IN Max({0, Min({p, leaf.size - 1})})

(* FindOptError: a search among e records for those that are not further   *)
(* off, among all of them for the rest; the e that costs least by this     *)
(* measure, cut to an integer.  It looks at the first records of the       *)
(* dataset, whatever part of it the leaf has.                              *)
OptError(leaf, dataset) ==
  LET n       == leaf.size
      off(i)  == Abs(i - 1 - Guess(leaf, dataset[i]))
      Near(e) == Cardinality({i \in 1..n : off(i) <= e})
      cost(e) == ((IF e = 0 THEN 0 ELSE Near(e) * Log2[e])
                    + (n - Near(e)) * Log2[n]) \div 1000
      Better  == {off(i) : i \in {j \in 1..n : cost(off(j)) < (n * Log2[n]) \div 1000}}
  IN IF Better = {} THEN 0
     ELSE Min({e \in Better : \A f \in Better : cost(e) <= cost(f)})

(* Train: the leaf of the size records of the dataset behind position s.   *)
TrainLeaf(left, dataset, s, size) ==
  IF size = 0 THEN EmptyLeaf(left)
  ELSE LET leaf == [EmptyLeaf(left) EXCEPT
                      !.size = size,
                      !.lr = Train(SubSeq(dataset, s + 1, s + size), 1)]
       IN [leaf EXCEPT !.error = OptError(leaf, dataset)]

(* A turn of the loop of BinarySearch, on its start and its end.           *)
Halve(data, k, r) ==
  LET mid == (r[1] + r[2]) \div 2
  IN IF r[1] >= r[2] THEN r
     ELSE IF KeyAt(data, mid) < k THEN <<mid + 1, r[2]>> ELSE <<r[1], mid>>

(* BinarySearch: the first place in start..end - 1 whose key is not less   *)
(* than k, or end, if the keys are in order.  It takes a turn for each     *)
(* place at the most.                                                      *)
BinarySearch(data, k, start, end) ==
  LET turns   == Max({0, end - start})
      range[t \in 0..turns] ==
        IF t = 0 THEN <<start, end>> ELSE Halve(data, k, range[t - 1])
  IN range[turns][1]

(* Search: the window around the guess, or the records on one side of it.  *)
Search(data, leaf, k) ==
  LET guess == Guess(leaf, k)
      end   == leaf.m_left + Min({Max({0, leaf.size - 1}), guess + leaf.error})
      start == Min({leaf.m_left + Max({0, guess - leaf.error}), end})
  IN IF k <= KeyAt(data, start) THEN BinarySearch(data, k, leaf.m_left, start)
     ELSE IF k <= KeyAt(data, end) THEN BinarySearch(data, k, start, end)
     ELSE BinarySearch(data, k, end, leaf.m_left + leaf.size - 1)

(* Find: -1 if the leaf ends before a place for the key.                   *)
FindIn(data, leaf, k) ==
  LET guess == leaf.m_left + Guess(leaf, k)
      place == Search(data, leaf, k)
  IN IF KeyAt(data, guess) = k THEN guess
     ELSE IF place >= leaf.m_left + leaf.size THEN -1
     ELSE place

Full(leaf) == leaf.size >= MaxLeafSize

(* Insert: one record more.  A leaf without records starts at the new one; *)
(* its training counts the record, which is then counted again.            *)
AddTo(leaf, k, currsize) ==
  IF leaf.size = 0 THEN [TrainLeaf(currsize, <<k>>, 0, 1) EXCEPT !.size = @ + 1]
  ELSE [leaf EXCEPT !.size = @ + 1]

(* ExtractDataset: the records of the leaf.                                *)
Extract(data, leaf) ==
  [i \in 1..leaf.size |-> KeyAt(data, leaf.m_left + i - 1)]
============================================================================
