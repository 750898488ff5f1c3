------------------------------ MODULE LRModel ------------------------------
(***************************************************************************)
(* The linear regression model of an inner node (nodes/innerNode/          *)
(* lr_model.h, LRModel): Train fits a line to the ranks of sorted keys,    *)
(* scaled to the number of children, and Predict cuts its value to a child.*)
(*                                                                         *)
(* Keys are integers and the arithmetic is exact: the line is kept as      *)
(* (slope * x + intercept) / den.  The code computes in double and keeps   *)
(* slope and intercept as floats.                                          *)
(***************************************************************************)
EXTENDS Integers, SequencesExt

(* f[1] + ... + f[n].                                                      *)
SumOf(f, n) ==
  LET sum[i \in 0..n] == IF i = 0 THEN 0 ELSE sum[i - 1] + f[i] IN sum[n]

(* The i-th of n keys should go to child (i - 1) / n * children, numbered  *)
(* from 0: n times that is what the sums are made of.                      *)
Train(keys, children) ==
  LET n   == Len(keys)
      x   == [i \in 1..n |-> keys[i] - keys[1]]
      y   == [i \in 1..n |-> (i - 1) * children]
      t1  == SumOf([i \in 1..n |-> x[i] * x[i]], n)
      t2  == SumOf(x, n)
      t3  == SumOf([i \in 1..n |-> x[i] * y[i]], n)
      t4  == SumOf(y, n)
      det == t1 * n - t2 * t2
  IN [minValue  |-> keys[1],
      slope     |-> IF det # 0 THEN t3 * n - t2 * t4 ELSE 0,
      intercept |-> IF det # 0 THEN t1 * t4 - t2 * t3 ELSE 0,
      den       |-> IF det # 0 THEN det * n ELSE 1]

(* Mutation: no upper bound.                                               *)
PredictUnbounded(lr, children, key) ==
  Max({0, (lr.slope * (key - lr.minValue) + lr.intercept) \div lr.den})

(* The conversion to int and the two bounds: a child in 0..children - 1.   *)
Predict(lr, children, key) ==
  LET p == (lr.slope * (key - lr.minValue) + lr.intercept) \div lr.den
  IN Max({0, Min({p, children - 1})})
============================================================================
