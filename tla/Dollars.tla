------------------------------- MODULE Dollars -------------------------------
(***************************************************************************)
(* Sums of dollar amounts.  The code sums floats in a loop; the model      *)
(* counts whole dollars: the sum of f over its domain is the number of     *)
(* pairs <<x, d>> where d is one of the f[x] dollars of x.  Stated as a    *)
(* cardinality it needs no recursion, so it can be used in proofs.         *)
(***************************************************************************)
EXTENDS Integers, FiniteSets

DollarsOf(f, x) == {x} \X (1..f[x])

Total(f) == Cardinality(UNION {DollarsOf(f, x) : x \in DOMAIN f})

Smaller(a, b) == IF a =< b THEN a ELSE b
Larger(a, b) == IF a >= b THEN a ELSE b
=============================================================================
