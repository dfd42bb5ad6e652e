-------------------------------- MODULE Lists --------------------------------
(***************************************************************************)
(* filter and sort of JavaScript's arrays, by the places of what they      *)
(* return, and the rows of an SQL statement with a LIMIT.                  *)
(***************************************************************************)
EXTENDS Integers, Sequences, FiniteSets

\* before is a strict total order of S, as a set of pairs.
PlaceIn(S, before, x) == 1 + Cardinality({y \in S : <<y, x>> \in before})
Sorted(S, before) == [n \in 1..Cardinality(S) |-> CHOOSE x \in S : PlaceIn(S, before, x) = n]

\* What s has at the positions K.
Ascending(K) == {p \in K \X K : p[1] < p[2]}
Filtered(s, K) == LET order == Sorted(K, Ascending(K)) IN [n \in DOMAIN order |-> s[order[n]]]

\* Which rows a LIMIT keeps depends on an order the models leave out.
Limited(rows, n) ==
    {kept \in SUBSET rows : IF Cardinality(rows) <= n THEN kept = rows ELSE Cardinality(kept) = n}
=============================================================================
