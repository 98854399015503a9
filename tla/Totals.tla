------------------------------- MODULE Totals -------------------------------
(***************************************************************************)
(* Sums over a finite set as a number of units: a holder x of f[x] units   *)
(* stands for the pairs <<x, 1>> .. <<x, f[x]>>.  A sum is a cardinality,  *)
(* so what the library says of cardinalities says what a sum becomes when  *)
(* one summand is added, removed or changed, with no induction.            *)
(***************************************************************************)
EXTENDS Naturals, FiniteSets

Units(f, S) == UNION {{x} \X (1 .. f[x]) : x \in S}

\* The sum of f[x] for the x in S.
Total(f, S) == Cardinality(Units(f, S))
=============================================================================
