-------------------------------- MODULE Sums --------------------------------
(***************************************************************************)
(* Sums of natural numbers, as cardinalities, about which the provers can  *)
(* reason without induction.                                               *)
(***************************************************************************)
EXTENDS Integers, FiniteSets

\* The sum of f[x] over the x in S, counted unit by unit.
Total(f, S) == Cardinality(UNION {{x} \X (1 .. f[x]) : x \in S})
=============================================================================
