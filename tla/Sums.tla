-------------------------------- MODULE Sums --------------------------------
(* Sums of counters, as the number of the single units they stand for.     *)
EXTENDS Integers, FiniteSets

Units(f, S) == UNION {{x} \X (1..f[x]) : x \in S}

(* The sum of f[x] over S. *)
SumOver(f, S) == Cardinality(Units(f, S))
==============================================================================
