------------------------------ MODULE MCReports ------------------------------
(* TLC instance of Reports: three sources, two of them in one bucket, in a *)
(* map that holds three.                                                   *)
EXTENDS Reports

CONSTANTS k1, k2, k3

MCHash == k1 :> 0 @@ k2 :> 0 @@ k3 :> 1

(* Within a bucket the kernel treats keys alike. *)
Symmetry == Permutations({k1, k2})
==============================================================================
