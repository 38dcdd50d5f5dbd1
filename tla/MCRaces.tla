------------------------------- MODULE MCRaces -------------------------------
(* Races for model checking: every pair of handlers, each delayed between  *)
(* any two steps for as long as the clock runs.                            *)
EXTENDS Races, TLC

(* 2^64, small enough to read in a trace and far above every sum of        *)
(* instants, durations and tokens that occurs.                             *)
MCWrap == 64

Symmetry == Permutations(CPUs)
==============================================================================
