---------------------------- MODULE MCTokenBucket ----------------------------
(* TLC instance of TokenBucket.  With a period of 3 ticks and a burst of 2 *)
(* tokens, 14 ticks let an entry fill up, overflow with every possible     *)
(* remainder, run dry and recover.                                         *)
EXTENDS TokenBucket
==============================================================================
