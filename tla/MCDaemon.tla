------------------------------ MODULE MCDaemon ------------------------------
(* Daemon for model checking. *)
EXTENDS Daemon, TLC

CONSTANTS k1, k2, k3

(* Two keys share a bucket, one has the bucket after it. *)
MCHash == k1 :> 0 @@ k2 :> 0 @@ k3 :> 1
=============================================================================
