------------------------------ MODULE Observers ------------------------------
(***************************************************************************)
(* XdpFilter watched by HealthHistory and Accounting at once.              *)
(***************************************************************************)
EXTENDS HealthHistory, Accounting

OInit == HInit /\ AInit

ONext == HNext /\ ANext

OSpec == OInit /\ [][ONext]_<<vars, history, handled, requests>>
==============================================================================
