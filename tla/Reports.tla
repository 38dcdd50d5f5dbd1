------------------------------- MODULE Reports -------------------------------
(***************************************************************************)
(* What the API, the commands and the collector read: a report on a map of *)
(* sources, or a scan of the stats.  Reports share nothing and change      *)
(* nothing, so one at a time tells everything about any number of them.    *)
(***************************************************************************)
EXTENDS MapReport, StatsReport

vars == <<mapReportVars, statsVars>>

NoMapReport ==
  /\ kind = "stats"
  /\ map = <<>> /\ value = <<>> /\ clock = 0 /\ changes = 0
  /\ call = [by |-> "readStats"]
  /\ read = [at |-> "off"]
  /\ held = {} /\ stayed = {} /\ moved = FALSE /\ banned = {}

NoScan ==
  /\ slots = <<>> /\ handler = <<>> /\ begun = 0
  /\ scan = [slot |-> -1] /\ before = <<>>

Init ==
  \/ MapReportInit /\ NoScan
  \/ NoMapReport /\ StatsInit

Next ==
  IF kind = "stats" THEN StatsNext /\ UNCHANGED mapReportVars
  ELSE MapReportNext /\ UNCHANGED statsVars

Spec == Init /\ [][Next]_vars
==============================================================================
