-------------------------------- MODULE Races --------------------------------
(***************************************************************************)
(* One whitelisted source whose packets several CPUs handle at once.  What *)
(* lets a packet pass (CpuRace) and what a dropped one leaves behind       *)
(* (Overlap) touch different entries, and no handler carries anything from *)
(* the first to the second but where it stands: the CPUs race over one of  *)
(* the two pairs of entries or over the other.                             *)
(***************************************************************************)
EXTENDS CpuRace, Overlap

VARIABLE passing  \* the packets are those that CpuRace is about

vars == <<cpuVars, raceVars, overlapVars, passing>>

Init ==
  /\ StepsInit /\ RaceInit /\ OverlapInit
  /\ passing \in BOOLEAN
  /\ ~passing => udpCPUs = CPUs

Next ==
  /\ \/ Tick /\ UNCHANGED <<raceVars, overlapVars>>
     \/ \E cpu \in CPUs :
          \/ passing /\ RaceStep(cpu) /\ UNCHANGED overlapVars
          \/ ~passing /\ DropStep(cpu) /\ UNCHANGED raceVars
  /\ UNCHANGED passing

Spec == Init /\ [][Next]_vars

------------------------------------------------------------------------------

(* Type invariant.  Whatever the CPUs overwrite, a bucket never holds      *)
(* burst tokens or more, and the instants stored are u64.                  *)
TypeOK ==
  /\ clock \in 0..MaxTime
  /\ pc \in [CPUs -> RaceLabels \cup DropLabels]
  /\ at \in [CPUs -> 0..clock]
  /\ todo \in [CPUs -> SUBSET (Fields \cup {"anomalies", "start"})]
  /\ packets \in 0..MaxPackets
  /\ udpCPUs \subseteq CPUs
  /\ whitelist \in 0..clock /\ lastActive \in 0..clock
  /\ \/ bucket = NoBucket
     \/ bucket \in [tokens : 0..(Burst - 1), last : 0..(Wrap - 1)]
  /\ copy \in [CPUs -> [tokens : 0..(Burst - 1), last : 0..(Wrap - 1),
                        now : 0..clock]]
  /\ accepted \in 0..packets
  /\ \/ health = NoEntry
     \/ health \in [anomalies : 0..packets, start : 0..clock,
                    until : 0..(clock + HealthBlacklist)]
  /\ recorded = NoEntry \/ recorded \in 0..packets
  /\ dropped \in 0..packets
==============================================================================
