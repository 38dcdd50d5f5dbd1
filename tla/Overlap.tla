------------------------------- MODULE Overlap -------------------------------
(***************************************************************************)
(* One whitelisted source whose packets are dropped on several CPUs at     *)
(* once: the accesses of bpf/fivem_xdp.bpf.c to its entries of udp_health  *)
(* and ip_drop_history.  Only two of them are atomic, the increments.  The *)
(* two stores that start a new anomaly window are plain C stores to        *)
(* different words, so either may come first.                              *)
(*                                                                         *)
(* Of the history only the number of drops it holds is kept: the reasons   *)
(* are counted alike and the instants are not read again.  Neither entry   *)
(* is evicted.                                                             *)
(***************************************************************************)
EXTENDS CpuSteps

CONSTANTS
  HealthWindow, HealthThreshold, HealthBlacklist,
  NoEntry        \* what a lookup of an absent key returns (NULL)

ASSUME OverlapAssumption ==
  /\ {HealthWindow, HealthThreshold, HealthBlacklist} \subseteq Nat
  /\ MaxTime + HealthWindow + HealthBlacklist < Wrap
  /\ NoEntry \notin Nat

VARIABLES
  health,     \* the source's entry of udp_health, or NoEntry
  recorded,   \* the drops counted in its entry of ip_drop_history, or NoEntry
  dropped,    \* history: the drops counted by stat_bump, but for those that
              \* record_drop passes over
  strikes,    \* history: anomalies counted, by clock read and by increment
  mixed       \* history: one was counted after a CPU had moved the start of
              \* the window and before it had set the count back

overlapVars == <<health, recorded, dropped, strikes, mixed>>

Spans == {span \in (0..MaxTime) \X (0..MaxTime) : span[1] <= span[2]}

OverlapInit ==
  /\ health = NoEntry /\ recorded = NoEntry
  /\ dropped = 0
  /\ strikes = [span \in Spans |-> 0]
  /\ mixed = FALSE

Counted(cpu) == strikes' = [strikes EXCEPT ![<<at[cpu], clock>>] = @ + 1]

------------------------------------------------------------------------------
(* fivem_xdp *)

(* A UDP packet that is not ENet.  Its handler reads the clock for the     *)
(* lookup of the blacklisting first.                                       *)
Malformed(cpu) ==
  /\ Arrive(cpu, "healthy")
  /\ ReadClock(cpu)
  /\ UNCHANGED overlapVars

(* A packet that is dropped for any other reason.  Of a whitelisted source *)
(* fragments and malformed TCP headers alone are recorded as those of an   *)
(* unknown one (known_source is false).                                    *)
OtherDrop(cpu) ==
  /\ \E known \in BOOLEAN : Arrive(cpu, IF known THEN "drop" ELSE "unknown")
  /\ UNCHANGED <<at, overlapVars>>

Local(cpu, from, to) ==
  /\ GoFrom(cpu, from, to)
  /\ UNCHANGED <<clock, packets, health, recorded, dropped, strikes>>

Blacklisted(cpu) == health # NoEntry /\ health.until > at[cpu]

Unhealthy(cpu) ==
  /\ pc[cpu] = "healthy" /\ Blacklisted(cpu)
  /\ Local(cpu, "healthy", "drop")
  /\ ForgetClock(cpu)
  /\ UNCHANGED <<todo, mixed>>

(* health_record_anomaly reads the clock again. *)
Healthy(cpu) ==
  /\ pc[cpu] = "healthy" /\ ~Blacklisted(cpu)
  /\ Local(cpu, "healthy", "find")
  /\ ReadClock(cpu)
  /\ UNCHANGED <<todo, mixed>>

------------------------------------------------------------------------------
(* health_record_anomaly *)

LookupHealth(cpu) ==
  /\ Local(cpu, "find", IF health = NoEntry THEN "open" ELSE "window")
  /\ UNCHANGED <<at, todo, mixed>>

(* BPF_NOEXIST: nothing is counted if another CPU has entered the source   *)
(* since the lookup.                                                       *)
InsertHealth(cpu) ==
  /\ GoFrom(cpu, "open", "drop")
  /\ ForgetClock(cpu)
  /\ IF health # NoEntry THEN UNCHANGED <<health, strikes>>
     ELSE /\ health' = [anomalies |-> 1, start |-> at[cpu],
                        until |-> IF HealthThreshold <= 1
                                  THEN at[cpu] + HealthBlacklist ELSE 0]
          /\ Counted(cpu)
  /\ UNCHANGED <<clock, recorded, todo, packets, dropped, mixed>>

(* Mutant: the count outlives its window. *)
WindowKeepingCount(cpu) ==
  /\ pc[cpu] = "window"
  /\ LET late == Since(health.start, at[cpu]) > HealthWindow
     IN  /\ Local(cpu, "window", "count")
         /\ todo' = [todo EXCEPT ![cpu] = IF late THEN {"start"} ELSE {}]
         /\ UNCHANGED <<at, mixed>>

(* Unsigned: a window that another CPU has started since the clock was     *)
(* read is taken to be over as well.                                       *)
Window(cpu) ==
  /\ pc[cpu] = "window"
  /\ LET late == Since(health.start, at[cpu]) > HealthWindow
     IN  /\ Local(cpu, "window", "count")
         /\ todo' = [todo EXCEPT ![cpu] =
                       IF late THEN {"anomalies", "start"} ELSE {}]
         /\ UNCHANGED <<at, mixed>>

NewWindow(cpu, field) ==
  /\ field \in todo[cpu]
  /\ todo' = [todo EXCEPT ![cpu] = @ \ {field}]
  /\ health' = [health EXCEPT ![field] =
                  IF field = "anomalies" THEN 0 ELSE at[cpu]]
  /\ UNCHANGED <<clock, recorded, pc, at, packets, dropped, strikes, mixed>>

CountAnomaly(cpu) ==
  /\ todo[cpu] = {}
  /\ GoFrom(cpu, "count", "threshold")
  /\ health' = [health EXCEPT !.anomalies = @ + 1]
  /\ Counted(cpu)
  /\ mixed' = (mixed \/ \E other \in CPUs : todo[other] = {"anomalies"})
  /\ UNCHANGED <<clock, recorded, at, todo, packets, dropped>>

(* The count is loaded again: it may hold more than this anomaly by now,   *)
(* or none at all.                                                         *)
BelowThreshold(cpu) ==
  /\ pc[cpu] = "threshold" /\ health.anomalies < HealthThreshold
  /\ Local(cpu, "threshold", "drop")
  /\ ForgetClock(cpu)
  /\ UNCHANGED <<todo, mixed>>

AtThreshold(cpu) ==
  /\ pc[cpu] = "threshold" /\ health.anomalies >= HealthThreshold
  /\ Local(cpu, "threshold", "ban")
  /\ UNCHANGED <<at, todo, mixed>>

Blacklist(cpu) ==
  /\ GoFrom(cpu, "ban", "drop")
  /\ health' = [health EXCEPT !.until = at[cpu] + HealthBlacklist]
  /\ ForgetClock(cpu)
  /\ UNCHANGED <<clock, recorded, todo, packets, dropped, strikes, mixed>>

------------------------------------------------------------------------------
(* record_drop, and stat_bump, whose counter is the CPU's own. *)

(* A drop of an unknown source opens no record: if there is none,          *)
(* record_drop returns.                                                    *)
LookupHistory(cpu) ==
  /\ \/ Local(cpu, "drop", IF recorded = NoEntry THEN "enter" ELSE "add")
     \/ Local(cpu, "unknown", IF recorded = NoEntry THEN "idle" ELSE "add")
  /\ UNCHANGED <<at, todo, mixed>>

Dropping(cpu, from) ==
  /\ GoFrom(cpu, from, "idle")
  /\ dropped' = dropped + 1
  /\ UNCHANGED <<clock, health, at, todo, packets, strikes, mixed>>

(* Mutant: BPF_ANY, which replaces what another CPU has recorded. *)
EnterAnyHistory(cpu) ==
  /\ Dropping(cpu, "enter")
  /\ recorded' = 1

(* BPF_NOEXIST: the drop is not recorded if another CPU's was meanwhile. *)
EnterHistory(cpu) ==
  /\ Dropping(cpu, "enter")
  /\ recorded' = IF recorded = NoEntry THEN 1 ELSE recorded

AddToHistory(cpu) ==
  /\ Dropping(cpu, "add")
  /\ recorded' = recorded + 1

------------------------------------------------------------------------------

DropStep(cpu) ==
  \/ Malformed(cpu) \/ OtherDrop(cpu)
  \/ Unhealthy(cpu) \/ Healthy(cpu)
  \/ LookupHealth(cpu) \/ InsertHealth(cpu) \/ Window(cpu)
  \/ \E field \in {"anomalies", "start"} : NewWindow(cpu, field)
  \/ CountAnomaly(cpu) \/ BelowThreshold(cpu) \/ AtThreshold(cpu)
  \/ Blacklist(cpu)
  \/ LookupHistory(cpu) \/ EnterHistory(cpu) \/ AddToHistory(cpu)

DropLabels == {"idle", "healthy", "find", "open", "window", "count",
               "threshold", "ban", "drop", "unknown", "enter", "add"}

------------------------------------------------------------------------------

(* Anomalies whose handling meets the window that starts at t, numbered    *)
(* among those of the same span.                                           *)
Meeting(t) == {s \in Spans : s[1] <= t + HealthWindow /\ t <= s[2]}

Strikes(t) == UNION {{s} \X (1..strikes[s]) : s \in Meeting(t)}

StrikesAround(t) == Cardinality(Strikes(t))

(* However the CPUs race over the entry, nobody is blacklisted who did not *)
(* send HealthThreshold malformed packets that were handled within one     *)
(* HealthWindow: stale checks of the window and resets by two CPUs lose    *)
(* strikes and never add any.  The one exception is a CPU that counts      *)
(* after another has moved the window and before it has set the count      *)
(* back: it counts on top of the anomalies of the window before.           *)
BanJustified ==
  ~mixed /\ health # NoEntry /\ health.until > clock =>
    \E t \in 0..clock : StrikesAround(t) >= HealthThreshold

(* All that the overlap of drops of a new source can cost the history is   *)
(* one drop for each CPU but one, once: of the drops that are to be        *)
(* recorded, those of a known source and those that find a record, it      *)
(* misses no more; and it never records a drop that the stats do not       *)
(* count.                                                                  *)
HistoryNearlyComplete ==
  LET known == IF recorded = NoEntry THEN 0 ELSE recorded
  IN  known <= dropped /\ dropped <= known + Cardinality(CPUs) - 1
==============================================================================
