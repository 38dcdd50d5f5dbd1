------------------------------ MODULE CpuSteps ------------------------------
(***************************************************************************)
(* Handlers of bpf/fivem_xdp.bpf.c at work on several CPUs at once, one    *)
(* memory access per step: what the modules on races have in common.  One  *)
(* handler at a time runs on each CPU, and other CPUs and the clock may do *)
(* anything between two of its steps.                                      *)
(***************************************************************************)
EXTENDS Integers, FiniteSets

CONSTANTS
  CPUs,          \* CPUs the XDP program runs on
  Wrap,          \* 2^64
  MaxTime,       \* bound: the clock stops here
  MaxPackets     \* bound: packets handled in all

ASSUME StepsAssumption ==
  /\ IsFiniteSet(CPUs) /\ CPUs # {}
  /\ {MaxTime, MaxPackets} \subseteq Nat \ {0}
  /\ Wrap \in Nat

VARIABLES
  clock,
  pc,           \* where each CPU stands in the handler
  at,           \* the clock as the handler on each CPU keeps it
  todo,         \* fields each CPU has yet to load or to store
  packets       \* packets begun

cpuVars == <<clock, pc, at, todo, packets>>

StepsInit ==
  /\ clock = 0
  /\ pc = [cpu \in CPUs |-> "idle"]
  /\ at = [cpu \in CPUs |-> 0]
  /\ todo = [cpu \in CPUs |-> {}]
  /\ packets = 0

Tick ==
  /\ clock < MaxTime
  /\ clock' = clock + 1
  /\ UNCHANGED <<pc, at, todo, packets>>

(* The subtraction of two u64. *)
Since(then, now) == (now - then) % Wrap

Goto(cpu, label) == pc' = [pc EXCEPT ![cpu] = label]

GoFrom(cpu, from, to) == pc[cpu] = from /\ Goto(cpu, to)

ReadClock(cpu) == at' = [at EXCEPT ![cpu] = clock]

(* The handler needs the clock it read no longer. *)
ForgetClock(cpu) == at' = [at EXCEPT ![cpu] = 0]

Arrive(cpu, label) ==
  /\ packets < MaxPackets
  /\ packets' = packets + 1
  /\ GoFrom(cpu, "idle", label)
  /\ UNCHANGED <<clock, todo>>
==============================================================================
