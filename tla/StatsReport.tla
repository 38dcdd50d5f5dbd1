----------------------------- MODULE StatsReport -----------------------------
(***************************************************************************)
(* Reading the stats array (ReadStats, internal/bpfmaps/bpfmaps.go) for    *)
(* /api/stats, /api/info, a scrape, `stats` and `info`, while the XDP      *)
(* program counts.  Every CPU has a copy of the array, which only its own  *)
(* handler increments; one lookup copies one slot, CPU after CPU.          *)
(*                                                                         *)
(* The handlers are those of requests, the only ones that bump more than   *)
(* one counter.                                                            *)
(***************************************************************************)
EXTENDS Sums, Sequences

CONSTANTS
  NumCPUs,
  MaxRequests   \* bound: requests handled in all

ASSUME StatsAssumption == NumCPUs \in Nat \ {0} /\ MaxRequests \in Nat

VARIABLES
  slots,      \* cpu -> slot -> counter
  handler,    \* cpu -> what the handler there has got to
  begun,      \* requests begun
  scan,       \* ReadStats: slot and CPU to copy next, values so far
  before      \* history: the totals when the scan began

statsVars == <<slots, handler, begun, scan, before>>

Cores == 1..NumCPUs

(* The slots concerned, in the order of their index. *)
StatLabels ==
  <<"pass_tcp", "tcp_l7_promoted", "tcp_l7_match_no_est",
    "drop_tcp_initconnect_ratelimit", "tcp_post_client_seen",
    "tcp_getinfo_seen", "drop_tcp_getinfo_ratelimit",
    "drop_tcp_bad_user_agent", "tcp_post_ua_unknown">>

Slots == {StatLabels[i] : i \in DOMAIN StatLabels}

SlotTotal(slot) == SumOver([c \in Cores |-> slots[c][slot]], Cores)

StatsInit ==
  /\ slots = [c \in Cores |-> [s \in Slots |-> 0]]
  /\ handler = [c \in Cores |-> "idle"]
  /\ begun = 0
  /\ scan = [slot |-> 0, cpu |-> 1, vals |-> [s \in Slots |-> 0]]
  /\ before = [s \in Slots |-> 0]

------------------------------------------------------------------------------
(* fivem_xdp, from the inspection of the user agent on *)

Bumping(cpu, from, slot, to) ==
  /\ handler[cpu] = from
  /\ handler' = [handler EXCEPT ![cpu] = to]
  /\ slots' = [slots EXCEPT ![cpu][slot] = @ + 1]
  /\ UNCHANGED <<scan, before>>

Begin(cpu, slot, to) ==
  /\ begun < MaxRequests
  /\ begun' = begun + 1
  /\ Bumping(cpu, "idle", slot, to)

Continue(cpu, from, slot, to) ==
  Bumping(cpu, from, slot, to) /\ UNCHANGED begun

BadUserAgent(cpu) == Begin(cpu, "drop_tcp_bad_user_agent", "idle")
PostSeen(cpu) == Begin(cpu, "tcp_post_client_seen", "post")
GetSeen(cpu) == Begin(cpu, "tcp_getinfo_seen", "get")

LimitPost(cpu) ==
  Continue(cpu, "post", "drop_tcp_initconnect_ratelimit", "idle")

AcceptPost(cpu) ==
  \E slot \in {"tcp_l7_promoted", "tcp_l7_match_no_est", "tcp_post_ua_unknown"} :
    Continue(cpu, "post", slot, "pass")

LimitGet(cpu) ==
  Continue(cpu, "get", "drop_tcp_getinfo_ratelimit", "idle")

Pass(cpu) == \E from \in {"get", "pass"} : Continue(cpu, from, "pass_tcp", "idle")

Handle(cpu) ==
  \/ BadUserAgent(cpu) \/ PostSeen(cpu) \/ GetSeen(cpu)
  \/ LimitPost(cpu) \/ AcceptPost(cpu) \/ LimitGet(cpu) \/ Pass(cpu)

------------------------------------------------------------------------------
(* ReadStats *)

Scanned == scan.slot > Len(StatLabels)

ScanBegin ==
  /\ scan.slot = 0
  /\ scan' = [scan EXCEPT !.slot = 1]
  /\ before' = [s \in Slots |-> SlotTotal(s)]
  /\ UNCHANGED <<slots, handler, begun>>

(* Mutant: the slots are read from the last to the first. *)
CopySlotBackwards ==
  /\ scan.slot \in DOMAIN StatLabels
  /\ LET slot == StatLabels[Len(StatLabels) + 1 - scan.slot]
         last == scan.cpu = NumCPUs
     IN  scan' = [slot |-> IF last THEN scan.slot + 1 ELSE scan.slot,
                  cpu |-> IF last THEN 1 ELSE scan.cpu + 1,
                  vals |-> [scan.vals EXCEPT ![slot] = @ + slots[scan.cpu][slot]]]
  /\ UNCHANGED <<slots, handler, begun, before>>

CopySlot ==
  /\ scan.slot \in DOMAIN StatLabels
  /\ LET slot == StatLabels[scan.slot]
         last == scan.cpu = NumCPUs
     IN  scan' = [slot |-> IF last THEN scan.slot + 1 ELSE scan.slot,
                  cpu |-> IF last THEN 1 ELSE scan.cpu + 1,
                  vals |-> [scan.vals EXCEPT ![slot] = @ + slots[scan.cpu][slot]]]
  /\ UNCHANGED <<slots, handler, begun, before>>

StatsNext == ScanBegin \/ CopySlot \/ \E cpu \in Cores : Handle(cpu)

StatsSpec == StatsInit /\ [][StatsNext]_statsVars

------------------------------------------------------------------------------

(* The counters are read one after the other while they grow.  Each is one *)
(* the slot had during the scan, so no counter goes down from one scan to  *)
(* a later one; and because what became of a POST is counted after the     *)
(* POST and read before it, no answer shows more POSTs promoted, unmatched *)
(* or limited than were seen.                                              *)
CountersReadTogether ==
  Scanned =>
    /\ \A s \in Slots : before[s] <= scan.vals[s] /\ scan.vals[s] <= SlotTotal(s)
    /\ scan.vals["tcp_l7_promoted"] + scan.vals["tcp_l7_match_no_est"]
         + scan.vals["drop_tcp_initconnect_ratelimit"]
       <= scan.vals["tcp_post_client_seen"]
==============================================================================
