------------------------------- MODULE Restart -------------------------------
(***************************************************************************)
(* The daemon's start, end and crash around a kernel that goes on: Load    *)
(* and Close of internal/loader/loader.go against the callbacks of         *)
(* bpf/fivem_sockops.bpf.c, which several CPUs run at once, one access to  *)
(* tcp_open_count per step.  One source with its sockets.                  *)
(*                                                                         *)
(* The links are not pinned: what the process has open is what is          *)
(* attached.  The maps are: tcp_open_count outlives the process.  Removing *)
(* an entry leaves CPUs that looked it up with a stale pointer; what they  *)
(* do through it is lost, or lands in the entry that reuses the memory.    *)
(* Only reuse by the same source is modelled.  A handshake may finish at   *)
(* any time, whether or not the XDP program let its SYN pass.              *)
(***************************************************************************)
EXTENDS Integers, FiniteSets

CONSTANTS
  CPUs, Sockets,
  NoEntry,     \* what a lookup of an absent key returns (NULL)
  MaxCount     \* bound: failed starts could add up stale counts for ever

ASSUME RestartAssumption ==
  /\ IsFiniteSet(CPUs) /\ CPUs # {} /\ IsFiniteSet(Sockets)
  /\ MaxCount \in Nat /\ NoEntry \notin Int

VARIABLES
  phase,        \* how far Load or Close has come; "down": no process
  handles,      \* what the process holds open of the programs, maps, links
  doomed,       \* clearMap has collected the source's key
  openCount,    \* the source's entry of tcp_open_count, a signed reading
  open,         \* sockets the source holds
  flagged,      \* those with BPF_SOCK_OPS_STATE_CB_FLAG
  callback,     \* what each CPU runs
  heldAtReset   \* history: sockets held when the entry was last removed

daemon == <<phase, handles, doomed>>
kernel == <<openCount, open, flagged, callback>>
vars == <<daemon, kernel, heldAtReset>>

XdpObjects == {"xdp_prog", "xdp_maps"}
SockopsObjects == {"sockops_prog", "sockops_maps"}
Handles == XdpObjects \cup SockopsObjects \cup {"xdp_link", "sockops_link"}

Phases == {"down", "xdp_loaded", "xdp_attached", "sockops_loaded",
           "sockops_attached", "clearing", "serving",
           "closing_sockops", "closing_xdp", "closing_maps"}

Idle == [at |-> "idle"]
Callback == [at : {"create", "lookup", "add", "check", "sub"},
             socket : Sockets, valid : BOOLEAN]

Hooked == "sockops_link" \in handles
Busy == {s \in Sockets : \E c \in CPUs : callback[c] # Idle /\ callback[c].socket = s}

Init ==
  /\ phase = "down" /\ handles = {} /\ doomed = FALSE
  /\ openCount = NoEntry /\ open = {} /\ flagged = {}
  /\ callback = [c \in CPUs |-> Idle]
  /\ heldAtReset = 0

------------------------------------------------------------------------------
(* Load: a step succeeds, or releases what came before and returns.        *)

Proceed(from, to, opened, closed) ==
  /\ phase = from
  /\ phase' = to
  /\ handles' = (handles \cup opened) \ closed
  /\ UNCHANGED <<doomed, kernel, heldAtReset>>

LoadXDP == Proceed("down", "xdp_loaded", XdpObjects, {})

AttachXDP == Proceed("xdp_loaded", "xdp_attached", {"xdp_link"}, {"xdp_prog"})

LoadSockops ==
  Proceed("xdp_attached", "sockops_loaded", SockopsObjects, {})

AttachCgroup ==
  Proceed("sockops_loaded", "sockops_attached", {"sockops_link"}, SockopsObjects)

(* iter.Next reached the source's key, or found that there is none. *)
CollectCounts ==
  /\ phase = "sockops_attached"
  /\ phase' = "clearing"
  /\ doomed' = (openCount # NoEntry)
  /\ heldAtReset' = Cardinality(open)
  /\ UNCHANGED <<handles, kernel>>

(* The entry goes, pointers to it become stale. *)
RemoveEntry ==
  /\ openCount' = NoEntry
  /\ callback' = [c \in CPUs |->
                    IF callback[c] = Idle THEN Idle
                    ELSE [callback[c] EXCEPT !.valid = FALSE]]
  /\ heldAtReset' = Cardinality(open)
  /\ UNCHANGED <<open, flagged>>

(* Mutant: the reset is forgotten. *)
NoReset ==
  /\ phase = "clearing"
  /\ phase' = "serving"
  /\ doomed' = FALSE
  /\ UNCHANGED <<handles, kernel, heldAtReset>>

DeleteCounts ==
  /\ phase = "clearing"
  /\ phase' = "serving"
  /\ doomed' = FALSE
  /\ IF doomed THEN RemoveEntry ELSE UNCHANGED <<kernel, heldAtReset>>
  /\ UNCHANGED handles

(* Mutant: a failed reset leaves the sockops program attached. *)
CleanupKeepsSockops ==
  [xdp_loaded       |-> XdpObjects,
   xdp_attached     |-> {"xdp_link", "xdp_maps"},
   sockops_loaded   |-> SockopsObjects \cup {"xdp_link", "xdp_maps"},
   sockops_attached |-> {"xdp_link", "xdp_maps"},
   clearing         |-> {"xdp_link", "xdp_maps"}]

(* What Load closes when the step after each point returns an error. *)
Cleanup ==
  [xdp_loaded       |-> XdpObjects,
   xdp_attached     |-> {"xdp_link", "xdp_maps"},
   sockops_loaded   |-> SockopsObjects \cup {"xdp_link", "xdp_maps"},
   sockops_attached |-> {"sockops_link", "xdp_link", "xdp_maps"},
   clearing         |-> {"sockops_link", "xdp_link", "xdp_maps"}]

LoadFails ==
  /\ phase \in DOMAIN Cleanup
  /\ handles' = handles \ Cleanup[phase]
  /\ phase' = "down"
  /\ doomed' = FALSE
  /\ UNCHANGED <<kernel, heldAtReset>>

------------------------------------------------------------------------------
(* runDaemon returns, or the process is killed at any point. *)

Shutdown == Proceed("serving", "closing_sockops", {}, {})
CloseSockops == Proceed("closing_sockops", "closing_xdp", {}, {"sockops_link"})
CloseXDP == Proceed("closing_xdp", "closing_maps", {}, {"xdp_link"})
CloseMaps == Proceed("closing_maps", "down", {}, {"xdp_maps"})

Crash ==
  /\ phase # "down"
  /\ phase' = "down"
  /\ handles' = {}
  /\ doomed' = FALSE
  /\ UNCHANGED <<kernel, heldAtReset>>

Daemon ==
  \/ LoadXDP \/ AttachXDP \/ LoadSockops \/ AttachCgroup
  \/ CollectCounts \/ DeleteCounts \/ LoadFails
  \/ Shutdown \/ CloseSockops \/ CloseXDP \/ CloseMaps \/ Crash

------------------------------------------------------------------------------
(* The sockops program, called with the socket locked. *)

Run(c, s, label, valid) ==
  callback' = [callback EXCEPT ![c] = [at |-> label, socket |-> s, valid |-> valid]]

Return(c) == callback' = [callback EXCEPT ![c] = Idle]

(* BPF_SOCK_OPS_PASSIVE_ESTABLISHED_CB, if the program is attached. *)
Established(c, s) ==
  /\ callback[c] = Idle /\ s \notin open
  /\ open' = open \cup {s}
  /\ IF Hooked
     THEN /\ openCount # NoEntry => openCount < MaxCount
          /\ Run(c, s, "create", FALSE)
     ELSE UNCHANGED callback
  /\ UNCHANGED <<daemon, openCount, flagged, heldAtReset>>

(* Mutant: the update replaces the entry (BPF_ANY). *)
CreateAny(c) ==
  /\ callback[c].at = "create"
  /\ openCount' = 0
  /\ Run(c, callback[c].socket, "lookup", FALSE)
  /\ UNCHANGED <<daemon, open, flagged, heldAtReset>>

CreateCount(c) ==
  /\ callback[c].at = "create"
  /\ openCount' = IF openCount = NoEntry THEN 0 ELSE openCount
  /\ Run(c, callback[c].socket, "lookup", FALSE)
  /\ UNCHANGED <<daemon, open, flagged, heldAtReset>>

LookupCount(c) ==
  /\ callback[c].at = "lookup"
  /\ IF openCount = NoEntry
     THEN /\ flagged' = flagged \cup {callback[c].socket}
          /\ Return(c)
     ELSE /\ Run(c, callback[c].socket, "add", TRUE)
          /\ UNCHANGED flagged
  /\ UNCHANGED <<daemon, openCount, open, heldAtReset>>

(* An atomic addition through the pointer the CPU holds. *)
AddThrough(c, delta) ==
  \/ /\ openCount # NoEntry
     /\ openCount' = openCount + delta
  \/ /\ ~callback[c].valid
     /\ UNCHANGED openCount

IncCount(c) ==
  /\ callback[c].at = "add"
  /\ AddThrough(c, 1)
  /\ flagged' = flagged \cup {callback[c].socket}
  /\ Return(c)
  /\ UNCHANGED <<daemon, open, heldAtReset>>

Gone(s) == open' = open \ {s} /\ flagged' = flagged \ {s}

(* BPF_SOCK_OPS_STATE_CB into BPF_TCP_CLOSE, if the flag is set. *)
Closed(c, s) ==
  /\ callback[c] = Idle /\ s \in open \ Busy
  /\ IF Hooked /\ s \in flagged
     THEN Run(c, s, "check", FALSE) /\ UNCHANGED <<open, flagged>>
     ELSE Gone(s) /\ UNCHANGED callback
  /\ UNCHANGED <<daemon, openCount, heldAtReset>>

(* Mutants: the check is off by one, or missing. *)
PositiveOrZero == openCount # NoEntry /\ openCount >= 0
Unchecked == openCount # NoEntry

Positive == openCount # NoEntry /\ openCount > 0

(* The lookup and the comparison with 0. *)
CheckCount(c) ==
  /\ callback[c].at = "check"
  /\ IF Positive
     THEN /\ Run(c, callback[c].socket, "sub", TRUE)
          /\ UNCHANGED <<open, flagged>>
     ELSE /\ Gone(callback[c].socket)
          /\ Return(c)
  /\ UNCHANGED <<daemon, openCount, heldAtReset>>

DecCount(c) ==
  /\ callback[c].at = "sub"
  /\ AddThrough(c, -1)
  /\ Gone(callback[c].socket)
  /\ Return(c)
  /\ UNCHANGED <<daemon, heldAtReset>>

(* The kernel makes room, or `clear` removes the entry, or `unpin` the map *)
(* of a daemon that is down.                                               *)
Evict ==
  /\ openCount # NoEntry
  /\ RemoveEntry
  /\ UNCHANGED daemon

Sockops(c) ==
  \/ \E s \in Sockets : Established(c, s) \/ Closed(c, s)
  \/ CreateCount(c) \/ LookupCount(c) \/ IncCount(c)
  \/ CheckCount(c) \/ DecCount(c)

Next == Daemon \/ Evict \/ \E c \in CPUs : Sockops(c)

Spec == Init /\ [][Next]_vars

------------------------------------------------------------------------------

(* Type invariant.  A socket is locked while a callback runs for it. *)
TypeOK ==
  /\ phase \in Phases /\ handles \subseteq Handles /\ doomed \in BOOLEAN
  /\ \/ openCount = NoEntry
     \/ openCount \in -Cardinality(CPUs)..(MaxCount + Cardinality(CPUs))
  /\ open \subseteq Sockets /\ flagged \subseteq open
  /\ callback \in [CPUs -> Callback \cup {Idle}]
  /\ \A c, d \in CPUs : 
       callback[c] # Idle /\ callback[d] # Idle
         => callback[c].socket \in open
            /\ (callback[c].socket = callback[d].socket => c = d)
  /\ heldAtReset \in 0..Cardinality(Sockets)

(* TestLoadCleansUpWhen...: whichever step of Load fails, and when the     *)
(* daemon has closed, nothing stays attached or open; a daemon that serves *)
(* has both programs attached and holds no more than it uses.              *)
LoadAllOrNothing ==
  /\ phase = "down" => handles = {}
  /\ phase = "serving" => handles = {"xdp_link", "sockops_link", "xdp_maps"}

(* Whatever counts a crash left behind, and whatever closed meanwhile, the *)
(* cap of a daemon that serves never refuses a source for sockets it does  *)
(* not hold: the reset comes before serving, not before attaching, and     *)
(* callbacks of both lives of the program overlap it.                      *)
CountNeverOver ==
  phase = "serving" /\ openCount # NoEntry => openCount <= Cardinality(open)

(* TestSockopsDoesNotDecrementBelowZero, for closes that overlap: reading  *)
(* the count and decrementing it are two accesses, so it can pass zero,    *)
(* but by less than the number of CPUs, and never further with time.       *)
CountBarelyBelowZero ==
  openCount # NoEntry => openCount >= 1 - Cardinality(CPUs)

(* A reset loses the sockets held at that moment and no others: the cap of *)
(* a daemon that serves is overrun by at most those and the handshakes     *)
(* whose callback is still running.                                        *)
UndercountBounded ==
  phase = "serving" =>
    LET counted == IF openCount = NoEntry THEN 0 ELSE openCount
        arriving == {c \in CPUs : callback[c].at \in {"create", "lookup", "add"}}
    IN  Cardinality(open) <= counted + heldAtReset + Cardinality(arriving)
==============================================================================
