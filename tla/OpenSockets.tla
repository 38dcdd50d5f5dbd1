----------------------------- MODULE OpenSockets -----------------------------
(***************************************************************************)
(* XdpFilter and the connections it guards: the per-source cap on open     *)
(* sockets, kept by the sockops program and enforced by the XDP program.   *)
(***************************************************************************)
EXTENDS XdpFilter

Counted(ip) == IF ip \in DOMAIN openCount THEN openCount[ip] ELSE 0

(* Whatever the kernel evicts, a source is never refused for sockets it    *)
(* does not hold: sockops takes an entry no further down than zero, and    *)
(* creates it again at one.                                                *)
OpenCountNeverOver == \A ip \in IPs : Counted(ip) <= sockets[ip]

(* The cap is checked when a SYN arrives and counted when its handshake    *)
(* completes, so the count can run over the cap, but by no more than the   *)
(* handshakes that were in progress when it was last below.  Speaks of     *)
(* connections whose SYN crosses the XDP program: there is one card, and   *)
(* it is filtered.                                                         *)
OvershootBounded ==
  TcpMaxOpenPerIP > 0 =>
    \A ip \in IPs :
      Counted(ip) + backlog[ip] <= TcpMaxOpenPerIP - 1 + MaxBacklog

(* While tcp_open_count is not full, the count is exact, and the sockets   *)
(* a source holds are bounded like the count.                              *)
OpenCountExact == \A ip \in IPs : Counted(ip) = sockets[ip]

SocketsBounded ==
  TcpMaxOpenPerIP > 0 =>
    \A ip \in IPs :
      sockets[ip] + backlog[ip] <= TcpMaxOpenPerIP - 1 + MaxBacklog
==============================================================================
