------------------------------ MODULE MCSources ------------------------------
(* TLC instance of WhitelistHistory and OpenSockets: two sources that      *)
(* handshake, introduce themselves, hold connections up to the cap and     *)
(* beyond, go quiet past the TTL and come back, while the kernel evicts    *)
(* entries of three of the TCP maps.                                         *)
EXTENDS WhitelistHistory, OpenSockets, TLC

CONSTANTS a, b

Symmetry == Permutations(IPs)

(* Hidden from the fingerprint, because no handler reads it in this        *)
(* configuration: the counters, the instants kept in tcp_established and   *)
(* tcp_syn_seen, and the anomalies (a blacklisting lasts no time).         *)
View == <<now, load, whitelist, DOMAIN established, DOMAIN synSeen, openCount,
          ipBuckets, tcpGlobalRatelimit, kernel, handshaked, introduced,
          lastAccepted, lapsed>>
==============================================================================
