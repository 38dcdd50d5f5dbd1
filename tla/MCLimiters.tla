----------------------------- MODULE MCLimiters -----------------------------
(* TLC instance of XdpLimiters: one source whose packets two CPUs handle,  *)
(* with every limiter, the cap, the TTL and the blacklisting on.  Entries  *)
(* of different sources never interact.  The constants are what loadXDP    *)
(* makes of the options below, with 4 ticks to a second.                   *)
EXTENDS XdpLimiters, RateConfig, FiniteSets

CONSTANTS a, c1, c2

Options ==
  [TTL |-> 1, UDPRatePerSec |-> 2, UDPBurst |-> 2,
   InitConnectPerMin |-> 80, InitConnectBurst |-> 1,
   GetInfoPerMin |-> 65, GetInfoBurst |-> 1,
   TCPGlobalPerSec |-> 7, TCPGlobalBurst |-> 5, TCPMaxOpenPerIP |-> 1,
   HealthWindow |-> 1, HealthThreshold |-> 1, HealthBlacklist |-> 1,
   DropHistory |-> FALSE]

Xdp == Program(Options, 4, Cardinality(CPUs))
MCWhitelistTTL == Xdp.whitelist_ttl_ns
MCUdpPeriod == Xdp.udp_refill_period_ns
MCUdpBurst == Xdp.udp_burst
MCInitconnectPeriod == Xdp.initconnect_period_ns
MCInitconnectBurst == Xdp.initconnect_burst
MCGetinfoPeriod == Xdp.getinfo_period_ns
MCGetinfoBurst == Xdp.getinfo_burst
MCTcpGlobalPeriod == Xdp.tcp_global_period_ns
MCTcpGlobalBurst == Xdp.tcp_global_burst
MCTcpMaxOpenPerIP == Xdp.tcp_max_open_per_ip
MCHealthWindow == Xdp.health_window_ns
MCHealthThreshold == Xdp.health_threshold
MCHealthBlacklist == Xdp.health_blacklist_ns
MCDropHistoryEnabled == Xdp.drop_history_enabled

(* Hidden from the fingerprint, because no handler reads it in this        *)
(* configuration: the counters, the instants in tcp_established and        *)
(* tcp_syn_seen, and all of an anomaly but the blacklisting it caused (the *)
(* threshold is 1).                                                        *)
View == <<now, load, whitelist, DOMAIN established, DOMAIN synSeen, openCount,
          ipBuckets, tcpGlobalRatelimit,
          {ip \in DOMAIN udpHealth : Blacklisted(ip)}, kernel>>
==============================================================================
