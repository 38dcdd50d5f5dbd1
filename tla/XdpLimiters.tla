----------------------------- MODULE XdpLimiters -----------------------------
(***************************************************************************)
(* The rate limiters inside XdpFilter: each of them implements the entry   *)
(* LimiterEntry specifies and TokenBucket measures.                        *)
(***************************************************************************)
EXTENDS XdpFilter

CONSTANTS
  NoBucket,  \* what a lookup of an absent key returns (NULL)
  Client,    \* any source
  Core       \* any CPU

ASSUME AbsentAssumption == NoBucket \notin Bucket
ASSUME ChoiceAssumption == Client \in IPs /\ Core \in CPUs

Entry(map) == IF Client \in DOMAIN map THEN map[Client] ELSE NoBucket

UdpEntry ==
  INSTANCE LimiterEntry WITH
    Period <- UdpPeriod, Burst <- UdpBurst,
    bucket <- Entry(udpRatelimit), preallocated <- FALSE

InitconnectEntry ==
  INSTANCE LimiterEntry WITH
    Period <- InitconnectPeriod, Burst <- InitconnectBurst,
    bucket <- Entry(initconnectRatelimit), preallocated <- FALSE

GlobalEntry ==
  INSTANCE LimiterEntry WITH
    Period <- TcpGlobalPeriod, Burst <- TcpGlobalBurst,
    bucket <- tcpGlobalRatelimit[Core], preallocated <- TRUE

(* ratelimit_take(&udp_ratelimit, ...): whatever else the handlers do with *)
(* a packet, the entry of a source is created, charged and evicted as      *)
(* LimiterEntry says, so that what TokenBucket shows holds of it.          *)
UdpLimiterRefines == UdpEntry!Spec

(* The same for ratelimit_take(&initconnect_ratelimit, ...). *)
InitconnectLimiterRefines == InitconnectEntry!Spec

(* tcp_global_ratelimit_take: a CPU's slot is a zero-initialised entry.    *)
GlobalLimiterRefines == GlobalEntry!Spec

(* config.example: the brake on new connections only counts attempts from  *)
(* addresses that are not already playing, so that players keep            *)
(* reconnecting.  In the code every SYN is charged, and refused, alike.    *)
PlayersReconnect ==
  [][\A ip \in IPs, cpu \in CPUs :
       Fresh(ip) => ~SynGlobalLimited(ip, cpu)]_vars
==============================================================================
