------------------------------ MODULE XdpFilter ------------------------------
(***************************************************************************)
(* The data plane: the XDP program (bpf/fivem_xdp.bpf.c), the sockops      *)
(* program (bpf/fivem_sockops.bpf.c) and the maps they share               *)
(* (bpf/shared/maps.h), each handler running as one step.  CpuRace models  *)
(* what handlers on two CPUs do to one entry.                              *)
(*                                                                         *)
(* A packet is given by the outcome its contents lead to: one action per   *)
(* return statement of the program, whose guard is the conjunction of the  *)
(* conditions that reach it.  Frames the program does not look at (other   *)
(* ports and protocols, later fragments, truncated headers) change nothing *)
(* and are not modelled.  A hash map is a function whose domain is the set *)
(* of keys present.                                                        *)
(***************************************************************************)
EXTENDS RateLimit, Integers

CONSTANTS
  IPs,                 \* source addresses
  CPUs,                \* CPUs the XDP program runs on
  WhitelistTTL, UdpPeriod, UdpBurst, InitconnectPeriod, InitconnectBurst,
  GetinfoPeriod, GetinfoBurst, TcpGlobalPeriod, TcpGlobalBurst,
  TcpMaxOpenPerIP, HealthWindow, HealthThreshold, HealthBlacklist,
  DropHistoryEnabled,
  Evictable,           \* the maps that are full, so that the kernel evicts
  MaxTime,             \* bound: the clock stops here
  MaxPerTick,          \* bound: packets handled between two ticks
  MaxBacklog           \* the kernel's limit on handshakes in progress

Config == {WhitelistTTL, UdpPeriod, UdpBurst, InitconnectPeriod,
           InitconnectBurst, GetinfoPeriod, GetinfoBurst, TcpGlobalPeriod,
           TcpGlobalBurst, TcpMaxOpenPerIP, HealthWindow, HealthThreshold,
           HealthBlacklist}

IPMaps == {"tcp_whitelist", "tcp_established", "tcp_syn_seen",
           "tcp_open_count", "udp_ratelimit", "initconnect_ratelimit",
           "getinfo_ratelimit", "udp_health", "ip_drop_history"}

Reasons == {"tcp_no_syn", "tcp_too_many_open", "tcp_global_ratelimit",
            "tcp_bad_user_agent", "tcp_initconnect_ratelimit",
            "tcp_getinfo_ratelimit", "malformed", "udp_not_whitelisted",
            "udp_expired", "udp_unhealthy", "udp_enet_malformed",
            "udp_ratelimit", "ip_fragment"}

(* Every drop reason has a counter of its own among the stats. *)
Stats == Reasons \cup
           {"pass_tcp", "pass_udp_whitelisted", "tcp_established_inserts",
            "tcp_l7_promoted", "tcp_l7_match_no_est", "tcp_post_client_seen",
            "tcp_getinfo_seen", "tcp_post_ua_unknown"}

ASSUME ConfigAssumption == Config \subseteq Nat
ASSUME EvictableAssumption == Evictable \subseteq IPMaps
ASSUME SwitchAssumption == DropHistoryEnabled \in BOOLEAN
ASSUME BoundsAssumption == {MaxTime, MaxPerTick, MaxBacklog} \subseteq Nat

VARIABLES
  now,                   \* bpf_ktime_get_boot_ns
  whitelist,             \* tcp_whitelist: ip -> last accepted packet
  established,           \* tcp_established: ip -> last handshake
  synSeen,               \* tcp_syn_seen: ip -> last SYN
  openCount,             \* tcp_open_count: ip -> open sockets
  udpRatelimit, initconnectRatelimit, getinfoRatelimit,  \* ip -> Bucket
  tcpGlobalRatelimit,    \* cpu -> Bucket
  udpHealth,             \* ip -> anomalies in a window, end of blacklisting
  dropHistory,           \* ip -> first and last drop, count per reason
  stats,                 \* counters, summed over the CPUs that own the slots
  backlog, sockets,      \* kernel: handshakes in progress, tracked sockets
  load                   \* packets handled since the last tick

tcpMaps == <<established, synSeen, openCount>>
ipBuckets == <<udpRatelimit, initconnectRatelimit, getinfoRatelimit>>
kernel == <<backlog, sockets>>
vars == <<now, whitelist, tcpMaps, ipBuckets, tcpGlobalRatelimit, udpHealth,
          dropHistory, stats, kernel, load>>

------------------------------------------------------------------------------

(* bpf_map_update_elem with BPF_ANY, and the removal of a key. *)
Put(map, ip, value) ==
  [k \in DOMAIN map \cup {ip} |-> IF k = ip THEN value ELSE map[k]]
Forget(map, ip) == [k \in DOMAIN map \ {ip} |-> map[k]]

EmptyMap == [k \in {} |-> 0]

Init ==
  /\ now = 0
  /\ whitelist = EmptyMap
  /\ established = EmptyMap
  /\ synSeen = EmptyMap
  /\ openCount = EmptyMap
  /\ udpRatelimit = EmptyMap
  /\ initconnectRatelimit = EmptyMap
  /\ getinfoRatelimit = EmptyMap
  /\ tcpGlobalRatelimit = [cpu \in CPUs |-> ZeroBucket]
  /\ udpHealth = EmptyMap
  /\ dropHistory = EmptyMap
  /\ stats = [s \in Stats |-> 0]
  /\ backlog = [ip \in IPs |-> 0]
  /\ sockets = [ip \in IPs |-> 0]
  /\ load = 0

------------------------------------------------------------------------------
(* Helpers of the handlers *)

Bump(slots) == [s \in Stats |-> IF s \in slots THEN stats[s] + 1 ELSE stats[s]]

(* Mutant: the drop that opens an entry is not counted in it. *)
UncountedHistory(reason) ==
  [first |-> now, last |-> now, counts |-> [r \in Reasons |-> 0]]

(* record_drop: only a known source opens a new entry. *)
NewHistory(reason) ==
  [first |-> now, last |-> now,
   counts |-> [r \in Reasons |-> IF r = reason THEN 1 ELSE 0]]

RecordDrop(ip, reason, knownSource) ==
  IF ~DropHistoryEnabled THEN dropHistory
  ELSE IF ip \in DOMAIN dropHistory
  THEN Put(dropHistory, ip,
           [dropHistory[ip] EXCEPT !.last = now, !.counts[reason] = @ + 1])
  ELSE IF knownSource THEN Put(dropHistory, ip, NewHistory(reason))
  ELSE dropHistory

(* What ends every return statement reached by a packet for the port. *)
Verdict(slots) ==
  /\ load < MaxPerTick
  /\ load' = load + 1
  /\ stats' = Bump(slots)
  /\ UNCHANGED now

(* record_drop, stat_bump, return XDP_DROP *)
DropPacket(ip, reason, knownSource, seen) ==
  /\ Verdict({reason} \cup seen)
  /\ dropHistory' = RecordDrop(ip, reason, knownSource)
  /\ UNCHANGED kernel

(* A drop that leaves the maps the handlers decide on alone. *)
Refuse(ip, reason, knownSource) ==
  /\ DropPacket(ip, reason, knownSource, {})
  /\ UNCHANGED <<whitelist, tcpMaps, ipBuckets, tcpGlobalRatelimit, udpHealth>>

(* stat_bump, return XDP_PASS on TCP: the kernel may start a handshake on  *)
(* a SYN, unless its backlog is full.                                      *)
PassTcp(ip, syn, seen) ==
  /\ Verdict({"pass_tcp"} \cup seen)
  /\ \/ UNCHANGED backlog
     \/ /\ syn /\ backlog[ip] < MaxBacklog
        /\ backlog' = [backlog EXCEPT ![ip] = @ + 1]
  /\ UNCHANGED <<dropHistory, sockets>>

(* ratelimit_take on a map keyed by source: its verdict and its effect. *)
Allows(map, ip, period, burst) ==
  Limited(period, burst) /\ ip \in DOMAIN map
    => CanTake(map[ip], now, period, burst)

(* Mutant: every packet let through starts the bucket anew. *)
ChargedAnew(map, ip, period, burst) ==
  IF Limited(period, burst) THEN Put(map, ip, NewBucket(burst, now)) ELSE map

Charged(map, ip, period, burst) ==
  IF ~Limited(period, burst) THEN map
  ELSE Put(map, ip, IF ip \in DOMAIN map THEN Take(map[ip], now, period, burst)
                    ELSE NewBucket(burst, now))

(* Mutant: the verdict of the bucket is ignored. *)
GlobalAllowsAll(cpu) == TRUE

(* tcp_global_ratelimit_take *)
GlobalAllows(cpu) ==
  Limited(TcpGlobalPeriod, TcpGlobalBurst)
    => CanTake(tcpGlobalRatelimit[cpu], now, TcpGlobalPeriod, TcpGlobalBurst)

GlobalCharged(cpu) ==
  IF Limited(TcpGlobalPeriod, TcpGlobalBurst)
  THEN [tcpGlobalRatelimit EXCEPT
          ![cpu] = Take(@, now, TcpGlobalPeriod, TcpGlobalBurst)]
  ELSE tcpGlobalRatelimit

(* Mutant: whitelist_refresh is not called. *)
NotRefreshed(ip) == whitelist

(* whitelist_refresh of the entry the handler looked up first, if any. *)
Refreshed(ip) ==
  IF ip \in DOMAIN whitelist THEN Put(whitelist, ip, now) ELSE whitelist

Blacklisted(ip) ==
  ip \in DOMAIN udpHealth /\ udpHealth[ip].blacklistUntil > now

(* health_record_anomaly: the first anomaly opens a window; a later one    *)
(* starts a new window once the old one is over.                           *)
NewHealth ==
  [anomalies |-> 1, windowStart |-> now,
   blacklistUntil |-> IF HealthThreshold <= 1 THEN now + HealthBlacklist ELSE 0]

(* Mutants: the count survives the end of its window; one strike more than *)
(* the threshold is asked for.                                             *)
CountAcrossWindows(h) ==
  [anomalies      |-> h.anomalies + 1,
   windowStart    |-> IF now - h.windowStart > HealthWindow
                        THEN now ELSE h.windowStart,
   blacklistUntil |-> IF h.anomalies + 1 >= HealthThreshold
                        THEN now + HealthBlacklist ELSE h.blacklistUntil]
CountBeyondThreshold(h) ==
  LET over      == now - h.windowStart > HealthWindow
      anomalies == IF over THEN 1 ELSE h.anomalies + 1
  IN  [anomalies      |-> anomalies,
       windowStart    |-> IF over THEN now ELSE h.windowStart,
       blacklistUntil |-> IF anomalies > HealthThreshold
                            THEN now + HealthBlacklist ELSE h.blacklistUntil]

CountAnomaly(h) ==
  LET over      == now - h.windowStart > HealthWindow
      anomalies == IF over THEN 1 ELSE h.anomalies + 1
  IN  [anomalies      |-> anomalies,
       windowStart    |-> IF over THEN now ELSE h.windowStart,
       blacklistUntil |-> IF anomalies >= HealthThreshold
                            THEN now + HealthBlacklist ELSE h.blacklistUntil]

RecordAnomaly(ip) ==
  Put(udpHealth, ip, IF ip \in DOMAIN udpHealth
                     THEN CountAnomaly(udpHealth[ip]) ELSE NewHealth)

------------------------------------------------------------------------------
(* TCP packets for the port *)

(* First fragment of a datagram, TCP or UDP alike. *)
Fragment(ip) == Refuse(ip, "ip_fragment", FALSE)

SourceSeen(ip) ==
  ip \in DOMAIN whitelist \cup DOMAIN synSeen \cup DOMAIN established

TcpNoSyn(ip) ==
  /\ ~SourceSeen(ip)
  /\ Refuse(ip, "tcp_no_syn", FALSE)

(* Mutant: off by one at the cap. *)
MoreThanMaxOpen(ip) ==
  /\ TcpMaxOpenPerIP > 0
  /\ ip \in DOMAIN openCount
  /\ openCount[ip] > TcpMaxOpenPerIP

TooManyOpen(ip) ==
  /\ TcpMaxOpenPerIP > 0
  /\ ip \in DOMAIN openCount
  /\ openCount[ip] >= TcpMaxOpenPerIP

SynTooManyOpen(ip) ==
  /\ TooManyOpen(ip)
  /\ Refuse(ip, "tcp_too_many_open", TRUE)

SynGlobalLimited(ip, cpu) ==
  /\ ~TooManyOpen(ip)
  /\ ~GlobalAllows(cpu)
  /\ Refuse(ip, "tcp_global_ratelimit", ip \in DOMAIN whitelist)

(* The segment survives the checks on its source.  A SYN is charged to the *)
(* CPU's bucket and remembered before anything else is known about it.     *)
Admit(ip, syn, cpu) ==
  \/ /\ ~syn
     /\ SourceSeen(ip)
     /\ UNCHANGED <<synSeen, tcpGlobalRatelimit>>
  \/ /\ syn
     /\ ~TooManyOpen(ip)
     /\ GlobalAllows(cpu)
     /\ synSeen' = Put(synSeen, ip, now)
     /\ tcpGlobalRatelimit' = GlobalCharged(cpu)

DropSegment(ip, syn, cpu, reason, knownSource, seen) ==
  /\ Admit(ip, syn, cpu)
  /\ DropPacket(ip, reason, knownSource, seen)
  /\ UNCHANGED <<whitelist, established, openCount, ipBuckets, udpHealth>>

(* A data offset below the header size or beyond the packet. *)
TcpMalformed(ip, syn, cpu) ==
  DropSegment(ip, syn, cpu, "malformed", FALSE, {})

(* Neither POST /client nor one of the GET endpoints. *)
TcpSegment(ip, syn, cpu) ==
  /\ Admit(ip, syn, cpu)
  /\ whitelist' = Refreshed(ip)
  /\ PassTcp(ip, syn, {})
  /\ UNCHANGED <<established, openCount, ipBuckets, udpHealth>>

(* A request whose user agent is CitizenFX without a version. *)
RequestBadUserAgent(ip, syn, cpu) ==
  DropSegment(ip, syn, cpu, "tcp_bad_user_agent", TRUE, {})

(* Mutant: the verdict of the bucket is ignored. *)
InitconnectAllowsAll(ip) == TRUE

InitconnectAllows(ip) ==
  Allows(initconnectRatelimit, ip, InitconnectPeriod, InitconnectBurst)

(* Mutant: a request is counted as seen once its bucket let it in. *)
PostLimitedUnseen(ip, syn, cpu) ==
  /\ ~InitconnectAllows(ip)
  /\ DropSegment(ip, syn, cpu, "tcp_initconnect_ratelimit", TRUE, {})

PostLimited(ip, syn, cpu) ==
  /\ ~InitconnectAllows(ip)
  /\ DropSegment(ip, syn, cpu, "tcp_initconnect_ratelimit", TRUE,
                 {"tcp_post_client_seen"})

(* What the three ways to accept a POST /client have in common. *)
PostAccepted(ip, syn, cpu, outcome) ==
  /\ Admit(ip, syn, cpu)
  /\ InitconnectAllows(ip)
  /\ initconnectRatelimit' =
       Charged(initconnectRatelimit, ip, InitconnectPeriod, InitconnectBurst)
  /\ PassTcp(ip, syn, {"tcp_post_client_seen", outcome})
  /\ UNCHANGED <<established, openCount, udpRatelimit, getinfoRatelimit,
                 udpHealth>>

(* Mutant: tcp_established is not consulted. *)
PromotesUnproven(ip, syn, cpu) ==
  /\ whitelist' = Put(whitelist, ip, now)
  /\ PostAccepted(ip, syn, cpu, "tcp_l7_promoted")

PostPromotes(ip, syn, cpu) ==
  /\ ip \in DOMAIN established
  /\ whitelist' = Put(whitelist, ip, now)
  /\ PostAccepted(ip, syn, cpu, "tcp_l7_promoted")

PostWithoutHandshake(ip, syn, cpu) ==
  /\ ip \notin DOMAIN established
  /\ whitelist' = Refreshed(ip)
  /\ PostAccepted(ip, syn, cpu, "tcp_l7_match_no_est")

PostUnknownUserAgent(ip, syn, cpu) ==
  /\ whitelist' = Refreshed(ip)
  /\ PostAccepted(ip, syn, cpu, "tcp_post_ua_unknown")

GetinfoAllows(ip) == Allows(getinfoRatelimit, ip, GetinfoPeriod, GetinfoBurst)

GetLimited(ip, syn, cpu) ==
  /\ ~GetinfoAllows(ip)
  /\ DropSegment(ip, syn, cpu, "tcp_getinfo_ratelimit", TRUE,
                 {"tcp_getinfo_seen"})

GetAccepted(ip, syn, cpu) ==
  /\ Admit(ip, syn, cpu)
  /\ GetinfoAllows(ip)
  /\ getinfoRatelimit' =
       Charged(getinfoRatelimit, ip, GetinfoPeriod, GetinfoBurst)
  /\ whitelist' = Refreshed(ip)
  /\ PassTcp(ip, syn, {"tcp_getinfo_seen"})
  /\ UNCHANGED <<established, openCount, udpRatelimit, initconnectRatelimit,
                 udpHealth>>

(* The outcomes of a TCP packet from ip handled on cpu. *)
TcpRefusedSource(ip, cpu) ==
  TcpNoSyn(ip) \/ SynTooManyOpen(ip) \/ SynGlobalLimited(ip, cpu)

TcpDropped(ip, syn, cpu) ==
  \/ TcpMalformed(ip, syn, cpu)
  \/ RequestBadUserAgent(ip, syn, cpu)
  \/ PostLimited(ip, syn, cpu)
  \/ GetLimited(ip, syn, cpu)

TcpPassed(ip, syn, cpu) ==
  \/ TcpSegment(ip, syn, cpu)
  \/ PostPromotes(ip, syn, cpu)
  \/ PostWithoutHandshake(ip, syn, cpu)
  \/ PostUnknownUserAgent(ip, syn, cpu)
  \/ GetAccepted(ip, syn, cpu)

------------------------------------------------------------------------------
(* UDP packets for the port *)

UdpNotWhitelisted(ip) ==
  /\ ip \notin DOMAIN whitelist
  /\ Refuse(ip, "udp_not_whitelisted", FALSE)

Fresh(ip) == ip \in DOMAIN whitelist /\ now - whitelist[ip] <= WhitelistTTL

UdpExpired(ip) ==
  /\ ip \in DOMAIN whitelist
  /\ ~Fresh(ip)
  /\ Refuse(ip, "udp_expired", TRUE)

(* Mutant: what is refused starts the blacklisting anew. *)
UnhealthyProlongs(ip) ==
  /\ Fresh(ip)
  /\ Blacklisted(ip)
  /\ udpHealth' =
       [udpHealth EXCEPT ![ip].blacklistUntil = now + HealthBlacklist]
  /\ DropPacket(ip, "udp_unhealthy", TRUE, {})
  /\ UNCHANGED <<whitelist, tcpMaps, ipBuckets, tcpGlobalRatelimit>>

UdpUnhealthy(ip) ==
  /\ Fresh(ip)
  /\ Blacklisted(ip)
  /\ Refuse(ip, "udp_unhealthy", TRUE)

(* Neither the out-of-band prefix nor a plausible ENet header. *)
UdpMalformed(ip) ==
  /\ Fresh(ip)
  /\ ~Blacklisted(ip)
  /\ udpHealth' = RecordAnomaly(ip)
  /\ DropPacket(ip, "udp_enet_malformed", TRUE, {})
  /\ UNCHANGED <<whitelist, tcpMaps, ipBuckets, tcpGlobalRatelimit>>

UdpAllows(ip) == Allows(udpRatelimit, ip, UdpPeriod, UdpBurst)

UdpLimited(ip) ==
  /\ Fresh(ip)
  /\ ~Blacklisted(ip)
  /\ ~UdpAllows(ip)
  /\ Refuse(ip, "udp_ratelimit", TRUE)

UdpPass(ip) ==
  /\ Fresh(ip)
  /\ ~Blacklisted(ip)
  /\ UdpAllows(ip)
  /\ udpRatelimit' = Charged(udpRatelimit, ip, UdpPeriod, UdpBurst)
  /\ whitelist' = Put(whitelist, ip, now)
  /\ Verdict({"pass_udp_whitelisted"})
  /\ UNCHANGED <<tcpMaps, initconnectRatelimit, getinfoRatelimit,
                 tcpGlobalRatelimit, udpHealth, dropHistory, kernel>>

UdpDropped(ip) ==
  \/ UdpNotWhitelisted(ip)
  \/ UdpExpired(ip)
  \/ UdpUnhealthy(ip)
  \/ UdpMalformed(ip)
  \/ UdpLimited(ip)

------------------------------------------------------------------------------
(* The sockops program and the kernel's side of TCP *)

OpenCountInc(ip) ==
  Put(openCount, ip, 1 + IF ip \in DOMAIN openCount THEN openCount[ip] ELSE 0)

(* Mutant: a close is not counted. *)
CloseUncounted(ip) == openCount

OpenCountDec(ip) ==
  IF ip \in DOMAIN openCount /\ openCount[ip] > 0
  THEN Put(openCount, ip, openCount[ip] - 1) ELSE openCount

(* BPF_SOCK_OPS_PASSIVE_ESTABLISHED_CB: a handshake completes. *)
Established(ip) ==
  /\ backlog[ip] > 0
  /\ backlog' = [backlog EXCEPT ![ip] = @ - 1]
  /\ sockets' = [sockets EXCEPT ![ip] = @ + 1]
  /\ established' = Put(established, ip, now)
  /\ openCount' = OpenCountInc(ip)
  /\ stats' = Bump({"tcp_established_inserts"})
  /\ UNCHANGED <<now, whitelist, synSeen, ipBuckets, tcpGlobalRatelimit,
                 udpHealth, dropHistory, load>>

(* BPF_SOCK_OPS_STATE_CB to BPF_TCP_CLOSE from a state after the handshake. *)
Closed(ip) ==
  /\ sockets[ip] > 0
  /\ sockets' = [sockets EXCEPT ![ip] = @ - 1]
  /\ openCount' = OpenCountDec(ip)
  /\ UNCHANGED <<now, whitelist, established, synSeen, ipBuckets,
                 tcpGlobalRatelimit, udpHealth, dropHistory, stats, backlog,
                 load>>

(* The kernel gives up on a handshake. *)
HandshakeLost(ip) ==
  /\ backlog[ip] > 0
  /\ backlog' = [backlog EXCEPT ![ip] = @ - 1]
  /\ UNCHANGED <<now, whitelist, tcpMaps, ipBuckets, tcpGlobalRatelimit,
                 udpHealth, dropHistory, stats, sockets, load>>

(* An insertion for another source into a full LRU map, or fivem-ebpf      *)
(* clear, removes the entry of ip from one map.                            *)
Evict(ip) ==
  \E m \in Evictable :
    LET Kept(name, map) == IF m = name THEN Forget(map, ip) ELSE map
    IN  /\ whitelist' = Kept("tcp_whitelist", whitelist)
        /\ established' = Kept("tcp_established", established)
        /\ synSeen' = Kept("tcp_syn_seen", synSeen)
        /\ openCount' = Kept("tcp_open_count", openCount)
        /\ udpRatelimit' = Kept("udp_ratelimit", udpRatelimit)
        /\ initconnectRatelimit' =
             Kept("initconnect_ratelimit", initconnectRatelimit)
        /\ getinfoRatelimit' = Kept("getinfo_ratelimit", getinfoRatelimit)
        /\ udpHealth' = Kept("udp_health", udpHealth)
        /\ dropHistory' = Kept("ip_drop_history", dropHistory)
        /\ UNCHANGED <<now, tcpGlobalRatelimit, stats, kernel, load>>

Tick ==
  /\ now < MaxTime
  /\ now' = now + 1
  /\ load' = 0
  /\ UNCHANGED <<whitelist, tcpMaps, ipBuckets, tcpGlobalRatelimit, udpHealth,
                 dropHistory, stats, kernel>>

------------------------------------------------------------------------------

Accepted(ip) ==
  UdpPass(ip) \/ \E syn \in BOOLEAN, cpu \in CPUs : TcpPassed(ip, syn, cpu)

Rejected(ip) ==
  \/ Fragment(ip)
  \/ UdpDropped(ip)
  \/ \E cpu \in CPUs : TcpRefusedSource(ip, cpu)
  \/ \E syn \in BOOLEAN, cpu \in CPUs : TcpDropped(ip, syn, cpu)

Kernel(ip) == Established(ip) \/ Closed(ip) \/ HandshakeLost(ip) \/ Evict(ip)

Next == Tick \/ \E ip \in IPs : Accepted(ip) \/ Rejected(ip) \/ Kernel(ip)

Spec == Init /\ [][Next]_vars

------------------------------------------------------------------------------

(* A map keyed by source whose values lie in Values. *)
Holds(map, Values) ==
  /\ DOMAIN map \subseteq IPs
  /\ \A ip \in DOMAIN map : map[ip] \in Values

Past == 0..now

PastBucket == {b \in Bucket : b.last <= now}

BucketBelow(burst) == {b \in PastBucket : b.tokens < burst}

Health ==
  [anomalies : Nat \ {0}, windowStart : Past,
   blacklistUntil : 0..(now + HealthBlacklist)]

History ==
  {h \in [first : Past, last : Past, counts : [Reasons -> Nat]] :
     h.first <= h.last}

ClockOK == now \in 0..MaxTime /\ load \in 0..MaxPerTick

TcpMapsOK ==
  /\ Holds(whitelist, Past)
  /\ Holds(established, Past)
  /\ Holds(synSeen, Past)
  /\ Holds(openCount, Nat)

BucketsOK ==
  /\ Holds(udpRatelimit, BucketBelow(UdpBurst))
  /\ Holds(initconnectRatelimit, BucketBelow(InitconnectBurst))
  /\ Holds(getinfoRatelimit, BucketBelow(GetinfoBurst))
  /\ tcpGlobalRatelimit \in [CPUs -> PastBucket]

CountersOK ==
  /\ stats \in [Stats -> Nat]
  /\ backlog \in [IPs -> 0..MaxBacklog]
  /\ sockets \in [IPs -> Nat]

(* Type invariant.  Every instant the maps hold lies in the past, so that  *)
(* no subtraction of a stored instant from the clock wraps (the handlers   *)
(* subtract without a check); a bucket holds fewer than burst tokens; a    *)
(* blacklisting ends within HealthBlacklist of now.                        *)
TypeOK ==
  /\ ClockOK
  /\ TcpMapsOK
  /\ BucketsOK
  /\ Holds(udpHealth, Health)
  /\ Holds(dropHistory, History)
  /\ CountersOK
==============================================================================
