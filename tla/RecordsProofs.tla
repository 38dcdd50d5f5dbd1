---------------------------- MODULE RecordsProofs ----------------------------
(***************************************************************************)
(* What the XDP program counts and records, for every configuration, any   *)
(* number of sources and CPUs and histories of any length: its counters    *)
(* and the drop history balance, and the malformed payloads it counts in   *)
(* tumbling windows blacklist whom they must, no one else, and for as long *)
(* as they must.                                                           *)
(***************************************************************************)
EXTENDS Accounting, HealthHistory, StatsReport, XdpFilterProofs,
        FiniteSetTheorems, SequenceTheorems

------------------------------------------------------------------------------
(* Accounting: each packet bumps one slot of its protocol, and a drop is   *)
(* recorded together with its counter.                                     *)

------------------------------------------------------------------------------
(* Sums *)

LEMMA FiniteUnits ==
  ASSUME NEW S, NEW f, IsFiniteSet(S), \A x \in S : f[x] \in Nat
  PROVE  IsFiniteSet(Units(f, S)) /\ SumOver(f, S) \in Nat
<1> DEFINE part == [x \in S |-> {x} \X (1..f[x])]
           Parts == {{x} \X (1..f[x]) : x \in S}
<1>1. part \in Surjection(S, Parts)
  BY DEF Surjection
<1>2. IsFiniteSet(Parts)
  BY <1>1, FS_Surjection
<1>3. ASSUME NEW x \in S PROVE IsFiniteSet({x} \X (1..f[x]))
  <2>1. IsFiniteSet(1..f[x])
    BY FS_Interval
  <2> QED BY <2>1, FS_Singleton, FS_Product
<1>4. IsFiniteSet(UNION Parts)
  BY <1>2, <1>3, FS_UNION
<1> QED BY <1>4, FS_CardinalityType DEF Units, SumOver

LEMMA SameSum ==
  ASSUME NEW S, NEW f, NEW g, \A x \in S : g[x] = f[x]
  PROVE  SumOver(g, S) = SumOver(f, S)
<1>1. Units(g, S) = Units(f, S)
  BY DEF Units
<1> QED BY <1>1 DEF SumOver

(* One unit more of y. *)
LEMMA OneMore ==
  ASSUME NEW S, NEW f, NEW g, NEW y \in S, IsFiniteSet(S),
         \A x \in S : f[x] \in Nat,
         g[y] = f[y] + 1, \A x \in S \ {y} : g[x] = f[x]
  PROVE  SumOver(g, S) = SumOver(f, S) + 1
<1> DEFINE unit == <<y, f[y] + 1>>
<1>1. f[y] \in Nat
  OBVIOUS
<1>2. unit \notin Units(f, S)
  <2>1. f[y] + 1 \notin 1..f[y]
    BY <1>1
  <2> QED BY <2>1 DEF Units
<1>3. 1..g[y] = (1..f[y]) \cup {f[y] + 1}
  BY <1>1
<1>4. Units(g, S) = Units(f, S) \cup {unit}
  <2>1. Units(g, S) \subseteq Units(f, S) \cup {unit}
    BY <1>3 DEF Units
  <2>2. Units(f, S) \cup {unit} \subseteq Units(g, S)
    BY <1>3 DEF Units
  <2> QED BY <2>1, <2>2
<1> HIDE DEF unit
<1>5. IsFiniteSet(Units(f, S))
  BY FiniteUnits
<1> QED BY <1>2, <1>4, <1>5, FS_AddElement DEF SumOver

(* An element more, worth one unit or none. *)
LEMMA NewElement ==
  ASSUME NEW S, NEW f, NEW g, NEW y, y \notin S, IsFiniteSet(S),
         \A x \in S : f[x] \in Nat /\ g[x] = f[x]
  PROVE  /\ g[y] = 0 => SumOver(g, S \cup {y}) = SumOver(f, S)
         /\ g[y] = 1 => SumOver(g, S \cup {y}) = SumOver(f, S) + 1
<1>1. Units(g, S \cup {y}) = Units(f, S) \cup ({y} \X (1..g[y]))
  BY DEF Units
<1>2. ASSUME g[y] = 0 PROVE SumOver(g, S \cup {y}) = SumOver(f, S)
  <2>1. 1..g[y] = {}
    BY <1>2
  <2>2. {y} \X (1..g[y]) = {}
    BY <2>1
  <2> QED BY <1>1, <2>2 DEF SumOver
<1>3. ASSUME g[y] = 1 PROVE SumOver(g, S \cup {y}) = SumOver(f, S) + 1
  <2>1. 1..g[y] = {1}
    BY <1>3
  <2>2. {y} \X (1..g[y]) = {<<y, 1>>}
    BY <2>1
  <2>3. <<y, 1>> \notin Units(f, S)
    BY DEF Units
  <2>4. IsFiniteSet(Units(f, S))
    BY FiniteUnits
  <2>5. Cardinality(Units(f, S) \cup {<<y, 1>>})
          = Cardinality(Units(f, S)) + 1
    BY <2>3, <2>4, FS_AddElement
  <2> QED BY <1>1, <2>2, <2>5 DEF SumOver
<1> QED BY <1>2, <1>3

LEMMA FewerElements ==
  ASSUME NEW S, NEW T, NEW f, NEW g, T \subseteq S, IsFiniteSet(S),
         \A x \in S : f[x] \in Nat, \A x \in T : g[x] = f[x]
  PROVE  SumOver(g, T) <= SumOver(f, S)
<1>1. Units(g, T) \in SUBSET Units(f, S)
  BY DEF Units
<1> QED BY <1>1, FiniteUnits, FS_Subset DEF SumOver

------------------------------------------------------------------------------
(* Which slots the handlers bump *)

ConnectBumps == {{"tcp_initconnect_ratelimit", "tcp_post_client_seen"},
                 {"pass_tcp", "tcp_post_client_seen", "tcp_l7_promoted"},
                 {"pass_tcp", "tcp_post_client_seen", "tcp_l7_match_no_est"},
                 {"pass_tcp", "tcp_post_client_seen", "tcp_post_ua_unknown"}}

InfoBumps == {{"tcp_getinfo_ratelimit", "tcp_getinfo_seen"},
              {"pass_tcp", "tcp_getinfo_seen"}}

RequestBumps == {{"tcp_bad_user_agent"}} \cup ConnectBumps \cup InfoBumps

SegmentBumps == {{"pass_tcp"}, {"malformed"}, {"tcp_no_syn"},
                 {"tcp_global_ratelimit"}, {"tcp_too_many_open"}}

UdpBumps == {{s} : s \in {"pass_udp_whitelisted"} \cup DropUdp}

KernelBumps == {{}, {"tcp_established_inserts"}}

LEMMA BotStats ==
  ASSUME NEW ip \in IPs, BotRequest(ip)
  PROVE  stats' = Bump({"tcp_bad_user_agent"})
BY DEF BotRequest, RequestBadUserAgent, DropSegment, DropPacket, Verdict

LEMMA PostStats ==
  ASSUME NEW ip \in IPs, PostRequest(ip)
  PROVE  \E B \in ConnectBumps : stats' = Bump(B)
BY DEF PostRequest, ConnectBumps, PostLimited, PostPromotes,
       PostWithoutHandshake, PostUnknownUserAgent, PostAccepted, DropSegment,
       DropPacket, PassTcp, Verdict

LEMMA GetStats ==
  ASSUME NEW ip \in IPs, GetRequest(ip)
  PROVE  \E B \in InfoBumps : stats' = Bump(B)
BY DEF GetRequest, InfoBumps, GetLimited, GetAccepted, DropSegment,
       DropPacket, PassTcp, Verdict

LEMMA RequestStats ==
  ASSUME NEW ip \in IPs, Request(ip)
  PROVE  \E B \in RequestBumps : stats' = Bump(B)
<1>1. /\ {"tcp_bad_user_agent"} \in RequestBumps
      /\ ConnectBumps \subseteq RequestBumps
      /\ InfoBumps \subseteq RequestBumps
  BY DEF RequestBumps
<1> QED BY <1>1, BotStats, PostStats, GetStats DEF Request

LEMMA SegmentStats ==
  ASSUME NEW ip \in IPs, OtherTcp(ip)
  PROVE  \E B \in SegmentBumps : stats' = Bump(B)
BY DEF OtherTcp, SegmentBumps, TcpRefusedSource, TcpNoSyn, SynTooManyOpen,
       SynGlobalLimited, TcpMalformed, TcpSegment, Refuse, DropSegment,
       DropPacket, PassTcp, Verdict

LEMMA UdpStats ==
  ASSUME NEW ip \in IPs, Udp(ip)
  PROVE  \E B \in UdpBumps : stats' = Bump(B)
BY DEF Udp, UdpBumps, DropUdp, UdpDropped, UdpPass, UdpNotWhitelisted,
       UdpExpired, UdpUnhealthy, UdpMalformed, UdpLimited, Refuse, DropPacket,
       Verdict

LEMMA FragmentStats ==
  ASSUME NEW ip \in IPs, Fragment(ip)
  PROVE  stats' = Bump({"ip_fragment"})
BY DEF Fragment, Refuse, DropPacket, Verdict

LEMMA KernelStats ==
  ASSUME TypeOK, NEW ip \in IPs, Kernel(ip)
  PROVE  \E B \in KernelBumps : stats' = Bump(B)
<1>1. UNCHANGED stats => stats' = Bump({})
  BY DEF TypeOK, CountersOK, Bump
<1> QED BY <1>1 DEF Kernel, KernelBumps, Established, Closed, HandshakeLost,
                    Evict

LEMMA BumpSum ==
  ASSUME TypeOK, NEW B, stats' = Bump(B),
         NEW S \in SUBSET Stats, IsFiniteSet(S)
  PROVE  /\ SumOfStats(S) \in Nat
         /\ B \cap S = {} => SumOfStats(S)' = SumOfStats(S)
         /\ \A v : B \cap S = {v} => SumOfStats(S)' = SumOfStats(S) + 1
<1>1. stats \in [Stats -> Nat] /\ \A x \in S : stats[x] \in Nat
  BY DEF TypeOK, CountersOK
<1>2. \A x \in S : stats'[x] = IF x \in B THEN stats[x] + 1 ELSE stats[x]
  BY DEF Bump
<1>3. SumOfStats(S) \in Nat
  BY <1>1, FiniteUnits DEF SumOfStats
<1>4. ASSUME B \cap S = {} PROVE SumOfStats(S)' = SumOfStats(S)
  <2>1. \A x \in S : stats'[x] = stats[x]
    BY <1>2, <1>4
  <2>2. SumOver(stats', S) = SumOver(stats, S)
    BY <2>1, SameSum
  <2> QED BY <2>2 DEF SumOfStats, SumOver, Units
<1>5. ASSUME NEW v, B \cap S = {v}
      PROVE  SumOfStats(S)' = SumOfStats(S) + 1
  <2>1. /\ v \in S /\ stats'[v] = stats[v] + 1
        /\ \A x \in S \ {v} : stats'[x] = stats[x]
    BY <1>2, <1>5
  <2>2. SumOver(stats', S) = SumOver(stats, S) + 1
    BY <1>1, <2>1, OneMore
  <2> QED BY <2>2 DEF SumOfStats, SumOver, Units
<1> QED BY <1>3, <1>4, <1>5

LEMMA FewStats == IsFiniteSet(Stats)
<1>1. \A a, b, c : IsFiniteSet({a, b, c})
  <2>1. \A a : IsFiniteSet({a})
    BY FS_Singleton
  <2>2. \A a, b : IsFiniteSet({a} \cup {b})
    BY <2>1, FS_Union
  <2>3. \A a, b, c : IsFiniteSet(({a} \cup {b}) \cup {c})
    BY <2>1, <2>2, FS_Union
  <2> TAKE a, b, c
  <2> DEFINE T == ({a} \cup {b}) \cup {c}
  <2>4. {a, b, c} = T
    OBVIOUS
  <2>5. IsFiniteSet(T)
    BY <2>3
  <2> HIDE DEF T
  <2> QED BY <2>4, <2>5
<1> DEFINE
  A == {"tcp_no_syn", "tcp_too_many_open", "tcp_global_ratelimit"}
  B == {"tcp_bad_user_agent", "tcp_initconnect_ratelimit",
        "tcp_getinfo_ratelimit"}
  C == {"malformed", "udp_not_whitelisted", "udp_expired"}
  D == {"udp_unhealthy", "udp_enet_malformed", "udp_ratelimit"}
  E == {"ip_fragment", "pass_tcp", "pass_udp_whitelisted"}
  F == {"tcp_established_inserts", "tcp_l7_promoted", "tcp_l7_match_no_est"}
  G == {"tcp_post_client_seen", "tcp_getinfo_seen", "tcp_post_ua_unknown"}
<1>2. Stats = ((A \cup B) \cup (C \cup D)) \cup ((E \cup F) \cup G)
  BY DEF Stats, Reasons
<1>3. /\ IsFiniteSet(A) /\ IsFiniteSet(B) /\ IsFiniteSet(C) /\ IsFiniteSet(D)
      /\ IsFiniteSet(E) /\ IsFiniteSet(F) /\ IsFiniteSet(G)
  BY <1>1
<1> HIDE DEF A, B, C, D, E, F, G
<1>4. /\ IsFiniteSet(A \cup B) /\ IsFiniteSet(C \cup D)
      /\ IsFiniteSet(E \cup F)
  BY <1>3, FS_Union
<1>5. /\ IsFiniteSet((A \cup B) \cup (C \cup D))
      /\ IsFiniteSet((E \cup F) \cup G)
  BY <1>3, <1>4, FS_Union
<1> QED BY <1>2, <1>5, FS_Union

------------------------------------------------------------------------------
(* Packets *)

DroppedTcp == {"malformed"} \cup DropTcp

(* A handler bumps one of the slots of a set, or none of them. *)
OneOf(B, S) == \E v \in S : B \cap S = {v}
NoneOf(B, S) == B \cap S = {}

(* What a packet of each protocol bumps, and what other events do not. *)
TcpBump(B) ==
  /\ OneOf(B, Emitted.tcp)
  /\ \/ "pass_tcp" \in B /\ NoneOf(B, DroppedTcp)
     \/ "pass_tcp" \notin B /\ OneOf(B, DroppedTcp)
TcpQuiet(B) ==
  NoneOf(B, Emitted.tcp) /\ "pass_tcp" \notin B /\ NoneOf(B, DroppedTcp)

UdpBump(B) ==
  /\ OneOf(B, Emitted.udp)
  /\ \/ "pass_udp_whitelisted" \in B /\ NoneOf(B, DropUdp)
     \/ "pass_udp_whitelisted" \notin B /\ OneOf(B, DropUdp)
UdpQuiet(B) ==
  /\ NoneOf(B, Emitted.udp)
  /\ "pass_udp_whitelisted" \notin B /\ NoneOf(B, DropUdp)

IpBump(B) == OneOf(B, Emitted.ip) /\ "ip_fragment" \in B
IpQuiet(B) == NoneOf(B, Emitted.ip) /\ "ip_fragment" \notin B

LEMMA TcpBumps ==
  ASSUME NEW B \in RequestBumps \cup SegmentBumps
  PROVE  TcpBump(B) /\ UdpQuiet(B) /\ IpQuiet(B)
<1>1. CASE "pass_tcp" \in B
  <2>1. B \cap Emitted.tcp = {"pass_tcp"} /\ NoneOf(B, DroppedTcp)
    BY <1>1 DEF RequestBumps, ConnectBumps, InfoBumps, SegmentBumps, NoneOf,
                Emitted, DroppedTcp, DropTcp
  <2>2. "pass_tcp" \in Emitted.tcp
    BY DEF Emitted
  <2>3. UdpQuiet(B) /\ IpQuiet(B)
    BY <1>1 DEF RequestBumps, ConnectBumps, InfoBumps, SegmentBumps, NoneOf,
                Emitted, DropUdp, UdpQuiet, IpQuiet
  <2> QED BY <1>1, <2>1, <2>2, <2>3 DEF TcpBump, OneOf
<1>2. CASE "pass_tcp" \notin B
  <2>1. PICK v \in DroppedTcp :
          B \in {{v}, {v, "tcp_post_client_seen"}, {v, "tcp_getinfo_seen"}}
    BY <1>2 DEF RequestBumps, ConnectBumps, InfoBumps, SegmentBumps,
                DroppedTcp, DropTcp
  <2>2. /\ v \in Emitted.tcp
        /\ {"tcp_post_client_seen", "tcp_getinfo_seen"}
              \cap (Emitted.tcp \cup DroppedTcp) = {}
    BY DEF Emitted, DroppedTcp, DropTcp
  <2>3. B \cap Emitted.tcp = {v} /\ B \cap DroppedTcp = {v}
    BY <2>1, <2>2
  <2>4. UdpQuiet(B) /\ IpQuiet(B)
    <3>1. /\ v \notin Emitted.udp \cup DropUdp \cup Emitted.ip
          /\ v \notin {"pass_udp_whitelisted", "ip_fragment"}
      BY DEF DroppedTcp, DropTcp, Emitted, DropUdp
    <3>2. {"tcp_post_client_seen", "tcp_getinfo_seen"} \cap
            (Emitted.udp \cup DropUdp \cup Emitted.ip
               \cup {"pass_udp_whitelisted", "ip_fragment"}) = {}
      BY DEF Emitted, DropUdp
    <3> QED BY <2>1, <3>1, <3>2 DEF UdpQuiet, IpQuiet, NoneOf
  <2> QED BY <1>2, <2>2, <2>3, <2>4 DEF TcpBump, OneOf
<1> QED BY <1>1, <1>2

LEMMA UdpBumpsOnly ==
  ASSUME NEW B \in UdpBumps
  PROVE  TcpQuiet(B) /\ UdpBump(B) /\ IpQuiet(B)
<1>1. PICK s \in {"pass_udp_whitelisted"} \cup DropUdp : B = {s}
  BY DEF UdpBumps
<1>2. s \in Emitted.udp /\ (s \in DropUdp <=> s # "pass_udp_whitelisted")
  BY DEF Emitted, DropUdp
<1>3. /\ s \notin Emitted.tcp \cup DroppedTcp \cup Emitted.ip
      /\ s # "pass_tcp" /\ s # "ip_fragment"
  BY DEF Emitted, DropUdp, DroppedTcp, DropTcp
<1>4. UdpBump(B)
  BY <1>1, <1>2 DEF UdpBump, OneOf, NoneOf
<1>5. TcpQuiet(B) /\ IpQuiet(B)
  BY <1>1, <1>3 DEF TcpQuiet, IpQuiet, NoneOf
<1> QED BY <1>4, <1>5

LEMMA FragmentBumps ==
  LET B == {"ip_fragment"} IN TcpQuiet(B) /\ UdpQuiet(B) /\ IpBump(B)
BY DEF TcpQuiet, UdpQuiet, IpBump, OneOf, NoneOf, Emitted, DroppedTcp,
       DropTcp, DropUdp

LEMMA KernelBumpsNone ==
  ASSUME NEW B \in KernelBumps
  PROVE  TcpQuiet(B) /\ UdpQuiet(B) /\ IpQuiet(B)
BY DEF KernelBumps, TcpQuiet, UdpQuiet, IpQuiet, NoneOf, Emitted, DroppedTcp,
       DropTcp, DropUdp

LEMMA ProtocolSlots ==
  /\ Emitted.tcp \subseteq Stats /\ IsFiniteSet(Emitted.tcp)
  /\ Emitted.udp \subseteq Stats /\ IsFiniteSet(Emitted.udp)
  /\ Emitted.ip \subseteq Stats /\ IsFiniteSet(Emitted.ip)
  /\ DroppedTcp \subseteq Stats /\ IsFiniteSet(DroppedTcp)
  /\ DropUdp \subseteq Stats /\ IsFiniteSet(DropUdp)
<1>1. /\ Emitted.tcp \subseteq Stats /\ Emitted.udp \subseteq Stats
      /\ Emitted.ip \subseteq Stats /\ DroppedTcp \subseteq Stats
      /\ DropUdp \subseteq Stats
  BY DEF Emitted, DroppedTcp, DropTcp, DropUdp, Stats, Reasons
<1>2. \A S \in SUBSET Stats : IsFiniteSet(S)
  BY FewStats, FS_Subset
<1> QED BY <1>1, <1>2

(* How an event moves the two totals of a protocol. *)
LEMMA TcpTotals ==
  ASSUME TypeOK, NEW B, stats' = Bump(B)
  PROVE  /\ TcpBump(B) =>
              /\ SumOfStats(Emitted.tcp)' = SumOfStats(Emitted.tcp) + 1
              /\ stats'["pass_tcp"] + SumOfStats(DroppedTcp)'
                   = stats["pass_tcp"] + SumOfStats(DroppedTcp) + 1
         /\ TcpQuiet(B) =>
              /\ SumOfStats(Emitted.tcp)' = SumOfStats(Emitted.tcp)
              /\ stats'["pass_tcp"] + SumOfStats(DroppedTcp)'
                   = stats["pass_tcp"] + SumOfStats(DroppedTcp)
<1>1. /\ stats["pass_tcp"] \in Nat
      /\ stats'["pass_tcp"] = IF "pass_tcp" \in B THEN stats["pass_tcp"] + 1
                              ELSE stats["pass_tcp"]
  BY DEF TypeOK, CountersOK, Bump, Stats
<1>2. /\ SumOfStats(Emitted.tcp) \in Nat
      /\ NoneOf(B, Emitted.tcp) =>
           SumOfStats(Emitted.tcp)' = SumOfStats(Emitted.tcp)
      /\ OneOf(B, Emitted.tcp) =>
           SumOfStats(Emitted.tcp)' = SumOfStats(Emitted.tcp) + 1
  BY BumpSum, ProtocolSlots DEF NoneOf, OneOf
<1>3. /\ SumOfStats(DroppedTcp) \in Nat
      /\ NoneOf(B, DroppedTcp) =>
           SumOfStats(DroppedTcp)' = SumOfStats(DroppedTcp)
      /\ OneOf(B, DroppedTcp) =>
           SumOfStats(DroppedTcp)' = SumOfStats(DroppedTcp) + 1
  BY BumpSum, ProtocolSlots DEF NoneOf, OneOf
<1> QED BY <1>1, <1>2, <1>3 DEF TcpBump, TcpQuiet

LEMMA UdpTotals ==
  ASSUME TypeOK, NEW B, stats' = Bump(B)
  PROVE  /\ UdpBump(B) =>
              /\ SumOfStats(Emitted.udp)' = SumOfStats(Emitted.udp) + 1
              /\ stats'["pass_udp_whitelisted"] + SumOfStats(DropUdp)'
                   = stats["pass_udp_whitelisted"] + SumOfStats(DropUdp) + 1
         /\ UdpQuiet(B) =>
              /\ SumOfStats(Emitted.udp)' = SumOfStats(Emitted.udp)
              /\ stats'["pass_udp_whitelisted"] + SumOfStats(DropUdp)'
                   = stats["pass_udp_whitelisted"] + SumOfStats(DropUdp)
<1>1. /\ stats["pass_udp_whitelisted"] \in Nat
      /\ stats'["pass_udp_whitelisted"] =
           IF "pass_udp_whitelisted" \in B
           THEN stats["pass_udp_whitelisted"] + 1
           ELSE stats["pass_udp_whitelisted"]
  BY DEF TypeOK, CountersOK, Bump, Stats
<1>2. /\ SumOfStats(Emitted.udp) \in Nat
      /\ NoneOf(B, Emitted.udp) =>
           SumOfStats(Emitted.udp)' = SumOfStats(Emitted.udp)
      /\ OneOf(B, Emitted.udp) =>
           SumOfStats(Emitted.udp)' = SumOfStats(Emitted.udp) + 1
  BY BumpSum, ProtocolSlots DEF NoneOf, OneOf
<1>3. /\ SumOfStats(DropUdp) \in Nat
      /\ NoneOf(B, DropUdp) => SumOfStats(DropUdp)' = SumOfStats(DropUdp)
      /\ OneOf(B, DropUdp) => SumOfStats(DropUdp)' = SumOfStats(DropUdp) + 1
  BY BumpSum, ProtocolSlots DEF NoneOf, OneOf
<1> QED BY <1>1, <1>2, <1>3 DEF UdpBump, UdpQuiet

LEMMA IpTotals ==
  ASSUME TypeOK, NEW B, stats' = Bump(B)
  PROVE  /\ IpBump(B) =>
              /\ SumOfStats(Emitted.ip)' = SumOfStats(Emitted.ip) + 1
              /\ stats'["ip_fragment"] = stats["ip_fragment"] + 1
         /\ IpQuiet(B) =>
              /\ SumOfStats(Emitted.ip)' = SumOfStats(Emitted.ip)
              /\ stats'["ip_fragment"] = stats["ip_fragment"]
<1>1. stats'["ip_fragment"] =
        IF "ip_fragment" \in B THEN stats["ip_fragment"] + 1
        ELSE stats["ip_fragment"]
  BY DEF Bump, Stats, Reasons
<1>2. /\ NoneOf(B, Emitted.ip) =>
           SumOfStats(Emitted.ip)' = SumOfStats(Emitted.ip)
      /\ OneOf(B, Emitted.ip) =>
           SumOfStats(Emitted.ip)' = SumOfStats(Emitted.ip) + 1
  BY BumpSum, ProtocolSlots DEF NoneOf, OneOf
<1> QED BY <1>1, <1>2 DEF IpBump, IpQuiet

(* PacketsAddUp, total by total. *)
Balanced ==
  /\ handled \in [Protocols -> Nat]
  /\ SumOfStats(Emitted.tcp) = handled.tcp
  /\ stats["pass_tcp"] + SumOfStats(DroppedTcp) = handled.tcp
  /\ SumOfStats(Emitted.udp) = handled.udp
  /\ stats["pass_udp_whitelisted"] + SumOfStats(DropUdp) = handled.udp
  /\ SumOfStats(Emitted.ip) = handled.ip
  /\ stats["ip_fragment"] = handled.ip

LEMMA BalancedMeans == Balanced => PacketsAddUp
<1> SUFFICES ASSUME Balanced PROVE PacketsAddUp
  OBVIOUS
<1>1. /\ Summary.passTCP = stats["pass_tcp"]
      /\ Summary.dropTCP = SumOfStats(DroppedTcp)
      /\ Summary.passUDP = stats["pass_udp_whitelisted"]
      /\ Summary.dropUDP = SumOfStats(DropUdp)
      /\ Summary.ipFragments = stats["ip_fragment"]
  BY DEF Summary, DroppedTcp
<1>2. \A p \in Protocols : SumOfStats(Emitted[p]) = handled[p]
  BY DEF Balanced, Protocols
<1> QED BY <1>1, <1>2 DEF PacketsAddUp, Balanced

(* One packet of a protocol, or none. *)
LEMMA BalancedBump ==
  ASSUME TypeOK, Balanced, NEW B, stats' = Bump(B)
  PROVE  /\ TcpBump(B) /\ UdpQuiet(B) /\ IpQuiet(B) /\ Handled("tcp")
              => Balanced'
         /\ TcpQuiet(B) /\ UdpBump(B) /\ IpQuiet(B) /\ Handled("udp")
              => Balanced'
         /\ TcpQuiet(B) /\ UdpQuiet(B) /\ IpBump(B) /\ Handled("ip")
              => Balanced'
         /\ TcpQuiet(B) /\ UdpQuiet(B) /\ IpQuiet(B) /\ UNCHANGED handled
              => Balanced'
<1>1. ASSUME NEW p \in Protocols, Handled(p)
      PROVE  /\ handled' \in [Protocols -> Nat]
             /\ handled'[p] = handled[p] + 1
             /\ \A q \in Protocols \ {p} : handled'[q] = handled[q]
  BY <1>1 DEF Balanced, Handled
<1>2. CASE TcpBump(B) /\ UdpQuiet(B) /\ IpQuiet(B) /\ Handled("tcp")
  <2>1. /\ handled' \in [Protocols -> Nat]
        /\ handled'.tcp = handled.tcp + 1
        /\ handled'.udp = handled.udp /\ handled'.ip = handled.ip
    BY <1>1, <1>2 DEF Protocols
  <2> QED BY <1>2, <2>1, TcpTotals, UdpTotals, IpTotals DEF Balanced
<1>3. CASE TcpQuiet(B) /\ UdpBump(B) /\ IpQuiet(B) /\ Handled("udp")
  <2>1. /\ handled' \in [Protocols -> Nat]
        /\ handled'.udp = handled.udp + 1
        /\ handled'.tcp = handled.tcp /\ handled'.ip = handled.ip
    BY <1>1, <1>3 DEF Protocols
  <2> QED BY <1>3, <2>1, TcpTotals, UdpTotals, IpTotals DEF Balanced
<1>4. CASE TcpQuiet(B) /\ UdpQuiet(B) /\ IpBump(B) /\ Handled("ip")
  <2>1. /\ handled' \in [Protocols -> Nat]
        /\ handled'.ip = handled.ip + 1
        /\ handled'.tcp = handled.tcp /\ handled'.udp = handled.udp
    BY <1>1, <1>4 DEF Protocols
  <2> QED BY <1>4, <2>1, TcpTotals, UdpTotals, IpTotals DEF Balanced
<1>5. CASE TcpQuiet(B) /\ UdpQuiet(B) /\ IpQuiet(B) /\ UNCHANGED handled
  BY <1>5, TcpTotals, UdpTotals, IpTotals DEF Balanced
<1> QED BY <1>2, <1>3, <1>4, <1>5

avars == <<vars, handled, requests>>

(* The count only watches. *)
LEMMA ANextIsNext ==
  ASSUME [ANext]_avars
  PROVE  [Next]_vars
<1>1. ASSUME NEW ip \in IPs, Request(ip) \/ OtherTcp(ip) \/ Udp(ip)
      PROVE  Accepted(ip) \/ Rejected(ip)
  BY <1>1 DEF Request, BotRequest, PostRequest, GetRequest, OtherTcp, Udp,
              Accepted, Rejected, TcpPassed, TcpDropped
<1>2. ASSUME NEW ip \in IPs, Fragment(ip) PROVE Rejected(ip)
  BY <1>2 DEF Rejected
<1> QED BY <1>1, <1>2 DEF ANext, Next, avars

LEMMA ATypes == ASpec => []TypeOK
<1>1. AInit => TypeOK
  BY InitTypes DEF AInit
<1>2. TypeOK /\ [ANext]_avars => TypeOK'
  BY ANextIsNext, NextTypes
<1> QED BY <1>1, <1>2, PTL DEF ASpec, avars

LEMMA NothingYet ==
  ASSUME Init, NEW S \in SUBSET Stats
  PROVE  SumOfStats(S) = 0
<1>1. \A x \in S : stats[x] = 0
  BY DEF Init
<1>2. \A x \in S : 1..stats[x] = {}
  BY <1>1
<1>3. Units(stats, S) = {}
  BY <1>2 DEF Units
<1> QED BY <1>3, FS_EmptySet DEF SumOfStats, SumOver

LEMMA BalancedInit == AInit => Balanced
<1> SUFFICES ASSUME AInit PROVE Balanced
  OBVIOUS
<1>1. /\ SumOfStats(Emitted.tcp) = 0 /\ SumOfStats(Emitted.udp) = 0
      /\ SumOfStats(Emitted.ip) = 0 /\ SumOfStats(DroppedTcp) = 0
      /\ SumOfStats(DropUdp) = 0
  BY NothingYet, ProtocolSlots DEF AInit
<1>2. /\ stats["pass_tcp"] = 0 /\ stats["pass_udp_whitelisted"] = 0
      /\ stats["ip_fragment"] = 0
  BY DEF AInit, Init, Stats, Reasons
<1>3. /\ handled \in [Protocols -> Nat] /\ handled.tcp = 0
      /\ handled.udp = 0 /\ handled.ip = 0
  BY DEF AInit, Protocols
<1> QED BY <1>1, <1>2, <1>3 DEF Balanced

LEMMA BalancedNext ==
  ASSUME TypeOK, Balanced, [ANext]_avars
  PROVE  Balanced'
<1>1. CASE UNCHANGED avars \/ (Tick /\ UNCHANGED <<handled, requests>>)
  <2>1. UNCHANGED <<stats, handled>>
    BY <1>1 DEF avars, vars, Tick
  <2> QED BY <2>1 DEF Balanced, SumOfStats, SumOver, Units
<1>2. ASSUME NEW ip \in IPs, Request(ip) \/ OtherTcp(ip), Handled("tcp")
      PROVE  Balanced'
  <2>1. PICK B \in RequestBumps \cup SegmentBumps : stats' = Bump(B)
    BY <1>2, RequestStats, SegmentStats
  <2>2. TcpBump(B) /\ UdpQuiet(B) /\ IpQuiet(B)
    BY TcpBumps
  <2> QED BY <1>2, <2>1, <2>2, BalancedBump
<1>3. ASSUME NEW ip \in IPs, Udp(ip), Handled("udp")
      PROVE  Balanced'
  <2>1. PICK B \in UdpBumps : stats' = Bump(B)
    BY <1>3, UdpStats
  <2>2. TcpQuiet(B) /\ UdpBump(B) /\ IpQuiet(B)
    BY UdpBumpsOnly
  <2> QED BY <1>3, <2>1, <2>2, BalancedBump
<1>4. ASSUME NEW ip \in IPs, Fragment(ip), Handled("ip")
      PROVE  Balanced'
  BY <1>4, FragmentStats, FragmentBumps, BalancedBump
<1>5. ASSUME NEW ip \in IPs, Kernel(ip), UNCHANGED handled
      PROVE  Balanced'
  <2>1. PICK B \in KernelBumps : stats' = Bump(B)
    BY <1>5, KernelStats
  <2>2. TcpQuiet(B) /\ UdpQuiet(B) /\ IpQuiet(B)
    BY KernelBumpsNone
  <2> QED BY <1>5, <2>1, <2>2, BalancedBump
<1> QED BY <1>1, <1>2, <1>3, <1>4, <1>5 DEF ANext

(* Whatever path a packet for the port takes through the XDP program, it   *)
(* ends in one verdict counter, of its protocol: the totals of `info` and  *)
(* those of the metrics are the packets that arrived.                      *)
THEOREM PacketsAlwaysAddUp == ASpec => []PacketsAddUp
<1>1. TypeOK /\ Balanced /\ [ANext]_avars => Balanced'
  BY BalancedNext
<1> QED BY <1>1, ATypes, BalancedInit, BalancedMeans, PTL DEF ASpec, avars

------------------------------------------------------------------------------
(* Requests *)

Inspected == {"tcp_bad_user_agent", "tcp_post_client_seen",
              "tcp_getinfo_seen"}

RequestSlots == Inspected \cup Outcomes

LEMMA RequestSets ==
  /\ Inspected \subseteq Stats
  /\ Outcomes \subseteq Stats /\ IsFiniteSet(Outcomes)
<1>1. Inspected \subseteq Stats /\ Outcomes \subseteq Stats
  BY DEF Inspected, Outcomes, Stats, Reasons
<1> QED BY <1>1, FewStats, FS_Subset

(* A POST that is let to its limiter bumps the counter of those seen and   *)
(* one outcome.                                                            *)
LEMMA ConnectBump ==
  ASSUME NEW B \in ConnectBumps
  PROVE  /\ B \cap Inspected = {"tcp_post_client_seen"}
         /\ OneOf(B, Outcomes)
<1>1. PICK o \in Outcomes :
        B \in {{"tcp_post_client_seen", o},
               {"pass_tcp", "tcp_post_client_seen", o}}
  BY DEF ConnectBumps, Outcomes
<1>2. "pass_tcp" \notin RequestSlots
  BY DEF RequestSlots, Inspected, Outcomes
<1>3. /\ "tcp_post_client_seen" \in Inspected
      /\ "tcp_post_client_seen" \notin Outcomes /\ o \notin Inspected
  BY DEF Inspected, Outcomes
<1>4. /\ B \cap Inspected = {"tcp_post_client_seen"}
      /\ B \cap Outcomes = {o}
  BY <1>1, <1>2, <1>3 DEF RequestSlots
<1> QED BY <1>1, <1>4 DEF OneOf

LEMMA InfoBump ==
  ASSUME NEW B \in InfoBumps
  PROVE  B \cap Inspected = {"tcp_getinfo_seen"} /\ NoneOf(B, Outcomes)
BY DEF InfoBumps, Inspected, Outcomes, NoneOf

LEMMA OtherBump ==
  ASSUME NEW B \in SegmentBumps \cup UdpBumps \cup {{"ip_fragment"}}
                     \cup KernelBumps
  PROVE  B \cap RequestSlots = {}
<1>1. CASE B \in UdpBumps
  <2>1. ({"pass_udp_whitelisted"} \cup DropUdp) \cap RequestSlots = {}
    BY DEF DropUdp, RequestSlots, Inspected, Outcomes
  <2> QED BY <1>1, <2>1 DEF UdpBumps
<1>2. CASE B \in SegmentBumps \cup {{"ip_fragment"}} \cup KernelBumps
  BY <1>2 DEF SegmentBumps, KernelBumps, RequestSlots, Inspected, Outcomes
<1> QED BY <1>1, <1>2

(* What the code makes of RequestsAccountedFor: a bot's request is in no   *)
(* counter of those seen.                                                  *)
Answered ==
  /\ requests \in [RequestKinds -> Nat]
  /\ requests.bot = stats["tcp_bad_user_agent"]
  /\ requests.post = stats["tcp_post_client_seen"]
  /\ requests.get = stats["tcp_getinfo_seen"]
  /\ requests.post = SumOfStats(Outcomes)

LEMMA AnsweredInit == AInit => Answered
<1> SUFFICES ASSUME AInit PROVE Answered
  OBVIOUS
<1>1. SumOfStats(Outcomes) = 0
  BY NothingYet, RequestSets DEF AInit
<1>2. /\ stats["tcp_bad_user_agent"] = 0 /\ stats["tcp_post_client_seen"] = 0
      /\ stats["tcp_getinfo_seen"] = 0
  BY DEF AInit, Init, Stats, Reasons
<1>3. /\ requests \in [RequestKinds -> Nat]
      /\ requests.bot = 0 /\ requests.post = 0 /\ requests.get = 0
  BY DEF AInit, RequestKinds
<1> QED BY <1>1, <1>2, <1>3 DEF Answered

LEMMA AnsweredNext ==
  ASSUME TypeOK, Answered, [ANext]_avars
  PROVE  Answered'
<1>1. /\ requests.bot \in Nat /\ requests.post \in Nat
      /\ requests.get \in Nat
  BY DEF Answered, RequestKinds
<1>2. ASSUME NEW B, stats' = Bump(B), NEW s \in Inspected
      PROVE  stats'[s] = IF s \in B \cap Inspected THEN stats[s] + 1
                         ELSE stats[s]
  BY <1>2, RequestSets DEF Bump
<1>3. ASSUME NEW kind \in RequestKinds, Requested(kind)
      PROVE  /\ requests' \in [RequestKinds -> Nat]
             /\ \A k \in RequestKinds :
                  requests'[k] = IF k = kind THEN requests[k] + 1
                                 ELSE requests[k]
  BY <1>3 DEF Requested, Answered
<1>4. ASSUME NEW ip \in IPs, BotRequest(ip), Requested("bot")
      PROVE  Answered'
  <2>1. stats' = Bump({"tcp_bad_user_agent"})
    BY <1>4, BotStats
  <2>2. {"tcp_bad_user_agent"} \cap Outcomes = {}
    BY DEF Outcomes
  <2>3. SumOfStats(Outcomes)' = SumOfStats(Outcomes)
    BY <2>1, <2>2, RequestSets, BumpSum
  <2>4. /\ stats'["tcp_bad_user_agent"] = stats["tcp_bad_user_agent"] + 1
        /\ stats'["tcp_post_client_seen"] = stats["tcp_post_client_seen"]
        /\ stats'["tcp_getinfo_seen"] = stats["tcp_getinfo_seen"]
    BY <1>2, <2>1 DEF Inspected
  <2>5. /\ requests' \in [RequestKinds -> Nat]
        /\ requests'.bot = requests.bot + 1
        /\ requests'.post = requests.post /\ requests'.get = requests.get
    BY <1>3, <1>4 DEF RequestKinds
  <2> QED BY <2>3, <2>4, <2>5 DEF Answered
<1>5. ASSUME NEW ip \in IPs, PostRequest(ip), Requested("post")
      PROVE  Answered'
  <2>1. PICK B \in ConnectBumps : stats' = Bump(B)
    BY <1>5, PostStats
  <2>2. B \cap Inspected = {"tcp_post_client_seen"} /\ OneOf(B, Outcomes)
    BY ConnectBump
  <2>3. SumOfStats(Outcomes)' = SumOfStats(Outcomes) + 1
    BY <2>1, <2>2, RequestSets, BumpSum DEF OneOf
  <2>4. /\ stats'["tcp_bad_user_agent"] = stats["tcp_bad_user_agent"]
        /\ stats'["tcp_post_client_seen"] = stats["tcp_post_client_seen"] + 1
        /\ stats'["tcp_getinfo_seen"] = stats["tcp_getinfo_seen"]
    BY <1>2, <2>1, <2>2 DEF Inspected
  <2>5. /\ requests' \in [RequestKinds -> Nat]
        /\ requests'.post = requests.post + 1
        /\ requests'.bot = requests.bot /\ requests'.get = requests.get
    BY <1>3, <1>5 DEF RequestKinds
  <2> QED BY <2>3, <2>4, <2>5 DEF Answered
<1>6. ASSUME NEW ip \in IPs, GetRequest(ip), Requested("get")
      PROVE  Answered'
  <2>1. PICK B \in InfoBumps : stats' = Bump(B)
    BY <1>6, GetStats
  <2>2. B \cap Inspected = {"tcp_getinfo_seen"} /\ NoneOf(B, Outcomes)
    BY InfoBump
  <2>3. SumOfStats(Outcomes)' = SumOfStats(Outcomes)
    BY <2>1, <2>2, RequestSets, BumpSum DEF NoneOf
  <2>4. /\ stats'["tcp_bad_user_agent"] = stats["tcp_bad_user_agent"]
        /\ stats'["tcp_post_client_seen"] = stats["tcp_post_client_seen"]
        /\ stats'["tcp_getinfo_seen"] = stats["tcp_getinfo_seen"] + 1
    BY <1>2, <2>1, <2>2 DEF Inspected
  <2>5. /\ requests' \in [RequestKinds -> Nat]
        /\ requests'.get = requests.get + 1
        /\ requests'.bot = requests.bot /\ requests'.post = requests.post
    BY <1>3, <1>6 DEF RequestKinds
  <2> QED BY <2>3, <2>4, <2>5 DEF Answered
<1>7. ASSUME NEW B, stats' = Bump(B), B \cap RequestSlots = {},
             UNCHANGED requests
      PROVE  Answered'
  <2>1. B \cap Inspected = {} /\ B \cap Outcomes = {}
    BY <1>7 DEF RequestSlots
  <2>2. SumOfStats(Outcomes)' = SumOfStats(Outcomes)
    BY <1>7, <2>1, RequestSets, BumpSum
  <2>3. /\ stats'["tcp_bad_user_agent"] = stats["tcp_bad_user_agent"]
        /\ stats'["tcp_post_client_seen"] = stats["tcp_post_client_seen"]
        /\ stats'["tcp_getinfo_seen"] = stats["tcp_getinfo_seen"]
    BY <1>2, <1>7, <2>1 DEF Inspected
  <2> QED BY <1>7, <2>2, <2>3 DEF Answered
<1>8. ASSUME NEW ip \in IPs,
             OtherTcp(ip) \/ Udp(ip) \/ Fragment(ip) \/ Kernel(ip)
      PROVE  \E B \in SegmentBumps \cup UdpBumps \cup {{"ip_fragment"}}
                        \cup KernelBumps : stats' = Bump(B)
  BY <1>8, SegmentStats, UdpStats, FragmentStats, KernelStats
<1>9. ASSUME NEW ip \in IPs,
             OtherTcp(ip) \/ Udp(ip) \/ Fragment(ip) \/ Kernel(ip),
             UNCHANGED requests
      PROVE  Answered'
  BY <1>7, <1>8, <1>9, OtherBump
<1>10. CASE UNCHANGED avars \/ (Tick /\ UNCHANGED <<handled, requests>>)
  <2>1. UNCHANGED <<stats, requests>>
    BY <1>10 DEF avars, vars, Tick
  <2> QED BY <2>1 DEF Answered, SumOfStats, SumOver, Units
<1> QED BY <1>4, <1>5, <1>6, <1>9, <1>10 DEF ANext, Request

(* Every POST /client that is not a bot's is counted as seen and under one *)
(* of its four outcomes, every GET as seen: no return statement of the     *)
(* request's path forgets or repeats a counter.                            *)
THEOREM EveryRequestAccountedFor == ASpec => []RequestsAccountedFor
<1>1. TypeOK /\ Answered /\ [ANext]_avars => Answered'
  BY AnsweredNext
<1>2. Answered => RequestsAccountedFor
  BY DEF Answered, RequestsAccountedFor, Between, RequestKinds
<1> QED BY <1>1, <1>2, ATypes, AnsweredInit, PTL DEF ASpec, avars

------------------------------------------------------------------------------
(* The drop history *)

(* What a step may do to the history: record the drop that the stats       *)
(* count, leave it alone, or lose an entry.                                *)
Records(ip) ==
  \E reason \in Reasons, known \in BOOLEAN, seen \in SUBSET Stats :
    /\ seen \cap Reasons = {}
    /\ reason \in AlwaysRecorded => known
    /\ stats' = Bump({reason} \cup seen)
    /\ dropHistory' = RecordDrop(ip, reason, known)

RecordsNothing ==
  /\ UNCHANGED dropHistory
  /\ \A r \in Reasons : stats'[r] = stats[r]

Loses(ip) ==
  /\ "ip_drop_history" \in Evictable
  /\ UNCHANGED stats
  /\ dropHistory' = Forget(dropHistory, ip)

Asides == {"tcp_post_client_seen", "tcp_getinfo_seen"}

LEMMA DropRecords ==
  ASSUME NEW ip \in IPs, NEW reason \in Reasons, NEW known \in BOOLEAN,
         NEW seen \in SUBSET Asides, reason \in AlwaysRecorded => known,
         DropPacket(ip, reason, known, seen)
  PROVE  Records(ip)
<1>1. Asides \subseteq Stats /\ Asides \cap Reasons = {}
  BY DEF Asides, Stats, Reasons
<1>2. seen \in SUBSET Stats /\ seen \cap Reasons = {}
  BY <1>1
<1> QED BY <1>2 DEF Records, DropPacket, Verdict

LEMMA RejectedRecords ==
  ASSUME NEW ip \in IPs, Rejected(ip)
  PROVE  Records(ip)
<1>1. /\ Reasons \subseteq Stats /\ {} \in SUBSET Asides
      /\ {"tcp_post_client_seen"} \in SUBSET Asides
      /\ {"tcp_getinfo_seen"} \in SUBSET Asides
  BY DEF Stats, Asides
<1>2. ASSUME NEW reason \in Reasons, NEW known \in BOOLEAN,
             reason \in AlwaysRecorded => known, Refuse(ip, reason, known)
      PROVE  Records(ip)
  BY <1>1, <1>2, DropRecords DEF Refuse
<1>3. ASSUME NEW reason \in Reasons, NEW known \in BOOLEAN,
             NEW seen \in SUBSET Asides, NEW syn, NEW cpu,
             reason \in AlwaysRecorded => known,
             DropSegment(ip, syn, cpu, reason, known, seen)
      PROVE  Records(ip)
  BY <1>3, DropRecords DEF DropSegment
<1>4. /\ {"ip_fragment", "tcp_no_syn", "tcp_global_ratelimit", "malformed",
          "udp_not_whitelisted"} \subseteq Reasons \ AlwaysRecorded
      /\ {"tcp_too_many_open", "udp_expired", "udp_unhealthy",
          "udp_ratelimit", "udp_enet_malformed", "tcp_bad_user_agent",
          "tcp_initconnect_ratelimit", "tcp_getinfo_ratelimit"}
           \subseteq Reasons
  BY DEF Reasons, AlwaysRecorded
<1>5. CASE Fragment(ip)
  BY <1>2, <1>4, <1>5 DEF Fragment
<1>6. CASE UdpDropped(ip)
  <2>1. CASE UdpMalformed(ip)
    BY <1>1, <1>4, <2>1, DropRecords DEF UdpMalformed
  <2>2. CASE UdpNotWhitelisted(ip)
    BY <1>2, <1>4, <2>2 DEF UdpNotWhitelisted
  <2>3. CASE UdpExpired(ip) \/ UdpUnhealthy(ip) \/ UdpLimited(ip)
    BY <1>2, <1>4, <2>3 DEF UdpExpired, UdpUnhealthy, UdpLimited
  <2> QED BY <1>6, <2>1, <2>2, <2>3 DEF UdpDropped
<1>7. ASSUME NEW cpu \in CPUs, TcpRefusedSource(ip, cpu)
      PROVE  Records(ip)
  <2>1. CASE TcpNoSyn(ip)
    BY <1>2, <1>4, <2>1 DEF TcpNoSyn
  <2>2. CASE SynTooManyOpen(ip)
    BY <1>2, <1>4, <2>2 DEF SynTooManyOpen
  <2>3. CASE SynGlobalLimited(ip, cpu)
    <3>1. (ip \in DOMAIN whitelist) \in BOOLEAN
      OBVIOUS
    <3> QED BY <1>2, <1>4, <2>3, <3>1 DEF SynGlobalLimited
  <2> QED BY <1>7, <2>1, <2>2, <2>3 DEF TcpRefusedSource
<1>8. ASSUME NEW syn \in BOOLEAN, NEW cpu \in CPUs, TcpDropped(ip, syn, cpu)
      PROVE  Records(ip)
  <2>1. CASE TcpMalformed(ip, syn, cpu)
    BY <1>1, <1>3, <1>4, <2>1 DEF TcpMalformed
  <2>2. CASE RequestBadUserAgent(ip, syn, cpu)
    BY <1>1, <1>3, <1>4, <2>2 DEF RequestBadUserAgent
  <2>3. CASE PostLimited(ip, syn, cpu)
    BY <1>1, <1>3, <1>4, <2>3 DEF PostLimited
  <2>4. CASE GetLimited(ip, syn, cpu)
    BY <1>1, <1>3, <1>4, <2>4 DEF GetLimited
  <2> QED BY <1>8, <2>1, <2>2, <2>3, <2>4 DEF TcpDropped
<1> QED BY <1>5, <1>6, <1>7, <1>8 DEF Rejected

LEMMA AcceptedRecordsNothing ==
  ASSUME TypeOK, NEW ip \in IPs, Accepted(ip)
  PROVE  RecordsNothing
<1> DEFINE Quiet == {"pass_tcp", "pass_udp_whitelisted", "tcp_l7_promoted",
                     "tcp_l7_match_no_est", "tcp_post_client_seen",
                     "tcp_getinfo_seen", "tcp_post_ua_unknown"}
<1>1. Quiet \cap Reasons = {} /\ Reasons \subseteq Stats
  BY DEF Reasons, Stats
<1>2. ASSUME NEW B \in SUBSET Quiet, stats' = Bump(B)
      PROVE  \A r \in Reasons : stats'[r] = stats[r]
  BY <1>1, <1>2 DEF Bump
<1>3. UNCHANGED dropHistory /\ \E B \in SUBSET Quiet : stats' = Bump(B)
  <2>1. CASE UdpPass(ip)
    BY <2>1 DEF UdpPass, Verdict
  <2>2. ASSUME NEW syn \in BOOLEAN, NEW cpu \in CPUs, TcpPassed(ip, syn, cpu)
        PROVE  UNCHANGED dropHistory /\ \E B \in SUBSET Quiet : stats' = Bump(B)
    <3>1. PICK seen \in SUBSET Quiet : PassTcp(ip, syn, seen)
      BY <2>2 DEF TcpPassed, TcpSegment, PostPromotes, PostWithoutHandshake,
                  PostUnknownUserAgent, GetAccepted, PostAccepted
    <3> QED BY <3>1 DEF PassTcp, Verdict
  <2> QED BY <2>1, <2>2 DEF Accepted
<1> QED BY <1>2, <1>3 DEF RecordsNothing

LEMMA KernelLoses ==
  ASSUME TypeOK, NEW ip \in IPs, Kernel(ip)
  PROVE  RecordsNothing \/ Loses(ip)
<1>1. CASE Established(ip)
  <2>1. "tcp_established_inserts" \notin Reasons /\ Reasons \subseteq Stats
    BY DEF Reasons, Stats
  <2> QED BY <1>1, <2>1 DEF Established, RecordsNothing, Bump
<1>2. CASE Closed(ip) \/ HandshakeLost(ip)
  BY <1>2 DEF Closed, HandshakeLost, RecordsNothing
<1>3. CASE Evict(ip)
  BY <1>3 DEF Evict, RecordsNothing, Loses
<1> QED BY <1>1, <1>2, <1>3 DEF Kernel

LEMMA HistorySteps ==
  ASSUME TypeOK, [ANext]_avars
  PROVE  RecordsNothing \/ \E ip \in IPs : Records(ip) \/ Loses(ip)
<1>1. CASE UNCHANGED vars \/ Tick
  BY <1>1 DEF vars, Tick, RecordsNothing
<1>2. CASE \E ip \in IPs : Accepted(ip) \/ Rejected(ip) \/ Kernel(ip)
  BY <1>2, RejectedRecords, AcceptedRecordsNothing, KernelLoses
<1> QED BY <1>1, <1>2, ANextIsNext DEF Next

CountsIn(map, r) == [ip \in DOMAIN map |-> map[ip].counts[r]]
RecordedIn(map, r) == SumOver(CountsIn(map, r), DOMAIN map)

LEMMA RecordedMeans ==
  \A r : /\ RecordedDrops(r) = RecordedIn(dropHistory, r)
         /\ RecordedDrops(r)' = RecordedIn(dropHistory', r)
<1>1. \A r : RecordedDrops(r) = RecordedIn(dropHistory, r)
  BY DEF RecordedDrops, RecordedIn, CountsIn
<1>2. \A r : RecordedDrops(r)' = RecordedIn(dropHistory', r)
  BY DEF RecordedDrops, RecordedIn, CountsIn, SumOver, Units
<1> QED BY <1>1, <1>2

LEMMA CountsNat ==
  ASSUME TypeOK, NEW r \in Reasons
  PROVE  \A ip \in DOMAIN dropHistory :
           /\ dropHistory[ip].counts \in [Reasons -> Nat]
           /\ CountsIn(dropHistory, r)[ip] = dropHistory[ip].counts[r]
           /\ CountsIn(dropHistory, r)[ip] \in Nat
BY DEF TypeOK, Holds, History, CountsIn

LEMMA RecordEffect ==
  ASSUME TypeOK, IsFiniteSet(DOMAIN dropHistory),
         NEW ip \in IPs, NEW reason \in Reasons, NEW known \in BOOLEAN,
         dropHistory' = RecordDrop(ip, reason, known)
  PROVE  /\ IsFiniteSet(DOMAIN dropHistory')
         /\ \A r \in Reasons :
              /\ RecordedDrops(r) \in Nat
              /\ r # reason => RecordedDrops(r)' = RecordedDrops(r)
              /\ r = reason =>
                   \/ RecordedDrops(r)' = RecordedDrops(r) + 1
                   \/ /\ RecordedDrops(r)' = RecordedDrops(r)
                      /\ ~(DropHistoryEnabled /\ known)
<1> DEFINE old == dropHistory
           new == dropHistory'
<1>1. ASSUME NEW r \in Reasons PROVE RecordedDrops(r) \in Nat
  <2>1. RecordedIn(old, r) \in Nat
    BY CountsNat, FiniteUnits DEF RecordedIn
  <2> QED BY <2>1, RecordedMeans
<1>2. CASE new = old /\ ~(DropHistoryEnabled /\ known)
  BY <1>1, <1>2, RecordedMeans
<1>3. CASE /\ ip \in DOMAIN old
           /\ new = Put(old, ip, [old[ip] EXCEPT !.last = now,
                                                 !.counts[reason] = @ + 1])
  <2>1. /\ DOMAIN new = DOMAIN old
        /\ \A k \in DOMAIN old \ {ip} : new[k] = old[k]
        /\ new[ip] = [old[ip] EXCEPT !.last = now,
                                     !.counts[reason] = @ + 1]
    BY <1>3 DEF Put
  <2>2. /\ old[ip] \in [first : Past, last : Past, counts : [Reasons -> Nat]]
    BY <1>3 DEF TypeOK, Holds, History
  <2>3. new[ip].counts = [old[ip].counts EXCEPT ![reason] = @ + 1]
    BY <2>1, <2>2
  <2>4. ASSUME NEW r \in Reasons, r # reason
        PROVE  RecordedIn(new, r) = RecordedIn(old, r)
    <3>1. \A k \in DOMAIN old : CountsIn(new, r)[k] = CountsIn(old, r)[k]
      BY <2>1, <2>2, <2>3, <2>4 DEF CountsIn
    <3> QED BY <2>1, <3>1, SameSum DEF RecordedIn
  <2>5. RecordedIn(new, reason) = RecordedIn(old, reason) + 1
    <3>1. /\ CountsIn(new, reason)[ip] = CountsIn(old, reason)[ip] + 1
          /\ \A k \in DOMAIN old \ {ip} :
               CountsIn(new, reason)[k] = CountsIn(old, reason)[k]
      BY <1>3, <2>1, <2>2, <2>3 DEF CountsIn
    <3>2. \A k \in DOMAIN old : CountsIn(old, reason)[k] \in Nat
      BY CountsNat
    <3> HIDE DEF old, new
    <3>3. SumOver(CountsIn(new, reason), DOMAIN old)
            = SumOver(CountsIn(old, reason), DOMAIN old) + 1
      BY <1>3, <3>1, <3>2, OneMore DEF old
    <3> QED BY <2>1, <3>3 DEF RecordedIn
  <2> QED BY <1>1, <2>1, <2>4, <2>5, RecordedMeans
<1>4. CASE ip \notin DOMAIN old /\ new = Put(old, ip, NewHistory(reason))
  <2>1. /\ DOMAIN new = DOMAIN old \cup {ip}
        /\ \A k \in DOMAIN old : new[k] = old[k]
        /\ \A r \in Reasons :
             new[ip].counts[r] = IF r = reason THEN 1 ELSE 0
    BY <1>4 DEF Put, NewHistory
  <2>2. ASSUME NEW r \in Reasons
        PROVE  RecordedIn(new, r) = IF r = reason THEN RecordedIn(old, r) + 1
                                    ELSE RecordedIn(old, r)
    <3>1. \A k \in DOMAIN old :
            /\ CountsIn(old, r)[k] \in Nat
            /\ CountsIn(new, r)[k] = CountsIn(old, r)[k]
      BY <2>1, CountsNat DEF CountsIn
    <3>2. CountsIn(new, r)[ip] = IF r = reason THEN 1 ELSE 0
      BY <2>1 DEF CountsIn
    <3> HIDE DEF old, new
    <3>3. /\ CountsIn(new, r)[ip] = 0 =>
               SumOver(CountsIn(new, r), DOMAIN old \cup {ip})
                 = SumOver(CountsIn(old, r), DOMAIN old)
          /\ CountsIn(new, r)[ip] = 1 =>
               SumOver(CountsIn(new, r), DOMAIN old \cup {ip})
                 = SumOver(CountsIn(old, r), DOMAIN old) + 1
      BY <1>4, <3>1, NewElement DEF old
    <3> QED BY <2>1, <3>2, <3>3 DEF RecordedIn
  <2>3. IsFiniteSet(DOMAIN new)
    BY <2>1, FS_AddElement
  <2> QED BY <1>1, <2>2, <2>3, RecordedMeans
<1> QED BY <1>2, <1>3, <1>4 DEF RecordDrop

LEMMA LossEffect ==
  ASSUME TypeOK, IsFiniteSet(DOMAIN dropHistory), NEW ip \in IPs, Loses(ip)
  PROVE  /\ IsFiniteSet(DOMAIN dropHistory')
         /\ \A r \in Reasons : RecordedDrops(r)' <= RecordedDrops(r)
<1>1. /\ DOMAIN dropHistory' \in SUBSET DOMAIN dropHistory
      /\ \A k \in DOMAIN dropHistory' : dropHistory'[k] = dropHistory[k]
  BY DEF Loses, Forget
<1>2. IsFiniteSet(DOMAIN dropHistory')
  BY <1>1, FS_Subset
<1>3. ASSUME NEW r \in Reasons
      PROVE  RecordedIn(dropHistory', r) <= RecordedIn(dropHistory, r)
  <2>1. \A k \in DOMAIN dropHistory' :
          CountsIn(dropHistory', r)[k] = CountsIn(dropHistory, r)[k]
    BY <1>1 DEF CountsIn
  <2> QED BY <1>1, <2>1, CountsNat, FewerElements DEF RecordedIn
<1> QED BY <1>2, <1>3, RecordedMeans

(* Nothing is recorded that was not counted. *)
Backed ==
  /\ IsFiniteSet(DOMAIN dropHistory)
  /\ \A r \in Reasons : RecordedDrops(r) <= stats[r]

(* Of the reasons that are always recorded, nothing else is missing. *)
Complete ==
  /\ IsFiniteSet(DOMAIN dropHistory)
  /\ DropHistoryEnabled =>
       \A r \in AlwaysRecorded : RecordedDrops(r) = stats[r]

LEMMA HistoryInit == Init => Backed /\ Complete
<1> SUFFICES ASSUME Init PROVE Backed /\ Complete
  OBVIOUS
<1>1. DOMAIN dropHistory = {}
  BY DEF Init, EmptyMap
<1>2. \A r : Units(CountsIn(dropHistory, r), DOMAIN dropHistory) = {}
  BY <1>1 DEF Units
<1>3. \A r : RecordedDrops(r) = 0
  BY <1>2, RecordedMeans, FS_EmptySet DEF RecordedIn, SumOver
<1>4. \A r \in Reasons : stats[r] = 0
  BY DEF Init, Stats
<1>5. AlwaysRecorded \subseteq Reasons
  BY DEF AlwaysRecorded
<1> QED BY <1>1, <1>3, <1>4, <1>5, FS_EmptySet DEF Backed, Complete

LEMMA CountsStep ==
  ASSUME TypeOK, NEW ip \in IPs, NEW reason \in Reasons,
         NEW seen \in SUBSET Stats, seen \cap Reasons = {},
         stats' = Bump({reason} \cup seen)
  PROVE  \A r \in Reasons :
           /\ stats[r] \in Nat
           /\ stats'[r] = IF r = reason THEN stats[r] + 1 ELSE stats[r]
<1>1. Reasons \subseteq Stats /\ stats \in [Stats -> Nat]
  BY DEF Stats, TypeOK, CountersOK
<1>2. \A r \in Reasons : r \in {reason} \cup seen <=> r = reason
  OBVIOUS
<1> QED BY <1>1, <1>2 DEF Bump

LEMMA BackedNext ==
  ASSUME TypeOK, Backed, [ANext]_avars
  PROVE  Backed'
<1>1. CASE RecordsNothing
  <2>1. \A r \in Reasons : RecordedDrops(r)' = RecordedDrops(r)
    BY <1>1, RecordedMeans DEF RecordsNothing
  <2> QED BY <1>1, <2>1 DEF RecordsNothing, Backed
<1>2. ASSUME NEW ip \in IPs, Records(ip) PROVE Backed'
  <2>1. PICK reason \in Reasons, known \in BOOLEAN, seen \in SUBSET Stats :
          /\ seen \cap Reasons = {}
          /\ stats' = Bump({reason} \cup seen)
          /\ dropHistory' = RecordDrop(ip, reason, known)
    BY <1>2 DEF Records
  <2>2. \A r \in Reasons :
          /\ stats[r] \in Nat
          /\ stats'[r] = IF r = reason THEN stats[r] + 1 ELSE stats[r]
    BY <2>1, CountsStep
  <2>3. /\ IsFiniteSet(DOMAIN dropHistory')
        /\ \A r \in Reasons :
             /\ RecordedDrops(r) \in Nat
             /\ r # reason => RecordedDrops(r)' = RecordedDrops(r)
             /\ r = reason => \/ RecordedDrops(r)' = RecordedDrops(r) + 1
                              \/ RecordedDrops(r)' = RecordedDrops(r)
    BY <2>1, RecordEffect DEF Backed
  <2>4. ASSUME NEW r \in Reasons PROVE RecordedDrops(r)' <= stats'[r]
    <3>1. RecordedDrops(r) <= stats[r]
      BY DEF Backed
    <3> QED BY <2>2, <2>3, <3>1
  <2> QED BY <2>3, <2>4 DEF Backed
<1>3. ASSUME NEW ip \in IPs, Loses(ip) PROVE Backed'
  <2>1. /\ IsFiniteSet(DOMAIN dropHistory')
        /\ \A r \in Reasons : RecordedDrops(r)' <= RecordedDrops(r)
    BY <1>3, LossEffect DEF Backed
  <2>2. ASSUME NEW r \in Reasons PROVE RecordedDrops(r)' <= stats'[r]
    <3>1. /\ RecordedDrops(r)' <= RecordedDrops(r)
          /\ RecordedDrops(r) <= stats[r] /\ stats'[r] = stats[r]
      BY <1>3, <2>1 DEF Backed, Loses
    <3>2. RecordedDrops(r) \in Nat /\ stats[r] \in Nat
      <4>1. RecordedIn(dropHistory, r) \in Nat
        BY CountsNat, FiniteUnits DEF RecordedIn, Backed
      <4>2. stats[r] \in Nat
        BY DEF TypeOK, CountersOK, Stats
      <4> QED BY <4>1, <4>2, RecordedMeans
    <3>3. RecordedDrops(r)' \in Nat
      <4>1. TypeOK'
        BY ANextIsNext, NextTypes
      <4>2. \A k \in DOMAIN dropHistory' :
              CountsIn(dropHistory', r)[k] \in Nat
        BY <4>1 DEF TypeOK, Holds, History, CountsIn
      <4>3. RecordedIn(dropHistory', r) \in Nat
        BY <2>1, <4>2, FiniteUnits DEF RecordedIn
      <4> QED BY <4>3, RecordedMeans
    <3> QED BY <3>1, <3>2, <3>3
  <2> QED BY <2>1, <2>2 DEF Backed
<1> QED BY <1>1, <1>2, <1>3, HistorySteps

LEMMA CompleteNext ==
  ASSUME TypeOK, Complete, [ANext]_avars, "ip_drop_history" \notin Evictable
  PROVE  Complete'
<1>1. CASE RecordsNothing
  <2>1. \A r \in Reasons : RecordedDrops(r)' = RecordedDrops(r)
    BY <1>1, RecordedMeans DEF RecordsNothing
  <2>2. AlwaysRecorded \subseteq Reasons
    BY DEF AlwaysRecorded
  <2> QED BY <1>1, <2>1, <2>2 DEF RecordsNothing, Complete
<1>2. ASSUME NEW ip \in IPs, Records(ip) PROVE Complete'
  <2>1. PICK reason \in Reasons, known \in BOOLEAN, seen \in SUBSET Stats :
          /\ seen \cap Reasons = {}
          /\ reason \in AlwaysRecorded => known
          /\ stats' = Bump({reason} \cup seen)
          /\ dropHistory' = RecordDrop(ip, reason, known)
    BY <1>2 DEF Records
  <2>2. \A r \in Reasons :
          /\ stats[r] \in Nat
          /\ stats'[r] = IF r = reason THEN stats[r] + 1 ELSE stats[r]
    BY <2>1, CountsStep
  <2>3. /\ IsFiniteSet(DOMAIN dropHistory')
        /\ \A r \in Reasons :
             /\ r # reason => RecordedDrops(r)' = RecordedDrops(r)
             /\ r = reason => \/ RecordedDrops(r)' = RecordedDrops(r) + 1
                              \/ ~(DropHistoryEnabled /\ known)
    BY <2>1, RecordEffect DEF Complete
  <2>4. ASSUME NEW r \in AlwaysRecorded, DropHistoryEnabled
        PROVE  RecordedDrops(r)' = stats'[r]
    <3>1. r \in Reasons /\ RecordedDrops(r) = stats[r]
      BY <2>4 DEF AlwaysRecorded, Complete
    <3>2. CASE r = reason
      <4>1. RecordedDrops(r)' = RecordedDrops(r) + 1
        BY <2>1, <2>3, <2>4, <3>1, <3>2
      <4>2. stats'[r] = stats[r] + 1
        BY <2>2, <3>1, <3>2
      <4> QED BY <3>1, <4>1, <4>2
    <3>3. CASE r # reason
      BY <2>2, <2>3, <3>1, <3>3
    <3> QED BY <3>2, <3>3
  <2> QED BY <2>3, <2>4 DEF Complete
<1> QED BY <1>1, <1>2, HistorySteps DEF Loses

(* Whatever is evicted, the history never shows more drops of a reason     *)
(* than the stats count.                                                   *)
THEOREM HistoryAlwaysBacked ==
  ASpec => [](\A r \in Reasons : RecordedDrops(r) <= stats[r])
<1>1. AInit => Backed
  BY HistoryInit DEF AInit
<1>2. TypeOK /\ Backed /\ [ANext]_avars => Backed'
  BY BackedNext
<1>3. Backed => \A r \in Reasons : RecordedDrops(r) <= stats[r]
  BY DEF Backed
<1> QED BY <1>1, <1>2, <1>3, ATypes, PTL DEF ASpec, avars

(* While ip_drop_history is not full, every drop that record_drop was told *)
(* comes from a known source is in it: the history and the counters of     *)
(* those reasons agree to the last packet.                                 *)
THEOREM HistoryAlwaysExplains ==
  ASSUME "ip_drop_history" \notin Evictable
  PROVE  ASpec => []HistoryExplainsDrops
<1>1. AInit => Complete
  BY HistoryInit DEF AInit
<1>2. TypeOK /\ Complete /\ [ANext]_avars => Complete'
  BY CompleteNext
<1>3. Complete /\ (\A r \in Reasons : RecordedDrops(r) <= stats[r])
        => HistoryExplainsDrops
  BY DEF Complete, HistoryExplainsDrops
<1> QED BY <1>1, <1>2, <1>3, ATypes, HistoryAlwaysBacked, PTL
        DEF ASpec, avars

------------------------------------------------------------------------------
(* Counters read one after the other *)

(* The sum of a slot over some of the CPUs. *)
SumIn(s, C) == SumOver([c \in Cores |-> slots[c][s]], C)

(* The CPUs whose i-th slot is still to be copied. *)
ToCopy(i) ==
  IF i < scan.slot THEN {}
  ELSE IF i = scan.slot THEN scan.cpu..NumCPUs ELSE Cores

Labels == 1..9
PostOutcomes ==
  {"tcp_l7_promoted", "tcp_l7_match_no_est", "drop_tcp_initconnect_ratelimit"}

StatsTyped ==
  /\ slots \in [Cores -> [Slots -> Nat]]
  /\ handler \in [Cores -> {"idle", "post", "get", "pass"}]
  /\ scan \in [slot : 0..10, cpu : Cores, vals : [Slots -> Nat]]
  /\ before \in [Slots -> Nat]
  /\ scan.slot = 0 => scan.cpu = 1

(* Each value read lies between the total the slot had when the scan began *)
(* and the one it has, of the CPUs read so far.                            *)
Copied ==
  \A i \in Labels :
    /\ scan.vals[StatLabels[i]] <= SumIn(StatLabels[i], Cores \ ToCopy(i))
    /\ before[StatLabels[i]]
         <= scan.vals[StatLabels[i]] + SumIn(StatLabels[i], ToCopy(i))

Posts == {c \in Cores : handler[c] = "post"}

(* A POST is counted before what becomes of it. *)
PostsSeenFirst ==
  SumIn("tcp_l7_promoted", Cores) + SumIn("tcp_l7_match_no_est", Cores)
    + SumIn("drop_tcp_initconnect_ratelimit", Cores) + Cardinality(Posts)
  <= SumIn("tcp_post_client_seen", Cores)

(* When the outcomes have been read, the POSTs that are still to be read   *)
(* make up for them.                                                       *)
OutcomesRead ==
  scan.slot >= 5 =>
    scan.vals["tcp_l7_promoted"] + scan.vals["tcp_l7_match_no_est"]
      + scan.vals["drop_tcp_initconnect_ratelimit"]
    <= scan.vals["tcp_post_client_seen"]
         + SumIn("tcp_post_client_seen", ToCopy(5))

Together == StatsTyped /\ Copied /\ PostsSeenFirst /\ OutcomesRead

LEMMA LabelFacts ==
  /\ Len(StatLabels) = 9 /\ DOMAIN StatLabels = Labels
  /\ StatLabels[2] = "tcp_l7_promoted"
  /\ StatLabels[3] = "tcp_l7_match_no_est"
  /\ StatLabels[4] = "drop_tcp_initconnect_ratelimit"
  /\ StatLabels[5] = "tcp_post_client_seen"
  /\ \A i \in Labels : StatLabels[i] \in Slots
  /\ \A i, j \in Labels : StatLabels[i] = StatLabels[j] => i = j
<1>1. Len(StatLabels) = 9 /\ DOMAIN StatLabels = Labels
  BY DEF StatLabels, Labels
<1>2. \A i \in Labels : StatLabels[i] \in Slots
  BY <1>1 DEF Slots
<1>3. ASSUME NEW i \in Labels, NEW j \in Labels, StatLabels[i] = StatLabels[j]
      PROVE  i = j
  <2>1. i \in {1, 2, 3, 4, 5, 6, 7, 8, 9} /\ j \in {1, 2, 3, 4, 5, 6, 7, 8, 9}
    BY DEF Labels
  <2> QED BY <1>3, <2>1 DEF StatLabels
<1> QED BY <1>1, <1>2, <1>3 DEF StatLabels

LEMMA SlotNames ==
  PostOutcomes \cup {"tcp_post_client_seen", "tcp_post_ua_unknown",
                     "pass_tcp", "tcp_getinfo_seen",
                     "drop_tcp_getinfo_ratelimit", "drop_tcp_bad_user_agent"}
    = Slots
<1>1. Slots = {StatLabels[i] : i \in {1, 2, 3, 4, 5, 6, 7, 8, 9}}
  BY LabelFacts DEF Slots, Labels
<1> QED BY <1>1 DEF StatLabels, PostOutcomes

LEMMA CoresFinite ==
  /\ NumCPUs \in Nat \ {0} /\ 1 \in Cores
  /\ \A C \in SUBSET Cores : IsFiniteSet(C)
<1>1. NumCPUs \in Nat \ {0}
  BY StatsAssumption
<1>2. IsFiniteSet(Cores)
  BY <1>1, FS_Interval DEF Cores
<1>3. 1 \in Cores
  BY <1>1 DEF Cores
<1>4. \A C \in SUBSET Cores : IsFiniteSet(C)
  BY <1>2, FS_Subset
<1> QED BY <1>1, <1>3, <1>4

LEMMA SumInNat ==
  ASSUME StatsTyped, NEW s \in Slots, NEW C \in SUBSET Cores
  PROVE  SumIn(s, C) \in Nat
<1> DEFINE f == [c \in Cores |-> slots[c][s]]
<1>1. IsFiniteSet(C) /\ \A c \in C : f[c] \in Nat
  BY CoresFinite DEF StatsTyped
<1> HIDE DEF f
<1>2. SumOver(f, C) \in Nat
  BY <1>1, FiniteUnits
<1> QED BY <1>2 DEF f, SumIn

LEMMA NothingSummed ==
  ASSUME NEW s
  PROVE  SumIn(s, {}) = 0
<1>1. Units([c \in Cores |-> slots[c][s]], {}) = {}
  BY DEF Units
<1> QED BY <1>1, FS_EmptySet DEF SumIn, SumOver

LEMMA SumWith ==
  ASSUME NEW S, NEW f, NEW y, y \notin S, IsFiniteSet(S), f[y] \in Nat,
         \A x \in S : f[x] \in Nat
  PROVE  SumOver(f, S \cup {y}) = SumOver(f, S) + f[y]
<1> DEFINE own == {y} \X (1..f[y])
<1>1. Units(f, S \cup {y}) = Units(f, S) \cup own
  BY DEF Units
<1>2. Units(f, S) \cap own = {}
  BY DEF Units
<1>3. IsFiniteSet(Units(f, S)) /\ SumOver(f, S) \in Nat
  BY FiniteUnits
<1>4. IsFiniteSet(own) /\ Cardinality(own) = f[y]
  <2>1. IsFiniteSet(1..f[y]) /\ Cardinality(1..f[y]) = f[y]
    <3>1. /\ IsFiniteSet(1..f[y])
          /\ Cardinality(1..f[y]) = IF 1 > f[y] THEN 0 ELSE f[y] - 1 + 1
      BY FS_Interval
    <3> QED BY <3>1
  <2>2. IsFiniteSet({y}) /\ Cardinality({y}) = 1
    BY FS_Singleton
  <2> DEFINE one == {y}
             units == 1..f[y]
  <2> HIDE DEF one, units
  <2>3. /\ IsFiniteSet(one \X units)
        /\ Cardinality(one \X units) = Cardinality(one) * Cardinality(units)
    BY <2>1, <2>2, FS_Product DEF one, units
  <2>4. Cardinality(one) = 1 /\ Cardinality(units) = f[y]
    BY <2>1, <2>2 DEF one, units
  <2>5. 1 * f[y] = f[y]
    OBVIOUS
  <2> QED BY <2>3, <2>4, <2>5 DEF one, units
<1> HIDE DEF own
<1>5. Cardinality(Units(f, S) \cup own)
        = Cardinality(Units(f, S)) + Cardinality(own) - Cardinality({})
  BY <1>2, <1>3, <1>4, FS_Union
<1>6. Cardinality(Units(f, S)) \in Nat
  BY <1>3 DEF SumOver
<1>7. Cardinality(Units(f, S) \cup own) = Cardinality(Units(f, S)) + f[y]
  BY <1>4, <1>5, <1>6, FS_EmptySet
<1> QED BY <1>1, <1>7 DEF SumOver

(* What a handler adds to a sum. *)
LEMMA BumpSums ==
  ASSUME StatsTyped, NEW cpu \in Cores, NEW from, NEW slot \in Slots, NEW to,
         Bumping(cpu, from, slot, to), NEW s \in Slots, NEW C \in SUBSET Cores
  PROVE  SumIn(s, C)' = SumIn(s, C) + IF s = slot /\ cpu \in C THEN 1 ELSE 0
<1> DEFINE f == [c \in Cores |-> slots[c][s]]
           g == [c \in Cores |-> slots'[c][s]]
<1>1. slots' = [slots EXCEPT ![cpu][slot] = @ + 1]
  BY DEF Bumping
<1>2. \A c \in Cores : slots[c] \in [Slots -> Nat]
  BY DEF StatsTyped
<1>3. /\ \A c \in C : f[c] \in Nat
      /\ \A c \in Cores \ {cpu} : g[c] = f[c]
      /\ s # slot => g[cpu] = f[cpu]
      /\ s = slot => g[cpu] = f[cpu] + 1
  <2>1. \A c \in Cores \ {cpu} : slots'[c] = slots[c]
    BY <1>1 DEF StatsTyped
  <2>2. slots'[cpu] = [slots[cpu] EXCEPT ![slot] = @ + 1]
    BY <1>1 DEF StatsTyped
  <2> QED BY <1>2, <2>1, <2>2
<1>4. IsFiniteSet(C)
  BY CoresFinite
<1> HIDE DEF f, g
<1>5. CASE s = slot /\ cpu \in C
  <2>1. SumOver(g, C) = SumOver(f, C) + 1
    BY <1>3, <1>4, <1>5, OneMore
  <2> QED BY <1>5, <2>1 DEF SumIn, f, g
<1>6. CASE ~(s = slot /\ cpu \in C)
  <2>1. \A c \in C : g[c] = f[c]
    BY <1>3, <1>6
  <2>2. SumOver(g, C) = SumOver(f, C)
    BY <2>1, SameSum
  <2>3. SumOver(f, C) \in Nat
    BY <1>3, <1>4, FiniteUnits
  <2> QED BY <1>6, <2>2, <2>3 DEF SumIn, f, g
<1> QED BY <1>5, <1>6

(* A handler's step: the slot it bumps, and what it does to the number of  *)
(* POSTs under way.                                                        *)
LEMMA HandlerSteps ==
  ASSUME StatsTyped, NEW cpu \in Cores, Handle(cpu)
  PROVE  \E from, to \in {"idle", "post", "get", "pass"}, slot \in Slots :
           /\ Bumping(cpu, from, slot, to)
           /\ slot \in PostOutcomes => from = "post" /\ to # "post"
           /\ to = "post" => from # "post" /\ slot = "tcp_post_client_seen"
BY SlotNames
   DEF Handle, BadUserAgent, PostSeen, GetSeen, LimitPost, AcceptPost,
       LimitGet, Pass, Begin, Continue, PostOutcomes

LEMMA HandlersKeepTyped ==
  ASSUME StatsTyped, NEW cpu \in Cores, NEW from, NEW slot \in Slots,
         NEW to \in {"idle", "post", "get", "pass"},
         Bumping(cpu, from, slot, to)
  PROVE  StatsTyped'
<1>1. /\ slots' = [slots EXCEPT ![cpu][slot] = @ + 1]
      /\ handler' = [handler EXCEPT ![cpu] = to]
      /\ UNCHANGED <<scan, before>>
  BY DEF Bumping
<1>2. slots[cpu] \in [Slots -> Nat] /\ slots[cpu][slot] + 1 \in Nat
  BY DEF StatsTyped
<1>3. slots' \in [Cores -> [Slots -> Nat]]
  BY <1>1, <1>2 DEF StatsTyped
<1> QED BY <1>1, <1>3 DEF StatsTyped

LEMMA TogetherHandle ==
  ASSUME Together, NEW cpu \in Cores, Handle(cpu)
  PROVE  Together'
<1>1. PICK from \in {"idle", "post", "get", "pass"},
           to \in {"idle", "post", "get", "pass"}, slot \in Slots :
        /\ Bumping(cpu, from, slot, to)
        /\ slot \in PostOutcomes => from = "post" /\ to # "post"
        /\ to = "post" => from # "post" /\ slot = "tcp_post_client_seen"
  BY HandlerSteps DEF Together
<1>2. StatsTyped /\ StatsTyped' /\ UNCHANGED <<scan, before>>
  BY <1>1, HandlersKeepTyped DEF Together, Bumping
<1>3. \A s \in Slots, C \in SUBSET Cores :
        /\ SumIn(s, C) \in Nat
        /\ SumIn(s, C)' = SumIn(s, C) + IF s = slot /\ cpu \in C THEN 1 ELSE 0
  BY <1>1, <1>2, BumpSums, SumInNat
<1>4. \A i : ToCopy(i)' = ToCopy(i) /\ ToCopy(i) \in SUBSET Cores
  <2>1. scan.cpu..NumCPUs \subseteq Cores
    BY <1>2, CoresFinite DEF StatsTyped, Cores
  <2> QED BY <1>2, <2>1 DEF ToCopy
<1>5. Copied'
  <2>1. ASSUME NEW i \in Labels
        PROVE  /\ scan.vals[StatLabels[i]]
                    <= SumIn(StatLabels[i], Cores \ ToCopy(i))'
               /\ before[StatLabels[i]]
                    <= scan.vals[StatLabels[i]]
                         + SumIn(StatLabels[i], ToCopy(i))'
    <3> DEFINE s == StatLabels[i]
               done == SumIn(s, Cores \ ToCopy(i))
               rest == SumIn(s, ToCopy(i))
    <3>1. s \in Slots
      BY LabelFacts
    <3>2. /\ scan.vals[s] <= done
          /\ before[s] <= scan.vals[s] + rest
      BY DEF Together, Copied
    <3>3. /\ done \in Nat /\ done' \in {done, done + 1}
          /\ rest \in Nat /\ rest' \in {rest, rest + 1}
      <4>1. ToCopy(i)' = ToCopy(i) /\ Cores \ ToCopy(i) \in SUBSET Cores
            /\ ToCopy(i) \in SUBSET Cores
        BY <1>4
      <4> QED BY <1>3, <3>1, <4>1
    <3>4. scan.vals[s] \in Nat /\ before[s] \in Nat
      BY <1>2, <3>1 DEF StatsTyped
    <3> HIDE DEF done, rest
    <3>5. scan.vals[s] <= done' /\ before[s] <= scan.vals[s] + rest'
      BY <3>2, <3>3, <3>4
    <3> QED BY <3>5 DEF done, rest
  <2> QED BY <1>2, <2>1 DEF Copied
<1>6. PostsSeenFirst'
  <2> DEFINE a == SumIn("tcp_l7_promoted", Cores)
             b == SumIn("tcp_l7_match_no_est", Cores)
             c == SumIn("drop_tcp_initconnect_ratelimit", Cores)
             seen == SumIn("tcp_post_client_seen", Cores)
             n == Cardinality(Posts)
  <2>1. a + b + c + n <= seen
    BY DEF Together, PostsSeenFirst
  <2>2. /\ a \in Nat /\ b \in Nat /\ c \in Nat /\ seen \in Nat
        /\ a' = IF slot = "tcp_l7_promoted" THEN a + 1 ELSE a
        /\ b' = IF slot = "tcp_l7_match_no_est" THEN b + 1 ELSE b
        /\ c' = IF slot = "drop_tcp_initconnect_ratelimit" THEN c + 1 ELSE c
        /\ seen' = IF slot = "tcp_post_client_seen" THEN seen + 1 ELSE seen
    BY <1>3, SlotNames DEF PostOutcomes
  <2>3. /\ handler[cpu] = from /\ handler'[cpu] = to
        /\ \A x \in Cores \ {cpu} : handler'[x] = handler[x]
    BY <1>1, <1>2 DEF Bumping, StatsTyped
  <2>4. IsFiniteSet(Posts) /\ IsFiniteSet(Posts') /\ n \in Nat /\ n' \in Nat
    <3>1. Posts \in SUBSET Cores /\ Posts' \in SUBSET Cores
      BY DEF Posts
    <3> QED BY <3>1, CoresFinite, FS_CardinalityType
  <2>5. CASE from # "post" /\ to = "post"
    <3>1. Posts' = Posts \cup {cpu} /\ cpu \notin Posts
      BY <2>3, <2>5 DEF Posts
    <3>2. n' = n + 1
      BY <2>4, <3>1, FS_AddElement
    <3>3. slot = "tcp_post_client_seen"
      BY <1>1, <2>5
    <3> HIDE DEF a, b, c, seen, n
    <3>4. a' + b' + c' + n' <= seen'
      BY <2>1, <2>2, <2>4, <3>2, <3>3
    <3> QED BY <3>4 DEF a, b, c, seen, n, PostsSeenFirst
  <2>6. CASE from = "post" /\ to # "post"
    <3>1. Posts' = Posts \ {cpu} /\ cpu \in Posts
      BY <2>3, <2>6 DEF Posts
    <3>2. n' = n - 1
      BY <2>4, <3>1, FS_RemoveElement
    <3> HIDE DEF a, b, c, seen, n
    <3>3. a' + b' + c' <= a + b + c + 1 /\ seen' >= seen
      BY <2>2
    <3>4. a' + b' + c' + n' <= seen'
      BY <2>1, <2>2, <2>4, <3>2, <3>3
    <3> QED BY <3>4 DEF a, b, c, seen, n, PostsSeenFirst
  <2>7. CASE from # "post" /\ to # "post"
    <3>1. Posts' = Posts
      BY <2>3, <2>7 DEF Posts
    <3>2. slot \notin PostOutcomes
      BY <1>1, <2>7
    <3> HIDE DEF a, b, c, seen, n
    <3>3. n' = n
      BY <3>1 DEF n
    <3>4. a' + b' + c' + n' <= seen'
      BY <2>1, <2>2, <2>4, <3>2, <3>3 DEF PostOutcomes
    <3> QED BY <3>4 DEF a, b, c, seen, n, PostsSeenFirst
  <2> QED BY <1>1, <2>5, <2>6, <2>7
<1>7. OutcomesRead'
  <2> DEFINE rest == SumIn("tcp_post_client_seen", ToCopy(5))
  <2>1. rest \in Nat /\ rest' \in {rest, rest + 1}
    <3>1. ToCopy(5)' = ToCopy(5) /\ ToCopy(5) \in SUBSET Cores
      BY <1>4
    <3> QED BY <1>3, <3>1, SlotNames
  <2>2. \A s \in Slots : scan.vals[s] \in Nat
    BY <1>2 DEF StatsTyped
  <2>3. PostOutcomes \cup {"tcp_post_client_seen"} \subseteq Slots
    BY SlotNames
  <2> HIDE DEF rest
  <2>5. OutcomesRead
    BY DEF Together
  <2> DEFINE outcomes == scan.vals["tcp_l7_promoted"]
                           + scan.vals["tcp_l7_match_no_est"]
                           + scan.vals["drop_tcp_initconnect_ratelimit"]
             seen == scan.vals["tcp_post_client_seen"]
  <2>6. outcomes \in Nat /\ seen \in Nat
    BY <2>2, <2>3 DEF PostOutcomes
  <2>7. scan.slot >= 5 => outcomes <= seen + rest
    BY <2>5 DEF OutcomesRead, rest
  <2> HIDE DEF outcomes, seen
  <2>8. scan.slot >= 5 => outcomes <= seen + rest'
    <3>1. PICK r \in Nat, q \in Nat : r = rest /\ q = rest' /\ r <= q
      BY <2>1
    <3>4. r <= q
      BY <3>1
    <3>2. \A n, m \in Nat : n <= m + r => n <= m + q
      BY <3>4
    <3>3. outcomes <= seen + r => outcomes <= seen + q
      BY <2>6, <3>2
    <3> QED BY <2>7, <3>1, <3>3
  <2> QED BY <1>2, <2>8 DEF outcomes, seen, rest, OutcomesRead
<1> QED BY <1>2, <1>5, <1>6, <1>7 DEF Together

(* One lookup copies one slot of one CPU. *)
LEMMA CopySteps ==
  ASSUME StatsTyped, CopySlot, NEW i, NEW c, i = scan.slot, c = scan.cpu
  PROVE  LET s == StatLabels[i]
         IN  /\ i \in Labels /\ c \in Cores /\ s \in Slots
             /\ StatsTyped'
             /\ UNCHANGED <<slots, handler, before>>
             /\ scan'.slot \in {i, i + 1}
             /\ scan'.vals[s] = scan.vals[s] + slots[c][s]
             /\ \A t \in Slots \ {s} : scan'.vals[t] = scan.vals[t]
             /\ c \in ToCopy(i) /\ ToCopy(i)' = ToCopy(i) \ {c}
             /\ \A j \in Labels \ {i} : ToCopy(j)' = ToCopy(j)
             /\ \A j \in Labels : ToCopy(j) \in SUBSET Cores
<1> DEFINE s == StatLabels[i]
           n == NumCPUs
<1>1. i \in Labels /\ c \in Cores /\ s \in Slots /\ i \in Nat
  BY LabelFacts DEF CopySlot, StatsTyped, Labels
<1>2. n \in Nat \ {0} /\ c \in 1..n /\ c \in Nat
  BY <1>1, CoresFinite DEF Cores
<1>3. /\ scan' = [slot |-> IF c = n THEN i + 1 ELSE i,
                  cpu |-> IF c = n THEN 1 ELSE c + 1,
                  vals |-> [scan.vals EXCEPT ![s] = @ + slots[c][s]]]
      /\ UNCHANGED <<slots, handler, begun, before>>
  BY DEF CopySlot
<1>4. scan.vals \in [Slots -> Nat] /\ slots[c][s] \in Nat
  BY <1>1 DEF StatsTyped
<1>5. /\ scan'.slot = IF c = n THEN i + 1 ELSE i
      /\ scan'.cpu = IF c = n THEN 1 ELSE c + 1
      /\ scan'.vals = [scan.vals EXCEPT ![s] = @ + slots[c][s]]
  BY <1>3
<1>6. /\ scan'.vals[s] = scan.vals[s] + slots[c][s]
      /\ \A t \in Slots \ {s} : scan'.vals[t] = scan.vals[t]
      /\ scan'.vals \in [Slots -> Nat]
  BY <1>1, <1>4, <1>5
<1> HIDE DEF s
<1>7. StatsTyped'
  <2>1. /\ (IF c = n THEN i + 1 ELSE i) \in 0..10
        /\ (IF c = n THEN 1 ELSE c + 1) \in Cores
    BY <1>1, <1>2 DEF Labels, Cores
  <2> DEFINE slot == IF c = n THEN i + 1 ELSE i
             cpu == IF c = n THEN 1 ELSE c + 1
             vals == [scan.vals EXCEPT ![s] = @ + slots[c][s]]
  <2>3. /\ vals \in [Slots -> Nat]
        /\ scan' = [slot |-> slot, cpu |-> cpu, vals |-> vals]
    <3>1. scan'.vals = vals
      BY <1>5
    <3>2. vals \in [Slots -> Nat]
      BY <1>6, <3>1
    <3> QED BY <1>3, <3>2
  <2> HIDE DEF slot, cpu, vals
  <2>4. slot \in 0..10 /\ cpu \in Cores
    BY <2>1 DEF slot, cpu
  <2>2. scan' \in [slot : 0..10, cpu : Cores, vals : [Slots -> Nat]]
    BY <2>3, <2>4
  <2>5. scan'.slot # 0
    BY <1>1, <1>5 DEF Labels
  <2> QED BY <1>3, <2>2, <2>5 DEF StatsTyped
<1>8. c \in ToCopy(i) /\ ToCopy(i)' = ToCopy(i) \ {c}
  <2>1. ToCopy(i) = c..n
    BY <1>1 DEF ToCopy
  <2>2. CASE c = n
    <3>1. ToCopy(i)' = {}
      BY <1>1, <1>5, <2>2 DEF ToCopy
    <3>2. c..n = {c}
      BY <1>2, <2>2
    <3> QED BY <2>1, <3>1, <3>2
  <2>3. CASE c # n
    <3>1. ToCopy(i)' = (c + 1)..n
      BY <1>1, <1>5, <2>3 DEF ToCopy
    <3>2. c \in c..n /\ (c + 1)..n = (c..n) \ {c}
      BY <1>2, <2>3
    <3> QED BY <2>1, <3>1, <3>2
  <2> QED BY <2>2, <2>3
<1>9. ASSUME NEW j \in Labels \ {i} PROVE ToCopy(j)' = ToCopy(j)
  <2>1. j \in Nat
    BY DEF Labels
  <2>2. CASE c = n /\ j = i + 1
    <3>1. ToCopy(j)' = 1..n /\ ToCopy(j) = Cores
      BY <1>1, <1>5, <2>2 DEF ToCopy
    <3> QED BY <3>1 DEF Cores
  <2>3. CASE ~(c = n /\ j = i + 1)
    BY <1>1, <1>5, <1>9, <2>1, <2>3 DEF ToCopy
  <2> QED BY <2>2, <2>3
<1>10. ASSUME NEW j \in Labels PROVE ToCopy(j) \in SUBSET Cores
  <2>1. c..n \subseteq Cores
    BY <1>2 DEF Cores
  <2> QED BY <2>1 DEF ToCopy
<1>11. scan'.slot \in {i, i + 1}
  BY <1>5
<1> QED BY <1>1, <1>3, <1>6, <1>7, <1>8, <1>9, <1>10, <1>11 DEF s

LEMMA TogetherCopy ==
  ASSUME Together, CopySlot
  PROVE  Together'
<1>1. PICK i, c : StatsTyped /\ i = scan.slot /\ c = scan.cpu
  BY DEF Together
<1> DEFINE s == StatLabels[i]
<1>2. /\ i \in Labels /\ c \in Cores /\ s \in Slots
      /\ StatsTyped'
      /\ UNCHANGED <<slots, handler, before>>
      /\ scan'.slot \in {i, i + 1}
      /\ scan'.vals[s] = scan.vals[s] + slots[c][s]
      /\ \A t \in Slots \ {s} : scan'.vals[t] = scan.vals[t]
      /\ c \in ToCopy(i) /\ ToCopy(i)' = ToCopy(i) \ {c}
      /\ \A j \in Labels \ {i} : ToCopy(j)' = ToCopy(j)
      /\ \A j \in Labels : ToCopy(j) \in SUBSET Cores
  BY <1>1, CopySteps
<1>4. \A t \in Slots, C \in SUBSET Cores : SumIn(t, C) \in Nat
  BY <1>1, SumInNat
<1>5. ASSUME NEW C \in SUBSET Cores, c \notin C
      PROVE  SumIn(s, C \cup {c}) = SumIn(s, C) + slots[c][s]
  <2> DEFINE f == [x \in Cores |-> slots[x][s]]
  <2>1. IsFiniteSet(C) /\ f[c] = slots[c][s] /\ f[c] \in Nat
        /\ \A x \in C : f[x] \in Nat
    BY <1>1, <1>2, CoresFinite DEF StatsTyped
  <2> HIDE DEF f
  <2>2. SumOver(f, C \cup {c}) = SumOver(f, C) + f[c]
    BY <1>5, <2>1, SumWith
  <2> QED BY <2>1, <2>2 DEF SumIn, f
<1>6. \A t \in Slots, C \in SUBSET Cores : SumIn(t, C)' = SumIn(t, C)
  BY <1>2 DEF SumIn
<1>7. \A t \in Slots : scan.vals[t] \in Nat /\ scan'.vals[t] \in Nat
                       /\ before[t] \in Nat
  BY <1>1, <1>2 DEF StatsTyped
<1>8. slots[c][s] \in Nat
  BY <1>1, <1>2 DEF StatsTyped
<1>9. c \notin Cores \ ToCopy(i) /\ c \notin ToCopy(i)'
      /\ ToCopy(i) = ToCopy(i)' \cup {c}
      /\ Cores \ ToCopy(i)' = (Cores \ ToCopy(i)) \cup {c}
      /\ ToCopy(i)' \in SUBSET Cores
  BY <1>2
<1> HIDE DEF s
<1>10. Copied'
  <2>1. ASSUME NEW j \in Labels
        PROVE  /\ scan'.vals[StatLabels[j]]
                    <= SumIn(StatLabels[j], Cores \ ToCopy(j))'
               /\ before[StatLabels[j]]
                    <= scan'.vals[StatLabels[j]]
                         + SumIn(StatLabels[j], ToCopy(j))'
    <3> DEFINE t == StatLabels[j]
    <3>1. t \in Slots /\ ToCopy(j) \in SUBSET Cores
      BY <1>2, LabelFacts
    <3>2. /\ scan.vals[t] <= SumIn(t, Cores \ ToCopy(j))
          /\ before[t] <= scan.vals[t] + SumIn(t, ToCopy(j))
      BY DEF Together, Copied
    <3>3. CASE j # i
      <4>1. t # s
        BY <1>2, <3>3, LabelFacts DEF s
      <4>2. ToCopy(j)' = ToCopy(j) /\ scan'.vals[t] = scan.vals[t]
        BY <1>2, <3>1, <3>3, <4>1
      <4>3. /\ SumIn(t, Cores \ ToCopy(j))' = SumIn(t, Cores \ ToCopy(j))
            /\ SumIn(t, ToCopy(j))' = SumIn(t, ToCopy(j))
        <5>1. \A C \in SUBSET Cores : SumIn(t, C)' = SumIn(t, C)
          BY <1>6, <3>1
        <5> QED BY <1>2, <3>1, <4>2, <5>1 DEF SumIn
      <4> QED BY <3>2, <4>2, <4>3
    <3>4. CASE j = i
      <4>1. t = s
        BY <3>4 DEF s
      <4> DEFINE done == SumIn(s, Cores \ ToCopy(i))
                 left == SumIn(s, ToCopy(i))
                 d == slots[c][s]
      <4>2. SumIn(s, Cores \ ToCopy(i))' = done + d
        <5>1. SumIn(s, (Cores \ ToCopy(i)) \cup {c}) = done + d
          BY <1>5, <1>9
        <5>2. SumIn(s, Cores \ ToCopy(i))'
                = SumIn(s, (Cores \ ToCopy(i)) \cup {c})
          BY <1>2, <1>9 DEF SumIn, s
        <5> QED BY <5>1, <5>2
      <4>3. left = SumIn(s, ToCopy(i))' + d
        <5> DEFINE C == ToCopy(i) \ {c}
        <5>1. SumIn(s, C \cup {c}) = SumIn(s, C) + d
          BY <1>2, <1>5
        <5>2. SumIn(s, ToCopy(i))' = SumIn(s, C)
          BY <1>2 DEF SumIn, s
        <5>3. C \cup {c} = ToCopy(i)
          BY <1>2
        <5> QED BY <5>1, <5>2, <5>3
      <4>4. done \in Nat /\ left \in Nat /\ SumIn(s, ToCopy(i))' \in Nat
        <5>1. SumIn(s, ToCopy(i) \ {c}) \in Nat
          BY <1>2, <1>4
        <5>2. SumIn(s, ToCopy(i))' = SumIn(s, ToCopy(i) \ {c})
          BY <1>2 DEF SumIn, s
        <5> QED BY <1>2, <1>4, <5>1, <5>2
      <4>5. scan'.vals[s] = scan.vals[s] + d
        BY <1>2
      <4>6. /\ scan.vals[s] <= done /\ before[s] <= scan.vals[s] + left
        BY <3>2, <3>4, <4>1
      <4>7. scan.vals[s] \in Nat /\ before[s] \in Nat /\ d \in Nat
        BY <1>2, <1>7, <1>8
      <4>8. /\ SumIn(t, Cores \ ToCopy(j))' = SumIn(s, Cores \ ToCopy(i))'
            /\ SumIn(t, ToCopy(j))' = SumIn(s, ToCopy(i))'
        BY <3>4 DEF s
      <4> DEFINE doneAfter == SumIn(s, Cores \ ToCopy(i))'
                 leftAfter == SumIn(s, ToCopy(i))'
      <4>9. /\ doneAfter = done + d /\ left = leftAfter + d
            /\ leftAfter \in Nat
        BY <4>2, <4>3, <4>4
      <4> HIDE DEF done, left, d, doneAfter, leftAfter
      <4>10. /\ scan'.vals[s] <= doneAfter
             /\ before[s] <= scan'.vals[s] + leftAfter
        BY <4>4, <4>5, <4>6, <4>7, <4>9
      <4> QED BY <4>1, <4>8, <4>10 DEF doneAfter, leftAfter
    <3> QED BY <3>3, <3>4
  <2> QED BY <1>2, <2>1 DEF Copied
<1>11. PostsSeenFirst'
  <2>1. PostOutcomes \cup {"tcp_post_client_seen"} \subseteq Slots
    BY SlotNames
  <2>2. PostsSeenFirst
    BY DEF Together
  <2>3. \A t \in Slots : SumIn(t, Cores)' = SumIn(t, Cores)
    BY <1>6
  <2>4. Posts' = Posts
    BY <1>2 DEF Posts
  <2> QED BY <2>1, <2>2, <2>3, <2>4 DEF PostsSeenFirst, PostOutcomes
<1>12. OutcomesRead'
  <2> DEFINE seen == "tcp_post_client_seen"
             a == "tcp_l7_promoted"
             b == "tcp_l7_match_no_est"
             d == "drop_tcp_initconnect_ratelimit"
             rest == SumIn(seen, ToCopy(5))
             restAfter == SumIn(seen, ToCopy(5))'
             outcomes == scan.vals[a] + scan.vals[b] + scan.vals[d]
             outcomesAfter == scan'.vals[a] + scan'.vals[b] + scan'.vals[d]
  <2>1. {a, b, d, seen} \subseteq Slots
    BY SlotNames DEF PostOutcomes
  <2>2. scan.slot = i /\ i \in Labels /\ scan'.slot \in Nat
    BY <1>1, <1>2 DEF Labels
  <2>3. /\ rest \in Nat /\ restAfter \in Nat
        /\ scan.vals[seen] \in Nat /\ scan'.vals[seen] \in Nat
        /\ outcomes \in Nat /\ outcomesAfter \in Nat
    <3>1. ToCopy(5) \in SUBSET Cores
      BY <1>2 DEF Labels
    <3>2. ToCopy(5)' \in SUBSET Cores
      <4>1. CASE i = 5
        BY <1>9, <4>1
      <4>2. CASE i # 5
        BY <1>2, <3>1, <4>2 DEF Labels
      <4> QED BY <4>1, <4>2
    <3>3. restAfter = SumIn(seen, ToCopy(5)')
      BY <1>2 DEF SumIn
    <3>4. rest \in Nat /\ SumIn(seen, ToCopy(5)') \in Nat
      BY <1>4, <2>1, <3>1, <3>2
    <3> QED BY <1>7, <2>1, <3>3, <3>4
  <2>4. CASE i = 5
    <3>1. s = seen
      BY <2>4, LabelFacts DEF s
    <3>2. outcomesAfter = outcomes
      BY <1>2, <2>1, <3>1
    <3>3. rest = restAfter + slots[c][seen]
      <4> DEFINE C == ToCopy(5) \ {c}
      <4>1. SumIn(seen, C \cup {c}) = SumIn(seen, C) + slots[c][seen]
        BY <1>2, <1>5, <2>4, <3>1
      <4>2. restAfter = SumIn(seen, C)
        BY <1>2, <2>4 DEF SumIn
      <4>3. C \cup {c} = ToCopy(5)
        BY <1>2, <2>4
      <4> QED BY <4>1, <4>2, <4>3
    <3>4. scan'.vals[seen] = scan.vals[seen] + slots[c][seen]
          /\ slots[c][seen] \in Nat
      BY <1>2, <1>8, <3>1
    <3>5. outcomes <= scan.vals[seen] + rest
      BY <2>2, <2>4 DEF Together, OutcomesRead
    <3> HIDE DEF rest, restAfter, outcomes, outcomesAfter, seen
    <3>6. outcomesAfter <= scan'.vals[seen] + restAfter
      BY <2>3, <3>2, <3>3, <3>4, <3>5
    <3> QED BY <3>6 DEF OutcomesRead, restAfter, outcomesAfter, seen
  <2>5. CASE i > 5
    <3>1. /\ \A t \in {a, b, d, seen} : scan'.vals[t] = scan.vals[t]
      <4>1. \A t \in {a, b, d, seen} : t # s
        BY <1>2, <2>5, LabelFacts DEF Labels, s
      <4> QED BY <1>2, <2>1, <4>1
    <3>2. restAfter = rest
      <4>1. ToCopy(5)' = ToCopy(5)
        BY <1>2, <2>2, <2>5 DEF Labels
      <4> QED BY <1>2, <4>1 DEF SumIn
    <3>3. outcomes <= scan.vals[seen] + rest
      <4>1. scan.slot >= 5
        BY <2>2, <2>5 DEF Labels
      <4> QED BY <4>1 DEF Together, OutcomesRead
    <3> QED BY <3>1, <3>2, <3>3 DEF OutcomesRead
  <2>6. CASE i < 5 /\ scan'.slot >= 5
    <3>1. ToCopy(5) = Cores /\ ToCopy(5)' = Cores
      BY <1>2, <2>2, <2>6 DEF Labels, ToCopy
    <3>2. restAfter = SumIn(seen, Cores)
      BY <1>2, <3>1 DEF SumIn
    <3>3. \A t \in {a, b, d} : scan'.vals[t] <= SumIn(t, Cores)
      <4>1. ASSUME NEW j \in Labels, j < 5
            PROVE  scan'.vals[StatLabels[j]] <= SumIn(StatLabels[j], Cores)
        <5>1. ToCopy(j)' = {}
          <6>1. j < scan'.slot
            BY <2>2, <2>6, <4>1 DEF Labels
          <6> QED BY <6>1 DEF ToCopy
        <5>2. scan'.vals[StatLabels[j]]
                <= SumIn(StatLabels[j], Cores \ ToCopy(j))'
          BY <1>10 DEF Copied
        <5>3. SumIn(StatLabels[j], Cores \ ToCopy(j))'
                = SumIn(StatLabels[j], Cores)
          BY <1>2, <5>1 DEF SumIn
        <5> QED BY <5>2, <5>3
      <4> QED BY <4>1, LabelFacts DEF Labels
    <3>4. /\ PostsSeenFirst
          /\ Cardinality(Posts) \in Nat
      <4>1. Posts \in SUBSET Cores
        BY DEF Posts
      <4> QED BY <4>1, CoresFinite, FS_CardinalityType DEF Together
    <3>5. \A t \in {a, b, d, seen} :
             SumIn(t, Cores) \in Nat /\ scan'.vals[t] \in Nat
      BY <1>4, <1>7, <2>1
    <3> DEFINE A == SumIn(a, Cores)
               B == SumIn(b, Cores)
               D == SumIn(d, Cores)
               n == Cardinality(Posts)
               S == SumIn(seen, Cores)
    <3>6. A + B + D + n <= S
      BY <3>4 DEF PostsSeenFirst
    <3>7. A \in Nat /\ B \in Nat /\ D \in Nat /\ n \in Nat /\ S \in Nat
      BY <3>4, <3>5
    <3>8. scan'.vals[a] <= A /\ scan'.vals[b] <= B /\ scan'.vals[d] <= D
      BY <3>3
    <3> HIDE DEF A, B, D, n, S
    <3>9. outcomesAfter <= scan'.vals[seen] + S
      BY <3>5, <3>6, <3>7, <3>8
    <3> QED BY <3>2, <3>9 DEF OutcomesRead, S
  <2>7. CASE scan'.slot < 5
    BY <2>2, <2>7 DEF OutcomesRead
  <2>8. i \in Nat /\ (i < 5 \/ i = 5 \/ i > 5)
        /\ (scan'.slot < 5 \/ scan'.slot >= 5)
    BY <2>2 DEF Labels
  <2> QED BY <2>4, <2>5, <2>6, <2>7, <2>8
<1> QED BY <1>2, <1>10, <1>11, <1>12 DEF Together

(* The scan begins with the totals of the moment, and nothing copied. *)
LEMMA TogetherBegin ==
  ASSUME Together, ScanBegin
  PROVE  Together'
<1>1. /\ StatsTyped
      /\ scan.slot = 0 /\ scan.cpu = 1
      /\ scan' = [scan EXCEPT !.slot = 1]
      /\ before' = [s \in Slots |-> SlotTotal(s)]
      /\ UNCHANGED <<slots, handler, begun>>
  BY DEF Together, StatsTyped, ScanBegin
<1>2. \A t \in Slots, C \in SUBSET Cores :
        SumIn(t, C)' = SumIn(t, C) /\ SumIn(t, C) \in Nat
  BY <1>1, SumInNat DEF SumIn
<1>3. \A t \in Slots : SlotTotal(t) = SumIn(t, Cores)
  BY DEF SlotTotal, SumIn
<1>4. scan'.slot = 1 /\ scan'.cpu = 1 /\ scan'.vals = scan.vals
  BY <1>1 DEF StatsTyped
<1>5. StatsTyped'
  <2>1. scan' \in [slot : 0..10, cpu : Cores, vals : [Slots -> Nat]]
    BY <1>1 DEF StatsTyped
  <2>2. before' \in [Slots -> Nat]
    BY <1>1, <1>2, <1>3
  <2> QED BY <1>1, <1>4, <2>1, <2>2 DEF StatsTyped
<1>6. \A i \in Labels : ToCopy(i) = Cores /\ ToCopy(i)' = Cores
  BY <1>1, <1>4 DEF ToCopy, Labels, Cores
<1>7. Copied'
  <2>1. ASSUME NEW i \in Labels
        PROVE  /\ scan'.vals[StatLabels[i]]
                    <= SumIn(StatLabels[i], Cores \ ToCopy(i))'
               /\ before'[StatLabels[i]]
                    <= scan'.vals[StatLabels[i]]
                         + SumIn(StatLabels[i], ToCopy(i))'
    <3> DEFINE s == StatLabels[i]
    <3>1. s \in Slots
      BY LabelFacts
    <3>2. scan.vals[s] <= SumIn(s, Cores \ ToCopy(i))
      BY DEF Together, Copied
    <3>3. /\ SumIn(s, Cores \ ToCopy(i))' = SumIn(s, Cores \ ToCopy(i))
          /\ SumIn(s, ToCopy(i))' = SumIn(s, Cores)
      BY <1>1, <1>6 DEF SumIn
    <3>4. before'[s] = SumIn(s, Cores) /\ scan.vals[s] \in Nat
          /\ SumIn(s, Cores) \in Nat
      BY <1>1, <1>2, <1>3, <3>1 DEF StatsTyped
    <3> DEFINE total == SumIn(s, Cores)
               v == scan.vals[s]
    <3>5. total \in Nat /\ v \in Nat => total <= v + total
      OBVIOUS
    <3> HIDE DEF s
    <3> QED BY <1>4, <3>2, <3>3, <3>4, <3>5 DEF s
  <2> QED BY <2>1 DEF Copied
<1>8. PostsSeenFirst'
  <2>1. PostOutcomes \cup {"tcp_post_client_seen"} \subseteq Slots
    BY SlotNames
  <2>2. Posts' = Posts
    BY <1>1 DEF Posts
  <2> QED BY <1>2, <2>1, <2>2 DEF Together, PostsSeenFirst, PostOutcomes
<1>9. OutcomesRead'
  BY <1>4 DEF OutcomesRead
<1> QED BY <1>5, <1>7, <1>8, <1>9 DEF Together

LEMMA TogetherFirst ==
  ASSUME StatsInit
  PROVE  Together
<1>1. StatsTyped
  <2>1. 1 \in Cores
    BY CoresFinite
  <2> QED BY <2>1 DEF StatsInit, StatsTyped
<1>2. \A t \in Slots : SumIn(t, Cores) = 0
  <2>1. ASSUME NEW t \in Slots
        PROVE  SumIn(t, Cores) = 0
    <3>1. Units([c \in Cores |-> slots[c][t]], Cores) = {}
      BY DEF StatsInit, Units
    <3> QED BY <3>1, FS_EmptySet DEF SumIn, SumOver
  <2> QED BY <2>1
<1>3. \A i \in Labels : ToCopy(i) = Cores /\ Cores \ ToCopy(i) = {}
  BY DEF ToCopy, StatsInit, Labels
<1>4. \A t \in Slots : scan.vals[t] = 0 /\ before[t] = 0
  BY DEF StatsInit
<1>5. Copied
  BY <1>2, <1>3, <1>4, NothingSummed, LabelFacts DEF Copied
<1>6. PostsSeenFirst
  <2>1. Posts = {}
    BY DEF Posts, StatsInit
  <2>2. Cardinality(Posts) = 0
    BY <2>1, FS_EmptySet
  <2> QED BY <1>2, <2>2, SlotNames DEF PostsSeenFirst, PostOutcomes
<1>7. OutcomesRead
  BY DEF OutcomesRead, StatsInit
<1> QED BY <1>1, <1>5, <1>6, <1>7 DEF Together

LEMMA TogetherShows ==
  ASSUME Together
  PROVE  CountersReadTogether
<1> SUFFICES ASSUME Scanned
             PROVE  /\ \A s \in Slots : /\ before[s] <= scan.vals[s]
                                        /\ scan.vals[s] <= SlotTotal(s)
                    /\ scan.vals["tcp_l7_promoted"]
                         + scan.vals["tcp_l7_match_no_est"]
                         + scan.vals["drop_tcp_initconnect_ratelimit"]
                       <= scan.vals["tcp_post_client_seen"]
  BY DEF CountersReadTogether
<1>1. StatsTyped /\ scan.slot = 10
  <2>1. StatsTyped
    BY DEF Together
  <2>2. scan.slot \in 0..10 /\ scan.slot > 9
    BY <2>1, LabelFacts DEF StatsTyped, Scanned
  <2> QED BY <2>1, <2>2
<1>2. \A i \in Labels : ToCopy(i) = {}
  BY <1>1 DEF ToCopy, Labels
<1>3. ASSUME NEW s \in Slots
      PROVE  before[s] <= scan.vals[s] /\ scan.vals[s] <= SlotTotal(s)
  <2>1. PICK i \in Labels : s = StatLabels[i]
    BY LabelFacts DEF Slots
  <2>2. /\ scan.vals[s] <= SumIn(s, Cores \ ToCopy(i))
        /\ before[s] <= scan.vals[s] + SumIn(s, ToCopy(i))
    BY <2>1 DEF Together, Copied
  <2>3. SumIn(s, Cores \ ToCopy(i)) = SlotTotal(s) /\ SumIn(s, ToCopy(i)) = 0
    BY <1>2, NothingSummed DEF SumIn, SlotTotal
  <2>4. scan.vals[s] \in Nat
    BY <1>1 DEF StatsTyped
  <2> QED BY <2>2, <2>3, <2>4
<1>4. /\ scan.vals["tcp_l7_promoted"] + scan.vals["tcp_l7_match_no_est"]
           + scan.vals["drop_tcp_initconnect_ratelimit"]
         <= scan.vals["tcp_post_client_seen"]
  <2>1. SumIn("tcp_post_client_seen", ToCopy(5)) = 0
    BY <1>2, NothingSummed DEF Labels
  <2>2. scan.vals["tcp_post_client_seen"] \in Nat
    BY <1>1, SlotNames DEF StatsTyped
  <2> QED BY <1>1, <2>1, <2>2 DEF Together, OutcomesRead
<1> QED BY <1>3, <1>4

(* The counters of one read of the stats array (ReadStats) stand together, *)
(* for any number of CPUs and of requests: each is a value its slot had    *)
(* while the scan ran, and no more POSTs are reported promoted, unmatched  *)
(* or limited than seen.                                                   *)
THEOREM CountersStandTogether == StatsSpec => []CountersReadTogether
<1>1. StatsInit => Together
  BY TogetherFirst
<1>2. Together /\ [StatsNext]_statsVars => Together'
  <2> SUFFICES ASSUME Together, [StatsNext]_statsVars
               PROVE  Together'
    OBVIOUS
  <2>1. CASE ScanBegin
    BY <2>1, TogetherBegin
  <2>2. CASE CopySlot
    BY <2>2, TogetherCopy
  <2>3. ASSUME NEW cpu \in Cores, Handle(cpu)
        PROVE  Together'
    BY <2>3, TogetherHandle
  <2>4. CASE UNCHANGED statsVars
    BY <2>4 DEF statsVars, Together, StatsTyped, Copied, PostsSeenFirst,
                OutcomesRead, SumIn, ToCopy, Posts
  <2> QED BY <2>1, <2>2, <2>3, <2>4 DEF StatsNext
<1>3. Together => CountersReadTogether
  BY TogetherShows
<1> QED BY <1>1, <1>2, <1>3, PTL DEF StatsSpec

------------------------------------------------------------------------------
(* Health: payloads counted in tumbling windows. *)

------------------------------------------------------------------------------
(* What a step does to the entry of a source and to its record *)

(* A malformed payload of ip is counted. *)
Strike(ip) ==
  /\ UdpMalformed(ip)
  /\ strikes' = [strikes EXCEPT ![ip] = @ \cup {<<now, load>>}]
  /\ trips' = IF udpHealth'[ip].blacklistUntil > now
              THEN [trips EXCEPT ![ip] = @ \cup {now}] ELSE trips

(* Anything else, within a tick or as the clock moves on. *)
Quiet ==
  /\ UNCHANGED history
  /\ \/ udpHealth' = udpHealth
     \/ /\ "udp_health" \in Evictable
        /\ \E ip \in IPs : udpHealth' = Forget(udpHealth, ip)
  /\ \/ now' = now /\ load' \in {load, load + 1}
     \/ now' = now + 1 /\ load' = 0

LEMMA AcceptedIsQuiet ==
  ASSUME NEW ip \in IPs, Accepted(ip), UNCHANGED history
  PROVE  Quiet
<1>1. CASE UdpPass(ip)
  BY <1>1 DEF UdpPass, Verdict, Quiet
<1>2. ASSUME NEW syn \in BOOLEAN, NEW cpu \in CPUs, TcpPassed(ip, syn, cpu)
      PROVE  Quiet
  BY <1>2 DEF TcpPassed, TcpSegment, PostPromotes, PostWithoutHandshake,
              PostUnknownUserAgent, PostAccepted, GetAccepted, PassTcp,
              Verdict, Quiet
<1> QED BY <1>1, <1>2 DEF Accepted

LEMMA RefusedIsQuiet ==
  ASSUME NEW ip \in IPs, UNCHANGED history,
         \/ Fragment(ip) \/ UdpNotWhitelisted(ip) \/ UdpExpired(ip)
         \/ UdpUnhealthy(ip) \/ UdpLimited(ip)
         \/ \E cpu \in CPUs : TcpRefusedSource(ip, cpu)
         \/ \E syn \in BOOLEAN, cpu \in CPUs : TcpDropped(ip, syn, cpu)
  PROVE  Quiet
<1>1. ASSUME NEW reason, NEW known, Refuse(ip, reason, known) PROVE Quiet
  BY <1>1 DEF Refuse, DropPacket, Verdict, Quiet
<1>2. ASSUME NEW syn, NEW cpu, NEW reason, NEW known, NEW seen,
             DropSegment(ip, syn, cpu, reason, known, seen)
      PROVE  Quiet
  BY <1>2 DEF DropSegment, DropPacket, Verdict, Quiet
<1>3. CASE \/ Fragment(ip) \/ UdpNotWhitelisted(ip) \/ UdpExpired(ip)
           \/ UdpUnhealthy(ip) \/ UdpLimited(ip)
  BY <1>1, <1>3 DEF Fragment, UdpNotWhitelisted, UdpExpired, UdpUnhealthy,
                    UdpLimited
<1>4. ASSUME NEW cpu \in CPUs, TcpRefusedSource(ip, cpu) PROVE Quiet
  BY <1>1, <1>4 DEF TcpRefusedSource, TcpNoSyn, SynTooManyOpen,
                    SynGlobalLimited
<1>5. ASSUME NEW syn \in BOOLEAN, NEW cpu \in CPUs, TcpDropped(ip, syn, cpu)
      PROVE  Quiet
  BY <1>2, <1>5 DEF TcpDropped, TcpMalformed, RequestBadUserAgent, PostLimited,
                    GetLimited
<1> QED BY <1>3, <1>4, <1>5

LEMMA KernelIsQuiet ==
  ASSUME NEW ip \in IPs, Kernel(ip), UNCHANGED history
  PROVE  Quiet
<1>1. CASE Established(ip) \/ Closed(ip) \/ HandshakeLost(ip)
  BY <1>1 DEF Established, Closed, HandshakeLost, Quiet
<1>2. CASE Evict(ip)
  BY <1>2 DEF Evict, Quiet
<1> QED BY <1>1, <1>2 DEF Kernel

LEMMA StepKinds ==
  ASSUME [HNext]_<<vars, history>>
  PROVE  Quiet \/ \E ip \in IPs : Strike(ip)
<1>1. CASE UNCHANGED <<vars, history>>
  BY <1>1 DEF vars, Quiet
<1>2. CASE Tick /\ UNCHANGED history
  BY <1>2 DEF Tick, Quiet
<1> QED BY <1>1, <1>2, AcceptedIsQuiet, RefusedIsQuiet, KernelIsQuiet
        DEF HNext, Strike

(* The record only watches. *)
LEMMA HNextIsNext ==
  ASSUME [HNext]_<<vars, history>>
  PROVE  [Next]_vars
  BY DEF HNext, Next, Rejected, UdpDropped, vars

LEMMA HTypes == HSpec => []TypeOK
<1>1. HInit => TypeOK
  BY InitTypes DEF HInit
<1>2. TypeOK /\ [HNext]_<<vars, history>> => TypeOK'
  BY HNextIsNext, NextTypes
<1> QED BY <1>1, <1>2, PTL DEF HSpec

------------------------------------------------------------------------------
(* The record itself *)

(* No two strikes are the same, and none is in the future. *)
Recorded ==
  /\ strikes \in [IPs -> SUBSET ((0..now) \X (0..MaxPerTick))]
  /\ \A ip \in IPs : \A s \in strikes[ip] : s[1] = now => s[2] < load
  /\ trips \in [IPs -> SUBSET (0..now)]

CountIn(S, interval) == Cardinality({s \in S : s[1] \in interval})

LEMMA RecordFinite ==
  ASSUME TypeOK, Recorded, NEW ip \in IPs, NEW interval
  PROVE  /\ IsFiniteSet(strikes[ip])
         /\ IsFiniteSet({s \in strikes[ip] : s[1] \in interval})
         /\ CountIn(strikes[ip], interval) \in Nat
<1>1. now \in Int /\ MaxPerTick \in Int
  BY Kept, ClockPast, BoundsAssumption
<1>2. IsFiniteSet(0..now) /\ IsFiniteSet(0..MaxPerTick)
  BY <1>1, FS_Interval
<1>3. IsFiniteSet((0..now) \X (0..MaxPerTick))
  BY <1>2, FS_Product
<1>4. strikes[ip] \in SUBSET ((0..now) \X (0..MaxPerTick))
  BY DEF Recorded
<1>5. IsFiniteSet(strikes[ip])
  BY <1>3, <1>4, FS_Subset
<1>6. IsFiniteSet({s \in strikes[ip] : s[1] \in interval})
  BY <1>5, FS_Subset
<1> QED BY <1>5, <1>6, FS_CardinalityType DEF CountIn

LEMMA StrikeCounts ==
  ASSUME TypeOK, Recorded, NEW ip \in IPs, Strike(ip), NEW interval
  PROVE  CountIn(strikes'[ip], interval) =
           CountIn(strikes[ip], interval) + IF now \in interval THEN 1 ELSE 0
<1> DEFINE old == {s \in strikes[ip] : s[1] \in interval}
           new == {s \in strikes'[ip] : s[1] \in interval}
           strike == <<now, load>>
<1>1. strikes'[ip] = strikes[ip] \cup {strike}
  BY DEF Strike, Recorded
<1>2. strike \notin strikes[ip]
  <2>1. strike \in strikes[ip] => load < load
    BY DEF Recorded
  <2> QED BY <2>1, Kept, BoundsAssumption DEF ClockOK
<1>3. new = IF now \in interval THEN old \cup {strike} ELSE old
  BY <1>1
<1>4. strike \notin old
  BY <1>2
<1>5. IsFiniteSet(old) /\ Cardinality(old) \in Nat
  BY RecordFinite, FS_CardinalityType
<1> HIDE DEF old, new, strike
<1>6. Cardinality(old \cup {strike}) = Cardinality(old) + 1
  BY <1>4, <1>5, FS_AddElement
<1>7. CountIn(strikes[ip], interval) = Cardinality(old)
  BY DEF CountIn, old
<1>8. CountIn(strikes'[ip], interval) = Cardinality(new)
  BY DEF CountIn, new
<1>9. CASE now \in interval
  BY <1>3, <1>6, <1>7, <1>8, <1>9
<1>10. CASE now \notin interval
  BY <1>3, <1>5, <1>7, <1>8, <1>10
<1> QED BY <1>9, <1>10

LEMMA RecordedInit == HInit => Recorded
  BY DEF HInit, Recorded

LEMMA RecordedNext ==
  TypeOK /\ Recorded /\ [HNext]_<<vars, history>> => Recorded'
<1> SUFFICES ASSUME TypeOK, Recorded, [HNext]_<<vars, history>>
             PROVE  Recorded'
  OBVIOUS
<1>1. now \in Nat /\ load \in Nat /\ MaxPerTick \in Nat /\ load <= MaxPerTick
  BY Kept, ClockPast, BoundsAssumption DEF ClockOK
<1>2. CASE Quiet
  <2>1. now' \in Nat /\ now <= now'
    BY <1>1, <1>2 DEF Quiet
  <2>2. 0..now \subseteq 0..now'
    BY <1>1, <2>1
  <2>3. strikes' = strikes /\ trips' = trips
    BY <1>2 DEF Quiet, history
  <2>4. \A ip \in IPs : \A s \in strikes[ip] : s[1] \in 0..now /\ s[2] \in Nat
    BY DEF Recorded
  <2>5. \A ip \in IPs : \A s \in strikes[ip] : s[1] = now' => s[2] < load'
    BY <1>1, <1>2, <2>4 DEF Quiet, Recorded
  <2> QED BY <2>2, <2>3, <2>5 DEF Recorded
<1>3. ASSUME NEW ip \in IPs, Strike(ip) PROVE Recorded'
  <2>1. /\ now' = now /\ load' = load + 1 /\ load < MaxPerTick
    BY <1>3 DEF Strike, UdpMalformed, DropPacket, Verdict
  <2>2. <<now, load>> \in (0..now) \X (0..MaxPerTick)
    BY <1>1
  <2>3. strikes' \in [IPs -> SUBSET ((0..now) \X (0..MaxPerTick))]
    BY <1>3, <2>2 DEF Strike, Recorded
  <2>4. trips' \in [IPs -> SUBSET (0..now)]
    BY <1>1, <1>3 DEF Strike, Recorded
  <2>5. ASSUME NEW other \in IPs, NEW s \in strikes'[other], s[1] = now
        PROVE  s[2] < load + 1
    <3>1. CASE s \in strikes[other]
      <4>1. s[2] < load /\ s[2] \in Nat
        BY <2>5, <3>1 DEF Recorded
      <4> QED BY <1>1, <4>1
    <3>2. CASE s \notin strikes[other]
      <4>1. s = <<now, load>>
        BY <1>3, <2>5, <3>2 DEF Strike, Recorded
      <4> QED BY <1>1, <4>1
    <3> QED BY <3>1, <3>2
  <2> QED BY <2>1, <2>3, <2>4, <2>5 DEF Recorded
<1> QED BY <1>2, <1>3, StepKinds

------------------------------------------------------------------------------
(* What the two kinds of step do to the entries and to the record *)

LEMMA HealthTypes ==
  ASSUME TypeOK, NEW ip \in DOMAIN udpHealth
  PROVE  /\ ip \in IPs
         /\ udpHealth[ip].anomalies \in Nat \ {0}
         /\ udpHealth[ip].windowStart \in 0..now
         /\ udpHealth[ip].blacklistUntil \in 0..(now + HealthBlacklist)
  BY Kept DEF Holds, Health, Past

LEMMA StrikeEffect ==
  ASSUME TypeOK, Recorded, NEW ip \in IPs, Strike(ip)
  PROVE  /\ now' = now
         /\ ~Blacklisted(ip)
         /\ DOMAIN udpHealth' = DOMAIN udpHealth \cup {ip}
         /\ udpHealth'[ip] = IF ip \in DOMAIN udpHealth
                             THEN CountAnomaly(udpHealth[ip]) ELSE NewHealth
         /\ strikes'[ip] = strikes[ip] \cup {<<now, load>>}
         /\ trips'[ip] = IF udpHealth'[ip].blacklistUntil > now
                         THEN trips[ip] \cup {now} ELSE trips[ip]
         /\ \A other \in IPs \ {ip} :
              /\ strikes'[other] = strikes[other]
              /\ trips'[other] = trips[other]
              /\ other \in DOMAIN udpHealth =>
                   udpHealth'[other] = udpHealth[other]
<1>1. now' = now /\ ~Blacklisted(ip) /\ udpHealth' = RecordAnomaly(ip)
  BY DEF Strike, UdpMalformed, DropPacket, Verdict
<1>2. /\ DOMAIN udpHealth' = DOMAIN udpHealth \cup {ip}
      /\ udpHealth'[ip] = IF ip \in DOMAIN udpHealth
                          THEN CountAnomaly(udpHealth[ip]) ELSE NewHealth
      /\ \A other \in IPs \ {ip} :
           other \in DOMAIN udpHealth => udpHealth'[other] = udpHealth[other]
  BY <1>1 DEF RecordAnomaly, Put
<1>3. /\ strikes'[ip] = strikes[ip] \cup {<<now, load>>}
      /\ trips'[ip] = IF udpHealth'[ip].blacklistUntil > now
                      THEN trips[ip] \cup {now} ELSE trips[ip]
      /\ \A other \in IPs \ {ip} : /\ strikes'[other] = strikes[other]
                                   /\ trips'[other] = trips[other]
  BY DEF Strike, Recorded
<1> QED BY <1>1, <1>2, <1>3

LEMMA QuietEffect ==
  ASSUME TypeOK, Quiet
  PROVE  /\ strikes' = strikes /\ trips' = trips
         /\ now' \in {now, now + 1}
         /\ DOMAIN udpHealth' \subseteq DOMAIN udpHealth
         /\ \A ip \in DOMAIN udpHealth' : udpHealth'[ip] = udpHealth[ip]
         /\ "udp_health" \notin Evictable => udpHealth' = udpHealth
  BY DEF Quiet, Forget, history

LEMMA Clock ==
  ASSUME TypeOK
  PROVE  now \in Nat
  BY Kept, ClockPast

------------------------------------------------------------------------------
(* Who is blacklisted: the anomalies of an entry were all sent in its window *)

Counted(ip) ==
  CountIn(strikes[ip], Window(udpHealth[ip].windowStart))
    >= udpHealth[ip].anomalies

Convicted(ip) ==
  udpHealth[ip].blacklistUntil > 0 =>
    \E t \in 0..now : CountIn(strikes[ip], Window(t)) >= HealthThreshold

JustInv ==
  TypeOK /\ Recorded /\ \A ip \in DOMAIN udpHealth : Counted(ip) /\ Convicted(ip)

LEMMA JustInit == HInit => JustInv
  BY InitTypes, RecordedInit DEF HInit, Init, EmptyMap, JustInv

LEMMA JustQuiet ==
  ASSUME JustInv, Quiet, NEW ip \in DOMAIN udpHealth'
  PROVE  Counted(ip)' /\ Convicted(ip)'
<1>1. /\ strikes' = strikes /\ ip \in DOMAIN udpHealth
      /\ udpHealth'[ip] = udpHealth[ip] /\ now' \in {now, now + 1}
  BY QuietEffect DEF JustInv
<1>2. Counted(ip) /\ Convicted(ip) /\ now \in Nat
  BY <1>1, Clock DEF JustInv
<1>3. 0..now \subseteq 0..now'
  BY <1>1, <1>2
<1> QED BY <1>1, <1>2, <1>3 DEF Counted, Convicted, CountIn, Window

LEMMA JustStrike ==
  ASSUME JustInv, NEW ip \in IPs, Strike(ip)
  PROVE  Counted(ip)' /\ Convicted(ip)'
<1> DEFINE h == udpHealth[ip]
           g == udpHealth'[ip]
           C(t) == CountIn(strikes[ip], Window(t))
           D(t) == CountIn(strikes'[ip], Window(t))
<1>1. TypeOK /\ Recorded
  BY DEF JustInv
<1>2. now \in Nat /\ now' = now /\ HealthWindow \in Nat /\ HealthThreshold \in Nat
  BY <1>1, Clock, StrikeEffect, ConfigNat
<1>3. \A t : D(t) = C(t) + (IF now \in Window(t) THEN 1 ELSE 0) /\ C(t) \in Nat
  BY <1>1, StrikeCounts, RecordFinite
<1>4. now \in Window(now)
  BY <1>2 DEF Window
<1>5. D(now) >= 1
  BY <1>3, <1>4
<1>6. (D(g.windowStart) >= g.anomalies) <=> Counted(ip)'
  BY DEF Counted, CountIn, Window
<1>7. (g.blacklistUntil > 0 => \E t \in 0..now : D(t) >= HealthThreshold)
        <=> Convicted(ip)'
  BY <1>2 DEF Convicted, CountIn, Window
<1> HIDE DEF C, D
<1>8. CASE ip \notin DOMAIN udpHealth
  <2>1. g = NewHealth
    BY <1>1, <1>8, StrikeEffect
  <2>2. g.anomalies = 1 /\ g.windowStart = now
    BY <2>1 DEF NewHealth
  <2>3. g.blacklistUntil > 0 => HealthThreshold <= 1
    BY <1>2, <2>1 DEF NewHealth
  <2>4. HealthThreshold <= 1 => D(now) >= HealthThreshold
    BY <1>2, <1>3, <1>5
  <2> QED BY <1>2, <1>5, <1>6, <1>7, <2>2, <2>3, <2>4
<1>9. CASE ip \in DOMAIN udpHealth
  <2>1. g = CountAnomaly(h)
    BY <1>1, <1>9, StrikeEffect
  <2>2. /\ h.anomalies \in Nat /\ h.windowStart \in 0..now
        /\ h.blacklistUntil \in Nat
    BY <1>1, <1>2, <1>9, HealthTypes, ConfigNat
  <2>3. /\ C(h.windowStart) >= h.anomalies
        /\ h.blacklistUntil > 0 => \E t \in 0..now : C(t) >= HealthThreshold
    BY <1>9 DEF JustInv, Counted, Convicted, C
  <2>4. D(g.windowStart) >= g.anomalies /\ g.windowStart \in 0..now
    <3>1. CASE now - h.windowStart > HealthWindow
      BY <1>2, <1>5, <2>1, <3>1 DEF CountAnomaly
    <3>2. CASE ~(now - h.windowStart > HealthWindow)
      <4>1. now \in Window(h.windowStart)
        BY <1>2, <2>2, <3>2 DEF Window
      <4>2. D(h.windowStart) = C(h.windowStart) + 1 /\ C(h.windowStart) \in Nat
        BY <1>3, <4>1
      <4>3. g.anomalies = h.anomalies + 1 /\ g.windowStart = h.windowStart
        BY <2>1, <3>2 DEF CountAnomaly
      <4> QED BY <2>2, <2>3, <4>2, <4>3
    <3> QED BY <3>1, <3>2
  <2>5. \/ g.anomalies >= HealthThreshold
        \/ g.blacklistUntil = h.blacklistUntil
    BY <2>1 DEF CountAnomaly
  <2>6. g.anomalies \in Nat /\ D(g.windowStart) \in Nat
    BY <1>3, <2>1, <2>2 DEF CountAnomaly
  <2>7. CASE g.anomalies >= HealthThreshold
    <3>1. D(g.windowStart) >= HealthThreshold
      BY <1>2, <2>4, <2>6, <2>7
    <3> QED BY <1>6, <1>7, <2>4, <3>1
  <2>8. CASE g.blacklistUntil = h.blacklistUntil
    <3>1. \A t \in 0..now : C(t) >= HealthThreshold => D(t) >= HealthThreshold
      BY <1>2, <1>3
    <3> QED BY <1>6, <1>7, <2>3, <2>4, <2>8, <3>1
  <2> QED BY <2>5, <2>7, <2>8
<1> QED BY <1>8, <1>9

LEMMA JustNext == JustInv /\ [HNext]_<<vars, history>> => JustInv'
<1> SUFFICES ASSUME JustInv, [HNext]_<<vars, history>> PROVE JustInv'
  OBVIOUS
<1>1. TypeOK' /\ Recorded'
  BY HNextIsNext, NextTypes, RecordedNext DEF JustInv
<1>2. CASE Quiet
  BY <1>1, <1>2, JustQuiet DEF JustInv
<1>3. ASSUME NEW ip \in IPs, Strike(ip) PROVE JustInv'
  <2>1. ASSUME NEW other \in DOMAIN udpHealth', other # ip
        PROVE  Counted(other)' /\ Convicted(other)'
    <3>1. TypeOK /\ Recorded
      BY DEF JustInv
    <3>2. DOMAIN udpHealth' = DOMAIN udpHealth \cup {ip}
      BY <1>3, <3>1, StrikeEffect
    <3>3. other \in DOMAIN udpHealth /\ other \in IPs
      BY <2>1, <3>1, <3>2, HealthTypes
    <3>4. /\ udpHealth'[other] = udpHealth[other]
          /\ strikes'[other] = strikes[other] /\ now' = now
      BY <1>3, <2>1, <3>1, <3>3, StrikeEffect
    <3> QED BY <3>3, <3>4 DEF JustInv, Counted, Convicted, CountIn, Window
  <2> QED BY <1>1, <1>3, <2>1, JustStrike DEF JustInv
<1> QED BY <1>2, <1>3, StepKinds

(* Nobody is blacklisted for less than the configuration says: a          *)
(* blacklisted source sent HealthThreshold malformed payloads within one  *)
(* HealthWindow, whatever the kernel evicts (health_record_anomaly).      *)
THEOREM NoBlacklistWithoutCause == HSpec => []BlacklistJustified
<1>1. ASSUME JustInv, NEW ip \in IPs, Blacklisted(ip)
      PROVE  \E t \in 0..now : StrikesIn(ip, Window(t)) >= HealthThreshold
  <2>1. /\ ip \in DOMAIN udpHealth
        /\ udpHealth[ip].blacklistUntil > now /\ now \in Nat
    BY <1>1, Clock DEF Blacklisted, JustInv
  <2>2. udpHealth[ip].blacklistUntil > 0
    BY <1>1, <2>1, HealthTypes, ConfigNat DEF JustInv
  <2> QED BY <1>1, <2>1, <2>2 DEF JustInv, Convicted, CountIn, StrikesIn
<1>2. JustInv => BlacklistJustified
  BY <1>1 DEF BlacklistJustified
<1> QED BY <1>2, JustInit, JustNext, PTL DEF HSpec

------------------------------------------------------------------------------
(* For how long: an entry serves every sentence that was passed on it *)

Served(ip) ==
  \A t \in trips[ip] :
    /\ ip \in DOMAIN udpHealth
    /\ udpHealth[ip].blacklistUntil >= t + HealthBlacklist

(* An entry that has not run out ends when its sentence does. *)
Exact(ip) ==
  Blacklisted(ip) =>
    \E t \in trips[ip] : udpHealth[ip].blacklistUntil = t + HealthBlacklist

TimeInv == TypeOK /\ Recorded /\ \A ip \in IPs : Served(ip) /\ Exact(ip)

LEMMA TimeInit == HInit => TimeInv
<1> SUFFICES ASSUME HInit PROVE TimeInv
  OBVIOUS
<1>1. \A ip \in IPs : trips[ip] = {} /\ ip \notin DOMAIN udpHealth
  BY DEF HInit, Init, EmptyMap
<1>2. \A ip \in IPs : Served(ip) /\ Exact(ip)
  BY <1>1 DEF Served, Exact, Blacklisted
<1> QED BY <1>2, InitTypes, RecordedInit DEF HInit, TimeInv

LEMMA TimeStrike ==
  ASSUME TimeInv, NEW ip \in IPs, Strike(ip)
  PROVE  Served(ip)' /\ Exact(ip)'
<1> DEFINE h == udpHealth[ip]
           g == udpHealth'[ip]
<1>1. TypeOK /\ Recorded /\ Served(ip)
  BY DEF TimeInv
<1>2. now \in Nat /\ HealthBlacklist \in Nat /\ trips[ip] \subseteq 0..now
  BY <1>1, Clock, ConfigNat DEF Recorded
<1>3. /\ ip \in DOMAIN udpHealth' /\ now' = now
      /\ trips'[ip] = IF g.blacklistUntil > now
                      THEN trips[ip] \cup {now} ELSE trips[ip]
  BY <1>1, StrikeEffect
<1>4. \/ g.blacklistUntil = now + HealthBlacklist
      \/ ip \in DOMAIN udpHealth /\ g.blacklistUntil = h.blacklistUntil
      \/ ip \notin DOMAIN udpHealth /\ g.blacklistUntil = 0
  <2>1. g = IF ip \in DOMAIN udpHealth THEN CountAnomaly(h) ELSE NewHealth
    BY <1>1, StrikeEffect
  <2> QED BY <2>1 DEF CountAnomaly, NewHealth
<1>5. CASE g.blacklistUntil = now + HealthBlacklist
  <2>1. \A t \in trips'[ip] : g.blacklistUntil >= t + HealthBlacklist
    BY <1>2, <1>3, <1>5
  <2>2. g.blacklistUntil > now =>
          \E t \in trips'[ip] : g.blacklistUntil = t + HealthBlacklist
    BY <1>3, <1>5
  <2> QED BY <1>3, <2>1, <2>2 DEF Served, Exact, Blacklisted
<1>6. CASE ip \in DOMAIN udpHealth /\ g.blacklistUntil = h.blacklistUntil
  <2>1. ~(g.blacklistUntil > now)
    BY <1>1, <1>6, StrikeEffect DEF Blacklisted
  <2>2. \A t \in trips'[ip] : g.blacklistUntil >= t + HealthBlacklist
    BY <1>1, <1>3, <1>6, <2>1 DEF Served
  <2> QED BY <1>3, <2>1, <2>2 DEF Served, Exact, Blacklisted
<1>7. CASE ip \notin DOMAIN udpHealth /\ g.blacklistUntil = 0
  <2>1. ~(g.blacklistUntil > now)
    BY <1>2, <1>7
  <2>2. trips'[ip] = {}
    BY <1>1, <1>3, <1>7, <2>1 DEF Served
  <2> QED BY <1>3, <2>1, <2>2 DEF Served, Exact, Blacklisted
<1> QED BY <1>4, <1>5, <1>6, <1>7

LEMMA TimeNext ==
  ASSUME "udp_health" \notin Evictable
  PROVE  TimeInv /\ [HNext]_<<vars, history>> => TimeInv'
<1> SUFFICES ASSUME TimeInv, [HNext]_<<vars, history>> PROVE TimeInv'
  OBVIOUS
<1>1. TypeOK /\ Recorded /\ TypeOK' /\ Recorded'
  BY HNextIsNext, NextTypes, RecordedNext DEF TimeInv
<1>2. CASE Quiet
  <2>1. udpHealth' = udpHealth /\ trips' = trips /\ now' \in {now, now + 1}
    BY <1>1, <1>2, QuietEffect
  <2>2. ASSUME NEW ip \in IPs PROVE Served(ip)' /\ Exact(ip)'
    <3>1. Served(ip) /\ Exact(ip)
      BY DEF TimeInv
    <3>2. ip \in DOMAIN udpHealth => udpHealth[ip].blacklistUntil \in Nat
      BY <1>1, HealthTypes, Clock, ConfigNat
    <3>3. Blacklisted(ip)' => Blacklisted(ip)
      BY <1>1, <2>1, <3>2, Clock DEF Blacklisted
    <3> QED BY <2>1, <3>1, <3>3 DEF Served, Exact
  <2> QED BY <1>1, <2>2 DEF TimeInv
<1>3. ASSUME NEW ip \in IPs, Strike(ip) PROVE TimeInv'
  <2>1. ASSUME NEW other \in IPs, other # ip
        PROVE  Served(other)' /\ Exact(other)'
    <3>1. DOMAIN udpHealth' = DOMAIN udpHealth \cup {ip} /\ now' = now
      BY <1>1, <1>3, StrikeEffect
    <3>2. /\ trips'[other] = trips[other]
          /\ other \in DOMAIN udpHealth =>
               udpHealth'[other] = udpHealth[other]
      BY <1>1, <1>3, <2>1, StrikeEffect
    <3> QED BY <2>1, <3>1, <3>2 DEF TimeInv, Served, Exact, Blacklisted
  <2>2. Served(ip)' /\ Exact(ip)'
    BY <1>3, TimeStrike
  <2>3. \A x \in IPs : (Served(x) /\ Exact(x))'
    BY <2>1, <2>2
  <2> QED BY <1>1, <2>3 DEF TimeInv
<1> QED BY <1>2, <1>3, StepKinds

(* While udp_health does not overflow, a blacklisting runs for             *)
(* HealthBlacklist, no shorter and no longer: what the source keeps        *)
(* sending neither passes nor counts (health_is_blacklisted comes before   *)
(* the payload is inspected).                                              *)
THEOREM SentenceServed ==
  ASSUME "udp_health" \notin Evictable
  PROVE  HSpec => BlacklistRunsItsTime
<1>1. ASSUME TimeInv, NEW ip \in IPs
      PROVE  Blacklisted(ip) <=> Sentenced(ip)
  <2>1. TypeOK /\ Recorded /\ Served(ip) /\ Exact(ip)
    BY <1>1 DEF TimeInv
  <2>2. now \in Nat /\ HealthBlacklist \in Nat /\ trips[ip] \subseteq 0..now
    BY <2>1, Clock, ConfigNat DEF Recorded
  <2>3. ASSUME NEW t \in trips[ip], now < t + HealthBlacklist
        PROVE  Blacklisted(ip)
    <3>1. /\ ip \in DOMAIN udpHealth
          /\ udpHealth[ip].blacklistUntil >= t + HealthBlacklist
          /\ udpHealth[ip].blacklistUntil \in Nat
      BY <2>1, <2>2, HealthTypes DEF Served
    <3> QED BY <2>2, <2>3, <3>1 DEF Blacklisted
  <2>4. ASSUME Blacklisted(ip) PROVE Sentenced(ip)
    <3>1. PICK t \in trips[ip] :
            udpHealth[ip].blacklistUntil = t + HealthBlacklist
      BY <2>1, <2>4 DEF Exact
    <3>2. now < t + HealthBlacklist
      BY <2>2, <2>4, <3>1 DEF Blacklisted
    <3> QED BY <3>2 DEF Sentenced
  <2> QED BY <2>3, <2>4 DEF Sentenced
<1>2. ASSUME TimeInv, NEW ip \in IPs, Blacklisted(ip),
             [HNext]_<<vars, history>>
      PROVE  ~UdpPass(ip) /\ strikes'[ip] = strikes[ip]
  <2>1. TypeOK /\ Recorded
    BY <1>2 DEF TimeInv
  <2>2. ~UdpPass(ip) /\ ~Strike(ip)
    BY <1>2 DEF UdpPass, Strike, UdpMalformed
  <2>3. CASE Quiet
    BY <2>1, <2>2, <2>3, QuietEffect
  <2>4. ASSUME NEW other \in IPs, Strike(other)
        PROVE  strikes'[ip] = strikes[ip]
    BY <2>1, <2>2, <2>4, StrikeEffect
  <2> QED BY <1>2, <2>2, <2>3, <2>4, StepKinds
<1>3. TimeInv /\ [HNext]_<<vars, history>> =>
        [\A ip \in IPs :
           /\ Blacklisted(ip) <=> Sentenced(ip)
           /\ Sentenced(ip) =>
                ~UdpPass(ip) /\ strikes'[ip] = strikes[ip]]_<<vars, history>>
  BY <1>1, <1>2
<1> QED BY <1>3, TimeInit, TimeNext, PTL DEF HSpec, BlacklistRunsItsTime

------------------------------------------------------------------------------
(* Who must have been blacklisted *)

LEMMA CountMonotone ==
  ASSUME NEW S, IsFiniteSet(S), NEW I, NEW J,
         \A s \in S : s[1] \in I => s[1] \in J
  PROVE  /\ CountIn(S, I) \in Nat /\ CountIn(S, J) \in Nat
         /\ CountIn(S, I) <= CountIn(S, J)
<1> DEFINE A == {s \in S : s[1] \in I}
           B == {s \in S : s[1] \in J}
<1>1. A \subseteq B /\ B \subseteq S
  OBVIOUS
<1>2. IsFiniteSet(A) /\ IsFiniteSet(B)
  BY <1>1, FS_Subset
<1> QED BY <1>1, <1>2, FS_Subset, FS_CardinalityType DEF CountIn

LEMMA CountSplit ==
  ASSUME NEW S, IsFiniteSet(S), NEW I, NEW J, NEW K,
         \A s \in S : s[1] \in I => s[1] \in J \cup K
  PROVE  CountIn(S, I) <= CountIn(S, J) + CountIn(S, K)
<1> DEFINE B == {s \in S : s[1] \in J}
           C == {s \in S : s[1] \in K}
<1>1. IsFiniteSet(B) /\ IsFiniteSet(C)
  BY FS_Subset
<1>2. Cardinality(B \cup C) = Cardinality(B) + Cardinality(C)
                                - Cardinality(B \cap C)
  BY <1>1, FS_Union
<1>3. IsFiniteSet(B \cap C)
  BY <1>1, FS_Intersection
<1>4. /\ Cardinality(B) \in Nat /\ Cardinality(C) \in Nat
      /\ Cardinality(B \cap C) \in Nat
  BY <1>1, <1>3, FS_CardinalityType
<1>5. CountIn(S, J \cup K) = Cardinality(B \cup C)
  <2>1. {s \in S : s[1] \in J \cup K} = B \cup C
    OBVIOUS
  <2> QED BY <2>1 DEF CountIn
<1>6. /\ CountIn(S, I) <= CountIn(S, J \cup K)
      /\ CountIn(S, I) \in Nat /\ CountIn(S, J \cup K) \in Nat
  BY CountMonotone
<1>7. CountIn(S, J) = Cardinality(B) /\ CountIn(S, K) = Cardinality(C)
  BY DEF CountIn
<1> HIDE DEF B, C
<1> QED BY <1>2, <1>4, <1>5, <1>6, <1>7

LEMMA CountNone ==
  ASSUME NEW S, NEW I, \A s \in S : s[1] \notin I
  PROVE  CountIn(S, I) = 0
<1>1. {s \in S : s[1] \in I} = {}
  OBVIOUS
<1> QED BY <1>1, FS_EmptySet DEF CountIn

From(a) == {t \in Nat : t >= a}

(* No strike is later than the window of the entry, and the entry has      *)
(* counted all those of its window.                                        *)
Covers(ip) ==
  /\ \A s \in strikes[ip] : s[1] <= udpHealth[ip].windowStart + HealthWindow
  /\ CountIn(strikes[ip], From(udpHealth[ip].windowStart))
       <= udpHealth[ip].anomalies

(* As many strikes as the threshold since some instant of the window       *)
(* blacklisted the source after that instant.                              *)
TrippedInWindow(ip) ==
  \A a \in Int :
    /\ a >= udpHealth[ip].windowStart
    /\ CountIn(strikes[ip], From(a)) >= HealthThreshold
    => \E t \in trips[ip] : t >= a

(* So did those before the window, unless they are too long ago to matter. *)
TrippedBefore(ip) ==
  \A a \in Int :
    /\ a >= udpHealth[ip].windowStart - HealthWindow
    /\ CountIn(strikes[ip], a .. udpHealth[ip].windowStart - 1)
         >= HealthThreshold
    => \E t \in trips[ip] : t >= a

Tracked(ip) ==
  /\ ip \notin DOMAIN udpHealth => strikes[ip] = {}
  /\ ip \in DOMAIN udpHealth =>
       Covers(ip) /\ TrippedInWindow(ip) /\ TrippedBefore(ip)

TrackInv == TypeOK /\ Recorded /\ \A ip \in IPs : Tracked(ip)

LEMMA TrackInit == HInit => TrackInv
  BY InitTypes, RecordedInit DEF HInit, Init, EmptyMap, TrackInv, Tracked

LEMMA TrackStrike ==
  ASSUME HealthThreshold > 0, HealthBlacklist > 0,
         TrackInv, NEW ip \in IPs, Strike(ip)
  PROVE  Tracked(ip)'
<1> DEFINE h == udpHealth[ip]
           g == udpHealth'[ip]
           T == HealthThreshold
           W == HealthWindow
           S == strikes[ip]
           R == strikes'[ip]
<1>1. TypeOK /\ Recorded /\ Tracked(ip) /\ Recorded'
  <2>1. [HNext]_<<vars, history>>
    BY DEF HNext, Strike
  <2> QED BY <2>1, RecordedNext DEF TrackInv
<1>2. /\ now \in Nat /\ now' = now
      /\ T \in Nat /\ W \in Nat /\ HealthBlacklist \in Nat
  BY <1>1, Clock, StrikeEffect, ConfigNat
<1>3. IsFiniteSet(S) /\ \A s \in S : s[1] \in 0..now
  BY <1>1, RecordFinite DEF Recorded
<1>4. R = S \cup {<<now, load>>}
  BY <1>1, StrikeEffect
<1>5. IsFiniteSet(R) /\ \A s \in R : s[1] \in 0..now
  <2>1. IsFiniteSet(R)
    BY <1>3, <1>4, FS_AddElement
  <2>2. \A s \in R : s[1] \in 0..now
    BY <1>2, <1>3, <1>4
  <2> QED BY <2>1, <2>2
<1>6. \A I : CountIn(R, I) = CountIn(S, I) + (IF now \in I THEN 1 ELSE 0)
  BY <1>1, StrikeCounts
<1>7. ip \in DOMAIN udpHealth'
  BY <1>1, StrikeEffect
<1>8. g = IF ip \in DOMAIN udpHealth THEN CountAnomaly(h) ELSE NewHealth
  BY <1>1, StrikeEffect
<1>9. trips'[ip] = IF g.blacklistUntil > now
                   THEN trips[ip] \cup {now} ELSE trips[ip]
  BY <1>1, StrikeEffect
<1>10. ip \in DOMAIN udpHealth =>
         /\ h.anomalies \in Nat /\ h.windowStart \in 0..now
  BY <1>1, HealthTypes
<1>11. g.anomalies >= T => now \in trips'[ip]
  <2>1. g.anomalies >= T => g.blacklistUntil = now + HealthBlacklist
    BY <1>2, <1>8 DEF CountAnomaly, NewHealth
  <2> QED BY <1>2, <1>9, <2>1
(* The window that is open after the strike is a new one or the old one.   *)
<1> DEFINE renewed ==
             /\ \A s \in S : s[1] < now
             /\ g.windowStart = now /\ g.anomalies = 1
           continued ==
             /\ ip \in DOMAIN udpHealth /\ now <= h.windowStart + W
             /\ g.windowStart = h.windowStart
             /\ g.anomalies = h.anomalies + 1
<1>12. renewed \/ continued
  <2>1. CASE ip \notin DOMAIN udpHealth
    BY <1>1, <1>8, <2>1 DEF Tracked, NewHealth
  <2>2. CASE ip \in DOMAIN udpHealth /\ now - h.windowStart > W
    <3>1. \A s \in S : s[1] <= h.windowStart + W
      BY <1>1, <2>2 DEF Tracked, Covers
    <3>2. \A s \in S : s[1] < now
      BY <1>2, <1>3, <1>10, <2>2, <3>1
    <3> QED BY <1>8, <2>2, <3>2 DEF CountAnomaly
  <2>3. CASE ip \in DOMAIN udpHealth /\ ~(now - h.windowStart > W)
    BY <1>2, <1>8, <1>10, <2>3 DEF CountAnomaly
  <2> QED BY <2>1, <2>2, <2>3
<1>13. g.windowStart \in 0..now /\ g.anomalies \in Nat
  BY <1>2, <1>10, <1>12
<1>14. /\ \A s \in R : s[1] <= g.windowStart + W
       /\ CountIn(R, From(g.windowStart)) <= g.anomalies
  <2>1. now \in From(g.windowStart)
    BY <1>2, <1>13 DEF From
  <2>2. CountIn(R, From(g.windowStart)) = CountIn(S, From(g.windowStart)) + 1
    BY <1>6, <2>1
  <2>3. CASE renewed
    <3>1. \A s \in S : s[1] \notin From(now)
      BY <1>2, <1>3, <2>3 DEF From
    <3>2. CountIn(S, From(now)) = 0
      BY <3>1, CountNone
    <3> QED BY <1>2, <1>5, <2>2, <2>3, <3>2
  <2>4. CASE continued
    <3>1. CountIn(S, From(h.windowStart)) <= h.anomalies
      BY <1>1, <2>4 DEF Tracked, Covers
    <3>2. CountIn(S, From(h.windowStart)) \in Nat
      BY <1>3, CountMonotone
    <3> HIDE DEF S, R
    <3>3. CountIn(R, From(g.windowStart)) <= g.anomalies
      BY <1>10, <2>2, <2>4, <3>1, <3>2
    <3> QED BY <1>2, <1>5, <1>10, <2>4, <3>3
  <2> QED BY <1>12, <2>3, <2>4
<1>15. ASSUME NEW a \in Int, a >= g.windowStart, CountIn(R, From(a)) >= T
       PROVE  \E t \in trips'[ip] : t >= a
  <2>1. CASE a <= now
    <3>1. \A s \in R : s[1] \in From(a) => s[1] \in From(g.windowStart)
      BY <1>13, <1>15 DEF From
    <3>2. /\ CountIn(R, From(a)) <= CountIn(R, From(g.windowStart))
          /\ CountIn(R, From(a)) \in Nat
          /\ CountIn(R, From(g.windowStart)) \in Nat
      BY <1>5, <3>1, CountMonotone
    <3>3. g.anomalies >= T
      BY <1>2, <1>13, <1>14, <1>15, <3>2
    <3> QED BY <1>11, <2>1, <3>3
  <2>2. CASE a > now
    <3>1. \A s \in R : s[1] \notin From(a)
      BY <1>2, <1>5, <2>2 DEF From
    <3> QED BY <1>2, <1>15, <3>1, CountNone
  <2> QED BY <1>2, <2>1, <2>2
<1>16. ASSUME NEW a \in Int, a >= g.windowStart - W,
              CountIn(R, a .. g.windowStart - 1) >= T
       PROVE  \E t \in trips'[ip] : t >= a
  <2>1. now \notin a .. g.windowStart - 1
    BY <1>2, <1>13
  <2>2. CountIn(S, a .. g.windowStart - 1) >= T
    <3>1. CountIn(S, a .. g.windowStart - 1) \in Nat
      BY <1>3, CountMonotone
    <3>2. CountIn(R, a .. g.windowStart - 1)
            = CountIn(S, a .. g.windowStart - 1) + 0
      BY <1>6, <2>1
    <3> HIDE DEF S, R
    <3> QED BY <1>16, <3>1, <3>2
  <2>3. ip \in DOMAIN udpHealth
    <3>1. SUFFICES ASSUME ip \notin DOMAIN udpHealth PROVE FALSE
      OBVIOUS
    <3>2. S = {}
      BY <1>1, <3>1 DEF Tracked
    <3>3. CountIn(S, a .. g.windowStart - 1) = 0
      BY <3>2, CountNone
    <3> QED BY <1>2, <2>2, <3>3
  <2>4. CASE continued
    BY <1>1, <1>9, <1>16, <2>2, <2>3, <2>4 DEF Tracked, TrippedBefore
  <2>5. CASE renewed /\ ~continued
    <3>1. h.windowStart + W < now
      BY <1>2, <1>8, <1>10, <2>3, <2>5 DEF CountAnomaly
    <3>2. a >= h.windowStart
      BY <1>2, <1>10, <1>16, <2>3, <2>5, <3>1
    <3>3. \A s \in S : s[1] \in a .. g.windowStart - 1 => s[1] \in From(a)
      BY <1>3 DEF From
    <3>4. /\ CountIn(S, a .. g.windowStart - 1) <= CountIn(S, From(a))
          /\ CountIn(S, a .. g.windowStart - 1) \in Nat
          /\ CountIn(S, From(a)) \in Nat
      BY <1>3, <3>3, CountMonotone
    <3>5. CountIn(S, From(a)) >= T
      BY <1>2, <2>2, <3>4
    <3> QED BY <1>1, <1>9, <2>3, <3>2, <3>5 DEF Tracked, TrippedInWindow
  <2> QED BY <1>12, <2>4, <2>5
<1>17. Covers(ip)'
  BY <1>14 DEF Covers, CountIn
<1>18. TrippedInWindow(ip)'
  BY <1>15 DEF TrippedInWindow, CountIn
<1>19. TrippedBefore(ip)'
  BY <1>16 DEF TrippedBefore, CountIn
<1> QED BY <1>7, <1>17, <1>18, <1>19 DEF Tracked

LEMMA TrackNext ==
  ASSUME "udp_health" \notin Evictable,
         HealthThreshold > 0, HealthBlacklist > 0
  PROVE  TrackInv /\ [HNext]_<<vars, history>> => TrackInv'
<1> SUFFICES ASSUME TrackInv, [HNext]_<<vars, history>> PROVE TrackInv'
  OBVIOUS
<1>1. TypeOK /\ Recorded /\ TypeOK' /\ Recorded'
  BY HNextIsNext, NextTypes, RecordedNext DEF TrackInv
<1>2. ASSUME NEW ip \in IPs,
             /\ ip \in DOMAIN udpHealth' <=> ip \in DOMAIN udpHealth
             /\ ip \in DOMAIN udpHealth => udpHealth'[ip] = udpHealth[ip]
             /\ strikes'[ip] = strikes[ip] /\ trips'[ip] = trips[ip]
      PROVE  Tracked(ip)'
  BY <1>2 DEF TrackInv, Tracked, Covers, TrippedInWindow, TrippedBefore,
              CountIn
<1>3. CASE Quiet
  <2>1. udpHealth' = udpHealth /\ strikes' = strikes /\ trips' = trips
    BY <1>1, <1>3, QuietEffect
  <2> QED BY <1>1, <1>2, <2>1 DEF TrackInv
<1>4. ASSUME NEW ip \in IPs, Strike(ip) PROVE TrackInv'
  <2>1. ASSUME NEW other \in IPs, other # ip PROVE Tracked(other)'
    <3>1. DOMAIN udpHealth' = DOMAIN udpHealth \cup {ip}
      BY <1>1, <1>4, StrikeEffect
    <3>2. /\ strikes'[other] = strikes[other]
          /\ trips'[other] = trips[other]
          /\ other \in DOMAIN udpHealth =>
               udpHealth'[other] = udpHealth[other]
      BY <1>1, <1>4, <2>1, StrikeEffect
    <3> QED BY <1>2, <2>1, <3>1, <3>2
  <2> QED BY <1>1, <1>4, <2>1, TrackStrike DEF TrackInv
<1> QED BY <1>3, <1>4, StepKinds

(* What tumbling windows do promise, while no entry is evicted: a source   *)
(* that sent one less than twice the threshold within HealthWindow was     *)
(* blacklisted on the way, wherever the window boundary fell.              *)
THEOREM TwiceTheThresholdTrips ==
  ASSUME "udp_health" \notin Evictable,
         HealthThreshold > 0, HealthBlacklist > 0
  PROVE  HSpec => []BlacklistComplete
<1>1. ASSUME TrackInv, NEW ip \in IPs,
             RecentStrikes(ip) >= 2 * HealthThreshold - 1
      PROVE  \E t \in trips[ip] : t \in Window(now - HealthWindow)
  <2> DEFINE T == HealthThreshold
             W == HealthWindow
             a == now - W
             S == strikes[ip]
             ws == udpHealth[ip].windowStart
  <2>1. TypeOK /\ Recorded /\ Tracked(ip)
    BY <1>1 DEF TrackInv
  <2>2. now \in Nat /\ T \in Nat /\ W \in Nat /\ a \in Int
    BY <2>1, Clock, ConfigNat
  <2>3. IsFiniteSet(S) /\ \A s \in S : s[1] \in 0..now
    <3>1. IsFiniteSet(S)
      BY <2>1, RecordFinite
    <3>2. \A s \in S : s[1] \in 0..now
      BY <2>1 DEF Recorded
    <3> QED BY <3>1, <3>2
  <2>4. CountIn(S, Window(a)) >= 2 * T - 1
    BY <1>1 DEF RecentStrikes, StrikesIn, CountIn
  <2>5. SUFFICES \E t \in trips[ip] : t >= a
    BY <2>1, <2>2 DEF Window, Recorded
  <2>6. ip \in DOMAIN udpHealth
    <3>1. SUFFICES ASSUME ip \notin DOMAIN udpHealth PROVE FALSE
      OBVIOUS
    <3>2. CountIn(S, Window(a)) = 0
      BY <2>1, <3>1, CountNone DEF Tracked
    <3> QED BY <2>2, <2>4, <3>2
  <2>7. ws \in 0..now
    BY <2>1, <2>6, HealthTypes
  <2>8. CASE a >= ws
    <3>1. \A s \in S : s[1] \in Window(a) => s[1] \in From(a)
      BY <2>2, <2>3 DEF Window, From
    <3>2. /\ CountIn(S, Window(a)) <= CountIn(S, From(a))
          /\ CountIn(S, Window(a)) \in Nat /\ CountIn(S, From(a)) \in Nat
      BY <2>3, <3>1, CountMonotone
    <3>3. CountIn(S, From(a)) >= T
      BY <2>2, <2>4, <3>2
    <3> QED BY <2>1, <2>2, <2>6, <2>8, <3>3 DEF Tracked, TrippedInWindow
  <2>9. CASE a < ws
    <3>1. \A s \in S : s[1] \in Window(a) =>
                         s[1] \in (a .. ws - 1) \cup From(ws)
      BY <2>2, <2>3, <2>7 DEF Window, From
    <3>2. CountIn(S, Window(a))
            <= CountIn(S, a .. ws - 1) + CountIn(S, From(ws))
      BY <2>3, <3>1, CountSplit
    <3>3. /\ CountIn(S, Window(a)) \in Nat /\ CountIn(S, a .. ws - 1) \in Nat
          /\ CountIn(S, From(ws)) \in Nat
      BY <2>3, CountMonotone
    <3>4. CountIn(S, a .. ws - 1) >= T \/ CountIn(S, From(ws)) >= T
      BY <2>2, <2>4, <3>2, <3>3
    <3>5. CASE CountIn(S, a .. ws - 1) >= T
      <4>1. a >= ws - W
        BY <2>2, <2>7
      <4> QED BY <2>1, <2>2, <2>6, <3>5, <4>1 DEF Tracked, TrippedBefore
    <3>6. CASE CountIn(S, From(ws)) >= T
      <4>1. PICK t \in trips[ip] : t >= ws
        BY <2>1, <2>6, <2>7, <3>6 DEF Tracked, TrippedInWindow
      <4>2. t \in Int
        BY <2>1 DEF Recorded
      <4> QED BY <2>2, <2>7, <2>9, <4>1, <4>2
    <3> QED BY <3>4, <3>5, <3>6
  <2> QED BY <2>2, <2>7, <2>8, <2>9
<1>2. TrackInv => BlacklistComplete
  BY <1>1 DEF BlacklistComplete
<1> QED BY <1>2, TrackInit, TrackNext, PTL DEF HSpec

==============================================================================
