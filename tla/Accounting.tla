----------------------------- MODULE Accounting -----------------------------
(***************************************************************************)
(* XdpFilter with a count of the packets that arrived, against which the   *)
(* stats array and ip_drop_history are judged, and what `info`, GET        *)
(* /api/info and the collector make of the stats array.                    *)
(***************************************************************************)
EXTENDS XdpFilter, Sums

VARIABLES
  handled,   \* packets for the port handed to the XDP program, fragments
             \* apart because their reason does not tell the protocol
  requests   \* those that carried POST /client or a GET endpoint and reached
             \* the inspection of the user agent: from a bot, or neither

Protocols == {"tcp", "udp", "ip"}
RequestKinds == {"bot", "post", "get"}

AInit ==
  /\ Init
  /\ handled = [p \in Protocols |-> 0]
  /\ requests = [kind \in RequestKinds |-> 0]

Handled(proto) == handled' = [handled EXCEPT ![proto] = @ + 1]

Requested(kind) == requests' = [requests EXCEPT ![kind] = @ + 1]

BotRequest(ip) ==
  \E syn \in BOOLEAN, cpu \in CPUs : RequestBadUserAgent(ip, syn, cpu)

PostRequest(ip) ==
  \E syn \in BOOLEAN, cpu \in CPUs :
    \/ PostLimited(ip, syn, cpu)
    \/ PostPromotes(ip, syn, cpu)
    \/ PostWithoutHandshake(ip, syn, cpu)
    \/ PostUnknownUserAgent(ip, syn, cpu)

GetRequest(ip) ==
  \E syn \in BOOLEAN, cpu \in CPUs :
    GetLimited(ip, syn, cpu) \/ GetAccepted(ip, syn, cpu)

Request(ip) ==
  \/ BotRequest(ip) /\ Requested("bot")
  \/ PostRequest(ip) /\ Requested("post")
  \/ GetRequest(ip) /\ Requested("get")

OtherTcp(ip) ==
  \/ \E cpu \in CPUs : TcpRefusedSource(ip, cpu)
  \/ \E syn \in BOOLEAN, cpu \in CPUs :
       TcpMalformed(ip, syn, cpu) \/ TcpSegment(ip, syn, cpu)

Udp(ip) == UdpDropped(ip) \/ UdpPass(ip)

ANext ==
  \/ Tick /\ UNCHANGED <<handled, requests>>
  \/ \E ip \in IPs :
       \/ Request(ip) /\ Handled("tcp")
       \/ OtherTcp(ip) /\ Handled("tcp") /\ UNCHANGED requests
       \/ Udp(ip) /\ Handled("udp") /\ UNCHANGED requests
       \/ Fragment(ip) /\ Handled("ip") /\ UNCHANGED requests
       \/ Kernel(ip) /\ UNCHANGED <<handled, requests>>

ASpec == AInit /\ [][ANext]_<<vars, handled, requests>>

------------------------------------------------------------------------------

SumOfStats(slots) == SumOver(stats, slots)

(* The labels that start with drop_tcp_, and those with drop_udp_. *)
DropTcp == {"tcp_initconnect_ratelimit", "tcp_getinfo_ratelimit",
            "tcp_bad_user_agent", "tcp_no_syn", "tcp_global_ratelimit",
            "tcp_too_many_open"}

DropUdp == {"udp_not_whitelisted", "udp_expired", "udp_ratelimit",
            "udp_enet_malformed", "udp_unhealthy"}

(* Mutant: only the prefix of a label is looked at. *)
SummaryByPrefix ==
  [passTCP |-> stats["pass_tcp"], dropTCP |-> SumOfStats(DropTcp),
   passUDP |-> stats["pass_udp_whitelisted"], dropUDP |-> SumOfStats(DropUdp),
   ipFragments |-> stats["ip_fragment"]]

(* summariseStats *)
Summary ==
  [passTCP |-> stats["pass_tcp"],
   dropTCP |-> SumOfStats({"malformed"} \cup DropTcp),
   passUDP |-> stats["pass_udp_whitelisted"],
   dropUDP |-> SumOfStats(DropUdp),
   ipFragments |-> stats["ip_fragment"]]

(* The slots Collect emits as packets of each protocol, whatever the       *)
(* verdict and the reason.                                                 *)
Emitted ==
  [tcp |-> {"pass_tcp", "malformed", "tcp_initconnect_ratelimit",
            "tcp_getinfo_ratelimit", "tcp_bad_user_agent", "tcp_no_syn",
            "tcp_global_ratelimit", "tcp_too_many_open"},
   udp |-> {"pass_udp_whitelisted", "udp_not_whitelisted", "udp_expired",
            "udp_ratelimit", "udp_enet_malformed", "udp_unhealthy"},
   ip |-> {"ip_fragment"}]

(* Every packet for the port ends in exactly one verdict counter, whatever *)
(* counters it touched on the way, and both the summary of `info` and the  *)
(* metrics put that counter down to the packet's protocol: what they show  *)
(* passed and dropped adds up to the packets that arrived.                 *)
PacketsAddUp ==
  /\ Summary.passTCP + Summary.dropTCP = handled.tcp
  /\ Summary.passUDP + Summary.dropUDP = handled.udp
  /\ Summary.ipFragments = handled.ip
  /\ \A p \in Protocols : SumOfStats(Emitted[p]) = handled[p]

(* What can become of a POST /client that is not a bot's. *)
Outcomes == {"tcp_initconnect_ratelimit", "tcp_l7_promoted",
             "tcp_l7_match_no_est", "tcp_post_ua_unknown"}

Between(n, low, high) == low <= n /\ n <= high

(* Every POST /client that is not a bot's is counted under exactly one of  *)
(* the four things that can become of it, and is counted as seen whatever  *)
(* becomes of it, as is every GET of an endpoint.  Whether a bot's request *)
(* is counted as seen is left open here: see SeenWhateverTheVerdict.       *)
RequestsAccountedFor ==
  /\ requests.bot = stats["tcp_bad_user_agent"]
  /\ requests.post = SumOfStats(Outcomes)
  /\ Between(stats["tcp_post_client_seen"],
             requests.post, requests.post + requests.bot)
  /\ Between(stats["tcp_getinfo_seen"],
             requests.get, requests.get + requests.bot)

(* Help text of the two metrics: segments that match POST /client, or one  *)
(* of the GET endpoints, are counted as seen regardless of verdict.  In    *)
(* the code a bot's user agent returns before either counter is bumped.    *)
SeenWhateverTheVerdict ==
  SumOfStats({"tcp_post_client_seen", "tcp_getinfo_seen"}) =
    requests.bot + requests.post + requests.get

(* The reasons that are recorded for a source the history does not know    *)
(* yet: only an address that completed a handshake, or sent a request,     *)
(* can be dropped for them.                                                *)
AlwaysRecorded ==
  Reasons \ {"ip_fragment", "tcp_no_syn", "tcp_global_ratelimit",
             "malformed", "udp_not_whitelisted"}

RecordedDrops(reason) ==
  SumOver([ip \in DOMAIN dropHistory |-> dropHistory[ip].counts[reason]],
          DOMAIN dropHistory)

(* config.example: the history remembers why each ip was dropped.  While   *)
(* the map is not full no drop of an AlwaysRecorded reason is missing from *)
(* it, and for no reason does it hold more drops than were counted.        *)
HistoryExplainsDrops ==
  \A reason \in Reasons :
    /\ RecordedDrops(reason) <= stats[reason]
    /\ reason \in AlwaysRecorded /\ DropHistoryEnabled =>
         RecordedDrops(reason) = stats[reason]
==============================================================================
