---------------------------- MODULE SourcesProofs ----------------------------
(***************************************************************************)
(* What the filter holds about a source's connections, for every           *)
(* configuration, any number of sources, and any map the kernel evicts     *)
(* from: what a whitelist entry stands for, and what the cap on open       *)
(* sockets bounds.                                                         *)
(***************************************************************************)
EXTENDS WhitelistHistory, OpenSockets, XdpFilterProofs

------------------------------------------------------------------------------
(* The whitelist.  Each handler either leaves tcp_whitelist alone,         *)
(* refreshes the entry of its source, or promotes a source that            *)
(* tcp_established vouches for.                                            *)

LEMMA RejectedLeaves ==
  ASSUME NEW ip \in IPs, Rejected(ip)
  PROVE  whitelist' = whitelist /\ established' = established
<1>1. ASSUME NEW reason, NEW known, Refuse(ip, reason, known)
      PROVE  whitelist' = whitelist /\ established' = established
  BY <1>1 DEF Refuse, tcpMaps
<1>2. CASE Fragment(ip)
  BY <1>1, <1>2 DEF Fragment
<1>3. CASE UdpDropped(ip)
  BY <1>1, <1>3 DEF UdpDropped, UdpNotWhitelisted, UdpExpired, UdpUnhealthy,
                    UdpMalformed, UdpLimited, tcpMaps
<1>4. ASSUME NEW cpu \in CPUs, TcpRefusedSource(ip, cpu)
      PROVE  whitelist' = whitelist /\ established' = established
  BY <1>1, <1>4 DEF TcpRefusedSource, TcpNoSyn, SynTooManyOpen,
                    SynGlobalLimited
<1>5. ASSUME NEW syn \in BOOLEAN, NEW cpu \in CPUs, TcpDropped(ip, syn, cpu)
      PROVE  whitelist' = whitelist /\ established' = established
  BY <1>5 DEF TcpDropped, TcpMalformed, RequestBadUserAgent, PostLimited,
              GetLimited, DropSegment
<1> QED BY <1>2, <1>3, <1>4, <1>5 DEF Rejected

LEMMA OtherRefreshes ==
  ASSUME NEW ip \in IPs, OtherAccepted(ip)
  PROVE  whitelist' = Refreshed(ip) /\ established' = established
<1>1. CASE UdpPass(ip)
  BY <1>1 DEF UdpPass, Fresh, Refreshed, tcpMaps
<1>2. ASSUME NEW syn \in BOOLEAN, NEW cpu \in CPUs,
             \/ TcpSegment(ip, syn, cpu)
             \/ PostUnknownUserAgent(ip, syn, cpu)
             \/ GetAccepted(ip, syn, cpu)
      PROVE  whitelist' = Refreshed(ip) /\ established' = established
  BY <1>2 DEF TcpSegment, PostUnknownUserAgent, GetAccepted, PostAccepted
<1> QED BY <1>1, <1>2 DEF OtherAccepted

LEMMA PostPromotesOrRefreshes ==
  ASSUME NEW ip \in IPs, ValidPost(ip)
  PROVE  /\ established' = established
         /\ \/ ip \in DOMAIN established /\ whitelist' = Put(whitelist, ip, now)
            \/ whitelist' = Refreshed(ip)
  BY DEF ValidPost, PostPromotes, PostWithoutHandshake, PostAccepted

LEMMA EvictForgets ==
  ASSUME NEW ip \in IPs, Evict(ip)
  PROVE  /\ whitelist' = whitelist \/ whitelist' = Forget(whitelist, ip)
         /\ established' = established \/ established' = Forget(established, ip)
  BY DEF Evict

LEMMA HistoryUnchanged ==
  ASSUME UNCHANGED <<vars, history>>
  PROVE  /\ whitelist' = whitelist /\ established' = established
         /\ handshaked' = handshaked /\ introduced' = introduced
         /\ lastAccepted' = lastAccepted
  BY DEF vars, tcpMaps, history

------------------------------------------------------------------------------
(* The whitelist is earned *)

(* Inductive: promotion looks at tcp_established only, so what has to be   *)
(* carried along is that this map knows no source without a handshake.     *)
Earned ==
  /\ DOMAIN established \subseteq handshaked
  /\ WhitelistEarned

LEMMA EarnedKept ==
  ASSUME Earned, [HNext]_<<vars, history>>
  PROVE  Earned'
<1>1. CASE UNCHANGED <<vars, history>>
  BY <1>1, HistoryUnchanged DEF Earned, WhitelistEarned
<1>2. CASE Tick /\ UNCHANGED <<handshaked, introduced, lastAccepted>>
  BY <1>2 DEF Tick, tcpMaps, Earned, WhitelistEarned
<1>3. ASSUME NEW ip \in IPs, ValidPost(ip),
             introduced' = introduced \cup {ip}, handshaked' = handshaked
      PROVE  Earned'
  BY <1>3, PostPromotesOrRefreshes
     DEF Earned, WhitelistEarned, Refreshed, Put
<1>4. ASSUME NEW ip \in IPs, OtherAccepted(ip),
             introduced' = introduced, handshaked' = handshaked
      PROVE  Earned'
  BY <1>4, OtherRefreshes DEF Earned, WhitelistEarned, Refreshed, Put
<1>5. ASSUME NEW ip \in IPs, Established(ip),
             introduced' = introduced, handshaked' = handshaked \cup {ip}
      PROVE  Earned'
  <2>1. whitelist' = whitelist /\ established' = Put(established, ip, now)
    BY <1>5 DEF Established
  <2> QED BY <1>5, <2>1 DEF Earned, WhitelistEarned, Put
<1>6. ASSUME NEW ip \in IPs, UNCHANGED history,
             Rejected(ip) \/ Closed(ip) \/ HandshakeLost(ip) \/ Evict(ip)
      PROVE  Earned'
  <2>1. /\ whitelist' = whitelist \/ whitelist' = Forget(whitelist, ip)
        /\ established' = established \/ established' = Forget(established, ip)
    BY <1>6, RejectedLeaves, EvictForgets DEF Closed, HandshakeLost, tcpMaps
  <2>2. DOMAIN whitelist' \subseteq DOMAIN whitelist
        /\ DOMAIN established' \subseteq DOMAIN established
    BY <2>1 DEF Forget
  <2> QED BY <1>6, <2>2 DEF Earned, WhitelistEarned, history
<1> QED BY <1>1, <1>2, <1>3, <1>4, <1>5, <1>6 DEF HNext

(* UDP passes only from addresses that really completed a handshake and    *)
(* sent a connect request that was let in.                                 *)
THEOREM EarnedAlways == HSpec => []WhitelistEarned
<1>1. HInit => Earned
  BY DEF HInit, Init, Earned, WhitelistEarned, EmptyMap
<1>2. Earned => WhitelistEarned
  BY DEF Earned
<1> QED BY <1>1, <1>2, EarnedKept, PTL DEF HSpec

------------------------------------------------------------------------------
(* A whitelist entry is the last accepted packet *)

LEMMA LastAcceptedKept ==
  ASSUME WhitelistIsLastAccepted, [HNext]_<<vars, history>>
  PROVE  WhitelistIsLastAccepted'
<1>1. CASE UNCHANGED <<vars, history>>
  BY <1>1, HistoryUnchanged DEF WhitelistIsLastAccepted
<1>2. CASE Tick /\ UNCHANGED <<handshaked, introduced, lastAccepted>>
  BY <1>2 DEF Tick, WhitelistIsLastAccepted
<1>3. ASSUME NEW ip \in IPs, ValidPost(ip) \/ OtherAccepted(ip),
             lastAccepted' = Put(lastAccepted, ip, now)
      PROVE  WhitelistIsLastAccepted'
  <2>1. whitelist' = Put(whitelist, ip, now) \/ whitelist' = Refreshed(ip)
    BY <1>3, PostPromotesOrRefreshes, OtherRefreshes
  <2>2. \/ whitelist' = Put(whitelist, ip, now)
        \/ whitelist' = whitelist /\ ip \notin DOMAIN whitelist
    BY <2>1 DEF Refreshed
  <2> QED BY <1>3, <2>2 DEF WhitelistIsLastAccepted, Put
<1>4. ASSUME NEW ip \in IPs, lastAccepted' = lastAccepted,
             \/ Established(ip) \/ Rejected(ip) \/ Closed(ip)
             \/ HandshakeLost(ip) \/ Evict(ip)
      PROVE  WhitelistIsLastAccepted'
  <2>1. whitelist' = whitelist \/ whitelist' = Forget(whitelist, ip)
    BY <1>4, RejectedLeaves, EvictForgets
       DEF Established, Closed, HandshakeLost
  <2> QED BY <1>4, <2>1 DEF WhitelistIsLastAccepted, Forget
<1> QED BY <1>1, <1>2, <1>3, <1>4 DEF HNext, history

(* Whatever the kernel evicts, an entry of tcp_whitelist holds the instant *)
(* of the last packet of its source the XDP program accepted.              *)
THEOREM LastAcceptedAlways == HSpec => []WhitelistIsLastAccepted
<1>1. HInit => WhitelistIsLastAccepted
  BY DEF HInit, Init, WhitelistIsLastAccepted, EmptyMap
<1> QED BY <1>1, LastAcceptedKept, PTL DEF HSpec

------------------------------------------------------------------------------
(* The cap on open sockets.  The XDP program never writes tcp_open_count   *)
(* and the sockops program never consults the cap, so each theorem follows *)
(* from what a packet does to the backlog and what a connection does to    *)
(* the count.                                                              *)

(* The kernel may take a SYN into its backlog only if the XDP program let  *)
(* it through, below the cap.                                              *)
Handshake(ip) ==
  \/ backlog' = backlog
  \/ /\ backlog[ip] < MaxBacklog
     /\ ~TooManyOpen(ip)
     /\ backlog' = [backlog EXCEPT ![ip] = @ + 1]

LEMMA SegmentHandshake ==
  ASSUME NEW ip, NEW syn, NEW cpu, NEW seen,
         Admit(ip, syn, cpu), PassTcp(ip, syn, seen)
  PROVE  /\ Handshake(ip) /\ sockets' = sockets
  BY DEF Admit, PassTcp, Handshake, Put

LEMMA AcceptedSockets ==
  ASSUME NEW ip \in IPs, Accepted(ip)
  PROVE  /\ Handshake(ip) /\ sockets' = sockets /\ openCount' = openCount
         /\ established' = established
<1>1. CASE UdpPass(ip)
  BY <1>1 DEF UdpPass, Handshake, kernel, tcpMaps
<1>2. ASSUME NEW syn \in BOOLEAN, NEW cpu \in CPUs, TcpPassed(ip, syn, cpu)
      PROVE  /\ Admit(ip, syn, cpu) /\ openCount' = openCount
             /\ established' = established
             /\ \E seen : PassTcp(ip, syn, seen)
  BY <1>2 DEF TcpPassed, TcpSegment, PostPromotes, PostWithoutHandshake,
              PostUnknownUserAgent, PostAccepted, GetAccepted
<1> QED BY <1>1, <1>2, SegmentHandshake DEF Accepted

LEMMA RejectedSockets ==
  ASSUME NEW ip \in IPs, Rejected(ip)
  PROVE  /\ backlog' = backlog /\ sockets' = sockets /\ openCount' = openCount
         /\ established' = established
<1> DEFINE Calm == /\ backlog' = backlog /\ sockets' = sockets
                   /\ openCount' = openCount /\ established' = established
          <1>1. ASSUME NEW reason, NEW known, Refuse(ip, reason, known) PROVE Calm
  BY <1>1 DEF Refuse, DropPacket, kernel, tcpMaps
<1>2. ASSUME NEW syn, NEW cpu, NEW reason, NEW known, NEW seen,
             DropSegment(ip, syn, cpu, reason, known, seen)
      PROVE  Calm
  BY <1>2 DEF DropSegment, DropPacket, Admit, Put, kernel
<1>3. ASSUME UdpMalformed(ip) PROVE Calm
  BY <1>3 DEF UdpMalformed, DropPacket, kernel, tcpMaps
<1> HIDE DEF Calm
<1>4. ASSUME Fragment(ip) PROVE Calm
  BY <1>1, <1>4 DEF Fragment
<1>5. ASSUME UdpDropped(ip) PROVE Calm
  BY <1>1, <1>3, <1>5 DEF UdpDropped, UdpNotWhitelisted, UdpExpired,
                          UdpUnhealthy, UdpLimited
<1>6. ASSUME NEW cpu \in CPUs, TcpRefusedSource(ip, cpu) PROVE Calm
  BY <1>1, <1>6 DEF TcpRefusedSource, TcpNoSyn, SynTooManyOpen,
                    SynGlobalLimited
<1>7. ASSUME NEW syn \in BOOLEAN, NEW cpu \in CPUs, TcpDropped(ip, syn, cpu)
      PROVE  Calm
  BY <1>2, <1>7 DEF TcpDropped, TcpMalformed, RequestBadUserAgent, PostLimited,
                    GetLimited
<1>8. Calm
  BY <1>4, <1>5, <1>6, <1>7 DEF Rejected
<1> QED BY <1>8 DEF Calm

LEMMA EvictSockets ==
  ASSUME NEW ip, Evict(ip)
  PROVE  /\ backlog' = backlog /\ sockets' = sockets
         /\ openCount' = openCount \/ openCount' = Forget(openCount, ip)
         /\ "tcp_open_count" \notin Evictable => openCount' = openCount
         /\ "tcp_established" \notin Evictable => established' = established
         /\ DOMAIN whitelist' \subseteq DOMAIN whitelist
  BY DEF Evict, Forget, kernel

LEMMA SocketTypes ==
  ASSUME TypeOK
  PROVE  /\ sockets \in [IPs -> Nat] /\ backlog \in [IPs -> 0..MaxBacklog]
         /\ Holds(openCount, Nat)
         /\ \A ip \in IPs : Counted(ip) \in Nat
  BY Kept DEF CountersOK, Holds, Counted

(* What the sockops program does to the count of one source. *)
LEMMA EstablishedCounts ==
  ASSUME TypeOK, NEW ip \in IPs, Established(ip)
  PROVE  /\ backlog[ip] > 0 /\ backlog' = [backlog EXCEPT ![ip] = @ - 1]
         /\ sockets' = [sockets EXCEPT ![ip] = @ + 1]
         /\ \A other \in IPs :
              Counted(other)' = IF other = ip THEN Counted(ip) + 1
                                ELSE Counted(other)
<1>1. openCount' = Put(openCount, ip, 1 + Counted(ip))
  BY DEF Established, OpenCountInc, Counted
<1>2. Counted(ip) \in Nat
  BY SocketTypes
<1>3. \A other \in IPs : Counted(other)' = IF other = ip THEN 1 + Counted(ip)
                                           ELSE Counted(other)
  BY <1>1 DEF Put, Counted
<1> QED BY <1>2, <1>3 DEF Established

LEMMA ClosedCounts ==
  ASSUME TypeOK, NEW ip \in IPs, Closed(ip)
  PROVE  /\ sockets[ip] > 0 /\ backlog' = backlog
         /\ sockets' = [sockets EXCEPT ![ip] = @ - 1]
         /\ \A other \in IPs :
              Counted(other)' =
                IF other = ip /\ Counted(ip) > 0 THEN Counted(ip) - 1
                ELSE Counted(other)
<1>1. openCount' = OpenCountDec(ip)
  BY DEF Closed
<1>2. Counted(ip) \in Nat
  BY SocketTypes
<1>3. \A other \in IPs :
        Counted(other)' = IF other = ip /\ Counted(ip) > 0
                          THEN Counted(ip) - 1 ELSE Counted(other)
  BY <1>1, <1>2 DEF OpenCountDec, Put, Counted
<1> QED BY <1>3 DEF Closed

------------------------------------------------------------------------------

LEMMA NeverOverKept ==
  ASSUME TypeOK, OpenCountNeverOver, [Next]_vars
  PROVE  OpenCountNeverOver'
<1>1. sockets \in [IPs -> Nat] /\ \A ip \in IPs : Counted(ip) \in Nat
  BY SocketTypes
<1>2. CASE openCount' = openCount /\ sockets' = sockets
  BY <1>2 DEF OpenCountNeverOver, Counted
<1>3. ASSUME NEW ip \in IPs, Established(ip) PROVE OpenCountNeverOver'
  BY <1>1, <1>3, EstablishedCounts DEF OpenCountNeverOver
<1>4. ASSUME NEW ip \in IPs, Closed(ip) PROVE OpenCountNeverOver'
  BY <1>1, <1>4, ClosedCounts DEF OpenCountNeverOver
<1>5. ASSUME NEW ip \in IPs, Evict(ip) PROVE OpenCountNeverOver'
  <2>1. sockets' = sockets
        /\ (openCount' = openCount \/ openCount' = Forget(openCount, ip))
    BY <1>5, EvictSockets
  <2>2. \A other \in IPs : Counted(other)' = Counted(other)
                           \/ Counted(other)' = 0
    BY <2>1 DEF Counted, Forget
  <2> QED BY <1>1, <2>1, <2>2 DEF OpenCountNeverOver
<1>6. ASSUME NEW ip \in IPs, Accepted(ip) \/ Rejected(ip) \/ HandshakeLost(ip)
      PROVE  openCount' = openCount /\ sockets' = sockets
  BY <1>6, AcceptedSockets, RejectedSockets DEF HandshakeLost, tcpMaps
<1>7. CASE Tick \/ UNCHANGED vars
  BY <1>2, <1>7 DEF Tick, vars, tcpMaps, kernel
<1> QED BY <1>2, <1>3, <1>4, <1>5, <1>6, <1>7 DEF Next, Kernel

(* The cap never counts a socket the source does not hold, whichever maps  *)
(* the kernel evicts from.                                                 *)
THEOREM NeverOverAlways == Spec => []OpenCountNeverOver
<1>1. Init => OpenCountNeverOver
  BY DEF Init, OpenCountNeverOver, Counted, EmptyMap
<1> QED BY <1>1, NeverOverKept, TypeCorrect, PTL DEF Spec

------------------------------------------------------------------------------

LEMMA ExactKept ==
  ASSUME TypeOK, OpenCountExact, [Next]_vars,
         "tcp_open_count" \notin Evictable
  PROVE  OpenCountExact'
<1>1. sockets \in [IPs -> Nat] /\ \A ip \in IPs : Counted(ip) \in Nat
  BY SocketTypes
<1>2. CASE openCount' = openCount /\ sockets' = sockets
  BY <1>2 DEF OpenCountExact, Counted
<1>3. ASSUME NEW ip \in IPs, Established(ip) PROVE OpenCountExact'
  BY <1>1, <1>3, EstablishedCounts DEF OpenCountExact
<1>4. ASSUME NEW ip \in IPs, Closed(ip) PROVE OpenCountExact'
  BY <1>1, <1>4, ClosedCounts DEF OpenCountExact
<1>5. ASSUME NEW ip \in IPs,
             Accepted(ip) \/ Rejected(ip) \/ HandshakeLost(ip) \/ Evict(ip)
      PROVE  openCount' = openCount /\ sockets' = sockets
  BY <1>5, AcceptedSockets, RejectedSockets, EvictSockets
     DEF HandshakeLost, tcpMaps
<1>6. CASE Tick \/ UNCHANGED vars
  BY <1>2, <1>6 DEF Tick, vars, tcpMaps, kernel
<1> QED BY <1>2, <1>3, <1>4, <1>5, <1>6 DEF Next, Kernel

(* While tcp_open_count does not overflow, it counts exactly the sockets   *)
(* each source holds.                                                      *)
THEOREM ExactAlways ==
  ASSUME "tcp_open_count" \notin Evictable
  PROVE  Spec => []OpenCountExact
<1>1. Init => OpenCountExact
  BY DEF Init, OpenCountExact, Counted, EmptyMap
<1>2. TypeOK /\ OpenCountExact /\ [Next]_vars => OpenCountExact'
  BY ExactKept
<1> QED BY <1>1, <1>2, TypeCorrect, PTL DEF Spec

------------------------------------------------------------------------------

LEMMA OvershootKept ==
  ASSUME TypeOK, OvershootBounded, [Next]_vars
  PROVE  OvershootBounded'
<1> DEFINE Cap == TcpMaxOpenPerIP - 1 + MaxBacklog
<1> SUFFICES ASSUME TcpMaxOpenPerIP > 0, NEW ip \in IPs
             PROVE  Counted(ip)' + backlog'[ip] <= Cap
  BY DEF OvershootBounded
<1>1. /\ backlog \in [IPs -> 0..MaxBacklog] /\ Counted(ip) \in Nat
      /\ MaxBacklog \in Nat /\ TcpMaxOpenPerIP \in Nat
      /\ Counted(ip) + backlog[ip] <= Cap
  BY SocketTypes, ConfigNat, BoundsAssumption DEF OvershootBounded
<1>2. CASE openCount' = openCount /\ backlog' = backlog
  BY <1>1, <1>2 DEF Counted
<1>3. ASSUME NEW other \in IPs, Handshake(other), openCount' = openCount
      PROVE  Counted(ip)' + backlog'[ip] <= Cap
  <2>1. Counted(ip)' = Counted(ip)
    BY <1>3 DEF Counted
  <2>2. CASE backlog' = backlog
    BY <1>1, <2>1, <2>2
  <2>3. CASE /\ backlog[other] < MaxBacklog /\ ~TooManyOpen(other)
             /\ backlog' = [backlog EXCEPT ![other] = @ + 1]
    <3>1. Counted(other) \in Nat /\ Counted(other) < TcpMaxOpenPerIP
      BY <1>1, <2>3, SocketTypes DEF TooManyOpen, Counted, Holds
    <3>2. CASE other = ip
      BY <1>1, <2>1, <2>3, <3>1, <3>2
    <3>3. CASE other # ip
      BY <1>1, <2>1, <2>3, <3>3
    <3> QED BY <3>2, <3>3
  <2> QED BY <1>3, <2>2, <2>3 DEF Handshake
<1>4. ASSUME NEW other \in IPs, Established(other)
      PROVE  Counted(ip)' + backlog'[ip] <= Cap
  BY <1>1, <1>4, EstablishedCounts
<1>5. ASSUME NEW other \in IPs, Closed(other)
      PROVE  Counted(ip)' + backlog'[ip] <= Cap
  BY <1>1, <1>5, ClosedCounts
<1>6. ASSUME NEW other \in IPs, HandshakeLost(other)
      PROVE  Counted(ip)' + backlog'[ip] <= Cap
  BY <1>1, <1>6 DEF HandshakeLost, tcpMaps, Counted
<1>7. ASSUME NEW other \in IPs, Evict(other)
      PROVE  Counted(ip)' + backlog'[ip] <= Cap
  <2>1. backlog' = backlog /\ (Counted(ip)' = Counted(ip) \/ Counted(ip)' = 0)
    BY <1>7, EvictSockets DEF Counted, Forget
  <2> QED BY <1>1, <2>1
<1>8. ASSUME NEW other \in IPs, Rejected(other)
      PROVE  openCount' = openCount /\ backlog' = backlog
  BY <1>8, RejectedSockets
<1>9. CASE Tick \/ UNCHANGED vars
  BY <1>2, <1>9 DEF Tick, vars, tcpMaps, kernel
<1> HIDE DEF Cap
<1> QED BY <1>2, <1>3, <1>4, <1>5, <1>6, <1>7, <1>8, <1>9, AcceptedSockets
        DEF Next, Kernel

(* Whatever is evicted, the count runs over the cap by at most the         *)
(* handshakes that can be in progress at once, less one.                   *)
THEOREM OvershootAlwaysBounded == Spec => []OvershootBounded
<1>1. Init => OvershootBounded
  BY ConfigNat, BoundsAssumption
     DEF Init, OvershootBounded, Counted, EmptyMap
<1> QED BY <1>1, OvershootKept, TypeCorrect, PTL DEF Spec

(* Without evictions of counts this bounds the sockets themselves.         *)
THEOREM SocketsAlwaysBounded ==
  ASSUME "tcp_open_count" \notin Evictable
  PROVE  Spec => []SocketsBounded
<1>1. OpenCountExact /\ OvershootBounded => SocketsBounded
  BY DEF OpenCountExact, OvershootBounded, SocketsBounded
<1> QED BY <1>1, ExactAlways, OvershootAlwaysBounded, PTL
==============================================================================
