--------------------------- MODULE XdpFilterProofs ---------------------------
(***************************************************************************)
(* Type correctness of XdpFilter for every configuration and any number of *)
(* sources and CPUs.  A handler writes a map by Put or Forget only, so it  *)
(* is enough that what it puts has the right type; the clock only widens   *)
(* the types.                                                              *)
(***************************************************************************)
EXTENDS XdpFilter, TLAPS

LEMMA ConfigNat ==
  /\ WhitelistTTL \in Nat /\ UdpPeriod \in Nat /\ UdpBurst \in Nat
  /\ InitconnectPeriod \in Nat /\ InitconnectBurst \in Nat
  /\ GetinfoPeriod \in Nat /\ GetinfoBurst \in Nat
  /\ TcpGlobalPeriod \in Nat /\ TcpGlobalBurst \in Nat
  /\ TcpMaxOpenPerIP \in Nat /\ HealthWindow \in Nat
  /\ HealthThreshold \in Nat /\ HealthBlacklist \in Nat
  BY ConfigAssumption DEF Config

------------------------------------------------------------------------------
(* Maps *)

LEMMA PutHolds ==
  ASSUME NEW map, NEW Values, NEW ip \in IPs, NEW value \in Values,
         Holds(map, Values)
  PROVE  Holds(Put(map, ip, value), Values)
  BY DEF Holds, Put

LEMMA ForgetHolds ==
  ASSUME NEW map, NEW Values, NEW ip, Holds(map, Values)
  PROVE  Holds(Forget(map, ip), Values)
  BY DEF Holds, Forget

LEMMA WiderHolds ==
  ASSUME NEW map, NEW Values, NEW Wider, Values \subseteq Wider,
         Holds(map, Values)
  PROVE  Holds(map, Wider)
  BY DEF Holds

LEMMA ClockPast == ASSUME ClockOK PROVE now \in Nat /\ now \in Past
  BY BoundsAssumption DEF ClockOK, Past

------------------------------------------------------------------------------
(* Buckets *)

LEMMA DivMod ==
  ASSUME NEW e \in Nat, NEW p \in Nat \ {0}
  PROVE  e \div p \in Nat /\ (e \div p) * p \in Nat /\ (e \div p) * p <= e
  BY SMT

LEMMA NewBucketType ==
  ASSUME ClockOK, NEW burst \in Nat \ {0}
  PROVE  NewBucket(burst, now) \in BucketBelow(burst)
  BY ClockPast DEF BucketBelow, PastBucket, Bucket, NewBucket

LEMMA TakeType ==
  ASSUME ClockOK, NEW period \in Nat \ {0}, NEW burst \in Nat \ {0},
         NEW b \in PastBucket, CanTake(b, now, period, burst)
  PROVE  Take(b, now, period, burst) \in BucketBelow(burst)
<1> DEFINE e == now - b.last
           r == e \div period
           a == IF b.tokens + r > burst THEN burst ELSE b.tokens + r
<1>1. /\ b \in Bucket /\ b.tokens \in Nat /\ b.last \in Nat /\ e \in Nat
      /\ now \in Nat
  BY ClockPast DEF PastBucket, Bucket
<1>2. r \in Nat /\ r * period \in Nat /\ r * period <= e
  BY <1>1, DivMod
<1>3. /\ a # 0
      /\ Take(b, now, period, burst) =
           [tokens |-> a - 1, last |-> b.last + r * period]
  BY DEF CanTake, Available, Refill, Take
<1> DEFINE g == r * period
<1>4. b.last + g \in Nat /\ b.last + g <= now
  <2> HIDE DEF g
  <2>1. g \in Nat /\ g <= now - b.last
    BY <1>2 DEF g
  <2> QED BY <2>1, <1>1
<1> HIDE DEF r, e
<1>5. a - 1 \in Nat /\ a - 1 < burst
  BY <1>1, <1>2, <1>3
<1> HIDE DEF a, g
<1>6. Take(b, now, period, burst) = [tokens |-> a - 1, last |-> b.last + g]
  BY <1>3 DEF g
<1> QED BY <1>4, <1>5, <1>6 DEF BucketBelow, PastBucket, Bucket

LEMMA ChargedHolds ==
  ASSUME ClockOK, NEW map, NEW ip \in IPs, NEW period \in Nat, NEW burst \in Nat,
         Holds(map, BucketBelow(burst)), Allows(map, ip, period, burst)
  PROVE  Holds(Charged(map, ip, period, burst), BucketBelow(burst))
<1>1. CASE ~Limited(period, burst)
  BY <1>1 DEF Charged
<1>2. CASE Limited(period, burst)
  <2>1. period \in Nat \ {0} /\ burst \in Nat \ {0}
    BY <1>2 DEF Limited
  <2>2. CASE ip \in DOMAIN map
    <3>1. map[ip] \in PastBucket /\ CanTake(map[ip], now, period, burst)
      BY <2>2, <1>2 DEF Holds, BucketBelow, Allows
    <3>2. Take(map[ip], now, period, burst) \in BucketBelow(burst)
      BY <2>1, <3>1, TakeType
    <3> QED BY <1>2, <2>2, <3>2, PutHolds DEF Charged
  <2>3. CASE ip \notin DOMAIN map
    BY <1>2, <2>1, <2>3, NewBucketType, PutHolds DEF Charged
  <2> QED BY <2>2, <2>3
<1> QED BY <1>1, <1>2

LEMMA GlobalChargedType ==
  ASSUME TypeOK, NEW cpu \in CPUs, GlobalAllows(cpu)
  PROVE  GlobalCharged(cpu) \in [CPUs -> PastBucket]
<1>1. ClockOK /\ tcpGlobalRatelimit \in [CPUs -> PastBucket]
  BY DEF TypeOK, BucketsOK
<1>2. CASE ~Limited(TcpGlobalPeriod, TcpGlobalBurst)
  BY <1>1, <1>2 DEF GlobalCharged
<1>3. CASE Limited(TcpGlobalPeriod, TcpGlobalBurst)
  <2> DEFINE b == Take(tcpGlobalRatelimit[cpu], now,
                       TcpGlobalPeriod, TcpGlobalBurst)
  <2>1. /\ TcpGlobalPeriod \in Nat \ {0} /\ TcpGlobalBurst \in Nat \ {0}
        /\ tcpGlobalRatelimit[cpu] \in PastBucket
        /\ CanTake(tcpGlobalRatelimit[cpu], now,
                   TcpGlobalPeriod, TcpGlobalBurst)
    BY <1>1, <1>3, ConfigNat DEF Limited, GlobalAllows
  <2>2. b \in PastBucket
    BY <1>1, <2>1, TakeType DEF BucketBelow
  <2>3. GlobalCharged(cpu) = [tcpGlobalRatelimit EXCEPT ![cpu] = b]
    BY <1>3 DEF GlobalCharged
  <2> HIDE DEF b
  <2> QED BY <1>1, <2>2, <2>3
<1> QED BY <1>2, <1>3

------------------------------------------------------------------------------
(* Counters, histories and health *)

LEMMA BumpType ==
  ASSUME stats \in [Stats -> Nat], NEW slots
  PROVE  Bump(slots) \in [Stats -> Nat]
  BY DEF Bump

LEMMA RecordDropHolds ==
  ASSUME TypeOK, NEW ip \in IPs, NEW reason \in Reasons, NEW known
  PROVE  Holds(RecordDrop(ip, reason, known), History)
<1>1. Holds(dropHistory, History) /\ now \in Past /\ now \in Nat
  BY ClockPast DEF TypeOK
<1>2. NewHistory(reason) \in History
  BY <1>1 DEF NewHistory, History
<1>3. ASSUME ip \in DOMAIN dropHistory
      PROVE  [dropHistory[ip] EXCEPT !.last = now, !.counts[reason] = @ + 1]
               \in History
  <2> DEFINE h == dropHistory[ip]
             counts == [h.counts EXCEPT ![reason] = @ + 1]
  <2>1. h \in [first : Past, last : Past, counts : [Reasons -> Nat]]
    BY <1>1, <1>3 DEF Holds, History
  <2>2. h.first \in Past /\ h.counts \in [Reasons -> Nat]
    BY <2>1
  <2>3. counts \in [Reasons -> Nat]
    BY <2>2
  <2>4. /\ [h EXCEPT !.last = now, !.counts[reason] = @ + 1]
             \in [first : Past, last : Past, counts : [Reasons -> Nat]]
        /\ [h EXCEPT !.last = now, !.counts[reason] = @ + 1].first = h.first
        /\ [h EXCEPT !.last = now, !.counts[reason] = @ + 1].last = now
    BY <2>1, <2>2, <2>3, <1>1
  <2>5. h.first <= now
    BY <2>2, <1>1 DEF Past
  <2> QED BY <2>4, <2>5 DEF History
<1>4. CASE DropHistoryEnabled /\ ip \in DOMAIN dropHistory
  BY <1>1, <1>3, <1>4, PutHolds DEF RecordDrop
<1>5. CASE ~DropHistoryEnabled \/ ip \notin DOMAIN dropHistory
  BY <1>1, <1>2, <1>5, PutHolds DEF RecordDrop
<1> QED BY <1>4, <1>5

LEMMA RecordAnomalyHolds ==
  ASSUME TypeOK, NEW ip \in IPs
  PROVE  Holds(RecordAnomaly(ip), Health)
<1>1. /\ Holds(udpHealth, Health) /\ now \in Past /\ now \in Nat
      /\ HealthBlacklist \in Nat
  BY ClockPast, ConfigNat DEF TypeOK
<1>2. NewHealth \in Health
  BY <1>1 DEF NewHealth, Health
<1>3. ASSUME ip \in DOMAIN udpHealth PROVE CountAnomaly(udpHealth[ip]) \in Health
  <2> DEFINE h == udpHealth[ip]
  <2>1. /\ h.anomalies \in Nat /\ h.windowStart \in Past
        /\ h.blacklistUntil \in 0..(now + HealthBlacklist)
    BY <1>1, <1>3 DEF Holds, Health
  <2> HIDE DEF h
  <2>2. CountAnomaly(h) \in Health
    BY <2>1, <1>1 DEF CountAnomaly, Health
  <2> QED BY <2>2 DEF h
<1> QED BY <1>1, <1>2, <1>3, PutHolds DEF RecordAnomaly

------------------------------------------------------------------------------
(* The parts the handlers share *)

LEMMA VerdictTypes ==
  ASSUME TypeOK, NEW slots, Verdict(slots)
  PROVE  ClockOK' /\ now' = now /\ stats' \in [Stats -> Nat]
<1>1. ClockOK /\ stats \in [Stats -> Nat]
  BY DEF TypeOK, CountersOK
<1> QED BY <1>1, BumpType, BoundsAssumption DEF Verdict, ClockOK

(* While the clock stands still the types do. *)
LEMMA SameTypes ==
  ASSUME now' = now
  PROVE  Past' = Past /\ PastBucket' = PastBucket /\ Health' = Health
         /\ History' = History
         /\ \A burst \in Nat : BucketBelow(burst)' = BucketBelow(burst)
  BY DEF Past, PastBucket, Health, History, BucketBelow

LEMMA DropPacketTypes ==
  ASSUME TypeOK, NEW ip \in IPs, NEW reason \in Reasons, NEW known, NEW seen,
         DropPacket(ip, reason, known, seen)
  PROVE  ClockOK' /\ now' = now /\ CountersOK' /\ Holds(dropHistory, History)'
<1>1. /\ Verdict({reason} \cup seen)
      /\ dropHistory' = RecordDrop(ip, reason, known)
      /\ backlog' = backlog /\ sockets' = sockets
  BY DEF DropPacket, kernel
<1>2. ClockOK' /\ now' = now /\ stats' \in [Stats -> Nat]
  BY <1>1, VerdictTypes
<1>3. CountersOK'
  BY <1>1, <1>2 DEF TypeOK, CountersOK
<1>4. Holds(RecordDrop(ip, reason, known), History)
  BY RecordDropHolds
<1>5. Holds(dropHistory, History)'
  BY <1>1, <1>2, <1>4, SameTypes DEF Holds
<1> QED BY <1>2, <1>3, <1>5

LEMMA PassTcpTypes ==
  ASSUME TypeOK, NEW ip \in IPs, NEW syn, NEW seen, PassTcp(ip, syn, seen)
  PROVE  ClockOK' /\ now' = now /\ CountersOK' /\ Holds(dropHistory, History)'
<1>1. /\ Verdict({"pass_tcp"} \cup seen)
      /\ \/ backlog' = backlog
         \/ /\ backlog[ip] < MaxBacklog
            /\ backlog' = [backlog EXCEPT ![ip] = @ + 1]
      /\ dropHistory' = dropHistory /\ sockets' = sockets
  BY DEF PassTcp
<1>2. ClockOK' /\ now' = now /\ stats' \in [Stats -> Nat]
  BY <1>1, VerdictTypes
<1>3. backlog' \in [IPs -> 0..MaxBacklog]
  BY <1>1, BoundsAssumption DEF TypeOK, CountersOK
<1>4. CountersOK'
  BY <1>1, <1>2, <1>3 DEF TypeOK, CountersOK
<1>5. Holds(dropHistory, History)'
  BY <1>1, <1>2, SameTypes DEF TypeOK, Holds
<1> QED BY <1>2, <1>4, <1>5

LEMMA AdmitTypes ==
  ASSUME TypeOK, NEW ip \in IPs, NEW syn \in BOOLEAN, NEW cpu \in CPUs,
         Admit(ip, syn, cpu), now' = now
  PROVE  Holds(synSeen, Past)' /\ tcpGlobalRatelimit' \in [CPUs -> PastBucket]
<1>1. /\ ClockOK /\ Holds(synSeen, Past)
      /\ tcpGlobalRatelimit \in [CPUs -> PastBucket]
  BY DEF TypeOK, TcpMapsOK, BucketsOK
<1>2. CASE synSeen' = synSeen /\ tcpGlobalRatelimit' = tcpGlobalRatelimit
  BY <1>1, <1>2, SameTypes DEF Holds
<1>3. CASE /\ GlobalAllows(cpu)
           /\ synSeen' = Put(synSeen, ip, now)
           /\ tcpGlobalRatelimit' = GlobalCharged(cpu)
  <2>1. Holds(Put(synSeen, ip, now), Past)
    BY <1>1, PutHolds, ClockPast
  <2>2. Holds(synSeen, Past)'
    BY <2>1, <1>3, SameTypes DEF Holds
  <2> QED BY <2>2, <1>3, GlobalChargedType
<1> QED BY <1>2, <1>3 DEF Admit

LEMMA RefreshedHolds ==
  ASSUME TypeOK, NEW ip \in IPs
  PROVE  Holds(Refreshed(ip), Past) /\ Holds(Put(whitelist, ip, now), Past)
<1>1. ClockOK /\ Holds(whitelist, Past)
  BY DEF TypeOK, TcpMapsOK
<1> QED BY <1>1, PutHolds, ClockPast DEF Refreshed

(* Types of what a step left alone, and of what it wrote. *)
LEMMA Assemble ==
  ASSUME TypeOK, ClockOK', now' = now, CountersOK',
         Holds(dropHistory, History)',
         Holds(whitelist', Past), Holds(established', Past),
         Holds(synSeen', Past), Holds(openCount', Nat),
         Holds(udpRatelimit', BucketBelow(UdpBurst)),
         Holds(initconnectRatelimit', BucketBelow(InitconnectBurst)),
         Holds(getinfoRatelimit', BucketBelow(GetinfoBurst)),
         tcpGlobalRatelimit' \in [CPUs -> PastBucket],
         Holds(udpHealth', Health)
  PROVE  TypeOK'
<1>1. /\ Past' = Past /\ PastBucket' = PastBucket /\ Health' = Health
      /\ BucketBelow(UdpBurst)' = BucketBelow(UdpBurst)
      /\ BucketBelow(InitconnectBurst)' = BucketBelow(InitconnectBurst)
      /\ BucketBelow(GetinfoBurst)' = BucketBelow(GetinfoBurst)
  BY SameTypes DEF BucketBelow
<1>2. TcpMapsOK'
  BY <1>1 DEF TcpMapsOK, Holds
<1>3. BucketsOK'
  BY <1>1 DEF BucketsOK, Holds
<1>4. Holds(udpHealth, Health)'
  BY <1>1 DEF Holds
<1> QED BY <1>2, <1>3, <1>4 DEF TypeOK

LEMMA Kept ==
  ASSUME TypeOK
  PROVE  /\ Holds(whitelist, Past) /\ Holds(established, Past)
         /\ Holds(synSeen, Past) /\ Holds(openCount, Nat)
         /\ Holds(udpRatelimit, BucketBelow(UdpBurst))
         /\ Holds(initconnectRatelimit, BucketBelow(InitconnectBurst))
         /\ Holds(getinfoRatelimit, BucketBelow(GetinfoBurst))
         /\ tcpGlobalRatelimit \in [CPUs -> PastBucket]
         /\ Holds(udpHealth, Health) /\ Holds(dropHistory, History)
         /\ ClockOK /\ CountersOK
  BY DEF TypeOK, TcpMapsOK, BucketsOK

------------------------------------------------------------------------------
(* One lemma for each way a packet can end *)

LEMMA RefuseStep ==
  ASSUME TypeOK, NEW ip \in IPs, NEW reason \in Reasons, NEW known,
         Refuse(ip, reason, known)
  PROVE  TypeOK'
<1>1. /\ DropPacket(ip, reason, known, {})
      /\ whitelist' = whitelist /\ established' = established
      /\ synSeen' = synSeen /\ openCount' = openCount
      /\ udpRatelimit' = udpRatelimit
      /\ initconnectRatelimit' = initconnectRatelimit
      /\ getinfoRatelimit' = getinfoRatelimit
      /\ tcpGlobalRatelimit' = tcpGlobalRatelimit /\ udpHealth' = udpHealth
  BY DEF Refuse, tcpMaps, ipBuckets
<1>2. ClockOK' /\ now' = now /\ CountersOK' /\ Holds(dropHistory, History)'
  BY <1>1, DropPacketTypes
<1> QED BY <1>1, <1>2, Kept, Assemble

LEMMA DropSegmentStep ==
  ASSUME TypeOK, NEW ip \in IPs, NEW syn \in BOOLEAN, NEW cpu \in CPUs,
         NEW reason \in Reasons, NEW known, NEW seen,
         DropSegment(ip, syn, cpu, reason, known, seen)
  PROVE  TypeOK'
<1>1. /\ Admit(ip, syn, cpu) /\ DropPacket(ip, reason, known, seen)
      /\ whitelist' = whitelist /\ established' = established
      /\ openCount' = openCount /\ udpRatelimit' = udpRatelimit
      /\ initconnectRatelimit' = initconnectRatelimit
      /\ getinfoRatelimit' = getinfoRatelimit /\ udpHealth' = udpHealth
  BY DEF DropSegment, ipBuckets
<1>2. ClockOK' /\ now' = now /\ CountersOK' /\ Holds(dropHistory, History)'
  BY <1>1, DropPacketTypes
<1>3. /\ Holds(synSeen', Past)
      /\ tcpGlobalRatelimit' \in [CPUs -> PastBucket]
  BY <1>1, <1>2, AdmitTypes, SameTypes DEF Holds
<1> QED BY <1>1, <1>2, <1>3, Kept, Assemble

LEMMA RejectedStep ==
  ASSUME TypeOK, NEW ip \in IPs, Rejected(ip)
  PROVE  TypeOK'
<1>1. CASE Fragment(ip)
  BY <1>1, RefuseStep DEF Fragment, Reasons
<1>2. CASE UdpDropped(ip)
  <2>1. CASE UdpMalformed(ip)
    <3>1. /\ udpHealth' = RecordAnomaly(ip)
          /\ DropPacket(ip, "udp_enet_malformed", TRUE, {})
          /\ whitelist' = whitelist /\ established' = established
          /\ synSeen' = synSeen /\ openCount' = openCount
          /\ udpRatelimit' = udpRatelimit
          /\ initconnectRatelimit' = initconnectRatelimit
          /\ getinfoRatelimit' = getinfoRatelimit
          /\ tcpGlobalRatelimit' = tcpGlobalRatelimit
      BY <2>1 DEF UdpMalformed, tcpMaps, ipBuckets
    <3>2. /\ ClockOK' /\ now' = now /\ CountersOK'
          /\ Holds(dropHistory, History)'
      BY <3>1, DropPacketTypes DEF Reasons
    <3>3. Holds(udpHealth', Health)
      BY <3>1, RecordAnomalyHolds
    <3> QED BY <3>1, <3>2, <3>3, Kept, Assemble
  <2>2. CASE UdpNotWhitelisted(ip)
    BY <2>2, RefuseStep DEF UdpNotWhitelisted, Reasons
  <2>3. CASE UdpExpired(ip)
    BY <2>3, RefuseStep DEF UdpExpired, Reasons
  <2>4. CASE UdpUnhealthy(ip)
    BY <2>4, RefuseStep DEF UdpUnhealthy, Reasons
  <2>5. CASE UdpLimited(ip)
    BY <2>5, RefuseStep DEF UdpLimited, Reasons
  <2> QED BY <1>2, <2>1, <2>2, <2>3, <2>4, <2>5 DEF UdpDropped
<1>3. ASSUME NEW cpu \in CPUs, TcpRefusedSource(ip, cpu) PROVE TypeOK'
  <2>1. CASE TcpNoSyn(ip)
    BY <2>1, RefuseStep DEF TcpNoSyn, Reasons
  <2>2. CASE SynTooManyOpen(ip)
    BY <2>2, RefuseStep DEF SynTooManyOpen, Reasons
  <2>3. CASE SynGlobalLimited(ip, cpu)
    BY <2>3, RefuseStep DEF SynGlobalLimited, Reasons
  <2> QED BY <1>3, <2>1, <2>2, <2>3 DEF TcpRefusedSource
<1>4. ASSUME NEW syn \in BOOLEAN, NEW cpu \in CPUs, TcpDropped(ip, syn, cpu)
      PROVE  TypeOK'
  <2>1. CASE TcpMalformed(ip, syn, cpu)
    BY <2>1, DropSegmentStep DEF TcpMalformed, Reasons
  <2>2. CASE RequestBadUserAgent(ip, syn, cpu)
    BY <2>2, DropSegmentStep DEF RequestBadUserAgent, Reasons
  <2>3. CASE PostLimited(ip, syn, cpu)
    BY <2>3, DropSegmentStep DEF PostLimited, Reasons
  <2>4. CASE GetLimited(ip, syn, cpu)
    BY <2>4, DropSegmentStep DEF GetLimited, Reasons
  <2> QED BY <1>4, <2>1, <2>2, <2>3, <2>4 DEF TcpDropped
<1> QED BY <1>1, <1>2, <1>3, <1>4 DEF Rejected

(* An accepted TCP packet that has admitted its source and written         *)
(* well-typed values into the whitelist and the two request buckets.       *)
LEMMA PassedStep ==
  ASSUME TypeOK, NEW ip \in IPs, NEW syn \in BOOLEAN, NEW cpu \in CPUs,
         NEW seen, Admit(ip, syn, cpu), PassTcp(ip, syn, seen),
         Holds(whitelist', Past),
         Holds(initconnectRatelimit', BucketBelow(InitconnectBurst)),
         Holds(getinfoRatelimit', BucketBelow(GetinfoBurst)),
         established' = established, openCount' = openCount,
         udpRatelimit' = udpRatelimit, udpHealth' = udpHealth
  PROVE  TypeOK'
<1>1. ClockOK' /\ now' = now /\ CountersOK' /\ Holds(dropHistory, History)'
  BY PassTcpTypes
<1>2. /\ Holds(synSeen', Past)
      /\ tcpGlobalRatelimit' \in [CPUs -> PastBucket]
  BY <1>1, AdmitTypes, SameTypes DEF Holds
<1> QED BY <1>1, <1>2, Kept, Assemble

LEMMA PostStep ==
  ASSUME TypeOK, NEW ip \in IPs, NEW syn \in BOOLEAN, NEW cpu \in CPUs,
         NEW outcome, PostAccepted(ip, syn, cpu, outcome),
         Holds(whitelist', Past)
  PROVE  TypeOK'
<1>1. /\ Admit(ip, syn, cpu) /\ InitconnectAllows(ip)
      /\ initconnectRatelimit' = Charged(initconnectRatelimit, ip,
                                         InitconnectPeriod, InitconnectBurst)
      /\ PassTcp(ip, syn, {"tcp_post_client_seen", outcome})
      /\ established' = established /\ openCount' = openCount
      /\ udpRatelimit' = udpRatelimit /\ getinfoRatelimit' = getinfoRatelimit
      /\ udpHealth' = udpHealth
  BY DEF PostAccepted
<1>2. Holds(initconnectRatelimit', BucketBelow(InitconnectBurst))
  BY <1>1, Kept, ChargedHolds, ConfigNat DEF InitconnectAllows
<1> QED BY <1>1, <1>2, Kept, PassedStep

LEMMA AcceptedStep ==
  ASSUME TypeOK, NEW ip \in IPs, Accepted(ip)
  PROVE  TypeOK'
<1>1. CASE UdpPass(ip)
  <2>1. /\ UdpAllows(ip)
        /\ udpRatelimit' = Charged(udpRatelimit, ip, UdpPeriod, UdpBurst)
        /\ whitelist' = Put(whitelist, ip, now)
        /\ Verdict({"pass_udp_whitelisted"})
        /\ established' = established /\ synSeen' = synSeen
        /\ openCount' = openCount
        /\ initconnectRatelimit' = initconnectRatelimit
        /\ getinfoRatelimit' = getinfoRatelimit
        /\ tcpGlobalRatelimit' = tcpGlobalRatelimit /\ udpHealth' = udpHealth
        /\ dropHistory' = dropHistory
        /\ backlog' = backlog /\ sockets' = sockets
    BY <1>1 DEF UdpPass, tcpMaps, kernel
  <2>2. ClockOK' /\ now' = now /\ stats' \in [Stats -> Nat]
    BY <2>1, VerdictTypes
  <2>3. CountersOK'
    BY <2>1, <2>2, Kept DEF CountersOK
  <2>4. Holds(dropHistory, History)'
    BY <2>1, <2>2, Kept, SameTypes DEF Holds
  <2>5. Holds(udpRatelimit', BucketBelow(UdpBurst))
    BY <2>1, Kept, ChargedHolds, ConfigNat DEF UdpAllows
  <2>6. Holds(whitelist', Past)
    BY <2>1, RefreshedHolds
  <2> QED BY <2>1, <2>2, <2>3, <2>4, <2>5, <2>6, Kept, Assemble
<1>2. ASSUME NEW syn \in BOOLEAN, NEW cpu \in CPUs, TcpPassed(ip, syn, cpu)
      PROVE  TypeOK'
  <2>1. CASE TcpSegment(ip, syn, cpu)
    <3>1. /\ Admit(ip, syn, cpu) /\ PassTcp(ip, syn, {})
          /\ whitelist' = Refreshed(ip)
          /\ established' = established /\ openCount' = openCount
          /\ udpRatelimit' = udpRatelimit
          /\ initconnectRatelimit' = initconnectRatelimit
          /\ getinfoRatelimit' = getinfoRatelimit /\ udpHealth' = udpHealth
      BY <2>1 DEF TcpSegment, ipBuckets
    <3> QED BY <3>1, RefreshedHolds, Kept, PassedStep
  <2>2. CASE PostPromotes(ip, syn, cpu)
    BY <2>2, RefreshedHolds, PostStep DEF PostPromotes
  <2>3. CASE PostWithoutHandshake(ip, syn, cpu)
    BY <2>3, RefreshedHolds, PostStep DEF PostWithoutHandshake
  <2>4. CASE PostUnknownUserAgent(ip, syn, cpu)
    BY <2>4, RefreshedHolds, PostStep DEF PostUnknownUserAgent
  <2>5. CASE GetAccepted(ip, syn, cpu)
    <3>1. /\ Admit(ip, syn, cpu) /\ PassTcp(ip, syn, {"tcp_getinfo_seen"})
          /\ GetinfoAllows(ip)
          /\ getinfoRatelimit' =
               Charged(getinfoRatelimit, ip, GetinfoPeriod, GetinfoBurst)
          /\ whitelist' = Refreshed(ip)
          /\ established' = established /\ openCount' = openCount
          /\ udpRatelimit' = udpRatelimit
          /\ initconnectRatelimit' = initconnectRatelimit
          /\ udpHealth' = udpHealth
      BY <2>5 DEF GetAccepted
    <3>2. Holds(getinfoRatelimit', BucketBelow(GetinfoBurst))
      BY <3>1, Kept, ChargedHolds, ConfigNat DEF GetinfoAllows
    <3> QED BY <3>1, <3>2, RefreshedHolds, Kept, PassedStep
  <2> QED BY <1>2, <2>1, <2>2, <2>3, <2>4, <2>5 DEF TcpPassed
<1> QED BY <1>1, <1>2 DEF Accepted

------------------------------------------------------------------------------
(* The kernel's side, the clock, and the theorem *)

LEMMA EstablishedStep ==
  ASSUME TypeOK, NEW ip \in IPs, Established(ip)
  PROVE  TypeOK'
<1>1. /\ now' = now /\ load' = load /\ dropHistory' = dropHistory
      /\ whitelist' = whitelist /\ synSeen' = synSeen
      /\ udpRatelimit' = udpRatelimit
      /\ initconnectRatelimit' = initconnectRatelimit
      /\ getinfoRatelimit' = getinfoRatelimit
      /\ tcpGlobalRatelimit' = tcpGlobalRatelimit /\ udpHealth' = udpHealth
      /\ backlog[ip] > 0
      /\ backlog' = [backlog EXCEPT ![ip] = @ - 1]
      /\ sockets' = [sockets EXCEPT ![ip] = @ + 1]
      /\ established' = Put(established, ip, now)
      /\ openCount' = OpenCountInc(ip)
      /\ stats' = Bump({"tcp_established_inserts"})
  BY DEF Established, ipBuckets
<1>2. ClockOK' /\ Holds(dropHistory, History)'
  BY <1>1, Kept, SameTypes DEF ClockOK, Holds
<1>3. CountersOK'
  <2>1. stats' \in [Stats -> Nat]
    BY <1>1, Kept, BumpType DEF CountersOK
  <2>2. /\ backlog' \in [IPs -> 0..MaxBacklog]
        /\ sockets' \in [IPs -> Nat]
    BY <1>1, Kept, BoundsAssumption DEF CountersOK
  <2> QED BY <2>1, <2>2 DEF CountersOK
<1>4. Holds(established', Past)
  BY <1>1, Kept, ClockPast, PutHolds
<1>5. Holds(openCount', Nat)
  <2> DEFINE n == 1 + IF ip \in DOMAIN openCount THEN openCount[ip] ELSE 0
  <2>1. n \in Nat
    BY Kept DEF Holds
  <2>2. openCount' = Put(openCount, ip, n)
    BY <1>1 DEF OpenCountInc
  <2> HIDE DEF n
  <2> QED BY <2>1, <2>2, Kept, PutHolds
<1> QED BY <1>1, <1>2, <1>3, <1>4, <1>5, Kept, Assemble

LEMMA ClosedStep ==
  ASSUME TypeOK, NEW ip \in IPs, Closed(ip)
  PROVE  TypeOK'
<1>1. /\ now' = now /\ load' = load /\ dropHistory' = dropHistory
      /\ whitelist' = whitelist /\ established' = established
      /\ synSeen' = synSeen /\ udpRatelimit' = udpRatelimit
      /\ initconnectRatelimit' = initconnectRatelimit
      /\ getinfoRatelimit' = getinfoRatelimit
      /\ tcpGlobalRatelimit' = tcpGlobalRatelimit /\ udpHealth' = udpHealth
      /\ backlog' = backlog /\ stats' = stats /\ sockets[ip] > 0
      /\ sockets' = [sockets EXCEPT ![ip] = @ - 1]
      /\ openCount' = OpenCountDec(ip)
  BY DEF Closed, ipBuckets
<1>2. ClockOK' /\ Holds(dropHistory, History)'
  BY <1>1, Kept, SameTypes DEF ClockOK, Holds
<1>3. CountersOK'
  BY <1>1, Kept DEF CountersOK
<1>4. Holds(openCount', Nat)
  <2>1. CASE ip \in DOMAIN openCount /\ openCount[ip] > 0
    <3>1. openCount[ip] - 1 \in Nat
      BY <2>1, Kept DEF Holds
    <3> QED BY <1>1, <2>1, <3>1, Kept, PutHolds DEF OpenCountDec
  <2>2. CASE ~(ip \in DOMAIN openCount /\ openCount[ip] > 0)
    BY <1>1, <2>2, Kept DEF OpenCountDec
  <2> QED BY <2>1, <2>2
<1> QED BY <1>1, <1>2, <1>3, <1>4, Kept, Assemble

LEMMA HandshakeLostStep ==
  ASSUME TypeOK, NEW ip \in IPs, HandshakeLost(ip)
  PROVE  TypeOK'
<1>1. /\ now' = now /\ load' = load /\ dropHistory' = dropHistory
      /\ whitelist' = whitelist /\ established' = established
      /\ synSeen' = synSeen /\ openCount' = openCount
      /\ udpRatelimit' = udpRatelimit
      /\ initconnectRatelimit' = initconnectRatelimit
      /\ getinfoRatelimit' = getinfoRatelimit
      /\ tcpGlobalRatelimit' = tcpGlobalRatelimit /\ udpHealth' = udpHealth
      /\ stats' = stats /\ sockets' = sockets /\ backlog[ip] > 0
      /\ backlog' = [backlog EXCEPT ![ip] = @ - 1]
  BY DEF HandshakeLost, tcpMaps, ipBuckets
<1>2. ClockOK' /\ Holds(dropHistory, History)'
  BY <1>1, Kept, SameTypes DEF ClockOK, Holds
<1>3. CountersOK'
  BY <1>1, Kept, BoundsAssumption DEF CountersOK
<1> QED BY <1>1, <1>2, <1>3, Kept, Assemble

LEMMA EvictStep ==
  ASSUME TypeOK, NEW ip \in IPs, Evict(ip)
  PROVE  TypeOK'
<1> DEFINE Left(map, next) == next = map \/ next = Forget(map, ip)
<1>1. /\ Left(whitelist, whitelist') /\ Left(established, established')
      /\ Left(synSeen, synSeen') /\ Left(openCount, openCount')
      /\ Left(udpRatelimit, udpRatelimit')
      /\ Left(initconnectRatelimit, initconnectRatelimit')
      /\ Left(getinfoRatelimit, getinfoRatelimit')
      /\ Left(udpHealth, udpHealth') /\ Left(dropHistory, dropHistory')
      /\ now' = now /\ tcpGlobalRatelimit' = tcpGlobalRatelimit
      /\ stats' = stats /\ load' = load
      /\ backlog' = backlog /\ sockets' = sockets
  BY DEF Evict, kernel
<1>2. ASSUME NEW map, NEW next, NEW Values, Left(map, next), Holds(map, Values)
      PROVE  Holds(next, Values)
  BY <1>2, ForgetHolds
<1> HIDE DEF Left
<1>3. ClockOK' /\ CountersOK'
  BY <1>1, Kept DEF ClockOK, CountersOK
<1>4. Holds(dropHistory', History)
  BY <1>1, <1>2, Kept
<1>5. Holds(dropHistory, History)'
  BY <1>1, <1>4, SameTypes DEF Holds
<1>6. /\ Holds(whitelist', Past) /\ Holds(established', Past)
      /\ Holds(synSeen', Past) /\ Holds(openCount', Nat)
  BY <1>1, <1>2, Kept
<1>7. /\ Holds(udpRatelimit', BucketBelow(UdpBurst))
      /\ Holds(initconnectRatelimit', BucketBelow(InitconnectBurst))
      /\ Holds(getinfoRatelimit', BucketBelow(GetinfoBurst))
      /\ Holds(udpHealth', Health)
  BY <1>1, <1>2, Kept
<1> QED BY <1>1, <1>3, <1>5, <1>6, <1>7, Kept, Assemble

LEMMA TickStep ==
  ASSUME TypeOK, Tick
  PROVE  TypeOK'
<1>1. /\ now < MaxTime /\ now' = now + 1 /\ load' = 0
      /\ whitelist' = whitelist /\ established' = established
      /\ synSeen' = synSeen /\ openCount' = openCount
      /\ udpRatelimit' = udpRatelimit
      /\ initconnectRatelimit' = initconnectRatelimit
      /\ getinfoRatelimit' = getinfoRatelimit
      /\ tcpGlobalRatelimit' = tcpGlobalRatelimit /\ udpHealth' = udpHealth
      /\ dropHistory' = dropHistory /\ stats' = stats
      /\ backlog' = backlog /\ sockets' = sockets
  BY DEF Tick, tcpMaps, ipBuckets, kernel
<1>2. ClockOK' /\ CountersOK' /\ now \in Nat
  BY <1>1, Kept, BoundsAssumption DEF ClockOK, CountersOK
<1>3. Past \subseteq Past'
  BY <1>1, <1>2 DEF Past
<1>4. PastBucket \subseteq PastBucket'
  BY <1>1, <1>2 DEF PastBucket, Bucket
<1>5. ASSUME NEW burst PROVE BucketBelow(burst) \subseteq BucketBelow(burst)'
  BY <1>4 DEF BucketBelow
<1>6. Health \subseteq Health'
  <2>1. 0..(now + HealthBlacklist) \subseteq (0..(now + HealthBlacklist))'
    BY <1>1, <1>2, ConfigNat
  <2> QED BY <1>3, <2>1 DEF Health
<1>7. History \subseteq History'
  BY <1>3 DEF History
<1>8. TcpMapsOK'
  BY <1>1, <1>3, Kept DEF TcpMapsOK, Holds
<1>9. BucketsOK'
  <2>1. /\ Holds(udpRatelimit, BucketBelow(UdpBurst)')
        /\ Holds(initconnectRatelimit, BucketBelow(InitconnectBurst)')
        /\ Holds(getinfoRatelimit, BucketBelow(GetinfoBurst)')
    BY <1>5, Kept, WiderHolds
  <2>2. tcpGlobalRatelimit \in [CPUs -> PastBucket']
    BY <1>4, Kept
  <2>3. Holds(udpRatelimit, BucketBelow(UdpBurst))'
    BY <2>1, <1>1 DEF Holds
  <2>4. Holds(initconnectRatelimit, BucketBelow(InitconnectBurst))'
    BY <2>1, <1>1 DEF Holds
  <2>5. Holds(getinfoRatelimit, BucketBelow(GetinfoBurst))'
    BY <2>1, <1>1 DEF Holds
  <2> QED BY <2>2, <2>3, <2>4, <2>5, <1>1 DEF BucketsOK
<1>10. Holds(udpHealth, Health)' /\ Holds(dropHistory, History)'
  BY <1>1, <1>6, <1>7, Kept DEF Holds
<1> QED BY <1>2, <1>8, <1>9, <1>10 DEF TypeOK

LEMMA StutterStep ==
  ASSUME TypeOK, UNCHANGED vars
  PROVE  TypeOK'
<1>1. /\ now' = now /\ load' = load /\ dropHistory' = dropHistory
      /\ whitelist' = whitelist /\ established' = established
      /\ synSeen' = synSeen /\ openCount' = openCount
      /\ udpRatelimit' = udpRatelimit
      /\ initconnectRatelimit' = initconnectRatelimit
      /\ getinfoRatelimit' = getinfoRatelimit
      /\ tcpGlobalRatelimit' = tcpGlobalRatelimit /\ udpHealth' = udpHealth
      /\ stats' = stats /\ sockets' = sockets /\ backlog' = backlog
  BY DEF vars, tcpMaps, ipBuckets, kernel
<1>2. ClockOK' /\ CountersOK'
  BY <1>1, Kept DEF ClockOK, CountersOK
<1>3. Holds(dropHistory, History)'
  BY <1>1, Kept, SameTypes DEF Holds
<1> QED BY <1>1, <1>2, <1>3, Kept, Assemble

LEMMA InitTypes == Init => TypeOK
<1> SUFFICES ASSUME Init PROVE TypeOK
  OBVIOUS
<1>1. \A Values : Holds(EmptyMap, Values)
  BY DEF Holds, EmptyMap
<1>2. ClockOK /\ CountersOK
  BY BoundsAssumption DEF Init, ClockOK, CountersOK
<1>3. TcpMapsOK
  BY <1>1 DEF Init, TcpMapsOK
<1>4. ZeroBucket \in PastBucket
  BY <1>2, ClockPast DEF ZeroBucket, PastBucket, Bucket
<1>5. BucketsOK
  BY <1>1, <1>4 DEF Init, BucketsOK
<1>6. Holds(udpHealth, Health) /\ Holds(dropHistory, History)
  BY <1>1 DEF Init
<1> QED BY <1>2, <1>3, <1>5, <1>6 DEF TypeOK

LEMMA NextTypes ==
  ASSUME TypeOK, [Next]_vars
  PROVE  TypeOK'
<1>1. ASSUME NEW ip \in IPs, Kernel(ip) PROVE TypeOK'
  BY <1>1, EstablishedStep, ClosedStep, HandshakeLostStep, EvictStep DEF Kernel
<1> QED BY <1>1, TickStep, AcceptedStep, RejectedStep, StutterStep DEF Next

(* In every behaviour of the data plane the maps stay well-typed: in       *)
(* particular every stored instant is in the past, so that the unsigned    *)
(* subtractions of the handlers (fivem_xdp.bpf.c:159, 242, 437) do not     *)
(* wrap as long as handlers do not overlap.                                *)
THEOREM TypeCorrect == Spec => []TypeOK
BY InitTypes, NextTypes, PTL DEF Spec
==============================================================================
