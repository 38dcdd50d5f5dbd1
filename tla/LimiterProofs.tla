---------------------------- MODULE LimiterProofs ----------------------------
(***************************************************************************)
(* The rate limiters of the XDP program.  First, inside the handlers they  *)
(* implement LimiterEntry, for every configuration, source and CPU:        *)
(* whatever a handler does with a packet, it either leaves an entry alone  *)
(* or charges it, and a charge is a step of LimiterEntry.                  *)
(*                                                                         *)
(* Second, how far the rates they enforce are from those that were         *)
(* configured, for every rate, unit and number of CPUs.  A bucket earns    *)
(* one token a period, so a rate of r per unit is kept exactly when        *)
(* r * period = unit; the theorems bound the difference from either side.  *)
(***************************************************************************)
EXTENDS XdpLimiters, RateConfig, XdpFilterProofs

------------------------------------------------------------------------------
(* What the handlers do to the limiters *)

LimiterMaps ==
  <<udpRatelimit, initconnectRatelimit, getinfoRatelimit, tcpGlobalRatelimit>>

(* The CPU's slot is charged by a SYN that its bucket lets through. *)
SynCharged ==
  \/ tcpGlobalRatelimit' = tcpGlobalRatelimit
  \/ \E cpu \in CPUs :
       GlobalAllows(cpu) /\ tcpGlobalRatelimit' = GlobalCharged(cpu)

UdpCharged(ip) ==
  \/ udpRatelimit' = udpRatelimit
  \/ /\ UdpAllows(ip)
     /\ udpRatelimit' = Charged(udpRatelimit, ip, UdpPeriod, UdpBurst)

PostCharged(ip) ==
  \/ initconnectRatelimit' = initconnectRatelimit
  \/ /\ InitconnectAllows(ip)
     /\ initconnectRatelimit' =
          Charged(initconnectRatelimit, ip, InitconnectPeriod, InitconnectBurst)

LEMMA RefuseSpares ==
  ASSUME NEW ip, NEW reason, NEW known, Refuse(ip, reason, known)
  PROVE  UNCHANGED <<now, LimiterMaps>>
  BY DEF Refuse, DropPacket, Verdict, ipBuckets, LimiterMaps

LEMMA DropSegmentSpares ==
  ASSUME NEW ip, NEW syn, NEW cpu \in CPUs, NEW reason, NEW known, NEW seen,
         DropSegment(ip, syn, cpu, reason, known, seen)
  PROVE  UNCHANGED <<now, ipBuckets>> /\ SynCharged
  BY DEF DropSegment, DropPacket, Verdict, Admit, SynCharged

LEMMA RejectedCharges ==
  ASSUME NEW ip \in IPs, Rejected(ip)
  PROVE  UNCHANGED <<now, ipBuckets>> /\ SynCharged
<1>1. ASSUME NEW reason, NEW known, Refuse(ip, reason, known)
      PROVE  UNCHANGED <<now, ipBuckets>> /\ SynCharged
  BY <1>1, RefuseSpares DEF LimiterMaps, ipBuckets, SynCharged
<1>2. CASE Fragment(ip)
  BY <1>1, <1>2 DEF Fragment
<1>3. CASE UdpDropped(ip)
  <2>1. CASE UdpMalformed(ip)
    BY <2>1 DEF UdpMalformed, DropPacket, Verdict, ipBuckets, SynCharged
  <2> QED BY <1>1, <1>3, <2>1 DEF UdpDropped, UdpNotWhitelisted, UdpExpired,
                                  UdpUnhealthy, UdpLimited
<1>4. ASSUME NEW cpu \in CPUs, TcpRefusedSource(ip, cpu)
      PROVE  UNCHANGED <<now, ipBuckets>> /\ SynCharged
  BY <1>1, <1>4 DEF TcpRefusedSource, TcpNoSyn, SynTooManyOpen,
                    SynGlobalLimited
<1>5. ASSUME NEW syn \in BOOLEAN, NEW cpu \in CPUs, TcpDropped(ip, syn, cpu)
      PROVE  UNCHANGED <<now, ipBuckets>> /\ SynCharged
  BY <1>5, DropSegmentSpares
     DEF TcpDropped, TcpMalformed, RequestBadUserAgent, PostLimited, GetLimited
<1> QED BY <1>2, <1>3, <1>4, <1>5 DEF Rejected

LEMMA AcceptedCharges ==
  ASSUME NEW ip \in IPs, Accepted(ip)
  PROVE  /\ UNCHANGED now /\ SynCharged
         /\ UdpCharged(ip) /\ PostCharged(ip)
<1>1. CASE UdpPass(ip)
  BY <1>1 DEF UdpPass, Verdict, SynCharged, UdpCharged, PostCharged
<1>2. ASSUME NEW syn \in BOOLEAN, NEW cpu \in CPUs, TcpPassed(ip, syn, cpu)
      PROVE  /\ UNCHANGED now /\ SynCharged
             /\ UdpCharged(ip) /\ PostCharged(ip)
  <2>1. Admit(ip, syn, cpu) /\ \E seen : PassTcp(ip, syn, seen)
    BY <1>2 DEF TcpPassed, TcpSegment, PostPromotes, PostWithoutHandshake,
                PostUnknownUserAgent, PostAccepted, GetAccepted
  <2>2. UNCHANGED now /\ SynCharged
    BY <2>1 DEF Admit, PassTcp, Verdict, SynCharged
  <2>3. udpRatelimit' = udpRatelimit /\ PostCharged(ip)
    BY <1>2 DEF TcpPassed, TcpSegment, PostPromotes, PostWithoutHandshake,
                PostUnknownUserAgent, PostAccepted, GetAccepted, ipBuckets,
                PostCharged
  <2> QED BY <2>2, <2>3 DEF UdpCharged
<1> QED BY <1>1, <1>2 DEF Accepted

(* The kernel, or clear, removes entries of the maps keyed by source only. *)
LEMMA KernelSpares ==
  ASSUME NEW ip \in IPs, Kernel(ip)
  PROVE  /\ UNCHANGED <<now, tcpGlobalRatelimit>>
         /\ udpRatelimit' \in {udpRatelimit, Forget(udpRatelimit, ip)}
         /\ initconnectRatelimit' \in
              {initconnectRatelimit, Forget(initconnectRatelimit, ip)}
  BY DEF Kernel, Established, Closed, HandshakeLost, Evict, ipBuckets

------------------------------------------------------------------------------
(* What that means for one entry *)

LEMMA EntryType ==
  ASSUME NEW map, NEW burst, Holds(map, BucketBelow(burst)),
         Client \in DOMAIN map
  PROVE  Entry(map) = map[Client] /\ Entry(map) # NoBucket
  BY AbsentAssumption DEF Holds, BucketBelow, PastBucket, Entry

LEMMA ChargedEntry ==
  ASSUME NEW map, NEW ip \in IPs, NEW period, NEW burst,
         Holds(map, BucketBelow(burst)), Allows(map, ip, period, burst)
  PROVE  LET old == Entry(map)
             new == Entry(Charged(map, ip, period, burst))
         IN  \/ new = old
             \/ old = NoBucket /\ new = NewBucket(burst, now)
             \/ /\ old # NoBucket /\ CanTake(old, now, period, burst)
                /\ new = Take(old, now, period, burst)
<1> DEFINE next == Charged(map, ip, period, burst)
<1>1. CASE ~Limited(period, burst)
  BY <1>1 DEF Charged
<1>2. CASE Limited(period, burst) /\ ip # Client
  <2>1. /\ Client \in DOMAIN next <=> Client \in DOMAIN map
        /\ Client \in DOMAIN map => next[Client] = map[Client]
    BY <1>2 DEF Charged, Put
  <2> HIDE DEF next
  <2>2. Entry(next) = Entry(map)
    BY <2>1 DEF Entry
  <2> QED BY <2>2 DEF next
<1>3. CASE Limited(period, burst) /\ ip = Client /\ Client \in DOMAIN map
  <2>1. Entry(map) = map[Client] /\ Entry(map) # NoBucket
    BY <1>3, EntryType
  <2>2. Client \in DOMAIN next
        /\ next[Client] = Take(map[Client], now, period, burst)
    BY <1>3 DEF Charged, Put
  <2>3. Entry(next) = Take(map[Client], now, period, burst)
    BY <2>2 DEF Entry
  <2>4. CanTake(map[Client], now, period, burst)
    BY <1>3 DEF Allows
  <2> QED BY <2>1, <2>3, <2>4
<1>4. CASE Limited(period, burst) /\ ip = Client /\ Client \notin DOMAIN map
  <2>1. Entry(map) = NoBucket
    BY <1>4 DEF Entry
  <2>2. Client \in DOMAIN next /\ next[Client] = NewBucket(burst, now)
    BY <1>4 DEF Charged, Put
  <2>3. Entry(next) = NewBucket(burst, now)
    BY <2>2 DEF Entry
  <2> QED BY <2>1, <2>3
<1> QED BY <1>1, <1>2, <1>3, <1>4

LEMMA ForgottenEntry ==
  ASSUME NEW map, NEW ip
  PROVE  Entry(Forget(map, ip)) \in {Entry(map), NoBucket}
  BY DEF Forget, Entry

------------------------------------------------------------------------------
(* The refinements *)

LEMMA UdpArithmetic ==
  ASSUME NEW b, NEW time, NEW period, NEW burst
  PROVE  /\ UdpEntry!NewBucket(burst, time) = NewBucket(burst, time)
         /\ UdpEntry!CanTake(b, time, period, burst)
              <=> CanTake(b, time, period, burst)
         /\ UdpEntry!Take(b, time, period, burst) = Take(b, time, period, burst)
  BY DEF NewBucket, CanTake, Take, Available, Refill, UdpEntry!NewBucket,
         UdpEntry!CanTake, UdpEntry!Take, UdpEntry!Available, UdpEntry!Refill

LEMMA UdpStep == TypeOK /\ [Next]_vars => [UdpEntry!Next]_(UdpEntry!entry)
<1> SUFFICES ASSUME TypeOK, [Next]_vars
             PROVE  [UdpEntry!Next]_(UdpEntry!entry)
  OBVIOUS
<1> USE DEF UdpEntry!Next, UdpEntry!entry
<1>1. ASSUME UNCHANGED <<now, udpRatelimit>> PROVE UNCHANGED UdpEntry!entry
  BY <1>1 DEF Entry
<1>2. CASE Tick
  BY <1>2 DEF Tick, ipBuckets, Entry, UdpEntry!Tick
<1>3. ASSUME NEW ip \in IPs, Accepted(ip)
      PROVE  [UdpEntry!Next]_(UdpEntry!entry)
  <2>1. CASE udpRatelimit' = udpRatelimit
    BY <1>1, <1>3, <2>1, AcceptedCharges
  <2>2. CASE /\ UdpAllows(ip)
             /\ udpRatelimit' = Charged(udpRatelimit, ip, UdpPeriod, UdpBurst)
    <3> DEFINE old == Entry(udpRatelimit)
               new == Entry(udpRatelimit')
    <3>1. \/ new = old
          \/ old = NoBucket /\ new = UdpEntry!NewBucket(UdpBurst, now)
          \/ /\ old # NoBucket
             /\ UdpEntry!CanTake(old, now, UdpPeriod, UdpBurst)
             /\ new = UdpEntry!Take(old, now, UdpPeriod, UdpBurst)
      BY <2>2, Kept, ChargedEntry, UdpArithmetic DEF UdpAllows
    <3> QED BY <1>3, <3>1, AcceptedCharges
            DEF UdpEntry!FirstRequest, UdpEntry!Accept
  <2> QED BY <1>3, <2>1, <2>2, AcceptedCharges DEF UdpCharged
<1>4. ASSUME NEW ip \in IPs, Rejected(ip) PROVE UNCHANGED UdpEntry!entry
  BY <1>1, <1>4, RejectedCharges DEF ipBuckets
<1>5. ASSUME NEW ip \in IPs, Kernel(ip)
      PROVE  [UdpEntry!Next]_(UdpEntry!entry)
  BY <1>5, KernelSpares, ForgottenEntry DEF UdpEntry!Evict
<1>6. CASE UNCHANGED vars
  BY <1>1, <1>6 DEF vars, ipBuckets
<1> QED BY <1>2, <1>3, <1>4, <1>5, <1>6 DEF Next

(* Whatever else the handlers do with a packet, the entry of any source in *)
(* udp_ratelimit lives as LimiterEntry says: created one token short of    *)
(* full, charged by a packet that passes, never written by one that does   *)
(* not, evicted at any time.                                               *)
THEOREM UdpLimiterImplements == Spec => UdpLimiterRefines
<1>1. Init => UdpEntry!Init
  BY DEF Init, EmptyMap, Entry, UdpEntry!Init
<1> QED BY <1>1, UdpStep, TypeCorrect, PTL
        DEF Spec, UdpLimiterRefines, UdpEntry!Spec

LEMMA InitconnectArithmetic ==
  ASSUME NEW b, NEW time, NEW period, NEW burst
  PROVE  /\ InitconnectEntry!NewBucket(burst, time) = NewBucket(burst, time)
         /\ InitconnectEntry!CanTake(b, time, period, burst)
              <=> CanTake(b, time, period, burst)
         /\ InitconnectEntry!Take(b, time, period, burst)
              = Take(b, time, period, burst)
  BY DEF NewBucket, CanTake, Take, Available, Refill,
         InitconnectEntry!NewBucket, InitconnectEntry!CanTake,
         InitconnectEntry!Take, InitconnectEntry!Available,
         InitconnectEntry!Refill

LEMMA InitconnectStep ==
  TypeOK /\ [Next]_vars => [InitconnectEntry!Next]_(InitconnectEntry!entry)
<1> SUFFICES ASSUME TypeOK, [Next]_vars
             PROVE  [InitconnectEntry!Next]_(InitconnectEntry!entry)
  OBVIOUS
<1> USE DEF InitconnectEntry!Next, InitconnectEntry!entry
<1>1. ASSUME UNCHANGED <<now, initconnectRatelimit>>
      PROVE  UNCHANGED InitconnectEntry!entry
  BY <1>1 DEF Entry
<1>2. CASE Tick
  BY <1>2 DEF Tick, ipBuckets, Entry, InitconnectEntry!Tick
<1>3. ASSUME NEW ip \in IPs, Accepted(ip)
      PROVE  [InitconnectEntry!Next]_(InitconnectEntry!entry)
  <2>1. CASE initconnectRatelimit' = initconnectRatelimit
    BY <1>1, <1>3, <2>1, AcceptedCharges
  <2>2. CASE /\ InitconnectAllows(ip)
             /\ initconnectRatelimit' = Charged(initconnectRatelimit, ip,
                                                InitconnectPeriod,
                                                InitconnectBurst)
    <3> DEFINE old == Entry(initconnectRatelimit)
               new == Entry(initconnectRatelimit')
    <3>1. \/ new = old
          \/ /\ old = NoBucket
             /\ new = InitconnectEntry!NewBucket(InitconnectBurst, now)
          \/ /\ old # NoBucket
             /\ InitconnectEntry!CanTake(old, now, InitconnectPeriod,
                                         InitconnectBurst)
             /\ new = InitconnectEntry!Take(old, now, InitconnectPeriod,
                                            InitconnectBurst)
      BY <2>2, Kept, ChargedEntry, InitconnectArithmetic DEF InitconnectAllows
    <3> QED BY <1>3, <3>1, AcceptedCharges
            DEF InitconnectEntry!FirstRequest, InitconnectEntry!Accept
  <2> QED BY <1>3, <2>1, <2>2, AcceptedCharges DEF PostCharged
<1>4. ASSUME NEW ip \in IPs, Rejected(ip) PROVE UNCHANGED InitconnectEntry!entry
  BY <1>1, <1>4, RejectedCharges DEF ipBuckets
<1>5. ASSUME NEW ip \in IPs, Kernel(ip)
      PROVE  [InitconnectEntry!Next]_(InitconnectEntry!entry)
  BY <1>5, KernelSpares, ForgottenEntry DEF InitconnectEntry!Evict
<1>6. CASE UNCHANGED vars
  BY <1>1, <1>6 DEF vars, ipBuckets
<1> QED BY <1>2, <1>3, <1>4, <1>5, <1>6 DEF Next

(* The same for initconnect_ratelimit, which only POST /client charges.    *)
THEOREM InitconnectLimiterImplements == Spec => InitconnectLimiterRefines
<1>1. Init => InitconnectEntry!Init
  BY DEF Init, EmptyMap, Entry, InitconnectEntry!Init
<1> QED BY <1>1, InitconnectStep, TypeCorrect, PTL
        DEF Spec, InitconnectLimiterRefines, InitconnectEntry!Spec

LEMMA GlobalArithmetic ==
  ASSUME NEW b, NEW time, NEW period, NEW burst
  PROVE  /\ GlobalEntry!CanTake(b, time, period, burst)
              <=> CanTake(b, time, period, burst)
         /\ GlobalEntry!Take(b, time, period, burst)
              = Take(b, time, period, burst)
  BY DEF CanTake, Take, Available, Refill, GlobalEntry!CanTake,
         GlobalEntry!Take, GlobalEntry!Available, GlobalEntry!Refill

LEMMA GlobalChargedSlot ==
  ASSUME TypeOK, SynCharged, UNCHANGED now
  PROVE  [GlobalEntry!Next]_(GlobalEntry!entry)
<1> DEFINE old == tcpGlobalRatelimit[Core]
           new == tcpGlobalRatelimit'[Core]
<1>1. old # NoBucket
  BY Kept, AbsentAssumption, ChoiceAssumption DEF PastBucket
<1>2. \/ new = old
      \/ /\ CanTake(old, now, TcpGlobalPeriod, TcpGlobalBurst)
         /\ new = Take(old, now, TcpGlobalPeriod, TcpGlobalBurst)
  BY Kept, ChoiceAssumption DEF SynCharged, GlobalAllows, GlobalCharged
<1>3. CASE new = old
  BY <1>3 DEF GlobalEntry!entry
<1>4. CASE /\ CanTake(old, now, TcpGlobalPeriod, TcpGlobalBurst)
           /\ new = Take(old, now, TcpGlobalPeriod, TcpGlobalBurst)
  BY <1>1, <1>4, GlobalArithmetic DEF GlobalEntry!Next, GlobalEntry!Accept
<1> QED BY <1>2, <1>3, <1>4

LEMMA GlobalStep ==
  TypeOK /\ [Next]_vars => [GlobalEntry!Next]_(GlobalEntry!entry)
<1> SUFFICES ASSUME TypeOK, [Next]_vars
             PROVE  [GlobalEntry!Next]_(GlobalEntry!entry)
  OBVIOUS
<1>1. CASE Tick
  BY <1>1 DEF Tick, GlobalEntry!Next, GlobalEntry!Tick
<1>2. ASSUME NEW ip \in IPs, Accepted(ip) \/ Rejected(ip) \/ Kernel(ip)
      PROVE  SynCharged /\ UNCHANGED now
  BY <1>2, AcceptedCharges, RejectedCharges, KernelSpares DEF SynCharged
<1>3. CASE UNCHANGED vars
  BY <1>3 DEF vars, GlobalEntry!entry
<1> QED BY <1>1, <1>2, <1>3, GlobalChargedSlot DEF Next

(* A CPU's slot of tcp_global_ratelimit is an entry that exists from the   *)
(* start, empty, and is charged by each SYN that passes the brake on that  *)
(* CPU.                                                                    *)
THEOREM GlobalLimiterImplements == Spec => GlobalLimiterRefines
<1>1. Init => GlobalEntry!Init
  BY ChoiceAssumption DEF Init, ZeroBucket, GlobalEntry!Init,
                          GlobalEntry!ZeroBucket
<1> QED BY <1>1, GlobalStep, TypeCorrect, PTL
        DEF Spec, GlobalLimiterRefines, GlobalEntry!Spec

------------------------------------------------------------------------------
(* What loadXDP makes of the options *)

LEMMA Quotient ==
  ASSUME NEW a \in Nat, NEW b \in Nat \ {0}
  PROVE  /\ a \div b \in Nat
         /\ b * (a \div b) <= a
         /\ a < b * ((a \div b) + 1)
  BY SMT

LEMMA ProductMonotone ==
  ASSUME NEW x \in Nat, NEW y \in Nat, NEW z \in Nat, x <= y
  PROVE  x * z <= y * z
  BY SMT

LEMMA Regroup ==
  ASSUME NEW x \in Nat, NEW y \in Nat, NEW z \in Nat
  PROVE  /\ (x * y) * z = x * (y * z)
         /\ x * (y + z) = x * y + x * z
         /\ x * y \in Nat
  BY SMT

(* TestPeriodNS: a limiter is off exactly when its rate is 0, or more than *)
(* one packet per nanosecond.                                              *)
THEOREM PeriodSwitch ==
  ASSUME NEW unit \in Nat \ {0}, NEW rate \in Nat
  PROVE  PeriodNS(unit, rate) = 0 <=> rate = 0 \/ rate > unit
<1>1. CASE rate = 0 BY <1>1 DEF PeriodNS
<1>2. CASE rate # 0
  <2> DEFINE p == unit \div rate
  <2>1. p \in Nat /\ rate * p <= unit /\ unit < rate * (p + 1)
    BY <1>2, Quotient
  <2>2. PeriodNS(unit, rate) = p BY <1>2 DEF PeriodNS
  <2> HIDE DEF p
  <2>3. p = 0 => unit < rate
    BY <2>1, SMT
  <2>4. p # 0 => rate <= rate * p
    BY <2>1, SMT
  <2> QED BY <1>2, <2>1, <2>2, <2>3, <2>4
<1> QED BY <1>1, <1>2

(* periodNS rounds in favour of the source: it earns at least its rate,    *)
(* and would earn less than it if the period were one nanosecond longer.   *)
THEOREM RateKept ==
  ASSUME NEW unit \in Nat, NEW rate \in Nat \ {0}
  PROVE  /\ rate * PeriodNS(unit, rate) <= unit
         /\ unit < rate * (PeriodNS(unit, rate) + 1)
BY Quotient DEF PeriodNS

(* perCPU keeps a limit that is on on, and one that is off off; with no    *)
(* more CPUs than tokens, the shares add up to at most the whole and to    *)
(* less than one token per CPU below it.                                   *)
THEOREM ShareKept ==
  ASSUME NEW v \in Nat, NEW ncpu \in Nat \ {0}
  PROVE  /\ PerCPU(v, ncpu) \in Nat
         /\ PerCPU(v, ncpu) = 0 <=> v = 0
         /\ v < ncpu * (PerCPU(v, ncpu) + 1)
         /\ ncpu <= v => ncpu * PerCPU(v, ncpu) <= v
<1> DEFINE q == v \div ncpu
<1>1. q \in Nat /\ ncpu * q <= v /\ v < ncpu * (q + 1) BY Quotient
<1>2. PerCPU(v, ncpu) = IF v = 0 \/ ncpu <= 1 THEN v ELSE IF q = 0 THEN 1 ELSE q
  BY DEF PerCPU
<1> HIDE DEF q
<1>3. CASE v = 0 \/ ncpu <= 1
  <2>1. PerCPU(v, ncpu) = v BY <1>2, <1>3
  <2>2. v < ncpu * (v + 1) BY <1>3, SMT
  <2>3. ncpu <= v => ncpu = 1 BY <1>3
  <2> QED BY <2>1, <2>2, <2>3
<1>4. CASE v # 0 /\ ncpu > 1 /\ q = 0
  <2>1. PerCPU(v, ncpu) = 1 BY <1>2, <1>4
  <2>2. v < ncpu BY <1>1, <1>4
  <2> QED BY <1>4, <2>1, <2>2
<1>5. CASE v # 0 /\ ncpu > 1 /\ q # 0
  <2>1. PerCPU(v, ncpu) = q BY <1>2, <1>5
  <2> QED BY <1>1, <1>5, <2>1
<1> QED BY <1>3, <1>4, <1>5

(* The global brake as loadXDP sets it: together the CPUs earn at most the *)
(* configured rate, but for the nanosecond by which the period is rounded, *)
(* as long as there are no more CPUs than SYNs per unit; and, unless the   *)
(* period is 0, never less than the configured rate by more than one SYN   *)
(* per CPU and unit.                                                       *)
THEOREM GlobalRateKept ==
  ASSUME NEW unit \in Nat, NEW v \in Nat \ {0}, NEW ncpu \in Nat \ {0},
         NEW period, period = PeriodNS(unit, PerCPU(v, ncpu))
  PROVE  /\ ncpu <= v => ncpu * unit <= v * (period + 1)
         /\ v * period <= ncpu * (unit + period)
<1> DEFINE share == PerCPU(v, ncpu)
<1>1. /\ share \in Nat \ {0}
      /\ v <= ncpu * (share + 1)
      /\ ncpu <= v => ncpu * share <= v
  BY ShareKept
<1>2. period = PeriodNS(unit, share) OBVIOUS
<1> HIDE DEF share
<1>3. /\ period \in Nat
      /\ share * period <= unit
      /\ unit <= share * (period + 1)
  <2> DEFINE q == unit \div share
  <2>1. q \in Nat /\ share * q <= unit /\ unit < share * (q + 1)
    BY <1>1, Quotient
  <2>2. period = q BY <1>1, <1>2 DEF PeriodNS
  <2> HIDE DEF q
  <2>3. share * (q + 1) \in Nat BY <1>1, <2>1, Regroup
  <2> QED BY <2>1, <2>2, <2>3
<1>4. ASSUME ncpu <= v PROVE ncpu * unit <= v * (period + 1)
  <2>1. ncpu * unit <= ncpu * (share * (period + 1))
    <3> share * (period + 1) \in Nat BY <1>1, <1>3, Regroup
    <3> unit * ncpu <= (share * (period + 1)) * ncpu
      BY <1>3, ProductMonotone
    <3> QED BY SMT
  <2>2. ncpu * (share * (period + 1)) = (ncpu * share) * (period + 1)
    BY <1>1, <1>3, Regroup
  <2>3. (ncpu * share) * (period + 1) <= v * (period + 1)
    BY <1>1, <1>3, <1>4, Regroup, ProductMonotone
  <2> QED BY <1>1, <1>3, <2>1, <2>2, <2>3, SMT
<1>5. v * period <= ncpu * (unit + period)
  <2>1. v * period <= (ncpu * (share + 1)) * period
    BY <1>1, <1>3, Regroup, ProductMonotone
  <2>2. (ncpu * (share + 1)) * period = ncpu * (share * period + period)
    BY <1>1, <1>3, SMT
  <2>3. (share * period + period) * ncpu <= (unit + period) * ncpu
    <3> share * period \in Nat BY <1>1, <1>3, Regroup
    <3> QED BY <1>3, ProductMonotone
  <2> QED BY <1>1, <1>3, <2>1, <2>2, <2>3, SMT
<1> QED BY <1>4, <1>5
==============================================================================
