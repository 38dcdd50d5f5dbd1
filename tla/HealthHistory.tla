---------------------------- MODULE HealthHistory ----------------------------
(***************************************************************************)
(* XdpFilter with a record of the malformed UDP payloads of each source    *)
(* and of the instants it was blacklisted, against which udp_health is     *)
(* judged: what does counting in tumbling windows promise?                 *)
(***************************************************************************)
EXTENDS XdpFilter, FiniteSets

VARIABLES
  strikes,  \* ip -> the malformed payloads, as <<instant, n-th since the tick>>
  trips     \* ip -> the instants at which a malformed payload blacklisted it

history == <<strikes, trips>>

HInit ==
  /\ Init
  /\ strikes = [ip \in IPs |-> {}]
  /\ trips = [ip \in IPs |-> {}]

HNext ==
  \/ Tick /\ UNCHANGED history
  \/ \E ip \in IPs :
       \/ /\ UdpMalformed(ip)
          /\ strikes' = [strikes EXCEPT ![ip] = @ \cup {<<now, load>>}]
          /\ trips' = IF udpHealth'[ip].blacklistUntil > now
                      THEN [trips EXCEPT ![ip] = @ \cup {now}] ELSE trips
       \/ /\ \/ Accepted(ip)
             \/ Fragment(ip)
             \/ UdpNotWhitelisted(ip)
             \/ UdpExpired(ip)
             \/ UdpUnhealthy(ip)
             \/ UdpLimited(ip)
             \/ \E cpu \in CPUs : TcpRefusedSource(ip, cpu)
             \/ \E syn \in BOOLEAN, cpu \in CPUs : TcpDropped(ip, syn, cpu)
             \/ Kernel(ip)
          /\ UNCHANGED history

HSpec == HInit /\ [][HNext]_<<vars, history>>

------------------------------------------------------------------------------

Window(t) == t .. t + HealthWindow
StrikesIn(ip, interval) ==
  Cardinality({strike \in strikes[ip] : strike[1] \in interval})

(* Strikes in the HealthWindow that ends now. *)
RecentStrikes(ip) == StrikesIn(ip, Window(now - HealthWindow))

(* Nobody is blacklisted for less than the configuration says: a           *)
(* blacklisted source sent HealthThreshold malformed payloads within one   *)
(* HealthWindow.  An anomaly count that survives its window breaks it.     *)
BlacklistJustified ==
  \A ip \in IPs :
    Blacklisted(ip) =>
      \E t \in 0..now : StrikesIn(ip, Window(t)) >= HealthThreshold

(* What tumbling windows do promise: a source that sent one less than      *)
(* twice the threshold within HealthWindow was blacklisted on the way,     *)
(* wherever the window boundary fell.                                      *)
BlacklistComplete ==
  \A ip \in IPs :
    RecentStrikes(ip) >= 2 * HealthThreshold - 1 =>
      \E t \in trips[ip] : t \in Window(now - HealthWindow)

(* The source was blacklisted less than HealthBlacklist ago.               *)
Sentenced(ip) == \E t \in trips[ip] : now < t + HealthBlacklist

(* While udp_health is not full, a blacklisting runs for HealthBlacklist,  *)
(* no shorter and no longer, whatever the source keeps sending: a source   *)
(* is blacklisted for that long after a strike that blacklists it and at   *)
(* no other time, and meanwhile none of its UDP passes or is a strike.     *)
BlacklistRunsItsTime ==
  [][\A ip \in IPs :
       /\ Blacklisted(ip) <=> Sentenced(ip)
       /\ Sentenced(ip) => ~UdpPass(ip) /\ strikes'[ip] = strikes[ip]
    ]_<<vars, history>>
==============================================================================
