-------------------------- MODULE WhitelistHistory --------------------------
(***************************************************************************)
(* XdpFilter with a record of what each source really did, against which   *)
(* the contents of tcp_whitelist are judged.                               *)
(***************************************************************************)
EXTENDS XdpFilter

VARIABLES
  handshaked,    \* sources that completed a TCP handshake
  introduced,    \* sources whose POST /client with a valid agent was let in
  lastAccepted,  \* ip -> when a packet of it last passed
  lapsed         \* sources that went quiet for longer than the TTL and have
                 \* not been promoted since

history == <<handshaked, introduced, lastAccepted, lapsed>>

HInit ==
  /\ Init
  /\ handshaked = {}
  /\ introduced = {}
  /\ lastAccepted = EmptyMap
  /\ lapsed = {}

(* The accepted packets, told apart by what they say about the source. *)
ValidPost(ip) ==
  \E syn \in BOOLEAN, cpu \in CPUs :
    PostPromotes(ip, syn, cpu) \/ PostWithoutHandshake(ip, syn, cpu)

OtherAccepted(ip) ==
  \/ UdpPass(ip)
  \/ \E syn \in BOOLEAN, cpu \in CPUs :
       \/ TcpSegment(ip, syn, cpu)
       \/ PostUnknownUserAgent(ip, syn, cpu)
       \/ GetAccepted(ip, syn, cpu)

Promoted(ip) == stats'["tcp_l7_promoted"] # stats["tcp_l7_promoted"]

HNext ==
  \/ /\ Tick
     /\ lapsed' = lapsed \cup {ip \in DOMAIN whitelist :
                                 now' - whitelist[ip] > WhitelistTTL}
     /\ UNCHANGED <<handshaked, introduced, lastAccepted>>
  \/ \E ip \in IPs :
       \/ /\ ValidPost(ip)
          /\ introduced' = introduced \cup {ip}
          /\ lastAccepted' = Put(lastAccepted, ip, now)
          /\ lapsed' = IF Promoted(ip) THEN lapsed \ {ip} ELSE lapsed
          /\ UNCHANGED handshaked
       \/ /\ OtherAccepted(ip)
          /\ lastAccepted' = Put(lastAccepted, ip, now)
          /\ UNCHANGED <<handshaked, introduced, lapsed>>
       \/ /\ Established(ip)
          /\ handshaked' = handshaked \cup {ip}
          /\ UNCHANGED <<introduced, lastAccepted, lapsed>>
       \/ /\ Rejected(ip) \/ Closed(ip) \/ HandshakeLost(ip) \/ Evict(ip)
          /\ UNCHANGED history

HSpec == HInit /\ [][HNext]_<<vars, history>>

------------------------------------------------------------------------------

(* UDP is only ever let through from addresses which have completed a real *)
(* TCP handshake and sent a real connect request: every whitelist entry    *)
(* belongs to such an address, whatever the kernel evicted in between.     *)
WhitelistEarned ==
  \A ip \in DOMAIN whitelist : ip \in handshaked /\ ip \in introduced

(* A whitelist entry holds the instant of the last accepted packet of its  *)
(* source, TCP or UDP: each of the five returns that accept a packet of a  *)
(* whitelisted source refreshes it, and no drop does.                      *)
WhitelistIsLastAccepted ==
  \A ip \in DOMAIN whitelist :
    ip \in DOMAIN lastAccepted /\ whitelist[ip] = lastAccepted[ip]

(* config.example: a player whose TTL ran out has to reconnect before UDP  *)
(* passes again.  In the code an expired entry stays in the map and any    *)
(* accepted TCP segment revives it.                                        *)
LapsedMustReconnect == \A ip \in lapsed : ~Fresh(ip)
==============================================================================
