------------------------------- MODULE CpuRace -------------------------------
(***************************************************************************)
(* One whitelisted source whose packets are handled on several CPUs at     *)
(* once: the accesses of bpf/fivem_xdp.bpf.c to its entries of             *)
(* tcp_whitelist and udp_ratelimit, one memory access per step.  The XDP   *)
(* program takes no lock on either entry.  The network card spreads        *)
(* packets by address and port: TCP segments, of connections from any      *)
(* port, reach any CPU, UDP packets those in udpCPUs (one CPU for one      *)
(* client, more for clients that share the address).                       *)
(*                                                                         *)
(* The two loads and the two stores of a bucket are plain C accesses to    *)
(* different words, so either may come first, and `+=` may use the value   *)
(* loaded before or load it again.  Blacklisting and payload inspection    *)
(* touch neither entry and are left out, as is the eviction of entries.    *)
(***************************************************************************)
EXTENDS CpuSteps, RateLimit

CONSTANTS
  WhitelistTTL, Period, Burst,
  NoBucket       \* what a lookup of an absent key returns (NULL)

ASSUME RaceAssumption ==
  /\ {Period, Burst} \subseteq Nat \ {0}
  /\ WhitelistTTL \in Nat
  /\ MaxTime + WhitelistTTL + Burst < Wrap
  /\ NoBucket \notin Bucket

VARIABLES
  udpCPUs,      \* where UDP packets of the source are handled
  whitelist,    \* the u64 in the source's entry of tcp_whitelist
  bucket,       \* the source's entry of udp_ratelimit, or NoBucket
  copy,         \* the bucket as each CPU holds it, with the clock it read
  lastActive,   \* history: the latest instant a packet put in the entry
  accepted      \* history: packets the bucket let through

world == <<clock, udpCPUs>>
raceVars == <<udpCPUs, whitelist, bucket, copy, lastActive, accepted>>

Fields == {"tokens", "last"}

Blank == [tokens |-> 0, last |-> 0, now |-> 0]

(* The source has just been promoted and has sent no UDP packet yet. *)
RaceInit ==
  /\ udpCPUs \in SUBSET CPUs \ {{}}
  /\ whitelist = 0
  /\ bucket = NoBucket
  /\ copy = [cpu \in CPUs |-> Blank]
  /\ lastActive = 0
  /\ accepted = 0

(* The handler starts with a lookup of the whitelist, then reads the clock. *)
Begin(cpu, label) ==
  /\ Arrive(cpu, label)
  /\ ReadClock(cpu)
  /\ UNCHANGED raceVars

(* The handler returns; what it held in registers is gone. *)
Return(cpu) ==
  /\ Goto(cpu, "idle")
  /\ ForgetClock(cpu)
  /\ copy' = [copy EXCEPT ![cpu] = Blank]
  /\ UNCHANGED <<world, bucket, todo, accepted, packets>>

Drop(cpu) == Return(cpu) /\ UNCHANGED <<whitelist, lastActive>>

(* `*entry = bpf_ktime_get_boot_ns()` on TCP, `*last = now` on UDP. *)
Refresh(cpu) ==
  /\ pc[cpu] = "refresh"
  /\ todo[cpu] = {}
  /\ whitelist' = at[cpu]
  /\ lastActive' = IF at[cpu] > lastActive THEN at[cpu] ELSE lastActive
  /\ Return(cpu)

(* A TCP segment of an accepted kind reads the clock to refresh. *)
TcpSegment(cpu) == Begin(cpu, "refresh")

------------------------------------------------------------------------------
(* UDP: the check of the whitelist entry *)

UdpPacket(cpu) == cpu \in udpCPUs /\ Begin(cpu, "ttl")

(* Mutant: off by one at the end of the TTL. *)
FreshOneMore(cpu) == Since(whitelist, at[cpu]) <= WhitelistTTL + 1

Fresh(cpu) == Since(whitelist, at[cpu]) <= WhitelistTTL

UdpExpired(cpu) ==
  /\ pc[cpu] = "ttl"
  /\ ~Fresh(cpu)
  /\ Drop(cpu)

UdpFresh(cpu) ==
  /\ pc[cpu] = "ttl"
  /\ Fresh(cpu)
  /\ Goto(cpu, "lookup")
  /\ UNCHANGED <<world, whitelist, bucket, at, copy, todo,
                 lastActive, accepted, packets>>

------------------------------------------------------------------------------
(* UDP: ratelimit_take *)

(* The lookup of the bucket and the clock read that follows it. *)
LookupMisses(cpu) ==
  /\ pc[cpu] = "lookup"
  /\ bucket = NoBucket
  /\ copy' = [copy EXCEPT ![cpu].now = clock]
  /\ Goto(cpu, "insert")
  /\ UNCHANGED <<world, whitelist, bucket, at, todo, lastActive, accepted,
                 packets>>

LookupHits(cpu) ==
  /\ pc[cpu] = "lookup"
  /\ bucket # NoBucket
  /\ copy' = [copy EXCEPT ![cpu].now = clock]
  /\ todo' = [todo EXCEPT ![cpu] = Fields]
  /\ Goto(cpu, "load")
  /\ UNCHANGED <<world, whitelist, bucket, at, lastActive, accepted, packets>>

(* Mutant: the first packet of a source is free. *)
InsertFull(cpu) ==
  /\ pc[cpu] = "insert"
  /\ bucket' = NewBucket(Burst + 1, copy[cpu].now)
  /\ accepted' = accepted + 1
  /\ Goto(cpu, "refresh")
  /\ UNCHANGED <<world, whitelist, at, copy, todo, lastActive, packets>>

(* BPF_ANY: an entry another CPU has inserted meanwhile is replaced. *)
Insert(cpu) ==
  /\ pc[cpu] = "insert"
  /\ bucket' = NewBucket(Burst, copy[cpu].now)
  /\ accepted' = accepted + 1
  /\ Goto(cpu, "refresh")
  /\ UNCHANGED <<world, whitelist, at, copy, todo, lastActive, packets>>

Load(cpu, field) ==
  /\ pc[cpu] = "load"
  /\ field \in todo[cpu]
  /\ copy' = [copy EXCEPT ![cpu][field] = bucket[field]]
  /\ todo' = [todo EXCEPT ![cpu] = @ \ {field}]
  /\ UNCHANGED <<world, whitelist, bucket, pc, at, lastActive, accepted,
                 packets>>

Loaded(cpu) == pc[cpu] = "load" /\ todo[cpu] = {}

Earned(c) == Since(c.last, c.now) \div Period

Usable(c) ==
  LET t == (c.tokens + Earned(c)) % Wrap IN IF t > Burst THEN Burst ELSE t

UdpLimited(cpu) ==
  /\ Loaded(cpu)
  /\ Usable(copy[cpu]) = 0
  /\ Drop(cpu)

(* Mutant: the packet is let through without paying. *)
TakeUnpaid(cpu) ==
  /\ Loaded(cpu)
  /\ Usable(copy[cpu]) # 0
  /\ copy' = [copy EXCEPT ![cpu].tokens = Usable(copy[cpu])]
  /\ todo' = [todo EXCEPT ![cpu] = Fields]
  /\ accepted' = accepted + 1
  /\ Goto(cpu, "refresh")
  /\ UNCHANGED <<world, whitelist, bucket, at, lastActive, packets>>

TakeToken(cpu) ==
  /\ Loaded(cpu)
  /\ Usable(copy[cpu]) # 0
  /\ copy' = [copy EXCEPT ![cpu].tokens = Usable(copy[cpu]) - 1]
  /\ todo' = [todo EXCEPT ![cpu] = Fields]
  /\ accepted' = accepted + 1
  /\ Goto(cpu, "refresh")
  /\ UNCHANGED <<world, whitelist, bucket, at, lastActive, packets>>

StoreTokens(cpu) ==
  /\ pc[cpu] = "refresh"
  /\ "tokens" \in todo[cpu]
  /\ bucket' = [bucket EXCEPT !.tokens = copy[cpu].tokens]
  /\ todo' = [todo EXCEPT ![cpu] = @ \ {"tokens"}]
  /\ UNCHANGED <<world, whitelist, pc, at, copy, lastActive, accepted, packets>>

StoreLast(cpu) ==
  /\ pc[cpu] = "refresh"
  /\ "last" \in todo[cpu]
  /\ \E last \in {copy[cpu].last, bucket.last} :
       bucket' = [bucket EXCEPT
                    !.last = (last + Earned(copy[cpu]) * Period) % Wrap]
  /\ todo' = [todo EXCEPT ![cpu] = @ \ {"last"}]
  /\ UNCHANGED <<world, whitelist, pc, at, copy, lastActive, accepted, packets>>

------------------------------------------------------------------------------

RaceStep(cpu) ==
  \/ TcpSegment(cpu) \/ Refresh(cpu)
  \/ UdpPacket(cpu) \/ UdpExpired(cpu) \/ UdpFresh(cpu)
  \/ LookupMisses(cpu) \/ LookupHits(cpu) \/ Insert(cpu)
  \/ \E field \in Fields : Load(cpu, field)
  \/ UdpLimited(cpu) \/ TakeToken(cpu)
  \/ StoreTokens(cpu) \/ StoreLast(cpu)

RaceLabels == {"idle", "ttl", "lookup", "insert", "load", "refresh"}

------------------------------------------------------------------------------

(* However late the store of another CPU lands, the race over the          *)
(* whitelist entry errs on the safe side: UDP passes the check only within *)
(* the TTL of a packet that was really let through.                        *)
NoStalePass ==
  [][\A cpu \in CPUs :
       UdpFresh(cpu) => at[cpu] - lastActive <= WhitelistTTL]_<<cpuVars, raceVars>>

(* config.example, UDP_RATE and UDP_BURST: a source gets no more through   *)
(* than a full burst and what the rate earns, as long as one CPU handles   *)
(* all UDP of the source.  Once two do, a store of one can undo what the   *)
(* other charged.                                                          *)
BurstHeld ==
  (\E cpu \in CPUs : udpCPUs = {cpu}) => accepted <= Burst + clock \div Period

(* config.example, TTL: every packet pushes the expiry back, so it only    *)
(* runs out on someone who has gone quiet.  In the code a packet accepted  *)
(* on another CPU between the clock read and the load of the entry makes   *)
(* the unsigned difference wrap, and the packet is dropped as expired.     *)
OnlyTheQuietExpire ==
  [][\A cpu \in CPUs :
       UdpExpired(cpu) => at[cpu] - lastActive > WhitelistTTL]_<<cpuVars, raceVars>>
==============================================================================
