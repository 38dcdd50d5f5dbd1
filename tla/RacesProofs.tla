----------------------------- MODULE RacesProofs -----------------------------
(***************************************************************************)
(* What overlapping handlers can do to a whitelist entry and to a drop     *)
(* history, for any number of CPUs, packets and instants.                  *)
(***************************************************************************)
EXTENDS Races, TLAPS, FiniteSetTheorems

------------------------------------------------------------------------------
(* The whitelist entry *)

(* A handler holds a past instant, and the entry never runs ahead of the   *)
(* packets that were let through: a late store puts it back at worst.      *)
Instants ==
  /\ clock \in 0..MaxTime
  /\ at \in [CPUs -> 0..MaxTime]
  /\ \A cpu \in CPUs : at[cpu] <= clock
  /\ whitelist \in 0..MaxTime /\ lastActive \in 0..MaxTime
  /\ whitelist <= lastActive /\ lastActive <= clock

(* What any step does to the instants the handlers hold. *)
Rereads(cpu) == ReadClock(cpu) \/ ForgetClock(cpu) \/ UNCHANGED at

(* A step of a passing packet rereads the clock or returns, and only the   *)
(* refresh at the end stores into the entry.                               *)
LEMMA RaceStepInstants ==
  ASSUME NEW cpu \in CPUs, RaceStep(cpu)
  PROVE  /\ UNCHANGED clock /\ Rereads(cpu)
         /\ \/ UNCHANGED <<whitelist, lastActive>>
            \/ /\ whitelist' = at[cpu]
               /\ lastActive' = IF at[cpu] > lastActive THEN at[cpu]
                                ELSE lastActive
<1>1. CASE TcpSegment(cpu) \/ UdpPacket(cpu)
  BY <1>1 DEF TcpSegment, UdpPacket, Begin, Arrive, Rereads, raceVars
<1>2. CASE Refresh(cpu)
  BY <1>2 DEF Refresh, Return, Rereads, world
<1>3. CASE UdpExpired(cpu) \/ UdpLimited(cpu)
  BY <1>3 DEF UdpExpired, UdpLimited, Drop, Return, Rereads, world
<1>4. CASE UdpFresh(cpu) \/ LookupMisses(cpu) \/ LookupHits(cpu) \/ Insert(cpu)
  BY <1>4 DEF UdpFresh, LookupMisses, LookupHits, Insert, Rereads, world
<1>5. CASE \E field \in Fields : Load(cpu, field)
  BY <1>5 DEF Load, Rereads, world
<1>6. CASE TakeToken(cpu) \/ StoreTokens(cpu) \/ StoreLast(cpu)
  BY <1>6 DEF TakeToken, StoreTokens, StoreLast, Rereads, world
<1> QED BY <1>1, <1>2, <1>3, <1>4, <1>5, <1>6 DEF RaceStep

(* A step of a dropped packet rereads the clock or returns. *)
LEMMA DropStepInstants ==
  ASSUME NEW cpu \in CPUs, DropStep(cpu)
  PROVE  UNCHANGED clock /\ Rereads(cpu)
<1>1. CASE Malformed(cpu) \/ OtherDrop(cpu)
  BY <1>1 DEF Malformed, OtherDrop, Arrive, Rereads
<1>2. CASE Unhealthy(cpu) \/ Healthy(cpu) \/ LookupHealth(cpu) \/ InsertHealth(cpu)
  BY <1>2 DEF Unhealthy, Healthy, LookupHealth, InsertHealth, Local, Rereads
<1>3. CASE \/ Window(cpu) \/ CountAnomaly(cpu)
           \/ \E field \in {"anomalies", "start"} : NewWindow(cpu, field)
  BY <1>3 DEF Window, NewWindow, CountAnomaly, Local, Rereads
<1>4. CASE BelowThreshold(cpu) \/ AtThreshold(cpu) \/ Blacklist(cpu)
  BY <1>4 DEF BelowThreshold, AtThreshold, Blacklist, Local, Rereads
<1>5. CASE LookupHistory(cpu) \/ EnterHistory(cpu) \/ AddToHistory(cpu)
  BY <1>5 DEF LookupHistory, EnterHistory, AddToHistory, Dropping, Local,
              Rereads
<1> QED BY <1>1, <1>2, <1>3, <1>4, <1>5 DEF DropStep

LEMMA InstantsInit == Init => Instants
  BY StepsAssumption DEF Init, StepsInit, RaceInit, Instants

LEMMA InstantsNext == Instants /\ [Next]_vars => Instants'
<1> SUFFICES ASSUME Instants, [Next]_vars PROVE Instants'
  OBVIOUS
<1>1. ASSUME NEW cpu \in CPUs, UNCHANGED clock, Rereads(cpu)
      PROVE  /\ clock' \in 0..MaxTime /\ at' \in [CPUs -> 0..MaxTime]
             /\ \A c \in CPUs : at'[c] <= clock'
  BY <1>1, StepsAssumption DEF Instants, Rereads, ReadClock, ForgetClock
<1>2. ASSUME NEW cpu \in CPUs, RaceStep(cpu) PROVE Instants'
  <2>1. UNCHANGED clock /\ Rereads(cpu)
    BY <1>2, RaceStepInstants
  <2>2. /\ whitelist' \in 0..MaxTime /\ lastActive' \in 0..MaxTime
        /\ whitelist' <= lastActive' /\ lastActive' <= clock
    BY <1>2, RaceStepInstants, StepsAssumption DEF Instants
  <2> QED BY <1>1, <2>1, <2>2 DEF Instants
<1>3. ASSUME NEW cpu \in CPUs, DropStep(cpu), UNCHANGED raceVars
      PROVE  Instants'
  <2>1. UNCHANGED clock /\ Rereads(cpu)
    BY <1>3, DropStepInstants
  <2> QED BY <1>1, <1>3, <2>1 DEF Instants, raceVars
<1>4. CASE Tick /\ UNCHANGED raceVars
  BY <1>4, StepsAssumption DEF Tick, Instants, raceVars
<1>5. CASE UNCHANGED vars
  BY <1>5 DEF vars, cpuVars, raceVars, Instants
<1> QED BY <1>2, <1>3, <1>4, <1>5 DEF Next

(* The unsigned difference of instants is what it should be unless the     *)
(* entry is ahead of the clock that was read.                              *)
LEMMA SinceIsDifference ==
  ASSUME NEW then \in 0..MaxTime, NEW now \in 0..MaxTime, then <= now
  PROVE  Since(then, now) = now - then
<1>1. MaxTime \in Nat /\ Wrap \in Nat /\ MaxTime < Wrap
  BY StepsAssumption, RaceAssumption
<1>2. now - then \in 0..(Wrap - 1)
  BY <1>1
<1>3. \A d \in 0..(Wrap - 1) : d % Wrap = d
  BY <1>1
<1> QED BY <1>2, <1>3 DEF Since

(* UDP passes the check of the whitelist only within the TTL of a packet   *)
(* that was let through.  An entry that a late store put back makes the    *)
(* check stricter; one ahead of the clock that was read was refreshed      *)
(* since.                                                                  *)
THEOREM NeverStale == Spec => NoStalePass
<1>1. Instants /\ [Next]_vars =>
        [\A cpu \in CPUs :
           UdpFresh(cpu) => at[cpu] - lastActive <= WhitelistTTL]_<<cpuVars, raceVars>>
  <2> SUFFICES ASSUME Instants, NEW cpu \in CPUs, UdpFresh(cpu)
               PROVE  at[cpu] - lastActive <= WhitelistTTL
    OBVIOUS
  <2>1. Since(whitelist, at[cpu]) <= WhitelistTTL
    BY DEF UdpFresh, Fresh
  <2>2. /\ at[cpu] \in 0..MaxTime /\ whitelist \in 0..MaxTime
        /\ lastActive \in 0..MaxTime /\ whitelist <= lastActive
        /\ MaxTime \in Nat /\ WhitelistTTL \in Nat
    BY StepsAssumption, RaceAssumption DEF Instants
  <2>3. CASE whitelist <= at[cpu]
    <3>1. at[cpu] - whitelist <= WhitelistTTL
      BY <2>1, <2>2, <2>3, SinceIsDifference
    <3> QED BY <2>2, <3>1
  <2>4. CASE ~(whitelist <= at[cpu])
    BY <2>2, <2>4
  <2> QED BY <2>3, <2>4
<1> QED BY <1>1, InstantsInit, InstantsNext, PTL DEF Spec, NoStalePass

------------------------------------------------------------------------------
(* The drop history *)

(* CPUs whose handler found no record and is about to enter one. *)
Entering == {cpu \in CPUs : pc[cpu] = "enter"}

(* Records that are, or may yet be, lost to the one entered first: those   *)
(* of the other CPUs that looked when there was none.                      *)
Outstanding ==
  recorded # NoEntry =>
    /\ recorded \in Nat /\ recorded <= dropped
    /\ dropped + Cardinality(Entering) <= recorded + Cardinality(CPUs) - 1

Records ==
  /\ pc \in [CPUs -> RaceLabels \cup DropLabels]
  /\ dropped \in Nat
  /\ recorded = NoEntry => dropped = 0
  /\ \A cpu \in CPUs : pc[cpu] = "add" => recorded # NoEntry
  /\ passing => recorded = NoEntry
  /\ Outstanding

LEMMA CountingCPUs ==
  /\ IsFiniteSet(CPUs) /\ Cardinality(CPUs) \in Nat /\ Cardinality(CPUs) >= 1
  /\ \A S \in SUBSET CPUs : IsFiniteSet(S) /\ Cardinality(S) \in Nat
<1>1. IsFiniteSet(CPUs) /\ CPUs # {}
  BY StepsAssumption
<1>2. Cardinality(CPUs) \in Nat /\ Cardinality(CPUs) # 0
  BY <1>1, FS_CardinalityType, FS_EmptySet
<1>3. \A S \in SUBSET CPUs : IsFiniteSet(S) /\ Cardinality(S) \in Nat
  BY <1>1, FS_Subset, FS_CardinalityType
<1> QED BY <1>1, <1>2, <1>3

(* A step of a passing packet stays among the labels of CpuRace. *)
LEMMA RaceStepLabels ==
  ASSUME NEW cpu \in CPUs, RaceStep(cpu)
  PROVE  pc' = pc \/ \E l \in RaceLabels : pc' = [pc EXCEPT ![cpu] = l]
<1>1. CASE TcpSegment(cpu) \/ UdpPacket(cpu)
  BY <1>1 DEF TcpSegment, UdpPacket, Begin, Arrive, GoFrom, Goto, RaceLabels
<1>2. CASE Refresh(cpu) \/ UdpExpired(cpu) \/ UdpLimited(cpu)
  BY <1>2 DEF Refresh, UdpExpired, UdpLimited, Drop, Return, Goto, RaceLabels
<1>3. CASE UdpFresh(cpu) \/ LookupMisses(cpu) \/ LookupHits(cpu) \/ Insert(cpu)
  BY <1>3 DEF UdpFresh, LookupMisses, LookupHits, Insert, Goto, RaceLabels
<1>4. CASE \E field \in Fields : Load(cpu, field)
  BY <1>4 DEF Load
<1>5. CASE TakeToken(cpu) \/ StoreTokens(cpu) \/ StoreLast(cpu)
  BY <1>5 DEF TakeToken, StoreTokens, StoreLast, Goto, RaceLabels
<1> QED BY <1>1, <1>2, <1>3, <1>4, <1>5 DEF RaceStep

(* Every step of a dropped packet but the last three leaves the history    *)
(* and the stats alone and does not look into the history.                 *)
Silent(cpu) ==
  /\ UNCHANGED <<recorded, dropped>>
  /\ \/ pc' = pc
     \/ \E l \in DropLabels \ {"enter", "add"} :
          pc[cpu] # "enter" /\ pc' = [pc EXCEPT ![cpu] = l]

LEMMA MostAreSilent ==
  ASSUME NEW cpu \in CPUs, DropStep(cpu)
  PROVE  \/ Silent(cpu)
         \/ LookupHistory(cpu) \/ EnterHistory(cpu) \/ AddToHistory(cpu)
<1>1. CASE Malformed(cpu) \/ OtherDrop(cpu)
  BY <1>1 DEF Malformed, OtherDrop, Arrive, GoFrom, Goto, Silent, DropLabels,
              overlapVars
<1>2. CASE Unhealthy(cpu) \/ Healthy(cpu)
  BY <1>2 DEF Unhealthy, Healthy, Local, GoFrom, Goto, Silent, DropLabels
<1>3. CASE LookupHealth(cpu)
  BY <1>3 DEF LookupHealth, Local, GoFrom, Goto, Silent, DropLabels
<1>4. CASE InsertHealth(cpu)
  BY <1>4 DEF InsertHealth, GoFrom, Goto, Silent, DropLabels
<1>5. CASE Window(cpu)
  BY <1>5 DEF Window, Local, GoFrom, Goto, Silent, DropLabels
<1>6. CASE \E field \in {"anomalies", "start"} : NewWindow(cpu, field)
  BY <1>6 DEF NewWindow, Silent
<1>7. CASE CountAnomaly(cpu)
  BY <1>7 DEF CountAnomaly, GoFrom, Goto, Silent, DropLabels
<1>8. CASE BelowThreshold(cpu) \/ AtThreshold(cpu)
  BY <1>8 DEF BelowThreshold, AtThreshold, Local, GoFrom, Goto, Silent,
              DropLabels
<1>9. CASE Blacklist(cpu)
  BY <1>9 DEF Blacklist, GoFrom, Goto, Silent, DropLabels
<1> QED BY <1>1, <1>2, <1>3, <1>4, <1>5, <1>6, <1>7, <1>8, <1>9 DEF DropStep

LEMMA SilentKeepsRecords ==
  ASSUME Records, NEW cpu \in CPUs, Silent(cpu), UNCHANGED passing
  PROVE  Records'
<1>1. /\ pc' \in [CPUs -> RaceLabels \cup DropLabels]
      /\ \A c \in CPUs : pc'[c] = "add" => pc[c] = "add"
  BY DEF Records, Silent
<1>2. Entering' = Entering
  BY DEF Records, Silent, Entering
<1> QED BY <1>1, <1>2 DEF Records, Silent, Outstanding

(* A lookup that finds a record goes on to add to it.  One that finds none *)
(* goes on to enter it or, for an unknown source, returns.                 *)
LEMMA LookupKeepsRecords ==
  ASSUME Records, NEW cpu \in CPUs, LookupHistory(cpu), UNCHANGED passing
  PROVE  Records'
<1>1. PICK l \in {"enter", "idle", "add"} :
        /\ pc[cpu] \in {"drop", "unknown"} /\ UNCHANGED <<recorded, dropped>>
        /\ pc' = [pc EXCEPT ![cpu] = l]
        /\ l = "add" <=> recorded # NoEntry
  BY DEF LookupHistory, Local, GoFrom, Goto
<1>2. /\ pc' \in [CPUs -> RaceLabels \cup DropLabels]
      /\ \A c \in CPUs : pc'[c] = "add" => recorded # NoEntry
  BY <1>1 DEF Records, DropLabels
<1>3. recorded # NoEntry => Entering' = Entering
  BY <1>1 DEF Records, Entering
<1> QED BY <1>1, <1>2, <1>3 DEF Records, Outstanding

LEMMA AddKeepsRecords ==
  ASSUME Records, NEW cpu \in CPUs, AddToHistory(cpu), UNCHANGED passing
  PROVE  Records'
<1>1. /\ pc[cpu] = "add" /\ pc' = [pc EXCEPT ![cpu] = "idle"]
      /\ dropped' = dropped + 1 /\ recorded' = recorded + 1
  BY DEF AddToHistory, Dropping, GoFrom, Goto
<1>2. recorded # NoEntry /\ recorded \in Nat /\ dropped \in Nat
  BY <1>1 DEF Records, Outstanding
<1>3. recorded' \in Nat /\ recorded' # NoEntry
  BY <1>1, <1>2, OverlapAssumption
<1>4. /\ pc' \in [CPUs -> RaceLabels \cup DropLabels]
      /\ Entering' = Entering
  BY <1>1 DEF Records, Entering, DropLabels
<1>5. Cardinality(Entering) \in Nat /\ Cardinality(CPUs) \in Nat
  BY CountingCPUs DEF Entering
<1>6. Outstanding'
  BY <1>1, <1>2, <1>3, <1>4, <1>5 DEF Records, Outstanding
<1> QED BY <1>1, <1>2, <1>3, <1>4, <1>6 DEF Records

(* The first record, or one that is lost. *)
LEMMA EnterKeepsRecords ==
  ASSUME Records, NEW cpu \in CPUs, EnterHistory(cpu), ~passing,
         UNCHANGED passing
  PROVE  Records'
<1>1. /\ pc[cpu] = "enter" /\ pc' = [pc EXCEPT ![cpu] = "idle"]
      /\ dropped' = dropped + 1
      /\ recorded' = IF recorded = NoEntry THEN 1 ELSE recorded
  BY DEF EnterHistory, Dropping, GoFrom, Goto
<1>2. /\ pc' \in [CPUs -> RaceLabels \cup DropLabels]
      /\ cpu \in Entering /\ Entering' = Entering \ {cpu}
  BY <1>1 DEF Records, Entering, DropLabels
<1>3. recorded' # NoEntry
  BY <1>1, OverlapAssumption
<1>4. /\ IsFiniteSet(CPUs) /\ Cardinality(CPUs) \in Nat
      /\ IsFiniteSet(Entering) /\ Cardinality(Entering) \in Nat
  BY CountingCPUs DEF Entering
<1>5. Cardinality(Entering') = Cardinality(Entering) - 1
  BY <1>2, <1>4, FS_RemoveElement
<1>6. CASE recorded = NoEntry
  <2>1. Cardinality(Entering) <= Cardinality(CPUs)
    BY <1>4, FS_Subset DEF Entering
  <2>2. dropped' = 1 /\ recorded' = 1
    BY <1>1, <1>6 DEF Records
  <2>3. Outstanding'
    BY <1>4, <1>5, <2>1, <2>2 DEF Outstanding
  <2> QED BY <1>1, <1>2, <1>3, <2>2, <2>3 DEF Records
<1>7. CASE recorded # NoEntry
  <2>1. /\ recorded' = recorded /\ recorded \in Nat /\ dropped \in Nat
        /\ recorded <= dropped
        /\ dropped + Cardinality(Entering) <= recorded + Cardinality(CPUs) - 1
    BY <1>1, <1>7 DEF Records, Outstanding
  <2>2. Outstanding'
    BY <1>1, <1>4, <1>5, <2>1 DEF Outstanding
  <2> QED BY <1>1, <1>2, <1>3, <2>1, <2>2 DEF Records
<1> QED BY <1>6, <1>7

LEMMA RecordsInit == Init => Records
  BY DEF Init, StepsInit, OverlapInit, Records, Outstanding, RaceLabels

LEMMA RecordsNext == Records /\ [Next]_vars => Records'
<1> SUFFICES ASSUME Records, [Next]_vars PROVE Records'
  OBVIOUS
<1>1. ASSUME NEW cpu \in CPUs, passing, RaceStep(cpu),
             UNCHANGED overlapVars, UNCHANGED passing
      PROVE  Records'
  <2>1. /\ pc' \in [CPUs -> RaceLabels \cup DropLabels]
        /\ \A c \in CPUs : pc'[c] = "add" => pc[c] = "add"
    BY <1>1, RaceStepLabels DEF Records, RaceLabels
  <2> QED BY <1>1, <2>1 DEF Records, Outstanding, overlapVars
<1>2. ASSUME NEW cpu \in CPUs, ~passing, DropStep(cpu), UNCHANGED passing
      PROVE  Records'
  BY <1>2, MostAreSilent, SilentKeepsRecords, LookupKeepsRecords,
     EnterKeepsRecords, AddKeepsRecords
<1>3. CASE Tick /\ UNCHANGED overlapVars /\ UNCHANGED passing
  BY <1>3 DEF Tick, Records, Outstanding, Entering, overlapVars
<1>4. CASE UNCHANGED vars
  BY <1>4 DEF vars, cpuVars, overlapVars, Records, Outstanding, Entering
<1> QED BY <1>1, <1>2, <1>3, <1>4 DEF Next

(* However many CPUs drop packets of a source at once, its history misses  *)
(* fewer of the drops that record_drop is to record than there are CPUs,   *)
(* and is never ahead of the stats.                                        *)
THEOREM HistoryAlmostComplete == Spec => []HistoryNearlyComplete
<1>1. Records => HistoryNearlyComplete
  <2> SUFFICES ASSUME Records PROVE HistoryNearlyComplete
    OBVIOUS
  <2>1. /\ Cardinality(CPUs) \in Nat /\ Cardinality(CPUs) >= 1
        /\ Cardinality(Entering) \in Nat
    BY CountingCPUs DEF Entering
  <2> QED BY <2>1 DEF Records, Outstanding, HistoryNearlyComplete
<1> QED BY <1>1, RecordsInit, RecordsNext, PTL DEF Spec

------------------------------------------------------------------------------
(* Types: what is handed from one step of a handler to the next *)

AtLabels(L) == {cpu \in CPUs : pc[cpu] \in L}

(* How many CPUs stand at some labels, as one of them goes on. *)
LEMMA LabelCount ==
  ASSUME NEW cpu \in CPUs, NEW T, pc \in [CPUs -> T], NEW l, NEW L,
         pc' = [pc EXCEPT ![cpu] = l]
  PROVE  /\ Cardinality(AtLabels(L)) \in Nat
         /\ Cardinality(AtLabels(L))' \in Nat
         /\ Cardinality(AtLabels(L))' + (IF pc[cpu] \in L THEN 1 ELSE 0)
              = Cardinality(AtLabels(L)) + (IF l \in L THEN 1 ELSE 0)
<1> DEFINE A == AtLabels(L)
           B == AtLabels(L)'
<1>1. A \in SUBSET CPUs /\ B \in SUBSET CPUs
  BY DEF AtLabels
<1>2. /\ IsFiniteSet(A) /\ Cardinality(A) \in Nat
      /\ IsFiniteSet(B) /\ Cardinality(B) \in Nat
  BY <1>1, CountingCPUs
<1>3. /\ cpu \in A <=> pc[cpu] \in L
      /\ cpu \in B <=> l \in L
      /\ \A other \in CPUs \ {cpu} : other \in A <=> other \in B
  BY DEF AtLabels
<1>4. Cardinality(AtLabels(L))' = Cardinality(B)
  OBVIOUS
<1> HIDE DEF A, B
<1>5. CASE cpu \in A /\ cpu \in B
  <2>1. A = B
    BY <1>1, <1>3, <1>5
  <2> QED BY <1>2, <1>3, <1>4, <1>5, <2>1 DEF A
<1>6. CASE cpu \in A /\ cpu \notin B
  <2>1. B = A \ {cpu}
    BY <1>1, <1>3, <1>6
  <2>2. Cardinality(B) = Cardinality(A) - 1
    BY <1>2, <1>6, <2>1, FS_RemoveElement
  <2> QED BY <1>2, <1>3, <1>4, <1>6, <2>2 DEF A
<1>7. CASE cpu \notin A /\ cpu \in B
  <2>1. B = A \cup {cpu}
    BY <1>1, <1>3, <1>7
  <2>2. Cardinality(B) = Cardinality(A) + 1
    BY <1>2, <1>7, <2>1, FS_AddElement
  <2> QED BY <1>2, <1>3, <1>4, <1>7, <2>2 DEF A
<1>8. CASE cpu \notin A /\ cpu \notin B
  <2>1. A = B
    BY <1>1, <1>3, <1>8
  <2> QED BY <1>2, <1>3, <1>4, <1>8, <2>1 DEF A
<1> QED BY <1>5, <1>6, <1>7, <1>8

BucketType == [tokens : 0..(Burst - 1), last : 0..(Wrap - 1)]
CopyType == [tokens : 0..(Burst - 1), last : 0..(Wrap - 1), now : 0..clock]

(* Packets the bucket has yet to judge. *)
BeforeTake == {"ttl", "lookup", "insert", "load"}

(* Packets that pass: a handler with fields left to load or to store has   *)
(* found an entry, and none is removed.                                    *)
PassTyped ==
  /\ pc \in [CPUs -> RaceLabels]
  /\ todo \in [CPUs -> SUBSET Fields]
  /\ \A cpu \in CPUs :
       /\ todo[cpu] # {} => pc[cpu] \in {"load", "refresh"}
       /\ todo[cpu] # {} \/ pc[cpu] = "load" => bucket # NoBucket
  /\ bucket # NoBucket => bucket \in BucketType
  /\ copy \in [CPUs -> CopyType]
  /\ accepted \in Nat
  /\ accepted + Cardinality(AtLabels(BeforeTake)) <= packets
  /\ health = NoEntry /\ dropped = 0

LEMMA RaceConstants ==
  /\ MaxTime \in Nat \ {0} /\ MaxPackets \in Nat \ {0} /\ Wrap \in Nat \ {0}
  /\ Period \in Nat \ {0} /\ Burst \in Nat \ {0} /\ WhitelistTTL \in Nat
  /\ MaxTime + Burst < Wrap
  /\ HealthWindow \in Nat /\ HealthThreshold \in Nat
  /\ HealthBlacklist \in Nat
  BY StepsAssumption, RaceAssumption, OverlapAssumption

LEMMA ModRange ==
  ASSUME NEW x \in Int, NEW w \in Nat \ {0}
  PROVE  x % w \in 0..(w - 1)
  BY SMT

LEMMA DivNat ==
  ASSUME NEW x \in Nat, NEW p \in Nat \ {0}
  PROVE  x \div p \in Nat
  BY SMT

LEMMA CopyArithmetic ==
  ASSUME Instants, NEW c \in CopyType
  PROVE  Earned(c) \in Nat /\ Usable(c) \in 0..Burst
<1>1. Since(c.last, c.now) \in Nat
  <2>1. c.now - c.last \in Int
    BY RaceConstants DEF CopyType, Instants
  <2> QED BY <2>1, ModRange, RaceConstants DEF Since
<1>2. Earned(c) \in Nat
  BY <1>1, DivNat, RaceConstants DEF Earned
<1>3. c.tokens + Earned(c) \in Int
  BY <1>2, RaceConstants DEF CopyType
<1>4. (c.tokens + Earned(c)) % Wrap \in Nat
  BY <1>3, ModRange, RaceConstants
<1> QED BY <1>2, <1>4, RaceConstants DEF Usable

LEMMA StoredInstant ==
  ASSUME Instants, NEW c \in CopyType, NEW last \in 0..(Wrap - 1)
  PROVE  (last + Earned(c) * Period) % Wrap \in 0..(Wrap - 1)
<1>1. Earned(c) \in Nat /\ Period \in Nat /\ Wrap \in Nat \ {0}
  BY CopyArithmetic, RaceConstants
<1>2. Earned(c) * Period \in Nat
  BY <1>1
<1>3. last + Earned(c) * Period \in Int
  BY <1>1, <1>2
<1> QED BY <1>1, <1>3, ModRange

(* The bucket of the handler that goes on, and the copies of the others.   *)
LEMMA PassTypedKept ==
  ASSUME Instants, Instants', PassTyped, packets \in 0..MaxPackets,
         NEW cpu \in CPUs, RaceStep(cpu), UNCHANGED overlapVars
  PROVE  PassTyped' /\ packets' \in 0..MaxPackets
<1> DEFINE n == Cardinality(AtLabels(BeforeTake))
           m == Cardinality(AtLabels(BeforeTake))'
<1>1. /\ pc \in [CPUs -> RaceLabels] /\ todo \in [CPUs -> SUBSET Fields]
      /\ copy \in [CPUs -> CopyType] /\ accepted \in Nat
      /\ accepted + n <= packets /\ packets \in Nat
      /\ bucket # NoBucket => bucket \in BucketType
  BY RaceConstants DEF PassTyped
<1>2. health' = NoEntry /\ dropped' = 0
  BY DEF PassTyped, overlapVars
<1>3. n \in Nat
  BY CountingCPUs DEF AtLabels
<1>4. clock' = clock /\ CopyType' = CopyType
  BY RaceStepInstants DEF CopyType
<1>5. ASSUME NEW l \in RaceLabels, pc' = [pc EXCEPT ![cpu] = l]
      PROVE  /\ pc' \in [CPUs -> RaceLabels] /\ m \in Nat
             /\ m + (IF pc[cpu] \in BeforeTake THEN 1 ELSE 0)
                  = n + (IF l \in BeforeTake THEN 1 ELSE 0)
  <2>1. pc' \in [CPUs -> RaceLabels]
    BY <1>1, <1>5
  <2> QED BY <1>1, <1>5, <2>1, LabelCount
<1> HIDE DEF n, m
<1>6. Blank \in CopyType
  BY RaceConstants DEF Blank, CopyType, Instants
<1>7. ASSUME copy' \in [CPUs -> CopyType], todo' \in [CPUs -> SUBSET Fields],
             pc' \in [CPUs -> RaceLabels], accepted' \in Nat,
             bucket' # NoBucket => bucket' \in BucketType,
             accepted' + m <= packets',
             \A c \in CPUs :
               /\ todo'[c] # {} => pc'[c] \in {"load", "refresh"}
               /\ todo'[c] # {} \/ pc'[c] = "load" => bucket' # NoBucket
      PROVE  PassTyped'
  BY <1>2, <1>4, <1>7 DEF PassTyped, m, BucketType
<1>8. ASSUME NEW label \in {"refresh", "ttl"}, Begin(cpu, label)
      PROVE  PassTyped' /\ packets' \in 0..MaxPackets
  <2>1. /\ pc[cpu] = "idle" /\ pc' = [pc EXCEPT ![cpu] = label]
        /\ packets' = packets + 1 /\ packets < MaxPackets /\ todo' = todo
        /\ bucket' = bucket /\ copy' = copy /\ accepted' = accepted
    BY <1>8 DEF Begin, Arrive, GoFrom, Goto, raceVars
  <2>2. m <= n + 1 /\ m \in Nat /\ pc' \in [CPUs -> RaceLabels]
    <3>1. label \in RaceLabels /\ pc[cpu] \notin BeforeTake
      BY <2>1 DEF RaceLabels, BeforeTake
    <3>2. /\ pc' \in [CPUs -> RaceLabels] /\ m \in Nat
          /\ m + 0 = n + (IF label \in BeforeTake THEN 1 ELSE 0)
      BY <1>5, <2>1, <3>1
    <3> QED BY <1>3, <3>2
  <2>3. accepted' + m <= packets'
    BY <1>1, <1>3, <2>1, <2>2
  <2>4. \A c \in CPUs :
          /\ todo'[c] # {} => pc'[c] \in {"load", "refresh"}
          /\ todo'[c] # {} \/ pc'[c] = "load" => bucket' # NoBucket
    BY <1>8, <2>1 DEF PassTyped
  <2>5. packets' \in 0..MaxPackets
    BY <2>1, RaceConstants
  <2> QED BY <1>1, <1>7, <2>1, <2>2, <2>3, <2>4, <2>5
<1>9. ASSUME Return(cpu), todo[cpu] = {}
      PROVE  PassTyped' /\ packets' \in 0..MaxPackets
  <2>1. /\ pc' = [pc EXCEPT ![cpu] = "idle"] /\ todo' = todo
        /\ bucket' = bucket /\ copy' = [copy EXCEPT ![cpu] = Blank]
        /\ accepted' = accepted /\ packets' = packets
    BY <1>9 DEF Return, Goto
  <2>2. m <= n /\ m \in Nat /\ pc' \in [CPUs -> RaceLabels]
    BY <1>3, <1>5, <2>1 DEF RaceLabels, BeforeTake
  <2>3. accepted' + m <= packets'
    BY <1>1, <1>3, <2>1, <2>2
  <2>4. copy' \in [CPUs -> CopyType]
    BY <1>1, <1>6, <2>1
  <2>5. \A c \in CPUs :
          /\ todo'[c] # {} => pc'[c] \in {"load", "refresh"}
          /\ todo'[c] # {} \/ pc'[c] = "load" => bucket' # NoBucket
    BY <1>9, <2>1 DEF PassTyped
  <2> QED BY <1>1, <1>7, <2>1, <2>2, <2>3, <2>4, <2>5
<1>10. CASE TcpSegment(cpu) \/ UdpPacket(cpu)
  BY <1>8, <1>10 DEF TcpSegment, UdpPacket
<1>11. CASE Refresh(cpu)
  BY <1>9, <1>11 DEF Refresh
<1>12. CASE UdpExpired(cpu)
  <2>1. todo[cpu] = {}
    BY <1>12 DEF UdpExpired, PassTyped
  <2> QED BY <1>9, <1>12, <2>1 DEF UdpExpired, Drop
<1>13. CASE UdpFresh(cpu) \/ LookupMisses(cpu)
  <2> DEFINE l == IF pc[cpu] = "ttl" THEN "lookup" ELSE "insert"
  <2>1. /\ pc[cpu] \in {"ttl", "lookup"} /\ pc' = [pc EXCEPT ![cpu] = l]
        /\ todo' = todo /\ bucket' = bucket /\ accepted' = accepted
        /\ packets' = packets
        /\ copy' = copy \/ copy' = [copy EXCEPT ![cpu].now = clock]
    BY <1>13 DEF UdpFresh, LookupMisses, Goto
  <2> l \in {"lookup", "insert"}
    OBVIOUS
  <2> HIDE DEF l
  <2>2. m = n /\ pc' \in [CPUs -> RaceLabels]
    <3>1. l \in RaceLabels /\ l \in BeforeTake /\ pc[cpu] \in BeforeTake
      BY <2>1 DEF RaceLabels, BeforeTake
    <3>2. /\ pc' \in [CPUs -> RaceLabels] /\ m \in Nat
          /\ m + 1 = n + 1
      BY <1>5, <2>1, <3>1
    <3> QED BY <1>3, <3>2
  <2>3. copy' \in [CPUs -> CopyType]
    BY <1>1, <2>1, RaceConstants DEF CopyType, Instants
  <2>4. \A c \in CPUs :
          /\ todo'[c] # {} => pc'[c] \in {"load", "refresh"}
          /\ todo'[c] # {} \/ pc'[c] = "load" => bucket' # NoBucket
    BY <2>1 DEF PassTyped
  <2> QED BY <1>1, <1>7, <2>1, <2>2, <2>3, <2>4
<1>14. CASE LookupHits(cpu)
  <2>1. /\ pc[cpu] = "lookup" /\ pc' = [pc EXCEPT ![cpu] = "load"]
        /\ todo' = [todo EXCEPT ![cpu] = Fields] /\ bucket # NoBucket
        /\ bucket' = bucket /\ accepted' = accepted /\ packets' = packets
        /\ copy' = [copy EXCEPT ![cpu].now = clock]
    BY <1>14 DEF LookupHits, Goto
  <2>2. m = n /\ pc' \in [CPUs -> RaceLabels]
    BY <1>3, <1>5, <2>1 DEF RaceLabels, BeforeTake
  <2>3. copy' \in [CPUs -> CopyType]
    BY <1>1, <2>1, RaceConstants DEF CopyType, Instants
  <2>4. todo' \in [CPUs -> SUBSET Fields]
    BY <1>1, <2>1
  <2>5. \A c \in CPUs :
          /\ todo'[c] # {} => pc'[c] \in {"load", "refresh"}
          /\ todo'[c] # {} \/ pc'[c] = "load" => bucket' # NoBucket
    BY <1>1, <2>1 DEF PassTyped
  <2> QED BY <1>1, <1>7, <2>1, <2>2, <2>3, <2>4, <2>5
<1>15. CASE Insert(cpu)
  <2>1. /\ pc[cpu] = "insert" /\ pc' = [pc EXCEPT ![cpu] = "refresh"]
        /\ todo' = todo /\ bucket' = NewBucket(Burst, copy[cpu].now)
        /\ accepted' = accepted + 1 /\ packets' = packets /\ copy' = copy
    BY <1>15 DEF Insert, Goto
  <2>2. m + 1 = n /\ m \in Nat /\ pc' \in [CPUs -> RaceLabels]
    BY <1>3, <1>5, <2>1 DEF RaceLabels, BeforeTake
  <2>3. copy[cpu].now \in 0..clock /\ clock \in 0..MaxTime
    BY <1>1 DEF CopyType, Instants
  <2>4. bucket' \in BucketType /\ bucket' \in Bucket
    BY <2>1, <2>3, RaceConstants DEF NewBucket, BucketType, Bucket
  <2>5. bucket' # NoBucket
    BY <2>4, RaceAssumption
  <2>6. accepted' + m <= packets' /\ accepted' \in Nat
    BY <1>1, <1>3, <2>1, <2>2
  <2>7. \A c \in CPUs : todo'[c] # {} => pc'[c] \in {"load", "refresh"}
    BY <1>1, <2>1 DEF PassTyped
  <2> QED BY <1>1, <1>7, <2>1, <2>2, <2>4, <2>5, <2>6, <2>7
<1>16. ASSUME NEW field \in Fields, Load(cpu, field)
       PROVE  PassTyped' /\ packets' \in 0..MaxPackets
  <2>1. /\ pc[cpu] = "load" /\ pc' = pc
        /\ todo' = [todo EXCEPT ![cpu] = @ \ {field}]
        /\ bucket' = bucket /\ accepted' = accepted /\ packets' = packets
        /\ copy' = [copy EXCEPT ![cpu][field] = bucket[field]]
    BY <1>16 DEF Load
  <2>2. bucket # NoBucket /\ bucket \in BucketType
    BY <2>1 DEF PassTyped
  <2>3. copy[cpu] \in CopyType
    BY <1>1
  <2>4. [copy[cpu] EXCEPT ![field] = bucket[field]] \in CopyType
    BY <2>2, <2>3 DEF CopyType, BucketType, Fields
  <2>5. copy' \in [CPUs -> CopyType]
    BY <1>1, <2>1, <2>4
  <2>6. todo' \in [CPUs -> SUBSET Fields]
    BY <1>1, <2>1
  <2>7. \A c \in CPUs :
          /\ todo'[c] # {} => pc'[c] \in {"load", "refresh"}
          /\ todo'[c] # {} \/ pc'[c] = "load" => bucket' # NoBucket
    BY <1>1, <2>1, <2>2 DEF PassTyped
  <2>8. m = n
    BY <2>1 DEF m, n, AtLabels
  <2> QED BY <1>1, <1>7, <2>1, <2>5, <2>6, <2>7, <2>8
<1>17. CASE UdpLimited(cpu)
  BY <1>9, <1>17 DEF UdpLimited, Loaded, Drop
<1>18. CASE TakeToken(cpu)
  <2>1. /\ pc[cpu] = "load" /\ pc' = [pc EXCEPT ![cpu] = "refresh"]
        /\ todo' = [todo EXCEPT ![cpu] = Fields] /\ bucket' = bucket
        /\ copy' = [copy EXCEPT ![cpu].tokens = Usable(copy[cpu]) - 1]
        /\ Usable(copy[cpu]) # 0
        /\ accepted' = accepted + 1 /\ packets' = packets
    BY <1>18 DEF TakeToken, Loaded, Goto
  <2>2. m + 1 = n /\ m \in Nat /\ pc' \in [CPUs -> RaceLabels]
    BY <1>3, <1>5, <2>1 DEF RaceLabels, BeforeTake
  <2>3. copy[cpu] \in CopyType
    BY <1>1
  <2>4. Usable(copy[cpu]) - 1 \in 0..(Burst - 1)
    BY <2>1, <2>3, CopyArithmetic, RaceConstants
  <2>5. copy' \in [CPUs -> CopyType]
    BY <1>1, <2>1, <2>4 DEF CopyType
  <2>6. accepted' + m <= packets' /\ accepted' \in Nat
    BY <1>1, <1>3, <2>1, <2>2
  <2>7. todo' \in [CPUs -> SUBSET Fields]
    BY <1>1, <2>1
  <2>8. \A c \in CPUs :
          /\ todo'[c] # {} => pc'[c] \in {"load", "refresh"}
          /\ todo'[c] # {} \/ pc'[c] = "load" => bucket' # NoBucket
    BY <1>1, <2>1 DEF PassTyped
  <2> QED BY <1>1, <1>7, <2>1, <2>2, <2>5, <2>6, <2>7, <2>8
<1>19. CASE StoreTokens(cpu) \/ StoreLast(cpu)
  <2>1. /\ pc[cpu] = "refresh" /\ pc' = pc /\ todo[cpu] # {}
        /\ copy' = copy /\ accepted' = accepted /\ packets' = packets
        /\ \E field \in Fields : todo' = [todo EXCEPT ![cpu] = @ \ {field}]
    BY <1>19 DEF StoreTokens, StoreLast, Fields
  <2>2. bucket # NoBucket /\ bucket \in BucketType /\ copy[cpu] \in CopyType
    BY <1>1, <2>1 DEF PassTyped
  <2>3. CASE StoreTokens(cpu)
    <3>1. bucket' = [bucket EXCEPT !.tokens = copy[cpu].tokens]
      BY <2>3 DEF StoreTokens
    <3>2. copy[cpu].tokens \in 0..(Burst - 1)
      BY <2>2 DEF CopyType
    <3>3. bucket' \in BucketType
      BY <2>2, <3>1, <3>2 DEF BucketType
    <3>4. bucket' \in Bucket
      BY <3>3, RaceConstants DEF BucketType, Bucket
    <3>5. bucket' # NoBucket
      BY <3>4, RaceAssumption
    <3>6. todo' \in [CPUs -> SUBSET Fields]
      BY <1>1, <2>1
    <3>7. \A c \in CPUs : todo'[c] # {} => pc'[c] \in {"load", "refresh"}
      BY <1>1, <2>1 DEF PassTyped
    <3>8. m = n
      BY <2>1 DEF m, n, AtLabels
    <3> QED BY <1>1, <1>7, <2>1, <3>3, <3>5, <3>6, <3>7, <3>8
  <2>4. CASE StoreLast(cpu)
    <3>1. PICK last \in {copy[cpu].last, bucket.last} :
            bucket' = [bucket EXCEPT
                         !.last = (last + Earned(copy[cpu]) * Period) % Wrap]
      BY <2>4 DEF StoreLast
    <3>2. last \in 0..(Wrap - 1)
      BY <2>2 DEF CopyType, BucketType
    <3>3. (last + Earned(copy[cpu]) * Period) % Wrap \in 0..(Wrap - 1)
      BY <2>2, <3>2, StoredInstant
    <3>4. bucket' \in BucketType
      BY <2>2, <3>1, <3>3 DEF BucketType
    <3>5. bucket' \in Bucket
      BY <3>4, RaceConstants DEF BucketType, Bucket
    <3>6. bucket' # NoBucket
      BY <3>5, RaceAssumption
    <3>7. todo' \in [CPUs -> SUBSET Fields]
      BY <1>1, <2>1
    <3>8. \A c \in CPUs : todo'[c] # {} => pc'[c] \in {"load", "refresh"}
      BY <1>1, <2>1 DEF PassTyped
    <3>9. m = n
      BY <2>1 DEF m, n, AtLabels
    <3> QED BY <1>1, <1>7, <2>1, <3>4, <3>6, <3>7, <3>8, <3>9
  <2> QED BY <1>19, <2>3, <2>4
<1> QED BY <1>10, <1>11, <1>12, <1>13, <1>14, <1>15, <1>16, <1>17, <1>18,
           <1>19 DEF RaceStep

HealthType ==
  [anomalies : Nat, start : 0..clock, until : 0..(clock + HealthBlacklist)]

(* Anomalies that have yet to be counted, and packets to be dropped. *)
BeforeCount == {"healthy", "find", "open", "window", "count"}
Underway == DropLabels \ {"idle"}

(* No more anomalies than packets, with those that may yet be counted. *)
HealthCounted ==
  /\ health \in HealthType
  /\ health.anomalies + Cardinality(AtLabels(BeforeCount)) <= packets

(* Packets that are dropped: a handler past the lookup has an entry. *)
DropTyped ==
  /\ pc \in [CPUs -> DropLabels]
  /\ todo \in [CPUs -> SUBSET {"anomalies", "start"}]
  /\ \A cpu \in CPUs : todo[cpu] # {} => pc[cpu] = "count"
  /\ \/ health # NoEntry
     \/ \E cpu \in CPUs : pc[cpu] \in {"window", "count", "threshold", "ban"}
     => HealthCounted
  /\ Cardinality(AtLabels(BeforeCount)) <= packets
  /\ dropped \in Nat
  /\ dropped + Cardinality(AtLabels(Underway)) <= packets
  /\ bucket = NoBucket /\ copy = [cpu \in CPUs |-> Blank] /\ accepted = 0

LEMMA DropTypedKept ==
  ASSUME Instants, Instants', DropTyped, packets \in 0..MaxPackets,
         NEW cpu \in CPUs, DropStep(cpu), UNCHANGED raceVars
  PROVE  DropTyped' /\ packets' \in 0..MaxPackets
<1> DEFINE n == Cardinality(AtLabels(BeforeCount))
           m == Cardinality(AtLabels(BeforeCount))'
           u == Cardinality(AtLabels(Underway))
           v == Cardinality(AtLabels(Underway))'
           found == {"window", "count", "threshold", "ban"}
<1>1. /\ pc \in [CPUs -> DropLabels]
      /\ todo \in [CPUs -> SUBSET {"anomalies", "start"}]
      /\ packets \in Nat /\ dropped \in Nat
      /\ n <= packets /\ dropped + u <= packets
  BY RaceConstants DEF DropTyped
<1>2. n \in Nat /\ m \in Nat /\ u \in Nat /\ v \in Nat
  <2>1. /\ AtLabels(BeforeCount) \in SUBSET CPUs
        /\ AtLabels(BeforeCount)' \in SUBSET CPUs
        /\ AtLabels(Underway) \in SUBSET CPUs
        /\ AtLabels(Underway)' \in SUBSET CPUs
    BY DEF AtLabels
  <2> QED BY <2>1, CountingCPUs
<1>3. /\ clock' = clock /\ HealthType' = HealthType
      /\ at[cpu] \in 0..clock /\ clock \in Nat /\ HealthBlacklist \in Nat
  <2>1. clock' = clock
    BY DropStepInstants
  <2>2. at[cpu] \in 0..clock /\ clock \in Nat /\ HealthBlacklist \in Nat
    BY RaceConstants DEF Instants
  <2> QED BY <2>1, <2>2 DEF HealthType
<1>4. /\ bucket' = NoBucket /\ copy' = [c \in CPUs |-> Blank]
      /\ accepted' = 0
  BY DEF DropTyped, raceVars
<1>5. /\ health # NoEntry => HealthCounted
      /\ pc[cpu] \in found => HealthCounted
      /\ (\E c \in CPUs : pc[c] \in found) => HealthCounted
  BY DEF DropTyped
<1>6. HealthCounted =>
        /\ health \in HealthType /\ health.anomalies \in Nat
        /\ health.anomalies + n <= packets
  BY DEF HealthCounted, HealthType
<1>7. HealthCounted' <=> /\ health' \in HealthType
                         /\ health'.anomalies + m <= packets'
  BY <1>3 DEF HealthCounted, HealthType
<1>8. ASSUME NEW l \in DropLabels, pc' = [pc EXCEPT ![cpu] = l]
      PROVE  /\ pc' \in [CPUs -> DropLabels]
             /\ m + (IF pc[cpu] \in BeforeCount THEN 1 ELSE 0)
                  = n + (IF l \in BeforeCount THEN 1 ELSE 0)
             /\ v + (IF pc[cpu] \in Underway THEN 1 ELSE 0)
                  = u + (IF l \in Underway THEN 1 ELSE 0)
  <2>1. pc' \in [CPUs -> DropLabels]
    BY <1>1, <1>8
  <2> QED BY <1>1, <1>8, <2>1, LabelCount
<1> HIDE DEF n, m, u, v
<1>9. ASSUME pc' \in [CPUs -> DropLabels],
             todo' \in [CPUs -> SUBSET {"anomalies", "start"}],
             \A c \in CPUs : todo'[c] # {} => pc'[c] = "count",
             m <= packets', dropped' \in Nat, dropped' + v <= packets',
             \/ health' # NoEntry \/ \E c \in CPUs : pc'[c] \in found
             => HealthCounted'
      PROVE  DropTyped'
  BY <1>4, <1>9 DEF DropTyped, m, v
(* A step that leaves the entry and the fields to be stored alone. *)
<1>10. ASSUME NEW l \in DropLabels, pc' = [pc EXCEPT ![cpu] = l],
              health' = health, todo' = todo, todo[cpu] = {},
              m + packets <= n + packets', packets' \in Nat,
              dropped' \in Nat, dropped' + v <= packets',
              l \in found => HealthCounted, packets <= packets'
       PROVE  DropTyped'
  <2>1. pc' \in [CPUs -> DropLabels]
    BY <1>8, <1>10
  <2>2. m + packets <= n + packets' /\ packets' \in Nat
    BY <1>10
  <2>3. \A a \in Nat : a + n <= packets => a + m <= packets'
    <3>1. \A b, c, d, e, a \in Nat :
            b + c <= d + e /\ a + d <= c => a + b <= e
      OBVIOUS
    <3> QED BY <1>1, <1>2, <2>2, <3>1
  <2>4. m <= packets'
    <3>1. 0 + n <= packets
      BY <1>1, <1>2
    <3>2. 0 + m <= packets'
      BY <2>3, <3>1
    <3> QED BY <1>2, <3>2
  <2>5. HealthCounted => HealthCounted'
    <3> SUFFICES ASSUME HealthCounted PROVE HealthCounted'
      OBVIOUS
    <3>1. /\ health \in HealthType /\ health.anomalies \in Nat
          /\ health.anomalies + n <= packets
      BY <1>6
    <3>2. health' = health /\ health' \in HealthType
      BY <1>10, <3>1
    <3>3. health.anomalies + m <= packets'
      BY <2>3, <3>1
    <3> QED BY <1>7, <3>2, <3>3
  <2>6. (\E c \in CPUs : pc'[c] \in found) => HealthCounted
    BY <1>1, <1>5, <1>10
  <2>7. \A c \in CPUs : todo'[c] # {} => pc'[c] = "count"
    BY <1>1, <1>10 DEF DropTyped
  <2>8. \/ health' # NoEntry \/ \E c \in CPUs : pc'[c] \in found
        => HealthCounted'
    BY <1>5, <1>10, <2>5, <2>6
  <2>9. /\ todo' \in [CPUs -> SUBSET {"anomalies", "start"}]
        /\ dropped' \in Nat /\ dropped' + v <= packets'
    BY <1>1, <1>10
  <2> QED BY <1>9, <2>1, <2>7, <2>4, <2>8, <2>9
<1>11. CASE Malformed(cpu) \/ OtherDrop(cpu)
  <2>1. PICK l \in {"healthy", "drop", "unknown"} :
          /\ pc[cpu] = "idle" /\ pc' = [pc EXCEPT ![cpu] = l]
          /\ packets' = packets + 1 /\ packets < MaxPackets
          /\ todo' = todo /\ health' = health /\ dropped' = dropped
    BY <1>11 DEF Malformed, OtherDrop, Arrive, GoFrom, Goto, overlapVars
  <2>2. l \in DropLabels /\ todo[cpu] = {}
    BY <2>1 DEF DropLabels, DropTyped
  <2>3. m + 0 = n + (IF l \in BeforeCount THEN 1 ELSE 0) /\ v + 0 = u + 1
    <3>1. /\ pc[cpu] \notin BeforeCount /\ pc[cpu] \notin Underway
          /\ l \in Underway
      BY <2>1 DEF BeforeCount, Underway, DropLabels
    <3> QED BY <1>8, <2>1, <2>2, <3>1
  <2>4. m + packets <= n + packets' /\ dropped' + v <= packets'
    BY <1>1, <1>2, <2>1, <2>3
  <2>5. /\ packets' \in 0..MaxPackets /\ packets' \in Nat
        /\ packets <= packets' /\ dropped' \in Nat
    BY <1>1, <2>1, RaceConstants
  <2>6. l \notin found
    BY <2>1
  <2>7. DropTyped'
    BY <1>10, <2>1, <2>2, <2>4, <2>5, <2>6
  <2> QED BY <2>5, <2>7
(* A step within a packet, with nothing counted. *)
<1>12. ASSUME NEW l \in Underway, pc' = [pc EXCEPT ![cpu] = l],
              pc[cpu] \in Underway, health' = health, todo' = todo,
              todo[cpu] = {}, dropped' = dropped, packets' = packets,
              l \in BeforeCount => pc[cpu] \in BeforeCount,
              l \in found => HealthCounted
       PROVE  DropTyped' /\ packets' \in 0..MaxPackets
  <2>1. l \in DropLabels
    BY DEF Underway
  <2>2. /\ m + (IF pc[cpu] \in BeforeCount THEN 1 ELSE 0)
             = n + (IF l \in BeforeCount THEN 1 ELSE 0)
        /\ v + 1 = u + 1
    BY <1>8, <1>12, <2>1
  <2>3. l \in BeforeCount => pc[cpu] \in BeforeCount
    BY <1>12
  <2>4. m <= n /\ v = u
    BY <1>2, <2>2, <2>3
  <2>5. packets' = packets /\ dropped' = dropped
    BY <1>12
  <2>6. /\ m + packets <= n + packets' /\ packets' \in Nat
        /\ dropped' \in Nat /\ dropped' + v <= packets'
        /\ packets <= packets'
    BY <1>1, <1>2, <2>4, <2>5
  <2>7. DropTyped'
    BY <1>10, <1>12, <2>1, <2>6
  <2> QED BY <2>5, <2>7
<1>13. CASE Unhealthy(cpu) \/ Healthy(cpu)
  <2>1. PICK l \in {"drop", "find"} :
          /\ pc[cpu] = "healthy" /\ pc' = [pc EXCEPT ![cpu] = l]
          /\ packets' = packets /\ todo' = todo /\ health' = health
          /\ dropped' = dropped
    BY <1>13 DEF Unhealthy, Healthy, Local, GoFrom, Goto
  <2>2. /\ l \in Underway /\ pc[cpu] \in Underway /\ pc[cpu] \in BeforeCount
        /\ l \notin found
    BY <2>1 DEF Underway, BeforeCount, DropLabels
  <2>3. todo[cpu] = {}
    BY <2>1 DEF DropTyped
  <2> QED BY <1>12, <2>1, <2>2, <2>3
<1>14. CASE LookupHealth(cpu)
  <2>1. PICK l \in {"open", "window"} :
          /\ pc[cpu] = "find" /\ pc' = [pc EXCEPT ![cpu] = l]
          /\ packets' = packets /\ todo' = todo /\ health' = health
          /\ dropped' = dropped /\ (l = "window" => health # NoEntry)
    BY <1>14 DEF LookupHealth, Local, GoFrom, Goto
  <2>2. /\ l \in Underway /\ pc[cpu] \in Underway /\ pc[cpu] \in BeforeCount
        /\ l \in found => HealthCounted
    BY <1>5, <2>1 DEF Underway, BeforeCount, DropLabels
  <2>3. todo[cpu] = {}
    BY <2>1 DEF DropTyped
  <2> QED BY <1>12, <2>1, <2>2, <2>3
<1>15. CASE BelowThreshold(cpu) \/ AtThreshold(cpu)
  <2>1. PICK l \in {"drop", "ban"} :
          /\ pc[cpu] = "threshold" /\ pc' = [pc EXCEPT ![cpu] = l]
          /\ packets' = packets /\ todo' = todo /\ health' = health
          /\ dropped' = dropped
    BY <1>15 DEF BelowThreshold, AtThreshold, Local, GoFrom, Goto
  <2>2. /\ l \in Underway /\ pc[cpu] \in Underway /\ l \notin BeforeCount
        /\ HealthCounted
    BY <1>5, <2>1 DEF Underway, BeforeCount, DropLabels
  <2>3. todo[cpu] = {}
    BY <2>1 DEF DropTyped
  <2> QED BY <1>12, <2>1, <2>2, <2>3
<1>16. CASE LookupHistory(cpu)
  <2>1. PICK l \in {"enter", "add", "idle"} :
          /\ pc[cpu] \in {"drop", "unknown"} /\ pc' = [pc EXCEPT ![cpu] = l]
          /\ packets' = packets /\ todo' = todo /\ health' = health
          /\ dropped' = dropped
    BY <1>16 DEF LookupHistory, Local, GoFrom, Goto
  <2>2. /\ l \in DropLabels /\ l \notin BeforeCount /\ l \notin found
        /\ pc[cpu] \in Underway /\ pc[cpu] \notin BeforeCount
    BY <2>1 DEF Underway, BeforeCount, DropLabels
  <2>3. todo[cpu] = {}
    BY <2>1 DEF DropTyped
  <2>4. m = n /\ v <= u
    <3>1. m + 0 = n + 0 /\ v + 1 = u + (IF l \in Underway THEN 1 ELSE 0)
      BY <1>8, <2>1, <2>2
    <3> QED BY <3>1, <1>2
  <2>5. /\ m + packets <= n + packets' /\ packets' \in Nat
        /\ dropped' \in Nat /\ dropped' + v <= packets'
        /\ packets <= packets'
    BY <1>1, <1>2, <2>1, <2>4
  <2>6. DropTyped'
    BY <1>10, <2>1, <2>2, <2>3, <2>5
  <2> QED BY <2>1, <2>6
<1>17. CASE EnterHistory(cpu) \/ AddToHistory(cpu)
  <2>1. /\ pc[cpu] \in {"enter", "add"} /\ pc' = [pc EXCEPT ![cpu] = "idle"]
        /\ packets' = packets /\ todo' = todo /\ health' = health
        /\ dropped' = dropped + 1
    BY <1>17 DEF EnterHistory, AddToHistory, Dropping, GoFrom, Goto
  <2>2. todo[cpu] = {} /\ "idle" \in DropLabels
    BY <2>1 DEF DropTyped, DropLabels
  <2>3. m + 0 = n + 0 /\ v + 1 = u + 0
    <3>1. /\ pc[cpu] \notin BeforeCount /\ pc[cpu] \in Underway
          /\ "idle" \notin Underway /\ "idle" \notin BeforeCount
      BY <2>1 DEF BeforeCount, Underway, DropLabels
    <3> QED BY <1>8, <2>1, <2>2, <3>1
  <2>4. m + packets <= n + packets' /\ dropped' + v <= packets'
    BY <1>1, <1>2, <2>1, <2>3
  <2>5. packets' \in Nat /\ packets <= packets' /\ dropped' \in Nat
    BY <1>1, <2>1
  <2>6. "idle" \notin found
    OBVIOUS
  <2>7. DropTyped'
    BY <1>10, <2>1, <2>2, <2>4, <2>5, <2>6
  <2> QED BY <2>1, <2>7
(* A step that stores into the entry. *)
<1>18. ASSUME NEW l \in Underway, pc' = [pc EXCEPT ![cpu] = l],
              pc[cpu] \in Underway,
              pc[cpu] \in BeforeCount \/ l \notin BeforeCount,
              dropped' = dropped, packets' = packets,
              todo' \in [CPUs -> SUBSET {"anomalies", "start"}],
              \A c \in CPUs : todo'[c] # {} => pc'[c] = "count",
              HealthCounted'
       PROVE  DropTyped' /\ packets' \in 0..MaxPackets
  <2>1. l \in DropLabels
    BY DEF Underway
  <2>2. /\ m + (IF pc[cpu] \in BeforeCount THEN 1 ELSE 0)
             = n + (IF l \in BeforeCount THEN 1 ELSE 0)
        /\ v + 1 = u + 1 /\ pc' \in [CPUs -> DropLabels]
    BY <1>8, <1>18, <2>1
  <2>3. l \in BeforeCount => pc[cpu] \in BeforeCount
    BY <1>18
  <2>4. m <= n /\ v = u
    BY <1>2, <2>2, <2>3
  <2>5. packets' = packets /\ dropped' = dropped
    BY <1>18
  <2>6. m <= packets' /\ dropped' \in Nat /\ dropped' + v <= packets'
    BY <1>1, <1>2, <2>4, <2>5
  <2>7. DropTyped'
    BY <1>9, <1>18, <2>2, <2>6
  <2> QED BY <2>5, <2>7
<1>19. CASE InsertHealth(cpu)
  <2>1. /\ pc[cpu] = "open" /\ pc' = [pc EXCEPT ![cpu] = "drop"]
        /\ packets' = packets /\ todo' = todo /\ dropped' = dropped
    BY <1>19 DEF InsertHealth, GoFrom, Goto
  <2>2. todo[cpu] = {}
    BY <2>1 DEF DropTyped
  <2>3. /\ "drop" \in Underway /\ pc[cpu] \in Underway
        /\ pc[cpu] \in BeforeCount /\ "drop" \notin BeforeCount
    BY <2>1 DEF Underway, BeforeCount, DropLabels
  <2>4. CASE health # NoEntry
    <3>1. health' = health
      BY <1>19, <2>4 DEF InsertHealth
    <3> QED BY <1>12, <2>1, <2>2, <2>3, <3>1
  <2>5. CASE health = NoEntry
    <3>1. health' = [anomalies |-> 1, start |-> at[cpu],
                     until |-> IF HealthThreshold <= 1
                               THEN at[cpu] + HealthBlacklist ELSE 0]
      BY <1>19, <2>5 DEF InsertHealth
    <3>2. health' \in HealthType /\ health'.anomalies = 1
      BY <1>3, <3>1 DEF HealthType
    <3>3. m + 1 = n + 0
      <4>1. "drop" \in DropLabels
        BY DEF DropLabels
      <4> QED BY <1>8, <2>1, <2>3, <4>1
    <3>4. HealthCounted'
      BY <1>1, <1>2, <1>7, <2>1, <3>2, <3>3
    <3>5. \A c \in CPUs : todo'[c] # {} => pc'[c] = "count"
      BY <1>1, <2>1, <2>2 DEF DropTyped
    <3> QED BY <1>1, <1>18, <2>1, <2>3, <3>4, <3>5
  <2> QED BY <2>4, <2>5
<1>20. CASE Window(cpu)
  <2>1. /\ pc[cpu] = "window" /\ pc' = [pc EXCEPT ![cpu] = "count"]
        /\ packets' = packets /\ dropped' = dropped /\ health' = health
        /\ \E S \in SUBSET {"anomalies", "start"} :
             todo' = [todo EXCEPT ![cpu] = S]
    BY <1>20 DEF Window, Local, GoFrom, Goto
  <2>2. todo' \in [CPUs -> SUBSET {"anomalies", "start"}]
    BY <1>1, <2>1
  <2>3. \A c \in CPUs : todo'[c] # {} => pc'[c] = "count"
    BY <1>1, <2>1 DEF DropTyped
  <2>4. /\ "count" \in Underway /\ pc[cpu] \in Underway
        /\ pc[cpu] \in BeforeCount /\ "count" \in BeforeCount
        /\ "count" \in DropLabels
    BY <2>1 DEF Underway, BeforeCount, DropLabels
  <2>5. m + 1 = n + 1
    BY <1>8, <2>1, <2>4
  <2>6. HealthCounted'
    BY <1>1, <1>2, <1>5, <1>6, <1>7, <2>1, <2>5
  <2> QED BY <1>18, <2>1, <2>2, <2>3, <2>4, <2>6
<1>21. ASSUME NEW field \in {"anomalies", "start"}, NewWindow(cpu, field)
       PROVE  DropTyped' /\ packets' \in 0..MaxPackets
  <2>1. /\ field \in todo[cpu] /\ todo' = [todo EXCEPT ![cpu] = @ \ {field}]
        /\ health' = [health EXCEPT ![field] =
                        IF field = "anomalies" THEN 0 ELSE at[cpu]]
        /\ pc' = pc /\ packets' = packets /\ dropped' = dropped
    BY <1>21 DEF NewWindow
  <2>2. pc[cpu] = "count"
    BY <2>1 DEF DropTyped
  <2>3. HealthCounted
    BY <1>5, <2>2
  <2>4. /\ health \in HealthType /\ health.anomalies \in Nat
        /\ health.anomalies + n <= packets
    BY <1>6, <2>3
  <2>5. health' \in HealthType /\ health'.anomalies \in {0, health.anomalies}
    BY <1>3, <2>1, <2>4 DEF HealthType
  <2>6. m = n /\ v = u
    BY <2>1 DEF m, n, u, v, AtLabels
  <2>7. HealthCounted'
    BY <1>1, <1>2, <1>7, <2>1, <2>4, <2>5, <2>6
  <2>8. todo' \in [CPUs -> SUBSET {"anomalies", "start"}]
    BY <1>1, <2>1
  <2>9. \A c \in CPUs : todo'[c] # {} => pc'[c] = "count"
    BY <1>1, <2>1, <2>2 DEF DropTyped
  <2> QED BY <1>1, <1>9, <2>1, <2>6, <2>7, <2>8, <2>9
<1>22. CASE CountAnomaly(cpu)
  <2>1. /\ pc[cpu] = "count" /\ pc' = [pc EXCEPT ![cpu] = "threshold"]
        /\ todo[cpu] = {} /\ todo' = todo
        /\ packets' = packets /\ dropped' = dropped
        /\ health' = [health EXCEPT !.anomalies = @ + 1]
    BY <1>22 DEF CountAnomaly, GoFrom, Goto
  <2>2. /\ "threshold" \in Underway /\ pc[cpu] \in Underway
        /\ pc[cpu] \in BeforeCount /\ "threshold" \notin BeforeCount
        /\ "threshold" \in DropLabels
    BY <2>1 DEF Underway, BeforeCount, DropLabels
  <2>3. /\ health \in HealthType /\ health.anomalies \in Nat
        /\ health.anomalies + n <= packets
    BY <1>5, <1>6, <2>1
  <2>4. m + 1 = n + 0
    BY <1>8, <2>1, <2>2
  <2>5. health' \in HealthType /\ health'.anomalies = health.anomalies + 1
    BY <2>1, <2>3 DEF HealthType
  <2>6. HealthCounted'
    BY <1>1, <1>2, <1>7, <2>1, <2>3, <2>4, <2>5
  <2>7. \A c \in CPUs : todo'[c] # {} => pc'[c] = "count"
    BY <1>1, <2>1 DEF DropTyped
  <2> QED BY <1>1, <1>18, <2>1, <2>2, <2>6, <2>7
<1>23. CASE Blacklist(cpu)
  <2>1. /\ pc[cpu] = "ban" /\ pc' = [pc EXCEPT ![cpu] = "drop"]
        /\ todo' = todo /\ packets' = packets /\ dropped' = dropped
        /\ health' = [health EXCEPT !.until = at[cpu] + HealthBlacklist]
    BY <1>23 DEF Blacklist, GoFrom, Goto
  <2>2. /\ "drop" \in Underway /\ pc[cpu] \in Underway
        /\ "drop" \notin BeforeCount /\ pc[cpu] \notin BeforeCount
        /\ "drop" \in DropLabels
    BY <2>1 DEF Underway, BeforeCount, DropLabels
  <2>3. /\ health \in HealthType /\ health.anomalies \in Nat
        /\ health.anomalies + n <= packets
    BY <1>5, <1>6, <2>1
  <2>4. m + 0 = n + 0
    BY <1>8, <2>1, <2>2
  <2>5. health' \in HealthType /\ health'.anomalies = health.anomalies
    BY <1>3, <2>1, <2>3 DEF HealthType
  <2>6. HealthCounted'
    BY <1>1, <1>2, <1>7, <2>1, <2>3, <2>4, <2>5
  <2>7. \A c \in CPUs : todo'[c] # {} => pc'[c] = "count"
    BY <1>1, <2>1 DEF DropTyped
  <2> QED BY <1>1, <1>18, <2>1, <2>2, <2>6, <2>7
<1> QED BY <1>11, <1>13, <1>14, <1>15, <1>16, <1>17, <1>19, <1>20, <1>21,
           <1>22, <1>23 DEF DropStep

Typed ==
  /\ passing \in BOOLEAN /\ udpCPUs \subseteq CPUs
  /\ packets \in 0..MaxPackets
  /\ passing => PassTyped
  /\ ~passing => DropTyped

LEMMA TypedInit == Init => Typed
<1> SUFFICES ASSUME Init PROVE Typed
  OBVIOUS
<1>1. AtLabels(BeforeTake) = {} /\ AtLabels(BeforeCount) = {}
      /\ AtLabels(Underway) = {}
  BY DEF Init, StepsInit, AtLabels, BeforeTake, BeforeCount, Underway
<1>2. Cardinality({}) = 0
  BY FS_EmptySet
<1>3. /\ accepted = 0 /\ packets = 0 /\ dropped = 0
      /\ bucket = NoBucket /\ health = NoEntry
      /\ pc = [cpu \in CPUs |-> "idle"] /\ todo = [cpu \in CPUs |-> {}]
      /\ copy = [cpu \in CPUs |-> Blank]
      /\ passing \in BOOLEAN /\ udpCPUs \subseteq CPUs /\ clock = 0
  BY DEF Init, StepsInit, RaceInit, OverlapInit
<1>4. Blank \in CopyType
  BY <1>3, RaceConstants DEF Blank, CopyType
<1>5. PassTyped
  BY <1>1, <1>2, <1>3, <1>4 DEF PassTyped, RaceLabels
<1>6. DropTyped
  BY <1>1, <1>2, <1>3 DEF DropTyped, DropLabels
<1> QED BY <1>3, <1>5, <1>6, RaceConstants DEF Typed

(* What was chosen at the start stays: the packets and where UDP goes. *)
LEMMA FixedChoices == [Next]_vars => UNCHANGED <<passing, udpCPUs>>
<1>1. ASSUME NEW cpu \in CPUs, RaceStep(cpu) PROVE udpCPUs' = udpCPUs
  BY <1>1 DEF RaceStep, TcpSegment, UdpPacket, Begin, raceVars, Refresh,
              UdpExpired, UdpLimited, Drop, Return, world, UdpFresh,
              LookupMisses, LookupHits, Insert, Load, TakeToken,
              StoreTokens, StoreLast
<1> QED BY <1>1 DEF Next, vars, raceVars

LEMMA TypedNext == Instants /\ Typed /\ [Next]_vars => Typed'
<1> SUFFICES ASSUME Instants, Typed, [Next]_vars PROVE Typed'
  OBVIOUS
<1>1. Instants'
  BY InstantsNext
<1>2. passing' = passing /\ udpCPUs' = udpCPUs
  BY FixedChoices
<1>3. ASSUME NEW cpu \in CPUs, passing, RaceStep(cpu), UNCHANGED overlapVars
      PROVE  Typed'
  BY <1>1, <1>2, <1>3, PassTypedKept DEF Typed
<1>4. ASSUME NEW cpu \in CPUs, ~passing, DropStep(cpu), UNCHANGED raceVars
      PROVE  Typed'
  BY <1>1, <1>2, <1>4, DropTypedKept DEF Typed
<1>5. CASE \/ Tick /\ UNCHANGED <<raceVars, overlapVars>>
           \/ UNCHANGED vars
  <2>1. /\ clock' \in {clock, clock + 1}
        /\ UNCHANGED <<pc, at, todo, packets, raceVars, overlapVars>>
    BY <1>5 DEF Tick, vars, cpuVars
  <2>2. clock \in Nat /\ HealthBlacklist \in Nat
    BY RaceConstants DEF Instants
  <2>3. CopyType \subseteq CopyType' /\ HealthType \subseteq HealthType'
    BY <2>1, <2>2 DEF CopyType, HealthType
  <2>4. PassTyped => PassTyped'
    BY <2>1, <2>3 DEF PassTyped, AtLabels, BucketType, raceVars, overlapVars
  <2>5. DropTyped => DropTyped'
    BY <2>1, <2>3 DEF DropTyped, HealthCounted, AtLabels, raceVars,
                      overlapVars
  <2> QED BY <1>2, <2>1, <2>4, <2>5 DEF Typed
<1> QED BY <1>3, <1>4, <1>5 DEF Next

(* Whatever the CPUs overwrite, a bucket never holds burst tokens or more, *)
(* the instants stored are u64, and nothing is let through, recorded or    *)
(* counted as an anomaly more often than there were packets.               *)
THEOREM TypeCorrect == Spec => []TypeOK
<1> DEFINE I == Instants /\ Typed /\ Records
<1>1. Init => I
  BY InstantsInit, TypedInit, RecordsInit
<1>2. I /\ [Next]_vars => I'
  BY InstantsNext, TypedNext, RecordsNext
<1>3. I => TypeOK
  <2> SUFFICES ASSUME I PROVE TypeOK
    OBVIOUS
  <2>1. /\ clock \in 0..MaxTime /\ at \in [CPUs -> 0..clock]
        /\ whitelist \in 0..clock /\ lastActive \in 0..clock
        /\ clock \in Nat
    BY RaceConstants DEF Instants
  <2>2. packets \in 0..MaxPackets /\ udpCPUs \subseteq CPUs /\ packets \in Nat
    BY RaceConstants DEF Typed
  <2>3. recorded = NoEntry \/ recorded \in 0..dropped
    BY DEF Records, Outstanding
  <2>4. CASE passing
    <3>1. PassTyped
      BY <2>4 DEF Typed
    <3>2. Cardinality(AtLabels(BeforeTake)) \in Nat
      BY CountingCPUs DEF AtLabels
    <3>3. /\ accepted \in 0..packets /\ dropped \in 0..packets
          /\ dropped = 0
      BY <2>2, <3>1, <3>2 DEF PassTyped
    <3>4. /\ pc \in [CPUs -> RaceLabels \cup DropLabels]
          /\ todo \in [CPUs -> SUBSET (Fields \cup {"anomalies", "start"})]
          /\ bucket = NoBucket \/ bucket \in BucketType
          /\ copy \in [CPUs -> CopyType] /\ health = NoEntry
      BY <3>1 DEF PassTyped
    <3>5. recorded = NoEntry \/ recorded \in 0..packets
      BY <2>2, <2>3, <3>3
    <3> QED BY <2>1, <2>2, <3>3, <3>4, <3>5 DEF TypeOK, BucketType, CopyType
  <2>5. CASE ~passing
    <3>1. DropTyped
      BY <2>5 DEF Typed
    <3>2. /\ Cardinality(AtLabels(BeforeCount)) \in Nat
          /\ Cardinality(AtLabels(Underway)) \in Nat
      BY CountingCPUs DEF AtLabels
    <3>3. dropped \in 0..packets /\ accepted \in 0..packets
      BY <2>2, <3>1, <3>2 DEF DropTyped
    <3>4. Blank \in CopyType
      BY <2>1, RaceConstants DEF Blank, CopyType
    <3>5. /\ pc \in [CPUs -> RaceLabels \cup DropLabels]
          /\ todo \in [CPUs -> SUBSET (Fields \cup {"anomalies", "start"})]
          /\ bucket = NoBucket /\ copy \in [CPUs -> CopyType]
      BY <3>1, <3>4 DEF DropTyped
    <3>6. \/ health = NoEntry
          \/ health \in [anomalies : 0..packets, start : 0..clock,
                         until : 0..(clock + HealthBlacklist)]
      <4>1. SUFFICES ASSUME health # NoEntry
                     PROVE  health \in [anomalies : 0..packets,
                                        start : 0..clock,
                                        until : 0..(clock + HealthBlacklist)]
        OBVIOUS
      <4>2. /\ health \in HealthType
            /\ health.anomalies + Cardinality(AtLabels(BeforeCount))
                 <= packets
        BY <3>1, <4>1 DEF DropTyped, HealthCounted
      <4>3. health.anomalies \in 0..packets
        BY <2>2, <3>2, <4>2 DEF HealthType
      <4> QED BY <4>2, <4>3 DEF HealthType
    <3>7. recorded = NoEntry \/ recorded \in 0..packets
      BY <2>2, <2>3, <3>3
    <3> QED BY <2>1, <2>2, <3>3, <3>5, <3>6, <3>7 DEF TypeOK, CopyType
  <2> QED BY <2>4, <2>5
<1> QED BY <1>1, <1>2, <1>3, PTL DEF Spec
------------------------------------------------------------------------------
(* What one CPU lets through *)

(* The entry as it will be once the handler on a CPU has stored the fields *)
(* it has yet to store.                                                    *)
Owes(cpu, field) == pc[cpu] = "refresh" /\ field \in todo[cpu]

TokensOnce(cpu) == IF Owes(cpu, "tokens") THEN copy[cpu].tokens
                   ELSE bucket.tokens

LastOnce(cpu) == IF Owes(cpu, "last")
                 THEN copy[cpu].last + Earned(copy[cpu]) * Period
                 ELSE bucket.last

(* Nobody stores into the entry between the loads and the stores of the    *)
(* one CPU that handles UDP, and what it has let through is paid for: by   *)
(* the burst less what is left of it, or by time up to `last`.             *)
PaidFor(cpu) ==
  /\ bucket.last <= clock
  /\ pc[cpu] = "load" =>
       /\ bucket.last <= copy[cpu].now
       /\ \A field \in Fields \ todo[cpu] : copy[cpu][field] = bucket[field]
  /\ Owes(cpu, "last") => /\ bucket.last = copy[cpu].last
                          /\ copy[cpu].last <= copy[cpu].now
  /\ accepted + TokensOnce(cpu) <= Burst + LastOnce(cpu) \div Period

Alone(cpu) ==
  /\ \A other \in CPUs \ {cpu} :
       pc[other] \in {"idle", "refresh"} /\ todo[other] = {}
  /\ pc[cpu] = "insert" => bucket = NoBucket
  /\ bucket = NoBucket => accepted = 0
  /\ bucket # NoBucket => PaidFor(cpu)

Charged ==
  \A cpu \in CPUs : passing /\ udpCPUs = {cpu} => Alone(cpu)

LEMMA DivMonotone ==
  ASSUME NEW a \in Nat, NEW b \in Nat, NEW p \in Nat \ {0}, a <= b
  PROVE  a \div p <= b \div p
  BY SMT

LEMMA DivShift ==
  ASSUME NEW a \in Nat, NEW e \in Nat, NEW p \in Nat \ {0}
  PROVE  (a + e * p) \div p = a \div p + e
  BY SMT

LEMMA WholePeriods ==
  ASSUME NEW d \in Nat, NEW p \in Nat \ {0}
  PROVE  d \div p \in Nat /\ (d \div p) * p \in Nat /\ (d \div p) * p <= d
         /\ d \div p <= d
  BY SMT

(* Nothing wraps in the copy of the one CPU that handles UDP: what it has  *)
(* earned is the whole periods since `last`.                               *)
LEMMA EarnedInOrder ==
  ASSUME Instants, NEW c \in CopyType, c.last <= c.now
  PROVE  LET e == Earned(c)
         IN  /\ e \in Nat /\ c.last + e * Period \in 0..c.now
             /\ (c.last + e * Period) % Wrap = c.last + e * Period
             /\ Usable(c) <= c.tokens + e
             /\ (c.last + e * Period) \div Period = c.last \div Period + e
<1> DEFINE d == c.now - c.last
           e == Earned(c)
<1>1. /\ c.last \in Nat /\ c.now \in Nat /\ c.now <= MaxTime
      /\ c.tokens \in 0..(Burst - 1)
  BY RaceConstants DEF CopyType, Instants
<1>2. Since(c.last, c.now) = d /\ d \in Nat
  BY <1>1, SinceIsDifference, RaceConstants
<1>3. e = d \div Period
  BY <1>2 DEF Earned
<1>4. d <= MaxTime
  BY <1>1, RaceConstants
<1> HIDE DEF e
<1>5. /\ e \in Nat /\ e * Period \in Nat /\ e * Period <= d /\ e <= d
  BY <1>2, <1>3, WholePeriods, RaceConstants
<1>6. c.last + e * Period \in 0..c.now
  BY <1>1, <1>5
<1>7. \A x \in 0..(Wrap - 1) : x % Wrap = x
  BY RaceConstants
<1>8. (c.last + e * Period) % Wrap = c.last + e * Period
  BY <1>1, <1>6, <1>7, RaceConstants
<1>9. (c.tokens + e) % Wrap = c.tokens + e
  BY <1>1, <1>4, <1>5, <1>7, <1>2, RaceConstants
<1>10. Usable(c) <= c.tokens + e
  BY <1>1, <1>5, <1>9, RaceConstants DEF Usable, e
<1>11. (c.last + e * Period) \div Period = c.last \div Period + e
  BY <1>1, <1>5, DivShift, RaceConstants
<1> QED BY <1>5, <1>6, <1>8, <1>10, <1>11 DEF e

(* The step of a CPU that handles no UDP. *)
LEMMA OthersLeaveBucket ==
  ASSUME PassTyped, NEW u \in CPUs, udpCPUs = {u}, Alone(u),
         NEW cpu \in CPUs \ {u}, RaceStep(cpu)
  PROVE  /\ UNCHANGED <<clock, todo, bucket, accepted>>
         /\ \E l \in {"idle", "refresh"} : pc' = [pc EXCEPT ![cpu] = l]
         /\ copy' = copy \/ copy' = [copy EXCEPT ![cpu] = Blank]
<1>1. pc[cpu] \in {"idle", "refresh"} /\ todo[cpu] = {} /\ cpu \notin udpCPUs
  BY DEF Alone
<1>2. CASE TcpSegment(cpu)
  BY <1>2 DEF TcpSegment, Begin, Arrive, GoFrom, Goto, raceVars
<1>3. CASE Refresh(cpu)
  BY <1>3 DEF Refresh, Return, Goto, world
<1>4. ~UdpPacket(cpu) /\ ~UdpExpired(cpu) /\ ~UdpFresh(cpu)
  BY <1>1 DEF UdpPacket, UdpExpired, UdpFresh
<1>5. ~LookupMisses(cpu) /\ ~LookupHits(cpu) /\ ~Insert(cpu)
  BY <1>1 DEF LookupMisses, LookupHits, Insert
<1>6. /\ \A field \in Fields : ~Load(cpu, field)
      /\ ~UdpLimited(cpu) /\ ~TakeToken(cpu)
  BY <1>1 DEF Load, UdpLimited, TakeToken, Loaded
<1>7. ~StoreTokens(cpu) /\ ~StoreLast(cpu)
  BY <1>1 DEF StoreTokens, StoreLast
<1> QED BY <1>2, <1>3, <1>4, <1>5, <1>6, <1>7 DEF RaceStep

LEMMA AloneKept ==
  ASSUME Instants, PassTyped, NEW u \in CPUs, udpCPUs = {u}, Alone(u),
         NEW cpu \in CPUs, RaceStep(cpu)
  PROVE  Alone(u)'
<1>1. /\ clock' = clock /\ clock \in 0..MaxTime
      /\ pc \in [CPUs -> RaceLabels] /\ todo \in [CPUs -> SUBSET Fields]
      /\ copy \in [CPUs -> CopyType] /\ copy[u] \in CopyType
      /\ accepted \in Nat
      /\ bucket # NoBucket => bucket \in BucketType
      /\ clock \in Nat /\ MaxTime \in Nat /\ Period \in Nat \ {0}
      /\ Burst \in Nat \ {0}
  BY RaceStepInstants, RaceConstants DEF PassTyped, Instants
<1>2. /\ \A other \in CPUs \ {u} :
           pc[other] \in {"idle", "refresh"} /\ todo[other] = {}
      /\ pc[u] = "insert" => bucket = NoBucket
      /\ bucket = NoBucket => accepted = 0
      /\ bucket # NoBucket => PaidFor(u)
  BY DEF Alone
<1>3. CASE cpu # u
  <2>1. /\ UNCHANGED <<clock, todo, bucket, accepted>>
        /\ \E l \in {"idle", "refresh"} : pc' = [pc EXCEPT ![cpu] = l]
        /\ copy' = copy \/ copy' = [copy EXCEPT ![cpu] = Blank]
    BY <1>3, OthersLeaveBucket
  <2>2. pc'[u] = pc[u] /\ copy'[u] = copy[u] /\ todo'[u] = todo[u]
    BY <1>1, <1>3, <2>1
  <2>3. PaidFor(u) => PaidFor(u)'
    BY <2>1, <2>2 DEF PaidFor, TokensOnce, LastOnce, Owes, Earned
  <2> QED BY <1>1, <1>2, <2>1, <2>2, <2>3 DEF Alone
<1>4. ASSUME \E l : pc' = [pc EXCEPT ![u] = l],
             \E S : todo' = [todo EXCEPT ![u] = S],
             pc'[u] = "insert" => bucket' = NoBucket,
             bucket' = NoBucket => accepted' = 0,
             bucket' # NoBucket => PaidFor(u)'
      PROVE  Alone(u)'
  BY <1>1, <1>2, <1>4 DEF Alone
(* A step of a handler that has yet to come to the entry or is done. *)
<1>5. ASSUME NEW l \in {"idle", "ttl", "lookup", "insert", "refresh"},
             pc' = [pc EXCEPT ![u] = l], todo' = todo, todo[u] = {},
             bucket' = bucket, accepted' = accepted,
             l = "insert" => bucket = NoBucket
      PROVE  Alone(u)'
  <2>1. /\ pc'[u] = l /\ todo'[u] = {}
        /\ todo' = [todo EXCEPT ![u] = todo[u]]
    BY <1>1, <1>5
  <2>2. PaidFor(u) => PaidFor(u)'
    BY <1>1, <1>5, <2>1 DEF PaidFor, TokensOnce, LastOnce, Owes
  <2> QED BY <1>2, <1>4, <1>5, <2>1, <2>2
<1>6. CASE TcpSegment(u) \/ UdpPacket(u)
  <2>1. /\ pc[u] = "idle" /\ todo' = todo /\ bucket' = bucket
        /\ accepted' = accepted
        /\ \E l \in {"refresh", "ttl"} : pc' = [pc EXCEPT ![u] = l]
    BY <1>6 DEF TcpSegment, UdpPacket, Begin, Arrive, GoFrom, Goto, raceVars
  <2>2. todo[u] = {}
    BY <2>1 DEF PassTyped
  <2> QED BY <1>5, <2>1, <2>2
<1>7. CASE Refresh(u) \/ UdpExpired(u) \/ UdpLimited(u)
  <2>1. /\ todo' = todo /\ bucket' = bucket /\ accepted' = accepted
        /\ pc' = [pc EXCEPT ![u] = "idle"]
    BY <1>7 DEF Refresh, UdpExpired, UdpLimited, Drop, Return, Goto
  <2>2. todo[u] = {}
    BY <1>7 DEF Refresh, UdpExpired, UdpLimited, Loaded, PassTyped
  <2> QED BY <1>5, <2>1, <2>2
<1>8. CASE UdpFresh(u) \/ LookupMisses(u)
  <2>1. /\ pc[u] \in {"ttl", "lookup"}
        /\ todo' = todo /\ bucket' = bucket /\ accepted' = accepted
        /\ \E l \in {"lookup", "insert"} :
             pc' = [pc EXCEPT ![u] = l] /\ (l = "insert" => bucket = NoBucket)
    BY <1>8 DEF UdpFresh, LookupMisses, Goto
  <2>2. todo[u] = {}
    BY <2>1 DEF PassTyped
  <2> QED BY <1>5, <2>1, <2>2
<1>9. CASE LookupHits(u)
  <2>1. /\ pc[u] = "lookup" /\ pc' = [pc EXCEPT ![u] = "load"]
        /\ todo' = [todo EXCEPT ![u] = Fields]
        /\ bucket # NoBucket /\ bucket' = bucket /\ accepted' = accepted
        /\ copy' = [copy EXCEPT ![u].now = clock]
    BY <1>9 DEF LookupHits, Goto
  <2>2. todo[u] = {} /\ PaidFor(u)
    BY <1>2, <2>1 DEF PassTyped
  <2>3. pc'[u] = "load" /\ todo'[u] = Fields /\ copy'[u].now = clock
    BY <1>1, <2>1 DEF CopyType
  <2>4. PaidFor(u)'
    BY <1>1, <2>1, <2>2, <2>3 DEF PaidFor, TokensOnce, LastOnce, Owes
  <2> QED BY <1>4, <2>1, <2>3, <2>4
<1>10. CASE Insert(u)
  <2>1. /\ pc[u] = "insert" /\ pc' = [pc EXCEPT ![u] = "refresh"]
        /\ todo' = todo /\ bucket' = NewBucket(Burst, copy[u].now)
        /\ accepted' = accepted + 1
    BY <1>10 DEF Insert, Goto
  <2>2. todo[u] = {} /\ accepted = 0
    BY <1>2, <2>1 DEF PassTyped
  <2>3. copy[u].now \in 0..clock
    BY <1>1 DEF CopyType
  <2>4. bucket'.tokens = Burst - 1 /\ bucket'.last = copy[u].now
    BY <2>1 DEF NewBucket
  <2>5. bucket' # NoBucket
    <3>1. bucket' \in Bucket
      BY <1>1, <2>1, <2>3 DEF NewBucket, Bucket
    <3> QED BY <3>1, RaceAssumption
  <2>6. pc'[u] = "refresh" /\ todo'[u] = {}
    BY <1>1, <2>1, <2>2
  <2>7. ~Owes(u, "tokens")' /\ ~Owes(u, "last")'
    BY <2>6 DEF Owes
  <2>8. TokensOnce(u)' = Burst - 1 /\ LastOnce(u)' = copy[u].now
    BY <2>4, <2>7 DEF TokensOnce, LastOnce
  <2>9. copy[u].now \div Period \in Nat
    BY <1>1, <2>3, DivNat
  <2>10. /\ bucket'.last <= clock'
         /\ accepted' + TokensOnce(u)' <= Burst + LastOnce(u)' \div Period
    BY <1>1, <2>1, <2>2, <2>3, <2>4, <2>8, <2>9
  <2>11. PaidFor(u)'
    BY <2>6, <2>7, <2>10 DEF PaidFor
  <2>12. todo' = [todo EXCEPT ![u] = todo[u]]
    BY <1>1, <2>1
  <2> QED BY <1>4, <2>1, <2>5, <2>6, <2>11, <2>12
<1>11. ASSUME NEW field \in Fields, Load(u, field) PROVE Alone(u)'
  <2>1. /\ pc[u] = "load" /\ pc' = pc /\ field \in todo[u]
        /\ todo' = [todo EXCEPT ![u] = @ \ {field}]
        /\ bucket' = bucket /\ accepted' = accepted
        /\ copy' = [copy EXCEPT ![u][field] = bucket[field]]
    BY <1>11 DEF Load
  <2>2. bucket # NoBucket /\ PaidFor(u)
    BY <1>2, <2>1 DEF PassTyped
  <2>3. copy'[u] = [copy[u] EXCEPT ![field] = bucket[field]]
    BY <1>1, <2>1
  <2>4. /\ copy'[u].now = copy[u].now
        /\ \A other \in Fields :
             copy'[u][other] = IF other = field THEN bucket[field]
                               ELSE copy[u][other]
    BY <1>1, <2>3 DEF CopyType, Fields
  <2>5. pc'[u] = "load" /\ todo'[u] = todo[u] \ {field}
    BY <1>1, <2>1
  <2>6. \A other \in Fields \ todo'[u] : copy'[u][other] = bucket[other]
    BY <2>1, <2>2, <2>4, <2>5 DEF PaidFor
  <2>7. /\ TokensOnce(u)' = TokensOnce(u) /\ LastOnce(u)' = LastOnce(u)
        /\ ~Owes(u, "last")'
    BY <2>1, <2>5 DEF TokensOnce, LastOnce, Owes
  <2>8. PaidFor(u)'
    BY <1>1, <2>1, <2>2, <2>4, <2>5, <2>6, <2>7 DEF PaidFor
  <2>9. pc' = [pc EXCEPT ![u] = "load"]
    BY <1>1, <2>1
  <2> QED BY <1>4, <2>1, <2>2, <2>5, <2>8, <2>9
<1>12. CASE TakeToken(u)
  <2> DEFINE e == Earned(copy[u])
  <2>1. /\ pc[u] = "load" /\ todo[u] = {}
        /\ pc' = [pc EXCEPT ![u] = "refresh"]
        /\ todo' = [todo EXCEPT ![u] = Fields]
        /\ bucket' = bucket /\ accepted' = accepted + 1
        /\ copy' = [copy EXCEPT ![u].tokens = Usable(copy[u]) - 1]
    BY <1>12 DEF TakeToken, Loaded, Goto
  <2>2. bucket # NoBucket /\ PaidFor(u) /\ bucket \in BucketType
    BY <1>1, <1>2, <2>1 DEF PassTyped
  <2>3. /\ copy[u].tokens = bucket.tokens /\ copy[u].last = bucket.last
        /\ bucket.last <= copy[u].now /\ bucket.last <= clock
    BY <2>1, <2>2 DEF PaidFor, Fields
  <2>4. accepted + bucket.tokens <= Burst + bucket.last \div Period
    BY <2>1, <2>2 DEF PaidFor, TokensOnce, LastOnce, Owes
  <2>5. /\ e \in Nat /\ Usable(copy[u]) <= bucket.tokens + e
        /\ (bucket.last + e * Period) \div Period
             = bucket.last \div Period + e
    BY <1>1, <2>3, EarnedInOrder
  <2>6. /\ pc'[u] = "refresh" /\ todo'[u] = Fields
        /\ copy'[u].tokens = Usable(copy[u]) - 1
        /\ copy'[u].last = copy[u].last /\ copy'[u].now = copy[u].now
    BY <1>1, <2>1 DEF CopyType
  <2>7. Earned(copy[u])' = e
    BY <2>6 DEF Earned, Since
  <2>8. Owes(u, "tokens")' /\ Owes(u, "last")'
    BY <2>6 DEF Owes, Fields
  <2>9. /\ TokensOnce(u)' = Usable(copy[u]) - 1
        /\ LastOnce(u)' = bucket.last + e * Period
    BY <2>3, <2>6, <2>7, <2>8 DEF TokensOnce, LastOnce
  <2>10. /\ Usable(copy[u]) \in Nat /\ bucket.tokens \in Nat
         /\ bucket.last \div Period \in Nat
    <3>1. bucket.last \in Nat /\ bucket.tokens \in Nat
      BY <2>2, RaceConstants DEF BucketType
    <3>2. Usable(copy[u]) \in Nat
      BY <1>1, CopyArithmetic
    <3> QED BY <1>1, <3>1, <3>2, DivNat
  <2> HIDE DEF e
  <2>11. accepted' + TokensOnce(u)' <= Burst + LastOnce(u)' \div Period
    BY <1>1, <2>1, <2>4, <2>5, <2>9, <2>10
  <2>12. PaidFor(u)'
    BY <1>1, <2>1, <2>3, <2>6, <2>11 DEF PaidFor
  <2> QED BY <1>4, <2>1, <2>2, <2>6, <2>12
<1>13. CASE StoreTokens(u) \/ StoreLast(u)
  <2>1. /\ pc[u] = "refresh" /\ pc' = pc /\ todo[u] # {}
        /\ copy' = copy /\ accepted' = accepted
    BY <1>13 DEF StoreTokens, StoreLast
  <2>2. bucket # NoBucket /\ PaidFor(u) /\ bucket \in BucketType
    BY <1>1, <1>2, <2>1 DEF PassTyped
  <2>3. pc' = [pc EXCEPT ![u] = "refresh"]
    BY <1>1, <2>1
  <2>4. CASE StoreTokens(u)
    <3>1. /\ Owes(u, "tokens")
          /\ bucket' = [bucket EXCEPT !.tokens = copy[u].tokens]
          /\ todo' = [todo EXCEPT ![u] = @ \ {"tokens"}]
      BY <2>4 DEF StoreTokens, Owes
    <3>2. bucket'.tokens = copy[u].tokens /\ bucket'.last = bucket.last
      BY <2>2, <3>1 DEF BucketType
    <3>3. ~Owes(u, "tokens")' /\ (Owes(u, "last")' <=> Owes(u, "last"))
      BY <1>1, <2>1, <3>1 DEF Owes
    <3>4. TokensOnce(u)' = TokensOnce(u) /\ LastOnce(u)' = LastOnce(u)
      BY <2>1, <3>1, <3>2, <3>3 DEF TokensOnce, LastOnce, Earned
    <3>5. PaidFor(u)'
      BY <1>1, <2>1, <2>2, <3>2, <3>3, <3>4 DEF PaidFor
    <3>6. bucket' # NoBucket
      <4>1. bucket' \in Bucket
        BY <1>1, <2>2, <3>1, RaceConstants DEF BucketType, CopyType, Bucket
      <4> QED BY <4>1, RaceAssumption
    <3> QED BY <1>4, <2>1, <2>3, <3>1, <3>5, <3>6
  <2>5. CASE StoreLast(u)
    <3> DEFINE new == copy[u].last + Earned(copy[u]) * Period
    <3>1. /\ Owes(u, "last")
          /\ \E last \in {copy[u].last, bucket.last} :
               bucket' = [bucket EXCEPT
                            !.last = (last + Earned(copy[u]) * Period) % Wrap]
          /\ todo' = [todo EXCEPT ![u] = @ \ {"last"}]
      BY <2>5 DEF StoreLast, Owes
    <3>2. bucket.last = copy[u].last /\ copy[u].last <= copy[u].now
      BY <2>2, <3>1 DEF PaidFor
    <3>3. new \in 0..copy[u].now /\ new % Wrap = new
      BY <1>1, <3>2, EarnedInOrder
    <3>4. bucket' = [bucket EXCEPT !.last = new]
      BY <3>1, <3>2, <3>3
    <3>5. bucket'.last = new /\ bucket'.tokens = bucket.tokens
      BY <2>2, <3>4 DEF BucketType
    <3>6. ~Owes(u, "last")' /\ (Owes(u, "tokens")' <=> Owes(u, "tokens"))
      BY <1>1, <2>1, <3>1 DEF Owes
    <3>7. TokensOnce(u)' = TokensOnce(u) /\ LastOnce(u)' = LastOnce(u)
      BY <2>1, <3>1, <3>5, <3>6 DEF TokensOnce, LastOnce
    <3>8. new \in Nat /\ new <= clock
      BY <1>1, <3>3 DEF CopyType
    <3> HIDE DEF new
    <3>9. PaidFor(u)'
      BY <1>1, <2>1, <2>2, <3>5, <3>6, <3>7, <3>8 DEF PaidFor
    <3>10. bucket' # NoBucket
      <4>1. bucket' \in Bucket
        BY <2>2, <3>4, <3>8, RaceConstants DEF BucketType, Bucket
      <4> QED BY <4>1, RaceAssumption
    <3> QED BY <1>4, <2>1, <2>3, <3>1, <3>9, <3>10
  <2> QED BY <1>13, <2>4, <2>5
<1>14. CASE cpu = u
  BY <1>6, <1>7, <1>8, <1>9, <1>10, <1>11, <1>12, <1>13, <1>14 DEF RaceStep
<1> QED BY <1>3, <1>14

LEMMA ChargedInit == Init => Charged
<1> SUFFICES ASSUME Init, NEW cpu \in CPUs PROVE Alone(cpu)
  BY DEF Charged
<1> QED BY DEF Init, StepsInit, RaceInit, Alone

LEMMA ChargedNext == Instants /\ Typed /\ Charged /\ [Next]_vars => Charged'
<1> SUFFICES ASSUME Instants, Typed, Charged, [Next]_vars,
                    NEW u \in CPUs, passing', udpCPUs' = {u}
             PROVE  Alone(u)'
  BY DEF Charged
<1>1. passing' = passing /\ udpCPUs' = udpCPUs
  BY FixedChoices
<1>2. passing /\ udpCPUs = {u} /\ PassTyped /\ Alone(u)
  BY <1>1 DEF Typed, Charged
<1>3. ASSUME NEW cpu \in CPUs, RaceStep(cpu) PROVE Alone(u)'
  BY <1>2, <1>3, AloneKept
<1>4. CASE \/ Tick /\ UNCHANGED <<raceVars, overlapVars>>
           \/ UNCHANGED vars
  <2>1. /\ clock' \in {clock, clock + 1} /\ clock \in Nat
        /\ UNCHANGED <<pc, todo, copy, bucket, accepted>>
    <3>1. /\ clock' \in {clock, clock + 1}
          /\ UNCHANGED <<pc, todo, copy, bucket, accepted>>
      BY <1>4 DEF Tick, vars, cpuVars, raceVars
    <3> QED BY <3>1, RaceConstants DEF Instants
  <2>2. bucket # NoBucket => bucket.last \in Nat
    BY <1>2, RaceConstants DEF PassTyped, BucketType
  <2>3. bucket # NoBucket /\ PaidFor(u) => PaidFor(u)'
    BY <2>1, <2>2 DEF PaidFor, TokensOnce, LastOnce, Owes, Earned
  <2> QED BY <1>2, <2>1, <2>3 DEF Alone
<1> QED BY <1>2, <1>3, <1>4 DEF Next

(* A source gets no more through than the burst and what the rate earns,   *)
(* however its UDP packets and the TCP segments on the other CPUs          *)
(* interleave, as long as one CPU handles all of its UDP packets.          *)
THEOREM OneCPUHoldsTheBurst == Spec => []BurstHeld
<1> DEFINE I == Instants /\ Typed /\ Charged
<1>1. Init => I
  BY InstantsInit, TypedInit, ChargedInit
<1>2. I /\ [Next]_vars => I'
  BY InstantsNext, TypedNext, ChargedNext
<1>3. I => BurstHeld
  <2> SUFFICES ASSUME I, NEW u \in CPUs, udpCPUs = {u}
               PROVE  accepted <= Burst + clock \div Period
    BY DEF BurstHeld
  <2>1. clock \in Nat /\ Period \in Nat \ {0} /\ Burst \in Nat
    BY RaceConstants DEF Instants
  <2>2. clock \div Period \in Nat
    BY <2>1, DivNat
  <2>3. CASE accepted = 0
    BY <2>1, <2>2, <2>3
  <2>4. CASE accepted # 0
    <3>1. passing
      BY <2>4 DEF Typed, DropTyped
    <3>2. PassTyped /\ Alone(u)
      BY <3>1 DEF Typed, Charged
    <3>3. bucket # NoBucket /\ PaidFor(u)
      BY <2>4, <3>2 DEF Alone
    <3>4. bucket \in BucketType /\ copy[u] \in CopyType /\ accepted \in Nat
      BY <3>2, <3>3 DEF PassTyped
    <3>5. TokensOnce(u) \in Nat
      BY <3>4, RaceConstants DEF TokensOnce, BucketType, CopyType
    <3>6. LastOnce(u) \in 0..clock
      <4>1. CASE Owes(u, "last")
        <5>1. copy[u].last <= copy[u].now
          BY <3>3, <4>1 DEF PaidFor
        <5>2. copy[u].last + Earned(copy[u]) * Period \in 0..copy[u].now
          BY <3>4, <5>1, EarnedInOrder
        <5>3. copy[u].now \in 0..clock
          BY <3>4 DEF CopyType
        <5> QED BY <2>1, <4>1, <5>2, <5>3 DEF LastOnce
      <4>2. CASE ~Owes(u, "last")
        BY <2>1, <3>3, <3>4, <4>2, RaceConstants
           DEF LastOnce, PaidFor, BucketType
      <4> QED BY <4>1, <4>2
    <3>7. LastOnce(u) \div Period <= clock \div Period
      BY <2>1, <3>6, DivMonotone
    <3>8. LastOnce(u) \div Period \in Nat
      BY <2>1, <3>6, DivNat
    <3>9. accepted + TokensOnce(u) <= Burst + LastOnce(u) \div Period
      BY <3>3 DEF PaidFor
    <3> QED BY <2>1, <2>2, <3>4, <3>5, <3>7, <3>8, <3>9
  <2> QED BY <2>3, <2>4
<1> QED BY <1>1, <1>2, <1>3, PTL DEF Spec
------------------------------------------------------------------------------
(* Who is blacklisted *)

(* The window has a new start, and the count is still the old one's. *)
Moving == \E cpu \in CPUs : todo[cpu] = {"anomalies"}

(* r is when the count was last set back: no strike it holds was counted   *)
(* before, and none is by a handler whose clock was read more than a       *)
(* window later.  The start of the window is later than r, and lets such   *)
(* handlers pass, only while it moves; and what is counted then is mixed.  *)
CountedSince(r) ==
  /\ health.anomalies <= StrikesAround(r)
  /\ Moving \/ health.start <= r
  /\ \A cpu \in CPUs :
       pc[cpu] = "count" =>
         /\ todo[cpu] = {} => Moving \/ at[cpu] <= r + HealthWindow
         /\ todo[cpu] = {"start"} => at[cpu] <= r

Justified ==
  mixed \/ \E t \in 0..clock : StrikesAround(t) >= HealthThreshold

Found == {"window", "count", "threshold", "ban"}
Known == health # NoEntry \/ \E cpu \in CPUs : pc[cpu] \in Found

(* A handler about to blacklist has seen the count at the threshold. *)
Bans ==
  /\ mixed \in BOOLEAN /\ strikes \in [Spans -> Nat]
  /\ ~mixed /\ Known => \E r \in 0..clock : CountedSince(r)
  /\ (\E cpu \in CPUs : pc[cpu] = "ban") => Justified
  /\ Known /\ health.until > clock => Justified

(* The strikes as a function of how many there are of each span. *)
StrikesOf(count, t) == UNION {{s} \X (1..count[s]) : s \in Meeting(t)}

LEMMA FiniteStrikes ==
  ASSUME NEW count \in [Spans -> Nat], NEW t
  PROVE  /\ IsFiniteSet(StrikesOf(count, t))
         /\ Cardinality(StrikesOf(count, t)) \in Nat
<1> DEFINE part == [s \in Meeting(t) |-> {s} \X (1..count[s])]
           Parts == {{s} \X (1..count[s]) : s \in Meeting(t)}
<1>1. IsFiniteSet(Meeting(t))
  <2>1. IsFiniteSet(0..MaxTime)
    BY FS_Interval, RaceConstants
  <2>2. IsFiniteSet((0..MaxTime) \X (0..MaxTime))
    BY <2>1, FS_Product
  <2>3. Meeting(t) \in SUBSET ((0..MaxTime) \X (0..MaxTime))
    BY DEF Meeting, Spans
  <2> QED BY <2>2, <2>3, FS_Subset
<1>2. part \in Surjection(Meeting(t), Parts)
  BY DEF Surjection
<1>3. IsFiniteSet(Parts)
  BY <1>1, <1>2, FS_Surjection
<1>4. ASSUME NEW s \in Meeting(t) PROVE IsFiniteSet({s} \X (1..count[s]))
  <2>1. count[s] \in Nat
    BY <1>4 DEF Meeting
  <2>2. IsFiniteSet(1..count[s])
    BY <2>1, FS_Interval
  <2>3. IsFiniteSet({s})
    BY FS_Singleton
  <2> QED BY <2>2, <2>3, FS_Product
<1>5. \A P \in Parts : IsFiniteSet(P)
  BY <1>4
<1>6. IsFiniteSet(UNION Parts)
  BY <1>3, <1>5, FS_UNION
<1> QED BY <1>6, FS_CardinalityType DEF StrikesOf

LEMMA MoreStrikes ==
  ASSUME NEW a \in [Spans -> Nat], NEW b \in [Spans -> Nat],
         \A s \in Spans : a[s] <= b[s], NEW t
  PROVE  Cardinality(StrikesOf(a, t)) <= Cardinality(StrikesOf(b, t))
<1>1. ASSUME NEW s \in Meeting(t) PROVE 1..a[s] \subseteq 1..b[s]
  BY <1>1 DEF Meeting
<1>2. StrikesOf(a, t) \in SUBSET StrikesOf(b, t)
  BY <1>1 DEF StrikesOf
<1> QED BY <1>2, FiniteStrikes, FS_Subset

LEMMA AnotherStrike ==
  ASSUME NEW a \in [Spans -> Nat], NEW t, NEW s \in Meeting(t)
  PROVE  LET b == [a EXCEPT ![s] = @ + 1]
         IN  /\ b \in [Spans -> Nat]
             /\ Cardinality(StrikesOf(a, t)) + 1
                  <= Cardinality(StrikesOf(b, t))
<1> DEFINE b == [a EXCEPT ![s] = @ + 1]
           A == StrikesOf(a, t)
           new == <<s, a[s] + 1>>
<1>1. s \in Spans /\ a[s] \in Nat /\ b \in [Spans -> Nat]
  BY DEF Meeting
<1>2. new \notin A
  <2>1. \A k \in 1..a[s] : k # a[s] + 1
    BY <1>1
  <2>2. new \in A => a[s] + 1 \in 1..a[s]
    BY DEF StrikesOf
  <2> QED BY <2>1, <2>2
<1>3. \A x \in Spans : a[x] <= b[x] /\ b[s] = a[s] + 1
  BY <1>1
<1>4. A \cup {new} \in SUBSET StrikesOf(b, t)
  <2>1. ASSUME NEW x \in Meeting(t) PROVE 1..a[x] \subseteq 1..b[x]
    BY <1>1, <1>3, <2>1 DEF Meeting
  <2>2. A \subseteq StrikesOf(b, t)
    BY <2>1 DEF StrikesOf
  <2>3. a[s] + 1 \in 1..b[s]
    BY <1>1, <1>3
  <2>4. new \in {s} \X (1..b[s])
    BY <2>3
  <2>5. new \in StrikesOf(b, t)
    BY <2>4 DEF StrikesOf
  <2> QED BY <2>2, <2>5
<1> HIDE DEF A, new
<1>5. IsFiniteSet(A) /\ Cardinality(A) \in Nat
  BY FiniteStrikes DEF A
<1>6. Cardinality(A \cup {new}) = Cardinality(A) + 1
  BY <1>2, <1>5, FS_AddElement
<1>7. IsFiniteSet(StrikesOf(b, t))
  BY <1>1, FiniteStrikes
<1>8. Cardinality(A \cup {new}) <= Cardinality(StrikesOf(b, t))
  BY <1>4, <1>7, FS_Subset
<1> QED BY <1>1, <1>6, <1>8 DEF A

LEMMA StrikesAroundType ==
  /\ \A t : StrikesAround(t) = Cardinality(StrikesOf(strikes, t))
  /\ \A t : StrikesAround(t)' = Cardinality(StrikesOf(strikes', t))
<1>1. \A t : StrikesAround(t) = Cardinality(StrikesOf(strikes, t))
  BY DEF StrikesAround, Strikes, StrikesOf
<1>2. \A t : StrikesAround(t)' = Cardinality(StrikesOf(strikes', t))
  BY DEF StrikesAround, Strikes, StrikesOf, Meeting, Spans
<1> QED BY <1>1, <1>2

(* A strike is no earlier than its clock read, and is never taken back. *)
LEMMA StrikesOnlyGrow ==
  ASSUME Instants, strikes \in [Spans -> Nat], NEW cpu \in CPUs,
         strikes' = strikes \/ Counted(cpu)
  PROVE  /\ strikes' \in [Spans -> Nat]
         /\ \A t : /\ StrikesAround(t) \in Nat /\ StrikesAround(t)' \in Nat
                   /\ StrikesAround(t) <= StrikesAround(t)'
         /\ Counted(cpu) =>
              \A t \in 0..clock : at[cpu] <= t + HealthWindow =>
                StrikesAround(t) + 1 <= StrikesAround(t)'
<1>1. /\ at[cpu] \in 0..MaxTime /\ clock \in 0..MaxTime /\ at[cpu] <= clock
      /\ <<at[cpu], clock>> \in Spans
  BY RaceConstants DEF Instants, Spans
<1>2. /\ strikes' \in [Spans -> Nat]
      /\ \A s \in Spans : strikes[s] <= strikes'[s]
  BY <1>1 DEF Counted
<1>3. ASSUME NEW t
      PROVE  /\ StrikesAround(t) \in Nat /\ StrikesAround(t)' \in Nat
             /\ StrikesAround(t) <= StrikesAround(t)'
  <2>1. /\ Cardinality(StrikesOf(strikes, t)) \in Nat
        /\ Cardinality(StrikesOf(strikes', t)) \in Nat
    BY <1>2, FiniteStrikes
  <2>2. Cardinality(StrikesOf(strikes, t))
          <= Cardinality(StrikesOf(strikes', t))
    BY <1>2, MoreStrikes
  <2> QED BY <2>1, <2>2, StrikesAroundType
<1>4. ASSUME Counted(cpu), NEW t \in 0..clock, at[cpu] <= t + HealthWindow
      PROVE  StrikesAround(t) + 1 <= StrikesAround(t)'
  <2> DEFINE s == <<at[cpu], clock>>
  <2>1. s \in Meeting(t)
    BY <1>1, <1>4 DEF Meeting
  <2>2. strikes' = [strikes EXCEPT ![s] = @ + 1]
    BY <1>4 DEF Counted
  <2> HIDE DEF s
  <2>3. Cardinality(StrikesOf(strikes, t)) + 1
          <= Cardinality(StrikesOf(strikes', t))
    BY <2>1, <2>2, AnotherStrike
  <2> QED BY <2>3, StrikesAroundType
<1> QED BY <1>2, <1>3, <1>4

(* A window that is not over: the unsigned difference errs by taking one   *)
(* for over that is not.                                                   *)
LEMMA NotOver ==
  ASSUME NEW then \in 0..MaxTime, NEW now \in 0..MaxTime,
         ~(Since(then, now) > HealthWindow)
  PROVE  now <= then + HealthWindow
<1>1. MaxTime \in Nat /\ HealthWindow \in Nat
  BY RaceConstants
<1>2. CASE then <= now
  <2>1. Since(then, now) = now - then
    BY <1>2, SinceIsDifference
  <2> QED BY <1>1, <2>1
<1>3. CASE ~(then <= now)
  BY <1>1, <1>3
<1> QED BY <1>2, <1>3

LEMMA BansKept ==
  ASSUME Instants, DropTyped, Bans, NEW cpu \in CPUs, DropStep(cpu)
  PROVE  Bans'
<1>1. /\ pc \in [CPUs -> DropLabels]
      /\ todo \in [CPUs -> SUBSET {"anomalies", "start"}]
      /\ \A c \in CPUs : todo[c] # {} => pc[c] = "count"
      /\ mixed \in BOOLEAN /\ strikes \in [Spans -> Nat]
  BY DEF DropTyped, Bans
<1>2. /\ clock' = clock /\ clock \in 0..MaxTime /\ clock \in Nat
      /\ HealthWindow \in Nat /\ HealthThreshold \in Nat
  <2>1. clock' = clock
    BY DropStepInstants
  <2> QED BY <2>1, RaceConstants DEF Instants
<1>3. /\ at \in [CPUs -> 0..MaxTime] /\ at[cpu] \in Nat
      /\ \A c \in CPUs : at[c] \in Nat /\ at[c] <= clock
  BY RaceConstants DEF Instants
<1>4. (pc[cpu] \in Found \/ health # NoEntry) =>
        health \in HealthType /\ health.anomalies \in Nat
        /\ health.start \in 0..clock
  BY DEF DropTyped, HealthCounted, HealthType, Found
<1>5. strikes' = strikes \/ Counted(cpu)
  <2>1. CASE Malformed(cpu) \/ OtherDrop(cpu)
    BY <2>1 DEF Malformed, OtherDrop, overlapVars
  <2>2. CASE \/ Unhealthy(cpu) \/ Healthy(cpu) \/ LookupHealth(cpu)
             \/ Window(cpu) \/ BelowThreshold(cpu) \/ AtThreshold(cpu)
             \/ LookupHistory(cpu)
    BY <2>2 DEF Unhealthy, Healthy, LookupHealth, Window, BelowThreshold,
                AtThreshold, LookupHistory, Local
  <2>3. CASE \/ InsertHealth(cpu) \/ CountAnomaly(cpu) \/ Blacklist(cpu)
             \/ \E field \in {"anomalies", "start"} : NewWindow(cpu, field)
    BY <2>3 DEF InsertHealth, CountAnomaly, Blacklist, NewWindow
  <2>4. CASE EnterHistory(cpu) \/ AddToHistory(cpu)
    BY <2>4 DEF EnterHistory, AddToHistory, Dropping
  <2> QED BY <2>1, <2>2, <2>3, <2>4 DEF DropStep
<1>6. /\ strikes' \in [Spans -> Nat]
      /\ \A t : /\ StrikesAround(t) \in Nat /\ StrikesAround(t)' \in Nat
                /\ StrikesAround(t) <= StrikesAround(t)'
      /\ Counted(cpu) =>
           \A t \in 0..clock : at[cpu] <= t + HealthWindow =>
             StrikesAround(t) + 1 <= StrikesAround(t)'
  BY <1>1, <1>5, StrikesOnlyGrow
<1>7. ASSUME Justified, mixed => mixed' PROVE Justified'
  <2>1. CASE mixed
    BY <1>7, <2>1 DEF Justified
  <2>2. CASE ~mixed
    <3>1. PICK t \in 0..clock : StrikesAround(t) >= HealthThreshold
      BY <1>7, <2>2 DEF Justified
    <3>2. StrikesAround(t)' >= HealthThreshold
      BY <1>2, <1>6, <3>1
    <3> QED BY <1>2, <3>1, <3>2 DEF Justified
  <2> QED BY <2>1, <2>2
<1>8. ASSUME mixed' \in BOOLEAN, mixed => mixed',
             ~mixed' => \E r \in 0..clock : CountedSince(r)',
             (\E c \in CPUs : pc'[c] = "ban") => Justified',
             Known' /\ health'.until > clock => Justified'
      PROVE  Bans'
  BY <1>2, <1>6, <1>8 DEF Bans
(* A step that leaves the entry alone. *)
<1>9. ASSUME NEW l \in DropLabels \ {"count"}, pc' = [pc EXCEPT ![cpu] = l],
             UNCHANGED <<health, todo, strikes, mixed>>,
             \A c \in CPUs \ {cpu} : at'[c] = at[c],
             l \in Found => Known,
             l = "ban" => Justified
      PROVE  Bans'
  <2>1. Known' => Known
    BY <1>1, <1>9 DEF Known
  <2>2. \A t : StrikesAround(t)' = StrikesAround(t)
    BY <1>9, StrikesAroundType
  <2>3. \A c \in CPUs : pc'[c] = "count" => c # cpu /\ pc[c] = "count"
    BY <1>1, <1>9
  <2>4. ASSUME NEW r \in 0..clock, CountedSince(r) PROVE CountedSince(r)'
    BY <1>9, <2>2, <2>3, <2>4 DEF CountedSince, Moving
  <2>5. ~mixed' /\ Known' => \E r \in 0..clock' : CountedSince(r)'
    BY <1>2, <1>9, <2>1, <2>4 DEF Bans
  <2>6. Justified => Justified'
    BY <1>7, <1>9
  <2>7. (\E c \in CPUs : pc'[c] = "ban") => Justified'
    BY <1>1, <1>9, <2>6 DEF Bans
  <2>8. Known' /\ health'.until > clock' => Justified'
    BY <1>2, <1>9, <2>1, <2>6 DEF Bans
  <2> QED BY <1>1, <1>6, <1>9, <2>5, <2>7, <2>8 DEF Bans
<1>10. CASE Malformed(cpu) \/ OtherDrop(cpu)
  <2>1. /\ UNCHANGED <<health, todo, strikes, mixed>>
        /\ \E l \in {"healthy", "drop", "unknown"} :
             pc' = [pc EXCEPT ![cpu] = l]
    BY <1>10 DEF Malformed, OtherDrop, Arrive, GoFrom, Goto, overlapVars
  <2>2. \A c \in CPUs \ {cpu} : at'[c] = at[c]
    BY <1>3, <1>10 DEF Malformed, OtherDrop, ReadClock
  <2>3. {"healthy", "drop", "unknown"}
          \subseteq (DropLabels \ {"count"}) \ Found
    BY DEF DropLabels, Found
  <2>4. "ban" \notin {"healthy", "drop", "unknown"}
    OBVIOUS
  <2> QED BY <1>9, <2>1, <2>2, <2>3, <2>4
<1>11. CASE Unhealthy(cpu) \/ Healthy(cpu) \/ BelowThreshold(cpu)
  <2>1. /\ UNCHANGED <<health, todo, strikes, mixed>>
        /\ \E l \in {"find", "drop"} : pc' = [pc EXCEPT ![cpu] = l]
    BY <1>11 DEF Unhealthy, Healthy, BelowThreshold, Local, GoFrom, Goto
  <2>2. \A c \in CPUs \ {cpu} : at'[c] = at[c]
    BY <1>3, <1>11 DEF Unhealthy, Healthy, BelowThreshold, ReadClock,
                       ForgetClock
  <2>3. {"find", "drop"} \subseteq (DropLabels \ {"count"}) \ Found
    BY DEF DropLabels, Found
  <2>4. "ban" \notin {"find", "drop"}
    OBVIOUS
  <2> QED BY <1>9, <2>1, <2>2, <2>3, <2>4
<1>12. CASE LookupHistory(cpu) \/ EnterHistory(cpu) \/ AddToHistory(cpu)
  <2>1. /\ UNCHANGED <<health, todo, strikes, mixed, at>>
        /\ \E l \in {"enter", "add", "idle"} : pc' = [pc EXCEPT ![cpu] = l]
    BY <1>12 DEF LookupHistory, EnterHistory, AddToHistory, Dropping, Local,
                 GoFrom, Goto
  <2>2. {"enter", "add", "idle"} \subseteq (DropLabels \ {"count"}) \ Found
    BY DEF DropLabels, Found
  <2>3. "ban" \notin {"enter", "add", "idle"}
    OBVIOUS
  <2> QED BY <1>9, <2>1, <2>2, <2>3
<1>13. CASE LookupHealth(cpu)
  <2>1. PICK l \in {"open", "window"} :
          /\ pc' = [pc EXCEPT ![cpu] = l]
          /\ UNCHANGED <<health, todo, strikes, mixed, at>>
          /\ l = "window" => health # NoEntry
    BY <1>13 DEF LookupHealth, Local, GoFrom, Goto
  <2>2. l \in DropLabels \ {"count"} /\ (l \in Found => Known) /\ l # "ban"
    BY <2>1 DEF DropLabels, Found, Known
  <2> QED BY <1>9, <2>1, <2>2
<1>14. CASE AtThreshold(cpu)
  <2>1. /\ pc[cpu] = "threshold" /\ pc' = [pc EXCEPT ![cpu] = "ban"]
        /\ UNCHANGED <<health, todo, strikes, mixed, at>>
        /\ health.anomalies >= HealthThreshold
    BY <1>14 DEF AtThreshold, Local, GoFrom, Goto
  <2>2. Known /\ health.anomalies \in Nat
    BY <1>4, <2>1 DEF Known, Found
  <2>3. ASSUME ~mixed PROVE Justified
    <3>1. PICK r \in 0..clock : CountedSince(r)
      BY <2>2, <2>3 DEF Bans
    <3>2. health.anomalies <= StrikesAround(r)
      BY <3>1 DEF CountedSince
    <3>3. StrikesAround(r) >= HealthThreshold
      BY <1>2, <1>6, <2>1, <2>2, <3>2
    <3> QED BY <3>1, <3>3 DEF Justified
  <2>4. Justified
    BY <1>1, <2>3 DEF Justified
  <2>5. "ban" \in DropLabels \ {"count"}
    BY DEF DropLabels
  <2> QED BY <1>9, <2>1, <2>2, <2>4, <2>5
<1>15. CASE InsertHealth(cpu)
  <2>1. /\ pc[cpu] = "open" /\ pc' = [pc EXCEPT ![cpu] = "drop"]
        /\ todo' = todo /\ mixed' = mixed
        /\ at' = [at EXCEPT ![cpu] = 0]
    BY <1>15 DEF InsertHealth, GoFrom, Goto, ForgetClock
  <2>2. "drop" \in (DropLabels \ {"count"}) \ Found /\ "drop" # "ban"
    BY DEF DropLabels, Found
  <2>3. \A c \in CPUs \ {cpu} : at'[c] = at[c]
    BY <1>3, <2>1
  <2>4. CASE health # NoEntry
    <3>1. UNCHANGED <<health, strikes>>
      BY <1>15, <2>4 DEF InsertHealth
    <3> QED BY <1>9, <2>1, <2>2, <2>3, <3>1
  <2>5. CASE health = NoEntry
    <3>1. /\ health' = [anomalies |-> 1, start |-> at[cpu],
                        until |-> IF HealthThreshold <= 1
                                  THEN at[cpu] + HealthBlacklist ELSE 0]
          /\ Counted(cpu)
      BY <1>15, <2>5 DEF InsertHealth
    <3>2. PICK r \in 0..clock : r = clock
      BY <1>2
    <3>3. StrikesAround(r)' \in Nat /\ StrikesAround(r)' >= 1
      <4>1. at[cpu] <= r + HealthWindow
        BY <1>2, <1>3, <3>2
      <4>2. StrikesAround(r) + 1 <= StrikesAround(r)'
        BY <1>6, <3>1, <4>1
      <4>3. StrikesAround(r) \in Nat /\ StrikesAround(r)' \in Nat
        BY <1>6
      <4> QED BY <4>2, <4>3
    <3>4. health'.anomalies = 1 /\ health'.start = at[cpu]
      BY <3>1
    <3>5. \A c \in CPUs :
            pc'[c] = "count" =>
              at'[c] <= r /\ at'[c] <= r + HealthWindow
      <4>1. \A c \in CPUs : pc'[c] = "count" => at'[c] = at[c]
        BY <1>1, <2>1, <2>3
      <4> QED BY <1>2, <1>3, <3>2, <4>1
    <3>6. health'.anomalies <= StrikesAround(r)' /\ health'.start <= r
      BY <1>3, <3>2, <3>3, <3>4
    <3>7. CountedSince(r)'
      BY <3>5, <3>6 DEF CountedSince
    <3>8. health'.until > clock => Justified'
      <4>1. SUFFICES ASSUME HealthThreshold <= 1 PROVE Justified'
        BY <1>2, <3>1
      <4>2. StrikesAround(r)' >= HealthThreshold
        BY <1>2, <3>3, <4>1
      <4> QED BY <1>2, <3>2, <4>2 DEF Justified
    <3>9. (\E c \in CPUs : pc'[c] = "ban") => Justified'
      BY <1>1, <1>7, <2>1 DEF Bans
    <3> QED BY <1>1, <1>8, <2>1, <3>2, <3>7, <3>8, <3>9
  <2> QED BY <2>4, <2>5
<1>16. CASE Window(cpu)
  <2>1. /\ pc[cpu] = "window" /\ pc' = [pc EXCEPT ![cpu] = "count"]
        /\ UNCHANGED <<health, at, strikes, mixed>>
    BY <1>16 DEF Window, Local, GoFrom, Goto
  <2>2. todo' = [todo EXCEPT ![cpu] =
                   IF Since(health.start, at[cpu]) > HealthWindow
                   THEN {"anomalies", "start"} ELSE {}]
    BY <1>16 DEF Window
  <2>3. todo[cpu] = {} /\ todo'[cpu] \in {{}, {"anomalies", "start"}}
    BY <1>1, <2>1, <2>2
  <2>4. Moving' <=> Moving
    BY <1>1, <2>2, <2>3 DEF Moving
  <2>5. health.start \in 0..clock /\ Known
    BY <1>4, <2>1 DEF Known, Found
  <2>6. todo'[cpu] = {} => at[cpu] <= health.start + HealthWindow
    <3>1. health.start \in 0..MaxTime /\ at[cpu] \in 0..MaxTime
      BY <1>2, <1>3, <2>5, RaceConstants
    <3> QED BY <1>1, <2>2, <3>1, NotOver
  <2>7. \A t : StrikesAround(t)' = StrikesAround(t)
    BY <2>1, StrikesAroundType
  <2>8. ASSUME NEW r \in 0..clock, CountedSince(r) PROVE CountedSince(r)'
    <3>1. todo'[cpu] = {} => Moving \/ at[cpu] <= r + HealthWindow
      <4>1. SUFFICES ASSUME todo'[cpu] = {}, ~Moving
                     PROVE  at[cpu] <= r + HealthWindow
        OBVIOUS
      <4>2. health.start <= r
        BY <2>8, <4>1 DEF CountedSince
      <4> QED BY <1>2, <1>3, <2>5, <2>6, <4>1, <4>2
    <3>2. todo'[cpu] # {"start"}
      BY <2>3
    <3>3. \A c \in CPUs \ {cpu} : pc'[c] = pc[c] /\ todo'[c] = todo[c]
      BY <1>1, <2>1, <2>2
    <3>4. /\ health'.anomalies <= StrikesAround(r)'
          /\ Moving' \/ health'.start <= r
      BY <2>1, <2>4, <2>7, <2>8 DEF CountedSince
    <3>5. ASSUME NEW c \in CPUs, pc'[c] = "count"
          PROVE  /\ todo'[c] = {} => Moving' \/ at'[c] <= r + HealthWindow
                 /\ todo'[c] = {"start"} => at'[c] <= r
      <4>1. CASE c = cpu
        BY <2>1, <2>4, <3>1, <3>2, <4>1
      <4>2. CASE c # cpu
        BY <2>1, <2>4, <2>8, <3>3, <3>5, <4>2 DEF CountedSince
      <4> QED BY <4>1, <4>2
    <3> QED BY <3>4, <3>5 DEF CountedSince
  <2>9. ~mixed' => \E r \in 0..clock : CountedSince(r)'
    BY <2>1, <2>5, <2>8 DEF Bans
  <2>10. Justified => Justified'
    BY <1>7, <2>1
  <2>11. (\E c \in CPUs : pc'[c] = "ban") => Justified'
    BY <1>1, <2>1, <2>10 DEF Bans
  <2>12. health'.until > clock => Justified'
    BY <2>1, <2>5, <2>10 DEF Bans
  <2> QED BY <1>1, <1>8, <2>1, <2>9, <2>11, <2>12
<1>17. CASE NewWindow(cpu, "anomalies")
  <2>1. /\ "anomalies" \in todo[cpu]
        /\ todo' = [todo EXCEPT ![cpu] = @ \ {"anomalies"}]
        /\ health' = [health EXCEPT !.anomalies = 0]
        /\ UNCHANGED <<pc, at, strikes, mixed>>
    BY <1>17 DEF NewWindow
  <2>2. pc[cpu] = "count" /\ Known
    BY <1>1, <2>1 DEF Known, Found
  <2>3. health \in HealthType /\ health.start \in 0..clock
    BY <1>4, <2>2 DEF Found
  <2>4. /\ health'.anomalies = 0 /\ health'.start = health.start
        /\ health'.until = health.until
    BY <2>1, <2>3 DEF HealthType
  <2>5. PICK r \in 0..clock : r = clock
    BY <1>2
  <2>6. \A c \in CPUs : at'[c] <= r /\ at'[c] <= r + HealthWindow
    BY <1>2, <1>3, <2>1, <2>5
  <2>7. health'.anomalies <= StrikesAround(r)' /\ health'.start <= r
    <3>1. StrikesAround(r)' \in Nat
      BY <1>6
    <3> QED BY <1>2, <2>3, <2>4, <2>5, <3>1
  <2>8. CountedSince(r)'
    BY <2>6, <2>7 DEF CountedSince
  <2>9. Justified => Justified'
    BY <1>7, <2>1
  <2>10. (\E c \in CPUs : pc'[c] = "ban") => Justified'
    BY <2>1, <2>9 DEF Bans
  <2>11. health'.until > clock => Justified'
    BY <2>2, <2>4, <2>9 DEF Bans
  <2> QED BY <1>1, <1>8, <2>1, <2>5, <2>8, <2>10, <2>11
<1>18. CASE NewWindow(cpu, "start")
  <2>1. /\ "start" \in todo[cpu]
        /\ todo' = [todo EXCEPT ![cpu] = @ \ {"start"}]
        /\ health' = [health EXCEPT !.start = at[cpu]]
        /\ UNCHANGED <<pc, at, strikes, mixed>>
    BY <1>18 DEF NewWindow
  <2>2. pc[cpu] = "count" /\ Known
    BY <1>1, <2>1 DEF Known, Found
  <2>3. health \in HealthType
    BY <1>4, <2>2 DEF Found
  <2>4. /\ health'.anomalies = health.anomalies /\ health'.start = at[cpu]
        /\ health'.until = health.until
    BY <2>1, <2>3 DEF HealthType
  <2>5. \A t : StrikesAround(t)' = StrikesAround(t)
    BY <2>1, StrikesAroundType
  <2>6. \A c \in CPUs \ {cpu} : todo'[c] = todo[c]
    BY <1>1, <2>1
  <2>7. Moving => Moving'
    <3>1. todo[cpu] # {"anomalies"}
      BY <2>1
    <3> QED BY <2>6, <3>1 DEF Moving
  <2>8. ASSUME NEW r \in 0..clock, CountedSince(r) PROVE CountedSince(r)'
    <3>1. health'.anomalies <= StrikesAround(r)'
      BY <2>4, <2>5, <2>8 DEF CountedSince
    <3>2. ASSUME NEW c \in CPUs \ {cpu}, pc'[c] = "count"
          PROVE  /\ todo'[c] = {} => Moving' \/ at'[c] <= r + HealthWindow
                 /\ todo'[c] = {"start"} => at'[c] <= r
      BY <2>1, <2>6, <2>7, <2>8, <3>2 DEF CountedSince
    <3>3. todo'[cpu] = todo[cpu] \ {"start"}
      BY <1>1, <2>1
    <3>4. CASE todo[cpu] = {"anomalies", "start"}
      <4>1. todo'[cpu] = {"anomalies"}
        BY <3>3, <3>4
      <4>2. Moving'
        BY <4>1 DEF Moving
      <4> QED BY <3>1, <3>2, <4>1, <4>2 DEF CountedSince
    <3>5. CASE todo[cpu] = {"start"}
      <4>1. todo'[cpu] = {}
        BY <3>3, <3>5
      <4>2. at[cpu] <= r
        BY <2>2, <2>8, <3>5 DEF CountedSince
      <4>3. at'[cpu] <= r + HealthWindow /\ health'.start <= r
        BY <1>2, <1>3, <2>1, <2>4, <4>2
      <4>4. \A c \in CPUs :
              pc'[c] = "count" =>
                /\ todo'[c] = {} => Moving' \/ at'[c] <= r + HealthWindow
                /\ todo'[c] = {"start"} => at'[c] <= r
        BY <3>2, <4>1, <4>3
      <4> QED BY <3>1, <4>3, <4>4 DEF CountedSince
    <3>6. todo[cpu] \in {{"anomalies", "start"}, {"start"}}
      BY <1>1, <2>1
    <3> QED BY <3>4, <3>5, <3>6
  <2>9. ~mixed' => \E r \in 0..clock : CountedSince(r)'
    BY <2>1, <2>2, <2>8 DEF Bans
  <2>10. Justified => Justified'
    BY <1>7, <2>1
  <2>11. (\E c \in CPUs : pc'[c] = "ban") => Justified'
    BY <2>1, <2>10 DEF Bans
  <2>12. health'.until > clock => Justified'
    BY <2>2, <2>4, <2>10 DEF Bans
  <2> QED BY <1>1, <1>8, <2>1, <2>9, <2>11, <2>12
<1>19. CASE CountAnomaly(cpu)
  <2>1. /\ pc[cpu] = "count" /\ pc' = [pc EXCEPT ![cpu] = "threshold"]
        /\ todo[cpu] = {} /\ UNCHANGED <<todo, at>>
        /\ health' = [health EXCEPT !.anomalies = @ + 1]
        /\ Counted(cpu)
        /\ mixed' = (mixed \/ Moving)
    BY <1>19 DEF CountAnomaly, GoFrom, Goto, Moving
  <2>2. Known /\ health \in HealthType /\ health.anomalies \in Nat
    BY <1>4, <2>1 DEF Known, Found
  <2>3. /\ health'.anomalies = health.anomalies + 1
        /\ health'.start = health.start /\ health'.until = health.until
    BY <2>1, <2>2 DEF HealthType
  <2>4. mixed' \in BOOLEAN /\ (mixed => mixed') /\ (Moving => mixed')
    BY <2>1
  <2>5. ASSUME ~mixed' PROVE \E r \in 0..clock : CountedSince(r)'
    <3>1. ~mixed /\ ~Moving
      BY <2>4, <2>5
    <3>2. PICK r \in 0..clock : CountedSince(r)
      BY <2>2, <3>1 DEF Bans
    <3>3. at[cpu] <= r + HealthWindow /\ health.start <= r
          /\ health.anomalies <= StrikesAround(r)
      BY <2>1, <3>1, <3>2 DEF CountedSince
    <3>4. StrikesAround(r) + 1 <= StrikesAround(r)'
      BY <1>6, <2>1, <3>2, <3>3
    <3>5. StrikesAround(r) \in Nat /\ StrikesAround(r)' \in Nat
      BY <1>6
    <3>6. health'.anomalies <= StrikesAround(r)' /\ health'.start <= r
      BY <2>2, <2>3, <3>3, <3>4, <3>5
    <3>7. ASSUME NEW c \in CPUs, pc'[c] = "count"
          PROVE  /\ todo'[c] = {} => Moving' \/ at'[c] <= r + HealthWindow
                 /\ todo'[c] = {"start"} => at'[c] <= r
      <4>1. pc[c] = "count"
        BY <1>1, <2>1, <3>7
      <4> QED BY <2>1, <3>1, <3>2, <4>1 DEF CountedSince
    <3>8. CountedSince(r)'
      BY <3>6, <3>7 DEF CountedSince
    <3> QED BY <3>2, <3>8
  <2>6. Justified => Justified'
    BY <1>7, <2>4
  <2>7. (\E c \in CPUs : pc'[c] = "ban") => Justified'
    BY <1>1, <2>1, <2>6 DEF Bans
  <2>8. health'.until > clock => Justified'
    BY <2>2, <2>3, <2>6 DEF Bans
  <2> QED BY <1>8, <2>4, <2>5, <2>7, <2>8
<1>20. CASE Blacklist(cpu)
  <2>1. /\ pc[cpu] = "ban" /\ pc' = [pc EXCEPT ![cpu] = "drop"]
        /\ UNCHANGED <<todo, strikes, mixed>>
        /\ health' = [health EXCEPT !.until = at[cpu] + HealthBlacklist]
        /\ at' = [at EXCEPT ![cpu] = 0]
    BY <1>20 DEF Blacklist, GoFrom, Goto, ForgetClock
  <2>2. Known /\ health \in HealthType /\ Justified
    BY <1>4, <2>1 DEF Known, Found, Bans
  <2>3. Justified'
    BY <1>7, <2>1, <2>2
  <2>4. /\ health'.anomalies = health.anomalies
        /\ health'.start = health.start
    BY <2>1, <2>2 DEF HealthType
  <2>5. \A t : StrikesAround(t)' = StrikesAround(t)
    BY <2>1, StrikesAroundType
  <2>6. \A c \in CPUs :
          pc'[c] = "count" => pc[c] = "count" /\ at'[c] = at[c]
    BY <1>1, <1>3, <2>1
  <2>7. ASSUME NEW r \in 0..clock, CountedSince(r) PROVE CountedSince(r)'
    BY <2>1, <2>4, <2>5, <2>6, <2>7 DEF CountedSince, Moving
  <2>8. ~mixed' => \E r \in 0..clock : CountedSince(r)'
    BY <2>1, <2>2, <2>7 DEF Bans
  <2> QED BY <1>1, <1>8, <2>1, <2>3, <2>8
<1> QED BY <1>10, <1>11, <1>12, <1>13, <1>14, <1>15, <1>16, <1>17, <1>18,
           <1>19, <1>20 DEF DropStep

LEMMA BansInit == Init => Bans
<1> SUFFICES ASSUME Init PROVE Bans
  OBVIOUS
<1> QED BY DEF Init, StepsInit, OverlapInit, Bans, Known, Found

LEMMA BansNext == Instants /\ Typed /\ Bans /\ [Next]_vars => Bans'
<1> SUFFICES ASSUME Instants, Typed, Bans, [Next]_vars PROVE Bans'
  OBVIOUS
<1>1. ASSUME NEW cpu \in CPUs, ~passing, DropStep(cpu) PROVE Bans'
  BY <1>1, BansKept DEF Typed
<1>2. ASSUME NEW cpu \in CPUs, passing, RaceStep(cpu), UNCHANGED overlapVars
      PROVE  Bans'
  <2>1. /\ health = NoEntry /\ pc \in [CPUs -> RaceLabels]
        /\ health' = health /\ strikes' = strikes /\ mixed' = mixed
    BY <1>2 DEF Typed, PassTyped, overlapVars
  <2>2. pc' \in [CPUs -> RaceLabels]
    BY <1>2, <2>1, RaceStepLabels
  <2>3. ~Known' /\ ~(\E c \in CPUs : pc'[c] = "ban")
    BY <2>1, <2>2 DEF Known, Found, RaceLabels
  <2> QED BY <2>1, <2>3 DEF Bans
<1>3. CASE \/ Tick /\ UNCHANGED <<raceVars, overlapVars>>
           \/ UNCHANGED vars
  <2>1. /\ clock' \in {clock, clock + 1} /\ clock \in Nat
        /\ UNCHANGED <<pc, at, todo, health, strikes, mixed>>
    <3>1. /\ clock' \in {clock, clock + 1}
          /\ UNCHANGED <<pc, at, todo, health, strikes, mixed>>
      BY <1>3 DEF Tick, vars, cpuVars, overlapVars
    <3> QED BY <3>1, RaceConstants DEF Instants
  <2>2. \A t : StrikesAround(t)' = StrikesAround(t)
    BY <2>1, StrikesAroundType
  <2>3. 0..clock \subseteq 0..clock'
    BY <2>1
  <2>4. Justified => Justified'
    BY <2>1, <2>2, <2>3 DEF Justified
  <2>5. ASSUME NEW r, CountedSince(r) PROVE CountedSince(r)'
    BY <2>1, <2>2, <2>5 DEF CountedSince, Moving
  <2>6. ~mixed' /\ Known' => \E r \in 0..clock' : CountedSince(r)'
    BY <2>1, <2>3, <2>5 DEF Bans, Known
  <2>7. Known' /\ health'.until > clock' => Justified'
    <3>1. SUFFICES ASSUME Known, health.until > clock'
                   PROVE  Justified'
      BY <2>1 DEF Known
    <3>2. health.until \in Nat
      BY <3>1, <2>1, RaceConstants
         DEF Typed, PassTyped, DropTyped, HealthCounted, HealthType, Known,
             Found, RaceLabels
    <3>3. health.until > clock
      BY <2>1, <3>1, <3>2
    <3> QED BY <2>4, <3>1, <3>3 DEF Bans
  <2> QED BY <2>1, <2>4, <2>6, <2>7 DEF Bans
<1> QED BY <1>1, <1>2, <1>3 DEF Next

(* However the CPUs race over the entry, nobody is blacklisted who did not *)
(* send the threshold's number of malformed packets around one window,     *)
(* unless a CPU counted while another was moving the window.               *)
THEOREM EveryBanIsJustified == Spec => []BanJustified
<1> DEFINE I == Instants /\ Typed /\ Bans
<1>1. Init => I
  BY InstantsInit, TypedInit, BansInit
<1>2. I /\ [Next]_vars => I'
  BY InstantsNext, TypedNext, BansNext
<1>3. I => BanJustified
  BY DEF Bans, Justified, BanJustified, Known
<1> QED BY <1>1, <1>2, <1>3, PTL DEF Spec
==============================================================================
