---------------------------- MODULE LimiterEntry ----------------------------
(***************************************************************************)
(* What one rate limiter promises: an entry of udp_ratelimit,              *)
(* initconnect_ratelimit or getinfo_ratelimit, or one CPU's slot of        *)
(* tcp_global_ratelimit, over its whole life.  The clock runs, packets ask *)
(* for a token (each call of ratelimit_take undisturbed here), the kernel  *)
(* may evict an entry of an LRU map at any time.  The slots of the per-CPU *)
(* array exist from the start, zero-initialised, and are never evicted.    *)
(***************************************************************************)
EXTENDS RateLimit, Integers

CONSTANTS
  Period,    \* refill_period_ns, in ticks
  Burst,     \* burst
  MaxTime,   \* bound: the clock stops here
  NoBucket   \* what a lookup of an absent key returns (NULL)

ASSUME PeriodAssumption == Period \in Nat \ {0}
ASSUME BurstAssumption == Burst \in Nat \ {0}
ASSUME MaxTimeAssumption == MaxTime \in Nat
ASSUME NoBucketAssumption == NoBucket \notin Bucket

VARIABLES
  now,           \* bpf_ktime_get_boot_ns
  bucket,        \* the entry
  preallocated   \* the entry is a slot of the per-CPU array

entry == <<now, bucket, preallocated>>

Init ==
  /\ now = 0
  /\ preallocated \in BOOLEAN
  /\ bucket = IF preallocated THEN ZeroBucket ELSE NoBucket

(* bpf_map_lookup_elem found nothing: the entry is created, one token      *)
(* short of full, and the packet passes.                                   *)
FirstRequest ==
  /\ bucket = NoBucket
  /\ bucket' = NewBucket(Burst, now)
  /\ UNCHANGED <<now, preallocated>>

Accept ==
  /\ bucket # NoBucket
  /\ CanTake(bucket, now, Period, Burst)
  /\ bucket' = Take(bucket, now, Period, Burst)
  /\ UNCHANGED <<now, preallocated>>

(* t == 0: the packet is refused and nothing is written. *)
Refuse ==
  /\ bucket # NoBucket
  /\ ~CanTake(bucket, now, Period, Burst)
  /\ UNCHANGED entry

(* The kernel reuses the entry for another source. *)
Evict ==
  /\ bucket # NoBucket
  /\ ~preallocated
  /\ bucket' = NoBucket
  /\ UNCHANGED <<now, preallocated>>

Tick ==
  /\ now < MaxTime
  /\ now' = now + 1
  /\ UNCHANGED <<bucket, preallocated>>

Next == FirstRequest \/ Accept \/ Refuse \/ Evict \/ Tick

Spec == Init /\ [][Next]_entry
==============================================================================
