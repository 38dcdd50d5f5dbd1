----------------------------- MODULE TokenBucket -----------------------------
(***************************************************************************)
(* LimiterEntry measured against its contract, the textbook bucket that    *)
(* earns continuously.  The contract's credit is counted in fractions of a *)
(* token, Period fractions to a token, one fraction per clock tick:        *)
(*   ideal   capacity Burst tokens;                                        *)
(*   loose   capacity Burst tokens and all but one fraction of another.    *)
(* Both start full with each new entry and are charged for every packet    *)
(* the code lets through.  Across evictions, which start afresh with a     *)
(* full bucket, packets are counted from any one instant on.               *)
(***************************************************************************)
EXTENDS LimiterEntry

CONSTANT MaxEvictions  \* bound: evictions while packets are counted

ASSUME MaxEvictionsAssumption == MaxEvictions \in Nat

VARIABLES
  ideal, loose,
  since,    \* the instant from which the next two count
  passed,   \* packets let through
  evicted   \* entries lost to the kernel

tally == <<since, passed, evicted>>
vars == <<entry, ideal, loose, tally>>

IdealCap == Burst * Period
LooseCap == IdealCap + Period - 1

AtMost(x, cap) == IF x > cap THEN cap ELSE x
AtLeast0(x)    == IF x < 0 THEN 0 ELSE x

TInit ==
  /\ Init
  /\ ideal = 0 /\ loose = 0
  /\ since \in 0..MaxTime /\ passed = 0 /\ evicted = 0

OneMore(count) == IF now < since THEN count ELSE count + 1

Pass == passed' = OneMore(passed) /\ UNCHANGED <<since, evicted>>

TFirstRequest ==
  /\ FirstRequest
  /\ ideal' = IdealCap - Period
  /\ loose' = LooseCap - Period
  /\ Pass

TAccept ==
  /\ Accept
  /\ ideal' = AtLeast0(ideal - Period)
  /\ loose' = loose - Period
  /\ Pass

TRefuse == Refuse /\ UNCHANGED <<ideal, loose, tally>>

TEvict ==
  /\ Evict
  /\ ideal' = 0 /\ loose' = 0
  /\ evicted < MaxEvictions
  /\ evicted' = OneMore(evicted)
  /\ UNCHANGED <<since, passed>>

TTick ==
  /\ Tick
  /\ UNCHANGED tally
  /\ IF bucket = NoBucket
     THEN UNCHANGED <<ideal, loose>>
     ELSE /\ ideal' = AtMost(ideal + 1, IdealCap)
          /\ loose' = AtMost(loose + 1, LooseCap)

TNext == TFirstRequest \/ TAccept \/ TRefuse \/ TEvict \/ TTick

TSpec == TInit /\ [][TNext]_vars

------------------------------------------------------------------------------

TallyOK ==
  /\ since \in 0..MaxTime
  /\ passed \in Nat
  /\ evicted \in Nat

(* Type invariant of the entry: its clock never runs ahead of the kernel's *)
(* (the subtraction in ratelimit_take cannot wrap), and a bucket holds     *)
(* fewer than burst whole tokens after each packet it let through.         *)
TypeOK ==
  /\ now \in 0..MaxTime
  /\ preallocated \in BOOLEAN
  /\ bucket # NoBucket =>
        /\ bucket \in Bucket
        /\ bucket.last <= now
        /\ bucket.tokens < Burst
  /\ ideal \in 0..IdealCap
  /\ loose \in Int
  /\ TallyOK

(* Credit the code holds, in fractions of a token. *)
Level == bucket.tokens * Period + (now - bucket.last)

(* The code's credit lies between the two contracts: this is what makes    *)
(* NoFalseDrop inductive.                                                  *)
Sandwich ==
  bucket # NoBucket => /\ ideal <= Level
                       /\ AtMost(Level, LooseCap) <= loose

(* A source that stays within (rate, burst) is never refused: while the    *)
(* ideal bucket holds a token, ratelimit_take returns true.  Turning       *)
(* elapsed time into whole tokens must therefore lose no remainder.        *)
NoFalseDrop ==
  bucket # NoBucket /\ ideal >= Period => CanTake(bucket, now, Period, Burst)

(* What is let through conforms to (rate, burst): in any d ticks during    *)
(* which the kernel evicts the entry e times, fewer than                   *)
(* (e + 1) * Burst + 1 + d / Period packets of a source pass.  Each        *)
(* eviction is worth another full bucket, and nothing else is.             *)
AcceptedConforms ==
  now >= since =>
    passed * Period < (evicted + 1) * IdealCap + Period + (now - since)
==============================================================================
