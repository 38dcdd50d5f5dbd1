------------------------------ MODULE RateLimit ------------------------------
(***************************************************************************)
(* The arithmetic of ratelimit_take and tcp_global_ratelimit_take          *)
(* (bpf/fivem_xdp.bpf.c): a token bucket of capacity burst that earns one  *)
(* token every period.  A bucket stores its whole tokens and the instant   *)
(* up to which elapsed time has already been turned into tokens.           *)
(* Both functions return early when period or burst is 0 (not Limited).    *)
(* Callers keep b.last <= now, so the subtraction does not wrap here; the  *)
(* interleavings that make it wrap are the subject of CpuRace.             *)
(***************************************************************************)
EXTENDS Naturals

Bucket == [tokens : Nat, last : Nat]

Limited(period, burst) == period # 0 /\ burst # 0

(* What the first packet of a source leaves behind. *)
NewBucket(burst, now) == [tokens |-> burst - 1, last |-> now]

(* The zero-initialised slot of the per-CPU array. *)
ZeroBucket == [tokens |-> 0, last |-> 0]

Refill(b, now, period) == (now - b.last) \div period

(* Mutant: the refill is not capped. *)
UncappedAvailable(b, now, period, burst) == b.tokens + Refill(b, now, period)

Available(b, now, period, burst) ==
  LET t == b.tokens + Refill(b, now, period)
  IN  IF t > burst THEN burst ELSE t

CanTake(b, now, period, burst) == Available(b, now, period, burst) # 0

(* Mutants: the fraction of a token earned so far is lost; elapsed time is *)
(* turned into tokens over and over; the next period is used in advance.   *)
TakeLosingRemainder(b, now, period, burst) ==
  [tokens |-> Available(b, now, period, burst) - 1, last |-> now]
TakeKeepingLast(b, now, period, burst) ==
  [tokens |-> Available(b, now, period, burst) - 1, last |-> b.last]
TakeInAdvance(b, now, period, burst) ==
  [tokens |-> Available(b, now, period, burst) - 1,
   last   |-> b.last + (Refill(b, now, period) + 1) * period]

(* The bucket after a packet was let through.  last advances by whole      *)
(* periods only: the fraction of a token earned since then is kept.        *)
Take(b, now, period, burst) ==
  [tokens |-> Available(b, now, period, burst) - 1,
   last   |-> b.last + Refill(b, now, period) * period]
==============================================================================
